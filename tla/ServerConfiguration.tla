------------------------ MODULE ServerConfiguration ------------------------
(***************************************************************************)
(* Server.ApplyConfiguration (server_config.go): the one batch that sets   *)
(* sp_configure options, advanced ones included, on a server that hides    *)
(* those from sp_configure while "show advanced options" does not run.     *)
(*                                                                         *)
(* An option has the value that is configured and the one that runs, and   *)
(* RECONFIGURE makes the one the other, whoever configured it.             *)
(***************************************************************************)
EXTENDS Selection, SequencesExt

showAdvancedOptions == "show advanced options"

\* One that takes effect at once and one that waits for a restart.
Options == {showAdvancedOptions, "advanced", "static"}
Advanced(name) == name = "advanced"
Dynamic(name) == name # "static"

\* 0 and 1 are as good as each other; 2 is outside the recommended range, or the
\* range of "show advanced options"; 3 is outside any.
Advised(value) == value < 2
InRange(name, value) == value < IF name = showAdvancedOptions THEN 2 ELSE 3

ConfigChange(name, value) == [name |-> name, value |-> value]
Changes == [name : STRING, value : Nat]

-----------------------------------------------------------------------------
(* The server.  refused says that a statement raised an error, over that one   *)
(* ended the batch.                                                            *)

Server(value, running) ==
    [value |-> value, running |-> running, refused |-> FALSE, over |-> FALSE]

Refuse(server) == [server EXCEPT !.refused = TRUE]

\* sp_configure: Msg 15123 for a name it does not know or show, and a refusal does
\* not stop the batch.
Accepts(server, change) ==
    /\ change.name \in Options
    /\ Advanced(change.name) => server.running[showAdvancedOptions] = 1
    /\ InRange(change.name, change.value)
SetValue(server, change) ==
    IF Accepts(server, change) THEN [server EXCEPT !.value[change.name] = change.value]
    ELSE Refuse(server)

\* One after the other; and what has come of them by each place.
SetTo(server, changes) ==
    LET upTo[n \in 0..Len(changes)] ==
          IF n = 0 THEN server ELSE SetValue(upTo[n - 1], changes[n])
    IN  upTo
SetAll(server, changes) == SetTo(server, changes)[Len(changes)]

\* RECONFIGURE: Msg 5807 for a value not yet in use that is not recommended, unless
\* WITH OVERRIDE; a refusal ends the batch.
Pending(server) == {o \in Options : server.value[o] # server.running[o]}
Installs(server, override) ==
    override \/ \A o \in Pending(server) : Advised(server.value[o])
Reconfigure(server, override) ==
    IF Installs(server, override)
    THEN [server EXCEPT !.running =
            [o \in Options |-> IF Dynamic(o) THEN server.value[o] ELSE @[o]]]
    ELSE [Refuse(server) EXCEPT !.over = TRUE]

-----------------------------------------------------------------------------
(* The batch.                                                                  *)

\* Every change but the ones of "show advanced options", and then its last.
Others(changes) == Only(changes, {c \in Changes : c.name # showAdvancedOptions})
Shows(changes) == Only(changes, {c \in Changes : c.name = showAdvancedOptions})
Ordered(changes) ==
    IF Shows(changes) = <<>> THEN Others(changes)
    ELSE Append(Others(changes), Last(Shows(changes)))

\* The value "show advanced options" is put back to: the one configured.
PutBackRunning(server, before) ==                                   \* a fault
    SetValue(server, ConfigChange(showAdvancedOptions, before.running[showAdvancedOptions]))
PutBack(server, before) ==
    SetValue(server, ConfigChange(showAdvancedOptions, before.value[showAdvancedOptions]))

\* TRY RECONFIGURE, CATCH put it back and THROW.
TryReconfigure(server, override, before, enabled) ==
    LET tried == Reconfigure(server, override)
    IN  IF tried.over /\ enabled THEN PutBack(tried, before) ELSE tried

\* Step 1, when a change names an advanced option the server does not show.
Hides(server, changes) ==
    /\ server.running[showAdvancedOptions] = 0
    /\ \E i \in DOMAIN changes : Advanced(changes[i].name)
Enable(server, override) ==
    TryReconfigure(SetValue(server, ConfigChange(showAdvancedOptions, 1)), override, server, TRUE)

\* Steps 3 and 4.
Install(server, changes, override, before, enabled) ==
    IF Shows(changes) # <<>> THEN Reconfigure(server, override)
    ELSE LET tried == TryReconfigure(server, override, before, enabled)
         IN  IF tried.over \/ ~enabled THEN tried
             ELSE Reconfigure(PutBack(tried, before), override)

ApplyConfiguration(server, changes, override) ==
    LET enables == Hides(server, changes)
        shown == IF enables THEN Enable(server, override) ELSE server
    IN  IF changes = <<>> \/ shown.over THEN shown
        ELSE Install(SetAll(shown, Ordered(changes)), changes, override,
                     server, enables)

-----------------------------------------------------------------------------
(* What is asked of it.                                                        *)

\* It is what setting each value and one Reconfigure would be if "show advanced
\* options" already ran, unless a value somebody else left pending is not let
\* through by the RECONFIGURE of step 1; then nothing is changed.
Plainly(server, changes, override) ==
    LET installed == IF Hides(server, changes) THEN Reconfigure(server, override) ELSE server
        shown == [installed EXCEPT !.running[showAdvancedOptions] = 1]
    IN  IF changes = <<>> THEN server
        ELSE Reconfigure(SetAll(shown, changes), override)

AppliesChanges(server, changes, override) ==
    LET after == ApplyConfiguration(server, changes, override)
        plainly == Plainly(server, changes, override)
        stopped == Hides(server, changes) /\ ~Installs(server, override)
    IN  \A o \in Options \ {showAdvancedOptions} :
            /\ after.value[o] = (IF stopped THEN server ELSE plainly).value[o]
            /\ after.running[o] = (IF stopped THEN server ELSE plainly).running[o]

\* "show advanced options" is left configured as it was, a value that was still
\* pending included, or as the last change of it says; and it is left running
\* only if it is to be, or ran, or its RECONFIGURE was refused, and said to be,
\* after it was turned on.  A change of it that is itself out of range is the one
\* thing that leaves it on, for nothing is restored after it.
KeepsShown(server, changes, override) ==
    LET after == ApplyConfiguration(server, changes, override)
        asked == Shows(changes)
        named == asked # <<>> /\ ~(Hides(server, changes) /\ ~Installs(server, override))
        show == IF named THEN Last(asked).value ELSE server.value[showAdvancedOptions]
    IN  InRange(showAdvancedOptions, show) =>
            /\ after.value[showAdvancedOptions] = show
            /\ after.running[showAdvancedOptions] = 1 =>
                  1 \in {show, server.running[showAdvancedOptions]} \/ after.over

\* "The error returned names every failure": there is one if any part of it was
\* refused, and only then.
Heard(server, changes, override) ==
    ApplyConfiguration(server, changes, override).refused <=>
        \/ Hides(server, changes) /\ ~Installs(server, override)
        \/ Plainly(server, Ordered(changes), override).refused

Configured(server, changes, override) ==
    /\ AppliesChanges(server, changes, override)
    /\ KeepsShown(server, changes, override)
    /\ Heard(server, changes, override)
=============================================================================
