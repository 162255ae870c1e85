---------------------------- MODULE MCAlgorithms ----------------------------
(* TLC instances of the algorithms.  An input is a list of objects and          *)
(* references to order, a database or a table to script, a job and what is      *)
(* asked of its steps, or the empty beginning of a database's life, which then  *)
(* takes its course.                                                            *)
EXTENDS MCScripts, PlanProperties, AlgorithmProperties

-----------------------------------------------------------------------------
(* Four objects: any references among three of them, each unbound, bound, or   *)
(* both; and any among all four, of which at most one is bound.                 *)

Objects == 1..4
Pairs == {pair \in Objects \X Objects : pair[1] # pair[2]}
Among3 == {pair \in Pairs : pair[1] < 4 /\ pair[2] < 4}

Naming(pairs, bound) == {[from |-> pair[1], to |-> pair[2], bound |-> bound] : pair \in pairs}
References(unbound, bound) == Naming(unbound, FALSE) \cup Naming(bound, TRUE)

\* 3 is named and not there, when it is no object.
ToOrder(references, some) ==
    [of : {"objects"}, objects : some, references : references]
OrderInputs ==
    ToOrder({References(U, B) : U \in SUBSET Among3, B \in SUBSET Among3},
            {Objects, Objects \ {3}})
    \cup ToOrder({References(U \ B, B) : U \in SUBSET Pairs,
                                         B \in {{}} \cup {{pair} : pair \in Pairs}},
                 {Objects})

-----------------------------------------------------------------------------
(* Jobs of up to three steps with any flow, and of four with any flow on        *)
(* failure; every order of their steps, and four lists that are none.           *)

GoesElsewhere(n, i) == {Flow(goToStepAction, to) : to \in (1..n) \ {i}}
OnSuccess(n, i) ==
    {Flow(goToNextStepAction, 0)} \cup IF n < 4 THEN GoesElsewhere(n, i) ELSE {}
OnFail(n, i) == {Flow(QuitWithFailure, 0)} \cup GoesElsewhere(n, i)

Jobs(n) ==
    {[steps |-> [i \in 1..n |-> [id |-> i, success |-> s[i], fail |-> f[i]]],
      start |-> start, refused |-> FALSE] :
        s \in {g \in [1..n -> UNION {OnSuccess(n, i) : i \in 1..n}] :
                 \A i \in 1..n : g[i] \in OnSuccess(n, i)},
        f \in {g \in [1..n -> UNION {OnFail(n, i) : i \in 1..n}] :
                 \A i \in 1..n : g[i] \in OnFail(n, i)},
        start \in 1..n}

Orders(n) == {g \in [1..n -> 1..n] : \A i, j \in 1..n : i # j => g[i] # g[j]}
NoOrders(n) == {<<>>, [i \in 1..n |-> 1], [i \in 1..n |-> i - 1], [i \in 1..(n + 1) |-> i]}

OneJob(n) == {job \in Jobs(n) : job.start = 1}

-----------------------------------------------------------------------------
(* Programs of up to four calls: everything on one server, which can rename one *)
(* database to a new name and another to one that is or was taken; two kinds of *)
(* call on the other server.                                                    *)

Call(server, does, handle, to) ==
    [server |-> server, does |-> does, handle |-> handle, to |-> to]
Calls ==
    {Call(s, "configure", 1, "") : s \in {1, 2}}
    \cup {Call(1, does, h, "") : does \in {"alter", "replace", "drop"}, h \in {1, 2}}
    \cup {Call(1, "rename", h, to) : h \in {1, 2}, to \in {"a", "c"}}
    \cup {Call(2, "alter", 1, "")}
Programs == UNION {[1..n -> Calls] : n \in 1..4}

-----------------------------------------------------------------------------
(* Databases with every mix of what is written on a condition or in an order, of *)
(* which any part that can fail to be said does; scripted to an instance that    *)
(* has no such database, or has one with the session in it.                      *)

Of(is, hidden) == [is |-> is, hidden |-> hidden]
SetItems ==
    {is \in [layout : {"plain"}, recovery : {"set"}, empty : {"there"},
             readOnlyGroup : {"there"}, options : {"set"}, versions : {"no", "elsewhere"},
             tracking : {"on"}, store : {"on"}, key : {"new", "there"},
             encrypted : {"new", "on"}, scoped : {"new", "set"}, secondary : {"new", "set"},
             props : {"new", "there"}, owner : {"known"},
             access : {"MULTI_USER", "RESTRICTED_USER", "SINGLE_USER"},
             readOnly : {"READ_WRITE", "READ_ONLY"}] :
        /\ is.encrypted = "on" => is.key = "there"
        /\ is.secondary = "set" => is.scoped = "set"}
SettingsOf ==
    {of \in {Of(is, hidden) : is \in SetItems,
                             hidden \in SUBSET {"versions", "key", "scoped", "owner"}} :
        /\ "versions" \in of.hidden => of.is.versions # "no"
        /\ "scoped" \in of.hidden => of.is.scoped = "set"}
    \cup {Of(Settings!New("snapshot"), {})}

Place(there, at) ==
    [there |-> there, is |-> Settings!New("plain"), at |-> at, taken |-> FALSE,
     stray |-> {}, refused |-> {}]
SettingsInputs ==
    {i \in [of : {"settings"}, source : SettingsOf, verb : {"create", "drop and create"},
            start : {Place(FALSE, "elsewhere"), Place(TRUE, "it")},
            guarded : BOOLEAN, rival : BOOLEAN] :
        /\ i.start.there => i.verb # "create"
        /\ i.rival => i.source.is["access"] = "SINGLE_USER"}

-----------------------------------------------------------------------------
(* Servers with anything pending that may be, and up to two changes of three     *)
(* options, or of one there is not; and three changes of one as it is installed.  *)

Hidden == Config!showAdvancedOptions
Configured == [Config!Options -> {0, 1, 2}]
Installed == [o \in Config!Options |-> 0]
Servers ==
    {Config!Server(value, running) :
        value \in {v \in Configured : Config!InRange(Hidden, v[Hidden])},
        running \in {r \in Configured : r[Hidden] < 2 /\ 1 \notin {r["advanced"], r["static"]}}}
ConfigChanges ==
    {Config!ConfigChange(Hidden, v) : v \in 0..2}
    \cup {Config!ConfigChange(o, v) : o \in {"advanced", "static"}, v \in 1..3}
    \cup {Config!ConfigChange("unknown", 1)}
ConfigInputs ==
    [of : {"configuration"}, server : Servers, override : BOOLEAN,
     changes : UNION {[1..n -> ConfigChanges] : n \in 0..2}]
    \cup [of : {"configuration"}, server : {Config!Server(Installed, Installed)},
          override : BOOLEAN, changes : [1..3 -> ConfigChanges]]

-----------------------------------------------------------------------------
(* Every column there may be, and what another session may have made of it since  *)
(* it was read; every table that is tracked or not.                              *)

Columns ==
    {c \in [type : {"string", "number"}, collation : {"", "database default", "own"},
            nullable : BOOLEAN, sparse : BOOLEAN, mask : {"", "mask", "string mask"},
            nulls : BOOLEAN] : Altering!Possible(c)}
AlterInputs ==
    [of : {"column"}, read : Columns, column : Columns, version : {"2016", "later"},
     definition : [type : {"string", "number"}, collation : {"", "own", "other"},
                   nullable : BOOLEAN]]
TrackInputs ==
    {i \in [of : {"tracking"}, can : BOOLEAN, tracking : Altering!Tracking,
            table : {Altering!Tracked("off", "never")}
                    \cup {Altering!Tracked(t, "before") : t \in {"rows", "columns"}}] :
        i.table.tracking # "off" => i.can}

-----------------------------------------------------------------------------

Init ==
    /\ RestoreInit
    /\ \/ input \in OrderInputs
       \/ \E n \in 1..4 : input \in [of : {"reorder"}, job : Jobs(n),
                                     want : Orders(n) \cup NoOrders(n)]
       \/ \E n \in 1..4 : input \in [of : {"move"}, job : OneJob(n),
                                     from : 0..(n + 1), to : -1..(n + 2)]
       \/ input \in [of : {"database"}, source : Databases(3, AllKinds) \cup Historied(3)]
       \/ input \in TableScripts
       \/ input \in [of : {"program"}, program : Programs]
       \/ input \in SettingsInputs
       \/ input \in ConfigInputs
       \/ input \in AlterInputs \cup TrackInputs
       \/ input = [of |-> "life"]

Next ==
    \/ input.of = "life" /\ RestoreNext /\ UNCHANGED input
    \/ input.of # "life" /\ UNCHANGED <<life, input>>

Spec == Init /\ [][Next]_<<life, input>>

-----------------------------------------------------------------------------
(* The scripts of three functions that name each other.                         *)

FewInit == RestoreInit /\ input \in [of : {"functions"}, source : Functions]
FewSpec == FewInit /\ [][Next]_<<life, input>>

\* An empty database accepts every statement of the script in its turn.
ReplayAccepted == input.of = "functions" => AcceptsAll(input.source)
=============================================================================
