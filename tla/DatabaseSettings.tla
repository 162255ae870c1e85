--------------------------- MODULE DatabaseSettings --------------------------
(***************************************************************************)
(* ScriptDatabase (scripter.go): the script of a database itself, its      *)
(* filegroups and settings, and what an instance makes of it.              *)
(*                                                                         *)
(* A database is the value of each of its items.  Of those,                *)
(*   layout      is what CREATE DATABASE carries: containment, files,      *)
(*               collation, FILESTREAM and ledger                          *)
(*   empty, readOnlyGroup  are a filegroup without files, one read-only    *)
(*   options     are all SET options without a word of their own here      *)
(*   versions    is where accelerated recovery keeps its version store:    *)
(*               "no", "primary", "elsewhere" ("new" before 2019)          *)
(*   key, encrypted  are the TDE key and whether it is in use              *)
(*   scoped, secondary  are scoped configurations away from their default  *)
(* and "new" is the value a new database has, whatever it is.              *)
(* hidden are the items that reading was refused of, or that have no form  *)
(* a statement could give them.                                            *)
(***************************************************************************)
EXTENDS Naturals, Sequences

Set(item, value) == [item |-> item, value |-> value]
Use(value) == Set("use", value)

\* What is set from inside the database, between USE [db] and USE [master].
Inside == {"key", "scoped", "secondary", "props"}

\* A statement, if there is something to set and a way to.
Written(source, item) ==
    IF source.is[item] = "new" \/ item \in source.hidden THEN <<>>
    ELSE <<Set(item, source.is[item])>>

\* An encryption key that cannot be restated leaves encryption unscripted; one that
\* SET ENCRYPTION OFF left behind is created.
Encryption(source) ==
    IF source.is["key"] # "new" /\ "key" \notin source.hidden
    THEN Written(source, "encrypted") ELSE <<>>

\* Fault: the early return forgets what is not a key or a configuration.
InsideUnlessNothingToSet(source) ==
    LET settings == Written(source, "key") \o Written(source, "scoped")
                    \o Written(source, "secondary")
        within == settings \o Written(source, "props")
    IN  IF settings = <<>> THEN within
        ELSE <<Use("it")>> \o within \o <<Use("master")>> \o Encryption(source)
\* The early return is taken when there is not even a comment to write.
writeInDatabaseSettings(source) ==
    LET within == Written(source, "key") \o Written(source, "scoped")
                  \o Written(source, "secondary") \o Written(source, "props")
        nothing == \A item \in Inside : source.is[item] = "new" /\ item \notin source.hidden
    IN  IF nothing THEN <<>>
        ELSE <<Use("it")>> \o within \o <<Use("master")>> \o Encryption(source)

\* Where the version store is cannot always be read; that it is there can.
Versions(source) ==
    IF "versions" \in source.hidden THEN <<Set("versions", "primary")>>
    ELSE Written(source, "versions")

ReadOnlyOrNot(source) == <<Set("readOnly", source.is["readOnly"])>>

\* Fault: READ_ONLY goes with the other options.
SettingsReadOnlyFirst(source) ==
    <<Set("options", source.is["options"])>> \o Versions(source) \o ReadOnlyOrNot(source)
    \o Written(source, "tracking") \o Written(source, "store")
    \o writeInDatabaseSettings(source)
    \o Written(source, "owner") \o <<Set("access", source.is["access"])>>
writeDatabaseSettings(source) ==
    <<Set("options", source.is["options"])>> \o Versions(source)
    \o Written(source, "tracking") \o Written(source, "store")
    \o writeInDatabaseSettings(source)
    \o Written(source, "owner") \o <<Set("access", source.is["access"])>>
    \o ReadOnlyOrNot(source)

\* scriptDatabaseFrom, under the envelope of the verb.
scriptDatabaseFrom(source, verb) ==
    (IF verb = "drop and create" THEN <<Use("master"), Set("drop", "")>> ELSE <<>>)
    \o <<Set("create", source.is["layout"])>>
    \o IF source.is["layout"] = "snapshot" THEN <<>>
       ELSE <<Set("recovery", source.is["recovery"])>>
            \o Written(source, "empty") \o Written(source, "readOnlyGroup")
            \o writeDatabaseSettings(source)

-----------------------------------------------------------------------------
(* The instance: the database, if it is there, and where the session is.  A  *)
(* database that becomes SINGLE_USER while the session is in master may be   *)
(* taken by another session.                                                 *)

Items ==
    {"layout", "recovery", "empty", "readOnlyGroup", "options", "versions", "tracking",
     "store", "key", "encrypted", "scoped", "secondary", "props", "owner", "access",
     "readOnly"}
New(layout) ==
    [item \in Items |->
        CASE item = "layout" -> layout [] item = "access" -> "MULTI_USER"
          [] item = "readOnly" -> "READ_WRITE" [] OTHER -> "new"]

Refused(target, s) ==
    CASE s.item = "drop" -> ~target.there \/ target.at = "it"
      [] s.item = "create" -> target.there
      [] s.item = "use" -> s.value = "it" /\ (~target.there \/ target.taken)
      [] s.item \in {"access", "readOnly"} -> ~target.there \/ target.taken
      [] s.item = "encrypted" -> target.is["key"] = "new" \/ target.is["readOnly"] = "READ_ONLY"
      [] OTHER -> ~target.there \/ target.taken \/ target.is["readOnly"] = "READ_ONLY"

Takes(target, s, rival) ==
    CASE s.item = "drop" -> [target EXCEPT !.there = FALSE]
      [] s.item = "create" -> [target EXCEPT !.there = TRUE, !.is = New(s.value)]
      [] s.item = "use" -> [target EXCEPT !.at = s.value]
      [] s.item \in Inside /\ target.at # "it" -> [target EXCEPT !.stray = @ \cup {s.item}]
      [] OTHER -> [target EXCEPT !.is[s.item] = s.value,
                     !.taken = rival /\ s = Set("access", "SINGLE_USER") /\ target.at # "it"]

\* A guard, where there is one, skips the DROP or the CREATE it is in front of.
Executes(before, s, guarded, rival) ==
    IF ~Refused(before, s) THEN Takes(before, s, rival)
    ELSE IF guarded /\ s.item \in {"drop", "create"} /\ before.there = (s.item = "create")
    THEN before
    ELSE [before EXCEPT !.refused = @ \cup {s.item}]
ExecutedTo(script, target, guarded, rival) ==
    LET run[k \in 0..Len(script)] ==
            IF k = 0 THEN target ELSE Executes(run[k - 1], script[k], guarded, rival)
    IN  run
Replay(script, target, guarded, rival) ==
    ExecutedTo(script, target, guarded, rival)[Len(script)]

-----------------------------------------------------------------------------
(* What is asked of it.                                                      *)

\* What the script can say: a hidden item is left as it is in a new database, or the
\* version store in PRIMARY; encryption goes with its key; and of a snapshot nothing
\* is to be said.
Sayable(source, item) ==
    LET is == source.is[item]
    IN  IF source.is["layout"] = "snapshot" THEN New("snapshot")[item]
        ELSE IF item = "versions" /\ item \in source.hidden THEN "primary"
        ELSE IF item \in source.hidden \/ (item = "encrypted" /\ "key" \in source.hidden)
        THEN New("")[item]
        ELSE is

\* Where there is no database of its name, or one that is dropped first (from
\* master: "DROP DATABASE fails on the database the session is in"), the script makes
\* the database it was made from as far as it can be said, and touches no other
\* ("READ_ONLY first would refuse every ALTER after it").  Only the last statement can
\* be refused, when somebody else has taken a SINGLE_USER database before it.
Recreated(source, verb, start, guarded, rival) ==
    LET after == Replay(scriptDatabaseFrom(source, verb), start, guarded, rival)
    IN  /\ after.there
        /\ after.stray = {}
        /\ verb = "drop and create" => after.at = "master"
        /\ \A item \in Items :
             after.is[item] = Sayable(source, item) \/ item \in after.refused
        /\ after.refused \subseteq
             (IF start.there \/ guarded THEN {} ELSE {"drop"})
             \cup (IF rival /\ source.is["access"] = "SINGLE_USER" THEN {"readOnly"} ELSE {})
=============================================================================
