----------------------------- MODULE TableScript -----------------------------
(***************************************************************************)
(* buildTableScript (scripter_table.go): the script of one table, and what *)
(* it does to a database that lacks the table, and to one that has it.     *)
(*                                                                         *)
(* A table is a record:                                                    *)
(*   indexes    its indexes by id, each of a kind ("key" for the primary   *)
(*              key, "unique" for a constraint, "rowstore", "xml" for a    *)
(*              primary XML index, "over xml" for one over it,             *)
(*              "hypothetical"), clustered or not, disabled or not         *)
(*   keys,      its foreign keys and its check constraints, each "trusted",*)
(*   checks     "not trusted" or "disabled"                                *)
(*   filestream it has a FILESTREAM column                                 *)
(*   versioned  it is system-versioned                                     *)
(*   settings   it has a lock escalation or column bindings of its own     *)
(* The options are a verb, whether a statement is guarded                  *)
(* (IncludeIfNotExists), and whether foreign keys are deferred.            *)
(***************************************************************************)
EXTENDS Naturals, Sequences, FiniteSets, Selection
LOCAL INSTANCE SequencesExt

Step(does, n) == [does |-> does, n |-> n, of |-> "", with |-> ""]
OfConstraint(does, of, n, with) == [does |-> does, n |-> n, of |-> of, with |-> with]

Where(indexes, wanted) == Only([i \in DOMAIN indexes |-> i], wanted)
Each(does, numbers) == [i \in DOMAIN numbers |-> Step(does, numbers[i])]

Kinds(table, kinds) == {i \in DOMAIN table.indexes : table.indexes[i].kind \in kinds}

\* What CREATE TABLE declares: the primary key, and inlineIndexes.
Inline(table) == Kinds(table, {"key"} \cup IF table.filestream THEN {"unique"} ELSE {})

\* The indexes a statement of their own creates, those over an XML index last.
IndexesById(table) ==                                               \* a fault
    Where(table.indexes, DOMAIN table.indexes \ (Inline(table) \cup Kinds(table, {"hypothetical"})))
IndexesCreated(table) ==
    Where(table.indexes,
          DOMAIN table.indexes \ (Inline(table) \cup Kinds(table, {"hypothetical", "over xml"})))
    \o Where(table.indexes, Kinds(table, {"over xml"}))

\* scriptForeignKey and scriptCheckConstraint.
AddChecked(of, states) ==                                           \* a fault
    FlattenSeq([n \in DOMAIN states |->
        <<OfConstraint("add", of, n, "trusted")>>
        \o IF states[n] = "disabled" THEN <<OfConstraint("nocheck", of, n, "")>> ELSE <<>>])
AddsOne(of, n, state) ==
    <<OfConstraint("add", of, n, IF state = "trusted" THEN "trusted" ELSE "not trusted")>>
    \o IF state = "disabled" THEN <<OfConstraint("nocheck", of, n, "")>> ELSE <<>>
AddsTo(of, states) ==
    LET adds[n \in 0..Len(states)] ==
          IF n = 0 THEN <<>> ELSE adds[n - 1] \o AddsOne(of, n, states[n])
    IN  adds
Add(of, states) == AddsTo(of, states)[Len(states)]

Disabled(table) ==
    {i \in DOMAIN table.indexes : table.indexes[i].disabled} \ Kinds(table, {"hypothetical"})

\* Fault: an index is disabled where it is created.
DependentsDisabledAtOnce(table, deferred) ==
    FlattenSeq([k \in DOMAIN IndexesCreated(table) |->
        <<Step("index", IndexesCreated(table)[k])>> \o
        IF IndexesCreated(table)[k] \in Disabled(table)
        THEN <<Step("disable", IndexesCreated(table)[k])>> ELSE <<>>])
    \o (IF deferred THEN <<>> ELSE Add("key", table.keys))
    \o Add("check", table.checks)
    \o Each("disable", Where(table.indexes, Disabled(table) \cap Inline(table)))
writeTableDependents(table, deferred) ==
    Each("index", IndexesCreated(table))
    \o (IF deferred THEN <<>> ELSE Add("key", table.keys))
    \o Add("check", table.checks)
    \o Each("disable", Where(table.indexes, Disabled(table)))

buildTableScript(table, options) ==
    LET drops == options.verb = "drop and create"
    IN  (IF drops /\ table.versioned THEN <<Step("unversion", 0)>> ELSE <<>>)
        \o (IF drops THEN <<Step("drop", 0)>> ELSE <<>>)
        \o <<Step("create", 0)>>
        \o (IF table.settings THEN <<Step("set", 0)>> ELSE <<>>)
        \o writeTableDependents(table, options.deferred)

-----------------------------------------------------------------------------
(* The table in the database: which of its indexes and constraints it has,  *)
(* and how they are.  A clustered index that is disabled takes it offline,  *)
(* and every other index with it.                                           *)

Absent == [there |-> FALSE, versioned |-> FALSE, set |-> FALSE,
           has |-> {}, off |-> {}, held |-> {}]
Constraints(of, states) == {[of |-> of, n |-> n, state |-> states[n]] : n \in DOMAIN states}
As(table, deferred) ==
    [there |-> TRUE, versioned |-> table.versioned, set |-> table.settings,
     has |-> DOMAIN table.indexes \ Kinds(table, {"hypothetical"}),
     off |-> Disabled(table),
     held |-> Constraints("check", table.checks)
                \cup IF deferred THEN {} ELSE Constraints("key", table.keys)]

Clustered(table) == {i \in DOMAIN table.indexes : table.indexes[i].clustered}
TakesDown(table, i) ==
    {i} \cup IF i \in Clustered(table) THEN DOMAIN table.indexes
             ELSE IF table.indexes[i].kind = "xml" THEN Kinds(table, {"over xml"}) ELSE {}

\* Its guard finds nothing to do.
Skips(target, s) ==
    CASE s.does \in {"unversion", "drop"} -> ~target.there
      [] s.does = "create" -> target.there
      [] s.does = "index" -> s.n \in target.has
      [] s.does = "add" -> \E c \in target.held : c.of = s.of /\ c.n = s.n
      [] OTHER -> FALSE

\* blocks: what keeps the table from being dropped, if anything ("no", "keys" of
\* other tables, modules schema-"bound" to it).
Allows(table, target, blocks, s) ==
    LET online == target.there /\ target.off \cap Clustered(table) = {}
    IN  CASE s.does = "unversion" -> target.there /\ blocks # "bound"
          [] s.does = "drop" -> target.there /\ ~target.versioned /\ blocks = "no"
          [] s.does = "create" -> ~target.there
          [] s.does = "index" ->
               /\ online /\ ~Skips(target, s)
               /\ table.indexes[s.n].kind = "over xml"
                    => Kinds(table, {"xml"}) \cap (target.has \ target.off) # {}
          [] s.does = "add" -> online /\ ~Skips(target, s)
          [] OTHER -> target.there

Does(table, target, s) ==
    CASE s.does = "unversion" -> [target EXCEPT !.versioned = FALSE]
      [] s.does = "drop" -> Absent
      [] s.does = "create" ->
           [there |-> TRUE, versioned |-> table.versioned, set |-> FALSE,
            has |-> Inline(table), off |-> {}, held |-> {}]
      [] s.does = "set" -> [target EXCEPT !.set = TRUE]
      [] s.does = "index" -> [target EXCEPT !.has = @ \cup {s.n}]
      [] s.does = "disable" ->
           [target EXCEPT !.off = @ \cup (TakesDown(table, s.n) \cap target.has)]
      [] s.does = "add" ->
           [target EXCEPT !.held = @ \cup {[of |-> s.of, n |-> s.n, state |-> s.with]}]
      [] s.does = "nocheck" ->
           [target EXCEPT !.held = {IF c.of = s.of /\ c.n = s.n
                                    THEN [c EXCEPT !.state = "disabled"] ELSE c : c \in target.held}]

Executes(table, options, blocks, before, s) ==
    IF options.guarded /\ Skips(before.target, s) THEN before
    ELSE IF Allows(table, before.target, blocks, s)
    THEN [target |-> Does(table, before.target, s), refused |-> before.refused]
    ELSE [target |-> before.target, refused |-> before.refused \cup {s.does}]
ExecutedTo(table, options, blocks, before, script) ==
    LET run[k \in 0..Len(script)] ==
          IF k = 0 THEN before ELSE Executes(table, options, blocks, run[k - 1], script[k])
    IN  run
Executed(table, options, blocks, before, script) ==
    ExecutedTo(table, options, blocks, before, script)[Len(script)]

ReplayTable(table, options, target, blocks) ==
    Executed(table, options, blocks, [target |-> target, refused |-> {}],
             buildTableScript(table, options))

-----------------------------------------------------------------------------
(* What is asked of it.                                                      *)

\* Where there is no table, or one that can be dropped is, the script ends with
\* the table it was made from, and all that can be refused is the dropping of a
\* table that is not there.  A table it may not drop ("leaves the table in place
\* ... and the script changes nothing") it leaves as it was, but for the
\* versioning that only foreign keys of other tables do not protect.
Rebuilds(table, options, there, blocks) ==
    LET was == IF there THEN As(table, FALSE) ELSE Absent
        replay == ReplayTable(table, options, was, blocks)
        drops == options.verb = "drop and create"
    IN  IF there /\ (blocks # "no" \/ ~drops)
        THEN replay.target = [was EXCEPT !.versioned = @ /\ ~(drops /\ blocks = "keys")]
        ELSE /\ replay.target = As(table, options.deferred)
             /\ replay.refused \subseteq IF there \/ options.guarded THEN {} ELSE {"unversion", "drop"}
=============================================================================
