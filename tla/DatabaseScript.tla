--------------------------- MODULE DatabaseScript ---------------------------
(***************************************************************************)
(* ScriptDatabaseObjectList (scripter_database_objects.go): the script     *)
(* that recreates every object of a database, what it leaves out and what  *)
(* it says of that; and what an empty database makes of the script.        *)
(*                                                                         *)
(* A database is a record:                                                 *)
(*   objects      the numbers of its objects, in orderNode.less's order    *)
(*   kind         what each of them is                                     *)
(*   references   what names what (ObjectOrder); a synonym names its base  *)
(*   hidden       the objects that cannot be scripted (encrypted, or with  *)
(*                a definition the login cannot see)                       *)
(*   versioned    the tables whose CREATE TABLE creates a history table    *)
(*   disabled     the tables with a disabled clustered index               *)
(*   constraints  foreign keys and edge constraints: the table each is on  *)
(*                and the tables it names                                  *)
(*   triggers     the tables and views with a DML trigger                  *)
(*   grants       the objects some permission is granted on                *)
(***************************************************************************)
EXTENDS ObjectOrder

\* A list of what the catalog holds, in no order that matters.
Lists(sofar) ==
    LET x == CHOOSE y \in sofar.left : TRUE
    IN  [list |-> Append(sofar.list, x), left |-> sofar.left \ {x}]
ListedTo(S) ==
    LET to[k \in 0..Cardinality(S)] ==
            IF k = 0 THEN [list |-> <<>>, left |-> S] ELSE Lists(to[k - 1])
    IN  to
Listed(S) == ListedTo(S)[Cardinality(S)].list

\* A table's history table, and an object a script does not list (a queue).
History(t) == t + 10
Unlisted == 0

\* item.late: CREATE does not resolve the objects the body names.
LateIsAnyFunction(source, n) ==                                     \* a fault
    source.kind[n] \in {"function", "inlineFunction", "procedure", "synonym"}
Late(source, n) == source.kind[n] \in {"function", "procedure", "synonym"}

\* What createdByParent lists, and what of it nothing creates.
CreatedByParent(source) == {History(t) : t \in source.versioned}
DroppedWithParent(source) ==
    {History(t) : t \in {v \in source.versioned : source.kind[v] = "droppedTable"}}

IsType(source, n) == n \in source.objects /\ source.kind[n] = "type"

Named(source, n, needed) ==
    {r.to : r \in {x \in source.references :
        /\ x.from = n /\ x.to # n
        /\ needed <=> x.bound \/ ~Late(source, n) \/ IsType(source, x.to)}}

-----------------------------------------------------------------------------
(* The queue: the objects as ordered, the constraints once every table is   *)
(* there, then the triggers.                                                *)

Entry(does, on, to, needs, late) ==
    [does |-> does, on |-> on, to |-> to, needs |-> needs, late |-> late]

\* Fault: the constraints are put with what needs no other object.
QueueConstraintsFirst(source, order) ==
    Listed({Entry("constrain", c.on, c.names, {c.on} \cup c.names, {}) :
                c \in source.constraints})
    \o [i \in DOMAIN order |-> Entry("create", order[i], {},
                Named(source, order[i], TRUE), Named(source, order[i], FALSE))]
    \o Listed({Entry("trigger", t, {}, {t}, {}) : t \in source.triggers})
Queue(source, order) ==
    [i \in DOMAIN order |-> Entry("create", order[i], {},
                Named(source, order[i], TRUE), Named(source, order[i], FALSE))]
    \o Listed({Entry("constrain", c.on, c.names, {c.on} \cup c.names, {}) :
                   c \in source.constraints})
    \o Listed({Entry("trigger", t, {}, {t}, {}) : t \in source.triggers})

Batch(does, on, to) == [does |-> does, on |-> on, to |-> to]

\* Fault: what only needs a missing object is noted, and missing to nothing.
ScriptedNoCascade(source, sofar, entry) ==
    IF entry.does = "create" /\ entry.on \in source.hidden
    THEN [sofar EXCEPT !.noted = @ \cup {entry.on}, !.missing = @ \cup {entry.on}]
    ELSE IF entry.needs \cap sofar.missing # {}
    THEN [sofar EXCEPT !.noted = @ \cup {entry.on}]
    ELSE [sofar EXCEPT !.statements = Append(@, Batch(entry.does, entry.on, entry.to))]

\* One turn of scriptQueue: a note, or the entry's statements, a table's last of
\* which is the disabling of its index, and the warnings.
Scripted(source, sofar, entry) ==
    LET creates == entry.does = "create"
        disables == creates /\ entry.on \in source.disabled
    IN  IF entry.needs \cap sofar.missing # {} \/ (creates /\ entry.on \in source.hidden)
        THEN IF creates THEN [sofar EXCEPT !.noted = @ \cup {entry.on},
                                           !.missing = @ \cup {entry.on}]
             ELSE sofar
        ELSE [sofar EXCEPT
                !.statements = @ \o <<Batch(entry.does, entry.on, entry.to)>>
                    \o IF disables THEN <<Batch("disable", entry.on, {})>> ELSE <<>>,
                !.warned = @ \cup {<<entry.on, k>> : k \in entry.late \cap sofar.missing}]

LeftOutIfMissing(source, missing, name) == name \in missing             \* a fault
\* leftOut: the grants that become comments.
LeftOut(source, missing, name) ==
    name \notin (source.objects \cup CreatedByParent(source)) \ missing

Permissions(source, missing) ==
    Listed({Batch("grant", name, {}) :
                name \in {g \in source.grants : ~LeftOut(source, missing, g)}})

ScriptedTo(source, queue) ==
    LET done[i \in 0..Len(queue)] ==
            IF i = 0 THEN [statements |-> <<>>, missing |-> DroppedWithParent(source),
                           noted |-> {}, warned |-> {}]
            ELSE Scripted(source, done[i - 1], queue[i])
    IN  done

ScriptDatabaseObjectList(source) ==
    LET order == orderObjects(source.objects, source.references)
        queue == Queue(source, order.out)
        all == ScriptedTo(source, queue)[Len(queue)]
    IN  [all EXCEPT !.statements = @ \o Permissions(source, all.missing)]

-----------------------------------------------------------------------------
(* The replay.  The server resolves what the query of a view or of an inline *)
(* function names, what a table or a type is made of, what is schema-bound   *)
(* and the types of parameters when it creates them, and through a synonym   *)
(* what stands behind it.                                                    *)

Resolves(source, there, name) ==
    /\ name \in there
    /\ \A r \in source.references :
         r.from = name /\ name \in source.objects /\ source.kind[name] = "synonym"
             => r.to \in there

Unresolved(source, there, n) ==
    {r \in source.references :
        /\ r.from = n /\ r.to # n
        /\ \/ r.bound
           \/ source.kind[n] \in {"type", "table", "view", "inlineFunction"}
           \/ IsType(source, r.to)
        /\ ~Resolves(source, there, r.to)}

Accepts(source, db, s) ==
    CASE s.does = "create" -> Unresolved(source, db.there, s.on) = {}
      [] s.does = "constrain" -> {s.on} \cup s.to \subseteq db.there
                                 /\ s.on \notin db.offline
      [] OTHER -> s.on \in db.there

RunBatch(source, db, s) ==
    IF ~Accepts(source, db, s) THEN [db EXCEPT !.refused = @ \cup {s}]
    ELSE CASE s.does = "create" ->
                [db EXCEPT !.there = @ \cup {s.on}
                    \cup (IF s.on \in source.versioned THEN {History(s.on)} ELSE {})]
           [] s.does = "disable" -> [db EXCEPT !.offline = @ \cup {s.on}]
           [] OTHER -> [db EXCEPT !.held = @ \cup {s}]

ReplayedTo(source, statements) ==
    LET db[i \in 0..Len(statements)] ==
            IF i = 0 THEN [there |-> {}, offline |-> {}, held |-> {}, refused |-> {}]
            ELSE RunBatch(source, db[i - 1], statements[i])
    IN  db
ReplayBatches(source, statements) == ReplayedTo(source, statements)[Len(statements)]

-----------------------------------------------------------------------------
(* What is asked of it.                                                      *)

Replayed(source) ==
    LET script == ScriptDatabaseObjectList(source)
    IN  [script |-> script, db |-> ReplayBatches(source, script.statements),
         broken |-> orderObjects(source.objects, source.references).broken]

\* The references the order takes no account of: one a broken cycle left out,
\* one to a history table, for which its table stands, and one to what a synonym
\* stands for.
Overlooked(source, broken, r) ==
    \/ <<r.from, r.to>> \in broken
    \/ r.to \in CreatedByParent(source)
    \/ r.to \in source.objects /\ source.kind[r.to] = "synonym"

\* An empty database accepts every statement in its turn ("in an order a replay
\* into an empty database accepts").
AcceptsAll(source) == Replayed(source).db.refused = {}

\* The histories createdByParent lists as created although their table is left out;
\* a dropped ledger table's it knows to be gone.
Stranded(source, noted) ==
    {History(t) : t \in source.versioned \cap noted} \ DroppedWithParent(source)

\* It refuses an object only over an overlooked reference or for want of one it
\* refused before, and anything else only for want of such an object, or of the
\* history that would have come with it.  Two exceptions, neither of which the
\* code means: a permission on the history of a table that was left out is granted,
\* though "a GRANT on an object that was left out" is to be a comment, and a
\* constraint follows the disabling that takes its table offline.
RefusesOnlyOverlooked(source, replayed) ==
    LET refused == replayed.db.refused
        lost == {s.on : s \in {x \in refused : x.does = "create"}}
        absent == lost \cup {History(t) : t \in lost \cap source.versioned}
    IN  \A s \in refused :
          IF s.does = "create"
          THEN \E r \in source.references :
                 r.from = s.on /\ (r.to \in lost \/ Overlooked(source, replayed.broken, r))
          ELSE \/ ({s.on} \cup s.to) \cap absent # {}
               \/ s.does = "grant" /\ s.on \in Stranded(source, replayed.script.noted)
               \/ s.does = "constrain" /\ s.on \in source.disabled

\* What cannot be created without an object that cannot be scripted.
WantsOneOf(source, S) ==
    S \cup {n \in source.objects :
               \E r \in source.references :
                   r.from = n /\ r.to \in S /\ r \in Unresolved(source, {}, n)}
UnmakeableTo(source) ==
    LET within[k \in 0..Cardinality(source.objects)] ==
            IF k = 0 THEN source.hidden \cup DroppedWithParent(source)
            ELSE WantsOneOf(source, within[k - 1])
    IN  within
Unmakeable(source) ==
    UnmakeableTo(source)[Cardinality(source.objects)] \cap source.objects

\* No object is left out but those, and none of those is tried; every constraint
\* and trigger on what is created is there, every permission on it is granted;
\* and a script that names what it leaves out says so.  Where a cycle was broken,
\* that holds of what the cycle does not reach.
LeavesOutOnlyInNeed(source, replayed) ==
    LET script == replayed.script
        db == replayed.db
    IN  db.refused = {} /\ replayed.broken = {} =>
        /\ script.noted = Unmakeable(source)
        /\ db.there = (source.objects \ script.noted)
             \cup {History(t) : t \in source.versioned \ script.noted}
        /\ db.held = {Batch("constrain", c.on, c.names) : c \in
                        {x \in source.constraints : {x.on} \cup x.names \subseteq db.there}}
               \cup {Batch("trigger", t, {}) : t \in source.triggers \cap db.there}
               \cup {Batch("grant", g, {}) : g \in source.grants \cap db.there}
        /\ db.offline = source.disabled \ script.noted
        /\ script.warned = {<<r.from, r.to>> : r \in
             {x \in source.references :
                /\ x.from \in db.there \cap source.objects /\ x.to # x.from
                /\ x.to \in script.noted \cup DroppedWithParent(source)}}
=============================================================================
