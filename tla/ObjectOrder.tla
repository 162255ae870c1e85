----------------------------- MODULE ObjectOrder -----------------------------
(***************************************************************************)
(* orderObjects (scripter_database_objects_order.go): the order in which   *)
(* the script of a database creates its objects.  An object is the number  *)
(* of its place in orderNode.less; a reference says that one object names  *)
(* another, and whether it is schema-bound.                                *)
(***************************************************************************)
EXTENDS Naturals, FiniteSets, Sequences
LOCAL INSTANCE SequencesExt

Least(S) == CHOOSE n \in S : \A m \in S : n <= m

\* waiting: per object, the objects it names and that are in the script.
Unmet(objects, references) ==
    {<<r.from, r.to>> : r \in {x \in references :
        x.from # x.to /\ x.from \in objects /\ x.to \in objects}}
Bound(references, pair) ==
    \E r \in references : r.bound /\ <<r.from, r.to>> = pair

Waits(unmet, n) == \E pair \in unmet : pair[1] = n

\* The scan: what is written out, what is queued to be, the references still to
\* be met and the ones a warning tells of.
Begun(objects, references) ==
    LET unmet == Unmet(objects, references)
    IN  [out |-> <<>>, queued |-> {n \in objects : ~Waits(unmet, n)},
         unmet |-> unmet, broken |-> {}, stuck |-> FALSE]

\* Writing an object out meets every reference to it.
WriteOut(objects, scan, n) ==
    LET unmet == {pair \in scan.unmet : pair[2] # n}
    IN  [scan EXCEPT !.out = Append(@, n),
                     !.unmet = unmet,
                     !.queued = @ \cup {d \in objects : ~Waits(unmet, d)}]

\* The objects a cycle can be broken at.
BreakableIfAnyUnbound(objects, references, scan) ==                 \* a fault
    {n \in objects \ scan.queued :
        \E pair \in scan.unmet : pair[1] = n /\ ~Bound(references, pair)}
Breakable(objects, references, scan) ==
    {n \in objects \ scan.queued :
        \A pair \in scan.unmet : pair[1] = n => ~Bound(references, pair)}

Break(scan, n) ==
    LET waited == {pair \in scan.unmet : pair[1] = n}
    IN  [scan EXCEPT !.unmet = @ \ waited,
                     !.broken = @ \cup waited,
                     !.queued = @ \cup {n}]

\* Fault: the least object is next, ready or not.
TurnEager(objects, references, scan) ==
    LET ready == scan.queued \ ToSet(scan.out)
        breakable == Breakable(objects, references, scan)
        next == Least(ready \cup breakable)
    IN  IF ready \cup breakable = {} THEN [scan EXCEPT !.stuck = TRUE]
        ELSE WriteOut(objects, Break(scan, next), next)

\* One turn of the loop: the least object that is ready; if there is none, the
\* least a cycle can be broken at; if there is none of those either, an error.
Turn(objects, references, scan) ==
    LET ready == scan.queued \ ToSet(scan.out)
        breakable == Breakable(objects, references, scan)
    IN  IF ready # {} THEN WriteOut(objects, scan, Least(ready))
        ELSE IF breakable = {} THEN [scan EXCEPT !.stuck = TRUE]
        ELSE WriteOut(objects, Break(scan, Least(breakable)), Least(breakable))

\* The scan after each turn.
Scans(objects, references) ==
    LET scan[k \in 0..Cardinality(objects)] ==
            IF k = 0 THEN Begun(objects, references)
            ELSE IF scan[k - 1].stuck THEN scan[k - 1]
            ELSE Turn(objects, references, scan[k - 1])
    IN  scan

orderObjects(objects, references) == Scans(objects, references)[Cardinality(objects)]

-----------------------------------------------------------------------------
(* What is asked of it.                                                    *)

Before(order, m, n) ==
    \E i, j \in DOMAIN order : i < j /\ order[i] = m /\ order[j] = n

\* Some order puts every object after what it names in these pairs.
Orderable(objects, pairs) ==
    \E order \in SetToSeqs(objects) : \A pair \in pairs : Before(order, pair[2], pair[1])

Reaches(pairs, m, n) ==
    LET within[k \in 1..Cardinality(pairs)] ==
            IF k = 1 THEN {pair[2] : pair \in {q \in pairs : q[1] = m}}
            ELSE within[k - 1] \cup
                 {pair[2] : pair \in {q \in pairs : q[1] \in within[k - 1]}}
    IN  pairs # {} /\ n \in within[Cardinality(pairs)]

\* Each object is written exactly once, after every object it names, except
\* for the references a warning tells of, and those are not schema-bound
\* ("sorts nodes so every object follows what it references").
Ordered(objects, references) ==
    LET scan == orderObjects(objects, references)
    IN  ~scan.stuck =>
        /\ scan.out \in SetToSeqs(objects)
        /\ \A pair \in Unmet(objects, references) :
             IF pair \in scan.broken THEN ~Bound(references, pair)
             ELSE Before(scan.out, pair[2], pair[1])

\* It gives up exactly when the schema-bound references alone allow no order
\* (the error it returns names them), and breaks nothing when there is an order
\* that breaks nothing.
GivesUpOnlyInNeed(objects, references) ==
    LET scan == orderObjects(objects, references)
        unmet == Unmet(objects, references)
    IN  /\ scan.stuck <=>
             ~Orderable(objects, {pair \in unmet : Bound(references, pair)})
        /\ Orderable(objects, unmet) => scan.broken = {}
=============================================================================
