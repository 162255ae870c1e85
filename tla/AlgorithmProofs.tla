---------------------------- MODULE AlgorithmProofs ----------------------------
(***************************************************************************)
(* Proofs about the algorithms: what each of AlgorithmProperties' says of  *)
(* one input TLC draws from a small set, for every input of its kind.      *)
(***************************************************************************)
EXTENDS AlgorithmProperties, Induction
LOCAL INSTANCE SequencesExt

-----------------------------------------------------------------------------
(* TableAlter: a column, and the change tracking of a table.                   *)

\* A column as one is read or found, with any names for its collation and its
\* mask, and any type that is not a string's.
Column(c) ==
    c \in [type : STRING, collation : STRING, nullable : BOOLEAN, sparse : BOOLEAN,
           mask : STRING, nulls : BOOLEAN]

\* AlterColumn: what the definition does not say is as it was read, whatever
\* another session made of the column meanwhile; and a refusal has a reason.
LEMMA ColumnAltered ==
    ASSUME NEW read, Column(read), Altering!Possible(read),
           NEW column, Column(column), Altering!Possible(column),
           NEW definition \in [type : STRING, collation : STRING, nullable : BOOLEAN],
           NEW version
    PROVE  Altering!AltersOnly(read, column, definition, version)
<1> DEFINE s == Altering!Restated(read, definition)
           altered == Altering!Alter(column, s)
<1>1. /\ DOMAIN altered = DOMAIN column
      /\ altered.type = s.type /\ altered.nullable = s.nullable
      /\ altered.sparse = s.sparse /\ altered.mask = Altering!None
  BY DEF Column, Altering!Alter
<1>0. DOMAIN column = {"type", "collation", "nullable", "sparse", "mask", "nulls"}
  BY DEF Column
<1>2. /\ s.type = definition.type /\ s.nullable = definition.nullable /\ s.sparse = read.sparse
      /\ s.collation = IF definition.collation = "" /\ definition.type = "string"
                       THEN read.collation ELSE definition.collation
  BY DEF Altering!Restated, Altering!None, Altering!collatable
<1>3. altered.collation =
        IF s.collation # "" THEN s.collation
        ELSE IF s.type = "string" THEN "database default" ELSE ""
  BY DEF Column, Altering!Alter, Altering!None, Altering!collatable, Altering!DatabaseDefault
<1>4. /\ read.sparse \in BOOLEAN /\ read.mask \in STRING
      /\ definition.nullable \in BOOLEAN /\ column.nulls \in BOOLEAN
      /\ read.type = "string" <=> read.collation # ""
  BY DEF Column, Altering!Possible, Altering!collatable, Altering!None
<1> HIDE DEF s, altered
<1>5. CASE Altering!Refuses(read, definition, version)
  BY <1>4, <1>5
  DEF Altering!AltersOnly, Altering!AlterColumn, Altering!Refuses, Altering!Refused, Altering!None
<1>6. CASE ~Altering!Refuses(read, definition, version) /\ ~Altering!Accepts(column, s, read.mask)
  BY <1>2, <1>4, <1>6
  DEF s, Altering!AltersOnly, Altering!AlterColumn, Altering!Execute, Altering!Accepts, Altering!Refused, Altering!Takes
<1>7. ASSUME ~Altering!Refuses(read, definition, version), Altering!Accepts(column, s, read.mask)
      PROVE  Altering!AltersOnly(read, column, definition, version)
  <2> DEFINE after == IF read.mask = "" THEN altered
                      ELSE Altering!AddMasked(altered, read.mask, version)
  <2>1. Altering!AlterColumn(read, column, definition, version)
          = [column |-> after, refused |-> FALSE]
    BY <1>7 DEF s, altered, Altering!AlterColumn, Altering!Execute, Altering!Ran, Altering!None
  <2>2. /\ after.type = s.type /\ after.nullable = s.nullable /\ after.mask = read.mask
        /\ after.collation = altered.collation
    BY <1>0, <1>1 DEF Altering!AddMasked, Altering!None
  <2>3. after.sparse = read.sparse
    BY <1>0, <1>1, <1>2, <1>4, <1>7 DEF Altering!AddMasked, Altering!None, Altering!Refuses
  <2> HIDE DEF after
  <2>4. Altering!Kept(read, definition, after)
    BY <1>2, <1>3, <1>4, <1>7, <2>2, <2>3
    DEF Altering!Kept, Altering!None, Altering!DatabaseDefault, Altering!collatable,
        Altering!Refuses, Altering!checkColumnDefinition
  <2> QED BY <2>1, <2>4 DEF Altering!AltersOnly
<1> QED BY <1>5, <1>6, <1>7

\* SetChangeTracking: a table comes out tracked as asked or as it was, and what
\* was recorded so far is given up only where the two differ.
LEMMA TableTracked ==
    ASSUME NEW table \in [tracking : Altering!Tracking, since : STRING, refused : {FALSE}],
           NEW tracking \in Altering!Tracking, NEW can \in BOOLEAN,
           table.tracking # "off" => can
    PROVE  Altering!Tracks(table, tracking, can)
<1> USE DEF Altering!Tracking, Altering!Tracks, Altering!SetChangeTracking, Altering!Disable,
            Altering!Tracked
<1>1. CASE tracking = "off"
  BY <1>1
<1>2. CASE tracking # "off"
  <2> DEFINE other == CHOOSE t \in Altering!Tracking \ {"off"} : t # tracking
             off == IF table.tracking = other THEN Altering!Disable(table) ELSE table
  <2>1. other \in {"rows", "columns"} /\ other # tracking
    BY <1>2
  <2> HIDE DEF other
  <2>2. CASE table.tracking = tracking
    BY <1>2, <2>1, <2>2 DEF Altering!enableTableChangeTracking, other
  <2>3. CASE table.tracking # tracking
    BY <1>2, <2>1, <2>3 DEF Altering!enableTableChangeTracking, Altering!Enable, other
  <2> QED BY <2>2, <2>3
<1> QED BY <1>1, <1>2

\* Both for every column and every table, in the words of the runs.
THEOREM EveryTableAltered ==
    ASSUME input.of = "column" =>
             /\ Column(input.read) /\ Altering!Possible(input.read)
             /\ Column(input.column) /\ Altering!Possible(input.column)
             /\ input.definition \in [type : STRING, collation : STRING, nullable : BOOLEAN],
           input.of = "tracking" =>
             /\ input.table \in [tracking : Altering!Tracking, since : STRING, refused : {FALSE}]
             /\ input.tracking \in Altering!Tracking /\ input.can \in BOOLEAN
             /\ input.table.tracking # "off" => input.can
    PROVE  TableAltered
BY ColumnAltered, TableTracked DEF TableAltered

-----------------------------------------------------------------------------
(* ObjectOrder: the order a database's objects are scripted in.                *)

\* What is scripted: any finite set of objects, each the number of its place in
\* orderNode.less.
Numbered(objects) == objects \in SUBSET Nat /\ IsFiniteSet(objects)

\* Scans is the function its equation says it is: there is one.
LEMMA ScansExist ==
    ASSUME NEW objects, Numbered(objects), NEW references
    PROVE  Scans(objects, references) =
             [k \in 0..Cardinality(objects) |->
                IF k = 0 THEN Begun(objects, references)
                ELSE IF Scans(objects, references)[k - 1].stuck
                     THEN Scans(objects, references)[k - 1]
                ELSE Turn(objects, references, Scans(objects, references)[k - 1])]
<1> DEFINE Body(f, k) == IF k = 0 THEN Begun(objects, references)
                         ELSE IF f[k - 1].stuck THEN f[k - 1]
                         ELSE Turn(objects, references, f[k - 1])
           Good == {m \in Nat : \E f : f = [k \in 0..m |-> Body(f, k)]}
<1>1. 0 \in Good
  <2> DEFINE f == [k \in 0..0 |-> Begun(objects, references)]
  <2>1. f = [k \in 0..0 |-> Body(f, k)]
    OBVIOUS
  <2> QED BY <2>1
<1>2. ASSUME NEW m \in Nat, m \in Good PROVE m + 1 \in Good
  <2>1. PICK f : f = [k \in 0..m |-> Body(f, k)]
    BY <1>2
  <2> DEFINE g == [k \in 0..(m + 1) |-> IF k \in 0..m THEN f[k] ELSE Body(f, k)]
  <2>2. ASSUME NEW k \in 0..(m + 1) PROVE g[k] = Body(g, k)
    <3>1. CASE k \in 0..m
      <4>1. f[k] = Body(f, k)
        BY <2>1, <3>1
      <4>2. k # 0 => k - 1 \in 0..m
        BY <3>1
      <4>3. k # 0 => g[k - 1] = f[k - 1]
        BY <4>2
      <4> QED BY <3>1, <4>1, <4>3
    <3>2. CASE k = m + 1
      <4>1. g[k - 1] = f[k - 1] /\ k \notin 0..m
        BY <3>2
      <4> QED BY <3>2, <4>1
    <3> QED BY <3>1, <3>2
  <2>3. g = [k \in 0..(m + 1) |-> Body(g, k)]
    <3> HIDE DEF Body
    <3> QED BY <2>2
  <2> HIDE DEF Body, g
  <2> QED BY <2>3
<1>3. \A m \in Nat : m \in Good
  <2> HIDE DEF Good
  <2> QED BY <1>1, <1>2, NaturalInduction
<1>4. \E f : f = [k \in 0..Cardinality(objects) |-> Body(f, k)]
  BY <1>3, FS_CardinalityType DEF Numbered
<1> QED BY <1>4 DEF Scans

LEMMA ScanSteps ==
    ASSUME NEW objects, Numbered(objects), NEW references
    PROVE  /\ Scans(objects, references)[0] = Begun(objects, references)
           /\ \A k \in 0..Cardinality(objects) : k # 0 =>
                Scans(objects, references)[k] =
                  IF Scans(objects, references)[k - 1].stuck
                  THEN Scans(objects, references)[k - 1]
                  ELSE Turn(objects, references, Scans(objects, references)[k - 1])
<1> DEFINE f == Scans(objects, references)
<1>1. f = [k \in 0..Cardinality(objects) |->
             IF k = 0 THEN Begun(objects, references)
             ELSE IF f[k - 1].stuck THEN f[k - 1] ELSE Turn(objects, references, f[k - 1])]
  BY ScansExist
<1>2. Cardinality(objects) \in Nat
  BY FS_CardinalityType DEF Numbered
<1> HIDE DEF f
<1>3. f[0] = Begun(objects, references)
  BY <1>1, <1>2
<1>4. ASSUME NEW k \in 0..Cardinality(objects), k # 0
      PROVE  f[k] = IF f[k - 1].stuck THEN f[k - 1] ELSE Turn(objects, references, f[k - 1])
  BY <1>1, <1>4
<1> QED BY <1>3, <1>4 DEF f

\* The least of some objects is one of them.
LEMMA LeastIsOne ==
    ASSUME NEW S \in SUBSET Nat, S # {}
    PROVE  Least(S) \in S
BY LeastNatural DEF Least

LEMMA UnmetPairs ==
    ASSUME NEW objects, NEW references, NEW pair \in Unmet(objects, references)
    PROVE  pair[1] \in objects /\ pair[2] \in objects /\ pair[1] # pair[2]
BY DEF Unmet

LEMMA ToSetAppend ==
    ASSUME NEW T, NEW s \in Seq(T), NEW e \in T
    PROVE  ToSet(Append(s, e)) = ToSet(s) \cup {e}
<1>1. /\ Len(Append(s, e)) = Len(s) + 1 /\ Len(s) \in Nat
      /\ \A i \in 1..Len(s) : Append(s, e)[i] = s[i]
      /\ Append(s, e)[Len(s) + 1] = e
      /\ DOMAIN s = 1..Len(s) /\ DOMAIN Append(s, e) = 1..(Len(s) + 1)
  BY AppendProperties, LenProperties
<1> QED BY <1>1 DEF ToSet

\* A turn of the scan leaves: what is still unmet is what no broken cycle let go
\* of and no object written out has met; an object waits for all of it, and is
\* written out after all of it; and nothing schema-bound was let go of.
ScanKept(objects, references, scan) ==
    LET unmet == Unmet(objects, references)
    IN  /\ scan \in [out : Seq(objects), queued : SUBSET objects, unmet : SUBSET unmet,
                     broken : SUBSET unmet, stuck : BOOLEAN]
        /\ \A i, j \in DOMAIN scan.out : scan.out[i] = scan.out[j] => i = j
        /\ \A pair \in unmet :
             pair \in scan.unmet <=> pair \notin scan.broken /\ pair[2] \notin ToSet(scan.out)
        /\ \A n \in objects : n \in scan.queued <=> ~Waits(scan.unmet, n)
        /\ ToSet(scan.out) \subseteq scan.queued
        /\ \A i \in DOMAIN scan.out, pair \in unmet :
             pair[1] = scan.out[i] =>
                pair \in scan.broken \/ \E j \in 1..(i - 1) : scan.out[j] = pair[2]
        /\ \A pair \in scan.broken : ~Bound(references, pair)

LEMMA BegunKept ==
    ASSUME NEW objects, NEW references
    PROVE  ScanKept(objects, references, Begun(objects, references))
<1>1. DOMAIN <<>> = {} /\ <<>> \in Seq(objects) /\ ToSet(<<>>) = {}
  BY DEF ToSet
<1> QED BY <1>1 DEF ScanKept, Begun

LEMMA WriteOutKept ==
    ASSUME NEW objects, NEW references, NEW scan, ScanKept(objects, references, scan),
           NEW n \in scan.queued, n \notin ToSet(scan.out)
    PROVE  LET after == WriteOut(objects, scan, n)
           IN  /\ ScanKept(objects, references, after)
               /\ after.out = Append(scan.out, n)
               /\ after.broken = scan.broken /\ after.stuck = scan.stuck
<1> DEFINE U == Unmet(objects, references)
           after == WriteOut(objects, scan, n)
<1>0. /\ scan \in [out : Seq(objects), queued : SUBSET objects, unmet : SUBSET U,
                   broken : SUBSET U, stuck : BOOLEAN]
      /\ n \in objects
  BY DEF ScanKept
<1>1. /\ after.out = Append(scan.out, n)
      /\ after.unmet = {pair \in scan.unmet : pair[2] # n}
      /\ after.queued = scan.queued \cup {d \in objects : ~Waits(after.unmet, d)}
      /\ after.broken = scan.broken /\ after.stuck = scan.stuck
  BY <1>0 DEF WriteOut
<1>2. after \in [out : Seq(objects), queued : SUBSET objects, unmet : SUBSET U,
                 broken : SUBSET U, stuck : BOOLEAN]
  <2>1. after.out \in Seq(objects)
    BY <1>0, <1>1, AppendProperties
  <2>2. after.queued \in SUBSET objects /\ after.unmet \in SUBSET U
    BY <1>0, <1>1
  <2>3. after = [[[scan EXCEPT !.out = after.out] EXCEPT !.unmet = after.unmet]
                   EXCEPT !.queued = after.queued]
    BY <1>0, <1>1 DEF WriteOut
  <2> HIDE DEF after
  <2> QED BY <1>0, <2>1, <2>2, <2>3
<1> HIDE DEF after
<1>3. /\ Len(scan.out) \in Nat /\ DOMAIN scan.out = 1..Len(scan.out)
      /\ DOMAIN after.out = 1..(Len(scan.out) + 1)
      /\ \A i \in 1..Len(scan.out) : after.out[i] = scan.out[i]
      /\ after.out[Len(scan.out) + 1] = n
  BY <1>0, <1>1, AppendProperties, LenProperties
<1>4. ToSet(after.out) = ToSet(scan.out) \cup {n}
  BY <1>0, <1>1, ToSetAppend
<1>5. \A i, j \in DOMAIN after.out : after.out[i] = after.out[j] => i = j
  BY <1>3 DEF ScanKept, ToSet
<1>6. \A pair \in U :
        pair \in after.unmet <=> pair \notin after.broken /\ pair[2] \notin ToSet(after.out)
  BY <1>1, <1>4 DEF ScanKept
<1>7. \A d \in objects : d \in after.queued <=> ~Waits(after.unmet, d)
  BY <1>1 DEF ScanKept, Waits
<1>8. ToSet(after.out) \subseteq after.queued
  BY <1>1, <1>4 DEF ScanKept
<1>9. ASSUME NEW i \in DOMAIN after.out, NEW pair \in U, pair[1] = after.out[i]
      PROVE  pair \in after.broken \/ \E j \in 1..(i - 1) : after.out[j] = pair[2]
  <2>1. CASE i \in 1..Len(scan.out)
    <3>1. pair[1] = scan.out[i] /\ i \in DOMAIN scan.out
      BY <1>3, <1>9, <2>1
    <3>2. pair \in scan.broken \/ \E j \in 1..(i - 1) : scan.out[j] = pair[2]
      BY <3>1 DEF ScanKept
    <3>3. \A j \in 1..(i - 1) : j \in 1..Len(scan.out)
      BY <1>3, <2>1
    <3> QED BY <1>1, <1>3, <3>2, <3>3
  <2>2. CASE i = Len(scan.out) + 1
    <3>1. ~Waits(scan.unmet, n) /\ pair[1] = n
      BY <1>0, <1>3, <1>9, <2>2 DEF ScanKept
    <3>2. pair \in scan.broken \/ pair[2] \in ToSet(scan.out)
      BY <3>1 DEF Waits, ScanKept
    <3>3. i - 1 = Len(scan.out)
      BY <1>3, <2>2
    <3> QED BY <1>1, <1>3, <3>2, <3>3 DEF ToSet
  <2>3. i \in 1..(Len(scan.out) + 1) /\ Len(scan.out) \in Nat
    BY <1>3
  <2>4. i \in 1..Len(scan.out) \/ i = Len(scan.out) + 1
    BY <2>3
  <2> QED BY <2>1, <2>2, <2>4
<1>10. \A pair \in after.broken : ~Bound(references, pair)
  BY <1>1 DEF ScanKept
<1>11. ScanKept(objects, references, after)
  BY <1>2, <1>5, <1>6, <1>7, <1>8, <1>9, <1>10 DEF ScanKept
<1> QED BY <1>1, <1>11 DEF after

LEMMA BreakKept ==
    ASSUME NEW objects, NEW references, NEW scan, ScanKept(objects, references, scan),
           NEW n \in Breakable(objects, references, scan)
    PROVE  LET after == Break(scan, n)
           IN  /\ ScanKept(objects, references, after)
               /\ n \in after.queued /\ n \notin ToSet(after.out)
               /\ after.out = scan.out /\ after.stuck = scan.stuck
<1> DEFINE U == Unmet(objects, references)
           after == Break(scan, n)
           waited == {pair \in scan.unmet : pair[1] = n}
<1>0. /\ scan \in [out : Seq(objects), queued : SUBSET objects, unmet : SUBSET U,
                   broken : SUBSET U, stuck : BOOLEAN]
      /\ n \in objects /\ n \notin scan.queued
  BY DEF ScanKept, Breakable
<1>1. /\ after.out = scan.out /\ after.stuck = scan.stuck
      /\ after.unmet = scan.unmet \ waited
      /\ after.broken = scan.broken \cup waited
      /\ after.queued = scan.queued \cup {n}
  BY <1>0 DEF Break
<1>2. after \in [out : Seq(objects), queued : SUBSET objects, unmet : SUBSET U,
                 broken : SUBSET U, stuck : BOOLEAN]
  <2>1. after.unmet \in SUBSET U /\ after.broken \in SUBSET U /\ after.queued \in SUBSET objects
    BY <1>0, <1>1
  <2>2. after = [[[scan EXCEPT !.unmet = after.unmet] EXCEPT !.broken = after.broken]
                   EXCEPT !.queued = after.queued]
    BY <1>0, <1>1 DEF Break
  <2> HIDE DEF after
  <2> QED BY <1>0, <2>1, <2>2
<1> HIDE DEF after
<1>3. \A pair \in U :
        pair \in after.unmet <=> pair \notin after.broken /\ pair[2] \notin ToSet(after.out)
  BY <1>1 DEF ScanKept
<1>4. \A d \in objects : d \in after.queued <=> ~Waits(after.unmet, d)
  BY <1>1 DEF ScanKept, Waits
<1>5. \A pair \in after.broken : ~Bound(references, pair)
  BY <1>1 DEF ScanKept, Breakable
<1>6. ScanKept(objects, references, after)
  BY <1>1, <1>2, <1>3, <1>4, <1>5 DEF ScanKept
<1>7. n \in after.queued /\ n \notin ToSet(after.out)
  BY <1>0, <1>1 DEF ScanKept
<1> QED BY <1>1, <1>6, <1>7 DEF after


\* Objects each of which names another of them.
Blocks(some, pairs) == some # {} /\ \A n \in some : \E pair \in pairs : pair[1] = n /\ pair[2] \in some

\* No order is one for them: the first of them in it comes before what it names.
LEMMA NoOrder ==
    ASSUME NEW objects, Numbered(objects), NEW pairs,
           NEW some \in SUBSET objects, Blocks(some, pairs)
    PROVE  ~Orderable(objects, pairs)
<1> SUFFICES ASSUME NEW order \in SetToSeqs(objects),
                    \A pair \in pairs : Before(order, pair[2], pair[1])
             PROVE  FALSE
  BY DEF Orderable
<1>0. Cardinality(objects) \in Nat
  BY FS_CardinalityType DEF Numbered
<1> DEFINE D == 1..Cardinality(objects)
           At == {i \in D : order[i] \in some}
<1>1. order \in [D -> objects] /\ \A i, j \in D : i # j => order[i] # order[j]
  BY DEF SetToSeqs
<1>2. \A n \in some : \E pair \in pairs : pair[1] = n /\ pair[2] \in some
  BY DEF Blocks
<1>3. \A n \in some : \E i, j \in D : i < j /\ order[i] \in some /\ order[j] = n
  BY <1>1, <1>2 DEF Before
<1>4. PICK n : n \in some
  BY DEF Blocks
<1>5. At \in SUBSET Nat /\ At # {}
  BY <1>0, <1>3, <1>4
<1>6. PICK m \in At : \A i \in At : m <= i
  BY <1>5, LeastNatural
<1>7. PICK i, j \in D : i < j /\ order[i] \in some /\ order[j] = order[m]
  BY <1>3
<1>8. j = m /\ i \in At
  BY <1>1, <1>6, <1>7
<1> QED BY <1>0, <1>6, <1>7, <1>8

\* What is not queued when nothing is ready blocks itself; by schema-bound
\* references if a cycle can be broken nowhere.
LEMMA StuckBlocks ==
    ASSUME NEW objects, Numbered(objects), NEW references, NEW scan,
           ScanKept(objects, references, scan),
           scan.queued \ ToSet(scan.out) = {}, Len(scan.out) < Cardinality(objects)
    PROVE  LET left == objects \ scan.queued
               unmet == Unmet(objects, references)
           IN  /\ Blocks(left, unmet)
               /\ Breakable(objects, references, scan) = {} =>
                    Blocks(left, {pair \in unmet : Bound(references, pair)})
<1> DEFINE left == objects \ scan.queued
           unmet == Unmet(objects, references)
           n == Len(scan.out)
<1>1. /\ n \in Nat /\ scan.out \in [1..n -> ToSet(scan.out)] /\ scan.unmet \in SUBSET unmet
      /\ scan.out \in Seq(objects)
  BY LenProperties DEF ScanKept, ToSet
<1>2. left # {}
  <2> SUFFICES ASSUME left = {} PROVE FALSE
    OBVIOUS
  <2>1. ToSet(scan.out) = objects
    <3>1. ToSet(scan.out) \subseteq objects
      BY <1>1 DEF ToSet
    <3> QED BY <3>1
  <2>2. \A x \in objects : \E i \in 1..n : scan.out[i] = x
    BY <1>1, <2>1 DEF ToSet
  <2>3. scan.out \in [1..n -> objects]
    BY <1>1, <2>1
  <2>4. Cardinality(objects) <= n
    <3> HIDE DEF n
    <3> QED BY <1>1, <2>2, <2>3, ListsAll
  <2>5. Cardinality(objects) \in Nat
    BY FS_CardinalityType DEF Numbered
  <2> QED BY <1>1, <2>4, <2>5
<1>3. ASSUME NEW pair \in scan.unmet PROVE pair \in unmet /\ pair[2] \in left
  <2>1. pair \in unmet /\ pair[2] \in objects
    BY <1>1, UnmetPairs
  <2>2. pair[2] \notin ToSet(scan.out)
    BY <2>1, <1>3 DEF ScanKept
  <2> QED BY <2>1, <2>2
<1>4. ASSUME NEW d \in left PROVE \E pair \in scan.unmet : pair[1] = d
  BY DEF ScanKept, Waits
<1>5. Breakable(objects, references, scan) = {} =>
        \A d \in left : \E pair \in scan.unmet : pair[1] = d /\ Bound(references, pair)
  BY DEF Breakable
<1>6. Blocks(left, unmet)
  BY <1>2, <1>3, <1>4 DEF Blocks
<1>7. Breakable(objects, references, scan) = {} =>
        Blocks(left, {pair \in unmet : Bound(references, pair)})
  BY <1>2, <1>3, <1>5 DEF Blocks
<1> QED BY <1>6, <1>7

\* The scan after k turns: stuck, because the schema-bound references allow no
\* order, or with k objects written out; and something is let go of only where
\* no order of all there is exists.
ScanOf(objects, references, scan, k) ==
    LET unmet == Unmet(objects, references)
    IN  /\ ScanKept(objects, references, scan)
        /\ scan.stuck => ~Orderable(objects, {pair \in unmet : Bound(references, pair)})
        /\ ~scan.stuck => Len(scan.out) = k
        /\ Orderable(objects, unmet) => scan.broken = {}

LEMMA TurnKept ==
    ASSUME NEW objects, Numbered(objects), NEW references, NEW scan,
           ScanOf(objects, references, scan, Len(scan.out)),
           Len(scan.out) < Cardinality(objects), ~scan.stuck
    PROVE  ScanOf(objects, references, Turn(objects, references, scan), Len(scan.out) + 1)
<1> DEFINE unmet == Unmet(objects, references)
           ready == scan.queued \ ToSet(scan.out)
           breakable == Breakable(objects, references, scan)
           after == Turn(objects, references, scan)
<1>0. /\ scan \in [out : Seq(objects), queued : SUBSET objects, unmet : SUBSET unmet,
                   broken : SUBSET unmet, stuck : BOOLEAN]
      /\ breakable \subseteq objects /\ ready \subseteq objects /\ objects \subseteq Nat
  BY DEF ScanOf, ScanKept, Breakable, Numbered
<1>1. CASE ready # {}
  <2>1. Least(ready) \in scan.queued /\ Least(ready) \notin ToSet(scan.out)
    BY <1>0, <1>1, LeastIsOne
  <2>2. after = WriteOut(objects, scan, Least(ready))
    BY <1>1 DEF Turn
  <2>3. /\ ScanKept(objects, references, after)
        /\ after.out = Append(scan.out, Least(ready))
        /\ after.broken = scan.broken /\ after.stuck = scan.stuck
    <3>1. ScanKept(objects, references, scan)
      BY DEF ScanOf
    <3> HIDE DEF after, ready
    <3> QED BY <2>1, <2>2, <3>1, WriteOutKept
  <2>4. Len(after.out) = Len(scan.out) + 1
    BY <1>0, <1>1, <2>1, <2>3, AppendProperties
  <2> QED BY <2>3, <2>4 DEF ScanOf
<1>2. CASE ready = {} /\ breakable = {}
  <2>1. after = [scan EXCEPT !.stuck = TRUE]
    BY <1>2 DEF Turn
  <2>2. /\ after.out = scan.out /\ after.queued = scan.queued /\ after.unmet = scan.unmet
        /\ after.broken = scan.broken /\ after.stuck = TRUE
        /\ after \in [out : Seq(objects), queued : SUBSET objects, unmet : SUBSET unmet,
                      broken : SUBSET unmet, stuck : BOOLEAN]
    BY <1>0, <2>1
  <2>3. ScanKept(objects, references, after)
    BY <2>2 DEF ScanOf, ScanKept
  <2>4. Blocks(objects \ scan.queued, {pair \in unmet : Bound(references, pair)})
    BY <1>2, StuckBlocks DEF ScanOf
  <2>5. ~Orderable(objects, {pair \in unmet : Bound(references, pair)})
    BY <2>4, NoOrder
  <2> QED BY <2>2, <2>3, <2>5 DEF ScanOf
<1>3. CASE ready = {} /\ breakable # {}
  <2> DEFINE n == Least(breakable)
             broken == Break(scan, n)
  <2>1. n \in breakable /\ after = WriteOut(objects, broken, n)
    BY <1>0, <1>3, LeastIsOne DEF Turn
  <2>2. /\ ScanKept(objects, references, broken)
        /\ n \in broken.queued /\ n \notin ToSet(broken.out)
        /\ broken.out = scan.out /\ broken.stuck = scan.stuck
    BY <2>1, BreakKept DEF ScanOf
  <2> HIDE DEF broken
  <2>3. ScanKept(objects, references, after) /\ after.out = Append(scan.out, n) /\ ~after.stuck
    BY <2>1, <2>2, WriteOutKept
  <2>4. Len(after.out) = Len(scan.out) + 1
    BY <1>0, <2>1, <2>3, AppendProperties
  <2>5. Blocks(objects \ scan.queued, unmet)
    BY <1>3, StuckBlocks DEF ScanOf
  <2>6. ~Orderable(objects, unmet)
    BY <2>5, NoOrder
  <2> QED BY <2>3, <2>4, <2>6 DEF ScanOf
<1> QED BY <1>1, <1>2, <1>3

LEMMA ScansKept ==
    ASSUME NEW objects, Numbered(objects), NEW references
    PROVE  \A k \in 0..Cardinality(objects) :
             ScanOf(objects, references, Scans(objects, references)[k], k)
<1> DEFINE f == Scans(objects, references)
           N == Cardinality(objects)
           Good == {k \in Nat : k > N \/ ScanOf(objects, references, f[k], k)}
<1>0. N \in Nat
  BY FS_CardinalityType DEF Numbered
<1>1. 0 \in Good
  <2>1. f[0] = Begun(objects, references)
    BY ScanSteps
  <2>2. ScanKept(objects, references, f[0]) /\ f[0].out = <<>> /\ f[0].broken = {} /\ ~f[0].stuck
    BY <2>1, BegunKept DEF Begun
  <2>3. Len(<<>>) = 0
    OBVIOUS
  <2> HIDE DEF f
  <2> QED BY <2>2, <2>3 DEF ScanOf
<1>2. ASSUME NEW k \in Nat, k \in Good PROVE k + 1 \in Good
  <2>1. CASE k + 1 \in 0..N
    <3>1. f[k + 1] = IF f[k].stuck THEN f[k] ELSE Turn(objects, references, f[k])
      BY <2>1, ScanSteps
    <3>2. ScanOf(objects, references, f[k], k) /\ k < N
      BY <1>0, <1>2, <2>1
    <3> HIDE DEF f
    <3>3. CASE f[k].stuck
      BY <3>1, <3>2, <3>3 DEF ScanOf
    <3>4. CASE ~f[k].stuck
      <4>1. Len(f[k].out) = k
        BY <3>2, <3>4 DEF ScanOf
      <4> QED BY <3>1, <3>2, <3>4, <4>1, TurnKept
    <3> QED BY <3>3, <3>4
  <2>2. CASE k + 1 \notin 0..N
    BY <1>0, <2>2
  <2> QED BY <2>1, <2>2
<1>3. \A k \in Nat : k \in Good
  <2> HIDE DEF Good
  <2> QED BY <1>1, <1>2, NaturalInduction
<1> QED BY <1>0, <1>3

\* orderObjects: the order is one of all the objects, and of each after all it names.
LEMMA WholeOrder ==
    ASSUME NEW objects, Numbered(objects), NEW references, NEW scan,
           ScanOf(objects, references, scan, Cardinality(objects)), ~scan.stuck
    PROVE  /\ scan.out \in SetToSeqs(objects)
           /\ \A pair \in Unmet(objects, references) :
                pair \in scan.broken \/ Before(scan.out, pair[2], pair[1])
<1> DEFINE N == Cardinality(objects)
           D == 1..N
<1>0. N \in Nat /\ IsFiniteSet(D) /\ Cardinality(D) = N
  BY FS_CardinalityType, FS_Interval DEF Numbered
<1>1. /\ scan.out \in Seq(objects) /\ Len(scan.out) = N /\ DOMAIN scan.out = D
      /\ scan.out \in [D -> objects]
      /\ \A i, j \in D : scan.out[i] = scan.out[j] => i = j
  <2>1. scan.out \in Seq(objects) /\ Len(scan.out) = N
    BY DEF ScanOf, ScanKept
  <2>2. DOMAIN scan.out = D /\ scan.out \in [D -> objects]
    BY <2>1, LenProperties
  <2> QED BY <2>1, <2>2 DEF ScanOf, ScanKept
<1>2. scan.out \in SetToSeqs(objects)
  BY <1>1 DEF SetToSeqs
<1>3. \A x \in objects : \E i \in D : scan.out[i] = x
  <2>1. IsFiniteSet(objects)
    BY DEF Numbered
  <2> DEFINE f == scan.out
  <2>2. f \in [1..N -> objects] /\ \A i, j \in 1..N : f[i] = f[j] => i = j
    BY <1>1
  <2>3. N = Cardinality(objects)
    OBVIOUS
  <2> HIDE DEF f, N
  <2>4. \A x \in objects : \E i \in 1..N : f[i] = x
    BY <1>0, <2>1, <2>2, <2>3, ListsEach
  <2> QED BY <2>4 DEF f
<1>4. ASSUME NEW pair \in Unmet(objects, references), pair \notin scan.broken
      PROVE  Before(scan.out, pair[2], pair[1])
  <2>1. PICK i \in D : scan.out[i] = pair[1]
    BY <1>3, UnmetPairs
  <2>2. PICK j \in 1..(i - 1) : scan.out[j] = pair[2]
    BY <1>1, <1>4, <2>1 DEF ScanOf, ScanKept
  <2> QED BY <1>0, <1>1, <2>1, <2>2 DEF Before
<1> QED BY <1>2, <1>4

\* orderObjects, for any objects and any references among them and to others: what
\* it asks of its order, its giving up and its exceptions.
LEMMA ObjectsInOrder ==
    ASSUME NEW objects, Numbered(objects), NEW references
    PROVE  Ordered(objects, references) /\ GivesUpOnlyInNeed(objects, references)
<1> DEFINE scan == orderObjects(objects, references)
           unmet == Unmet(objects, references)
           bound == {pair \in unmet : Bound(references, pair)}
<1>1. ScanOf(objects, references, scan, Cardinality(objects))
  <2>1. Cardinality(objects) \in Nat
    BY FS_CardinalityType DEF Numbered
  <2> QED BY <2>1, ScansKept DEF orderObjects
<1> HIDE DEF scan
<1>2. ~scan.stuck =>
        /\ scan.out \in SetToSeqs(objects)
        /\ \A pair \in unmet : pair \in scan.broken \/ Before(scan.out, pair[2], pair[1])
  BY <1>1, WholeOrder
<1>3. \A pair \in scan.broken : ~Bound(references, pair)
  BY <1>1 DEF ScanOf, ScanKept
<1>4. Ordered(objects, references)
  BY <1>2, <1>3 DEF Ordered, scan
<1>5. ~scan.stuck => Orderable(objects, bound)
  BY <1>2, <1>3 DEF Orderable
<1>6. GivesUpOnlyInNeed(objects, references)
  BY <1>1, <1>5 DEF GivesUpOnlyInNeed, ScanOf, scan
<1> QED BY <1>4, <1>6

\* The same in the words of the runs.
THEOREM EveryObjectOrdered ==
    ASSUME input.of = "objects" => Numbered(input.objects)
    PROVE  ObjectsOrdered
BY ObjectsInOrder DEF ObjectsOrdered

-----------------------------------------------------------------------------
(* DatabaseScript: the script of a database's objects, and what an empty       *)
(* database makes of it.                                                       *)

ObjectKinds ==
    {"type", "table", "droppedTable", "function", "inlineFunction", "view",
     "procedure", "synonym"}

\* A database as its catalog lists it: any objects of any kinds, that name others and
\* histories of tables in any way the schema-bound references allow an order of.  A
\* table dropped since it was listed cannot be scripted; a history is not listed; and
\* nothing hangs on a history but permissions.
DatabaseAsListed(source) ==
    /\ Numbered(source.objects)
    /\ \A n \in source.objects :
         /\ source.kind[n] \in ObjectKinds
         /\ source.kind[n] = "droppedTable" => n \in source.hidden
    /\ source.references \in
         SUBSET [from : source.objects, to : source.objects \cup CreatedByParent(source),
                 bound : BOOLEAN]
    /\ {source.hidden, source.versioned, source.disabled, source.triggers} \subseteq
         SUBSET source.objects
    /\ CreatedByParent(source) \cap source.objects = {}
    /\ source.constraints \in SUBSET [on : source.objects, names : SUBSET source.objects]
    /\ source.grants \in SUBSET Nat
    /\ IsFiniteSet(source.constraints) /\ IsFiniteSet(source.grants)
    /\ Orderable(source.objects,
                 {pair \in Unmet(source.objects, source.references) :
                     Bound(source.references, pair)})

\* ListedTo is a recursive function, and there is one.
LEMMA ListedToExists ==
    ASSUME NEW S, IsFiniteSet(S)
    PROVE  ListedTo(S) =
             [k \in 0..Cardinality(S) |->
                IF k = 0 THEN [list |-> <<>>, left |-> S]
                ELSE Lists(ListedTo(S)[k - 1])]
<1> DEFINE Begin == [list |-> <<>>, left |-> S]
           Body(f, k) == IF k = 0 THEN Begin ELSE Lists(f[k - 1])
           Good == {m \in Nat : \E f : f = [k \in 0..m |-> Body(f, k)]}
<1> HIDE DEF Begin
<1>1. 0 \in Good
  <2> DEFINE f == [k \in 0..0 |-> Begin]
  <2>1. f = [k \in 0..0 |-> Body(f, k)]
    OBVIOUS
  <2> QED BY <2>1
<1>2. ASSUME NEW m \in Nat, m \in Good PROVE m + 1 \in Good
  <2>1. PICK f : f = [k \in 0..m |-> Body(f, k)]
    BY <1>2
  <2> DEFINE g == [k \in 0..(m + 1) |-> IF k \in 0..m THEN f[k] ELSE Body(f, k)]
  <2>2. ASSUME NEW k \in 0..(m + 1) PROVE g[k] = Body(g, k)
    <3>1. CASE k \in 0..m
      <4>1. f[k] = Body(f, k)
        BY <2>1, <3>1
      <4>2. k # 0 => k - 1 \in 0..m
        BY <3>1
      <4>3. k # 0 => g[k - 1] = f[k - 1]
        BY <4>2
      <4> QED BY <3>1, <4>1, <4>3
    <3>2. CASE k = m + 1
      <4>1. g[k - 1] = f[k - 1] /\ k \notin 0..m
        BY <3>2
      <4> QED BY <3>2, <4>1
    <3> QED BY <3>1, <3>2
  <2>3. g = [k \in 0..(m + 1) |-> Body(g, k)]
    <3> HIDE DEF Body
    <3> QED BY <2>2
  <2> HIDE DEF Body, g
  <2> QED BY <2>3
<1>3. \A m \in Nat : m \in Good
  <2> HIDE DEF Good
  <2> QED BY <1>1, <1>2, NaturalInduction
<1>4. \E f : f = [k \in 0..Cardinality(S) |-> Body(f, k)]
  BY <1>3, FS_CardinalityType
<1> QED BY <1>4 DEF ListedTo, Begin

LEMMA ListedToSteps ==
    ASSUME NEW S, IsFiniteSet(S)
    PROVE  /\ ListedTo(S)[0] = [list |-> <<>>, left |-> S]
           /\ \A k \in 1..Cardinality(S) :
                ListedTo(S)[k] =
                  Lists(ListedTo(S)[k - 1])
<1> DEFINE f == ListedTo(S)
           Begin == [list |-> <<>>, left |-> S]
<1> HIDE DEF Begin
<1>1. f = [k \in 0..Cardinality(S) |-> IF k = 0 THEN Begin ELSE Lists(f[k - 1])]
  BY ListedToExists DEF Begin
<1> HIDE DEF f
<1>2. 0 \in 0..Cardinality(S) /\ \A k \in 1..Cardinality(S) : k \in 0..Cardinality(S) /\ k # 0
  BY FS_CardinalityType
<1>3. f[0] = Begin /\ \A k \in 1..Cardinality(S) : f[k] = Lists(f[k - 1])
  BY <1>1, <1>2
<1> QED BY <1>3 DEF f, Begin

\* A list of a finite set's elements has them all.
LEMMA ListedLists ==
    ASSUME NEW S, IsFiniteSet(S)
    PROVE  Listed(S) \in Seq(S) /\ \A x \in S : \E i \in 1..Len(Listed(S)) : Listed(S)[i] = x
<1> DEFINE N == Cardinality(S)
           f == ListedTo(S)
           Lists0(sofar, k) ==
              /\ sofar.list \in Seq(S) /\ sofar.left \in SUBSET S
              /\ IsFiniteSet(sofar.left) /\ Cardinality(sofar.left) = N - k
              /\ \A x \in S : x \in sofar.left \/ \E i \in 1..Len(sofar.list) : sofar.list[i] = x
           Good == {k \in Nat : k > N \/ Lists0(f[k], k)}
<1>0. N \in Nat
  BY FS_CardinalityType
<1>1. f[0] = [list |-> <<>>, left |-> S] /\ \A k \in 1..N : f[k] = Lists(f[k - 1])
  BY ListedToSteps
<1> HIDE DEF f, N
<1>2. 0 \in Good
  <2>1. f[0].list = <<>> /\ f[0].left = S
    BY <1>1
  <2>2. <<>> \in Seq(S)
    OBVIOUS
  <2>3. Cardinality(S) = N /\ N - 0 = N
    BY <1>0 DEF N
  <2>4. Lists0(f[0], 0)
    BY <2>1, <2>2, <2>3
  <2> QED BY <2>4
<1>3. ASSUME NEW k \in Nat, k \in Good PROVE k + 1 \in Good
  <2>1. CASE k + 1 \in 1..N
    <3> DEFINE p == f[k]
               q == f[k + 1]
               x == CHOOSE y \in p.left : TRUE
    <3>1. Lists0(p, k)
      BY <1>0, <1>3, <2>1
    <3>2. q = Lists(p)
      <4>1. (k + 1) - 1 = k
        OBVIOUS
      <4> QED BY <1>1, <2>1, <4>1
    <3> HIDE DEF p, q
    <3>3. x \in p.left
      <4>1. p.left # {}
        BY <1>0, <2>1, <3>1, FS_EmptySet
      <4> QED BY <4>1
    <3>4. q.list = Append(p.list, x) /\ q.left = p.left \ {x}
      BY <3>2 DEF Lists
    <3> HIDE DEF x
    <3>5. IsFiniteSet(q.left) /\ Cardinality(q.left) = N - (k + 1)
      <4>1. IsFiniteSet(q.left) /\ Cardinality(q.left) = Cardinality(p.left) - 1
        BY <3>1, <3>3, <3>4, FS_RemoveElement
      <4> QED BY <1>0, <3>1, <4>1
    <3>6. /\ q.list \in Seq(S) /\ Len(q.list) = Len(p.list) + 1 /\ Len(p.list) \in Nat
          /\ \A i \in 1..Len(p.list) : q.list[i] = p.list[i]
          /\ q.list[Len(p.list) + 1] = x
      BY <3>1, <3>3, <3>4, AppendProperties, LenProperties
    <3>7. ASSUME NEW y \in S
          PROVE  y \in q.left \/ \E i \in 1..Len(q.list) : q.list[i] = y
      <4>1. CASE y = x
        BY <3>6, <4>1
      <4>2. CASE y # x
        <5>1. y \in p.left \/ \E i \in 1..Len(p.list) : p.list[i] = y
          BY <3>1
        <5> QED BY <3>4, <3>6, <4>2, <5>1
      <4> QED BY <4>1, <4>2
    <3>8. Lists0(q, k + 1)
      BY <3>1, <3>4, <3>5, <3>6, <3>7
    <3> QED BY <3>8 DEF q
  <2>2. CASE k + 1 \notin 1..N
    BY <1>0, <2>2
  <2> QED BY <2>1, <2>2
<1>4. \A k \in Nat : k \in Good
  <2> HIDE DEF Good
  <2> QED BY <1>2, <1>3, NaturalInduction
<1>5. Lists0(f[N], N)
  BY <1>0, <1>4
<1>6. f[N].left = {}
  <2>1. Cardinality(f[N].left) = 0
    BY <1>0, <1>5
  <2> QED BY <1>5, <2>1, FS_EmptySet
<1>7. f[N].list \in Seq(S) /\ \A x \in S : \E i \in 1..Len(f[N].list) : f[N].list[i] = x
  BY <1>5, <1>6
<1> QED BY <1>7 DEF Listed, f, N

\* What the loop starts from, and what the replay does.
NothingYet(source) ==
    [statements |-> <<>>, missing |-> DroppedWithParent(source), noted |-> {}, warned |-> {}]
EmptyDatabase == [there |-> {}, offline |-> {}, held |-> {}, refused |-> {}]

\* And so is ScriptedTo,
LEMMA ScriptedToExists ==
    ASSUME NEW source, NEW T, NEW queue \in Seq(T)
    PROVE  ScriptedTo(source, queue) =
             [k \in 0..Len(queue) |->
                IF k = 0 THEN NothingYet(source)
                ELSE Scripted(source, ScriptedTo(source, queue)[k - 1], queue[k])]
<1> DEFINE Begin == NothingYet(source)
           Body(f, k) == IF k = 0 THEN Begin ELSE Scripted(source, f[k - 1], queue[k])
           Good == {m \in Nat : \E f : f = [k \in 0..m |-> Body(f, k)]}
<1> HIDE DEF Begin
<1>1. 0 \in Good
  <2> DEFINE f == [k \in 0..0 |-> Begin]
  <2>1. f = [k \in 0..0 |-> Body(f, k)]
    OBVIOUS
  <2> QED BY <2>1
<1>2. ASSUME NEW m \in Nat, m \in Good PROVE m + 1 \in Good
  <2>1. PICK f : f = [k \in 0..m |-> Body(f, k)]
    BY <1>2
  <2> DEFINE g == [k \in 0..(m + 1) |-> IF k \in 0..m THEN f[k] ELSE Body(f, k)]
  <2>2. ASSUME NEW k \in 0..(m + 1) PROVE g[k] = Body(g, k)
    <3>1. CASE k \in 0..m
      <4>1. f[k] = Body(f, k)
        BY <2>1, <3>1
      <4>2. k # 0 => k - 1 \in 0..m
        BY <3>1
      <4>3. k # 0 => g[k - 1] = f[k - 1]
        BY <4>2
      <4> QED BY <3>1, <4>1, <4>3
    <3>2. CASE k = m + 1
      <4>1. g[k - 1] = f[k - 1] /\ k \notin 0..m
        BY <3>2
      <4> QED BY <3>2, <4>1
    <3> QED BY <3>1, <3>2
  <2>3. g = [k \in 0..(m + 1) |-> Body(g, k)]
    <3> HIDE DEF Body
    <3> QED BY <2>2
  <2> HIDE DEF Body, g
  <2> QED BY <2>3
<1>3. \A m \in Nat : m \in Good
  <2> HIDE DEF Good
  <2> QED BY <1>1, <1>2, NaturalInduction
<1>4. \E f : f = [k \in 0..Len(queue) |-> Body(f, k)]
  BY <1>3, LenProperties
<1> QED BY <1>4 DEF ScriptedTo, NothingYet, Begin

LEMMA ScriptedToSteps ==
    ASSUME NEW source, NEW T, NEW queue \in Seq(T)
    PROVE  /\ ScriptedTo(source, queue)[0] = NothingYet(source)
           /\ \A k \in 1..Len(queue) :
                ScriptedTo(source, queue)[k] =
                  Scripted(source, ScriptedTo(source, queue)[k - 1], queue[k])
<1> DEFINE f == ScriptedTo(source, queue)
           Begin == NothingYet(source)
<1> HIDE DEF Begin
<1>1. f = [k \in 0..Len(queue) |-> IF k = 0 THEN Begin ELSE Scripted(source, f[k - 1], queue[k])]
  BY ScriptedToExists DEF Begin
<1> HIDE DEF f
<1>2. 0 \in 0..Len(queue) /\ \A k \in 1..Len(queue) : k \in 0..Len(queue) /\ k # 0
  BY LenProperties
<1>3. f[0] = Begin /\ \A k \in 1..Len(queue) : f[k] = Scripted(source, f[k - 1], queue[k])
  BY <1>1, <1>2
<1> QED BY <1>3 DEF f, Begin

\* ReplayedTo,
LEMMA ReplayedToExists ==
    ASSUME NEW source, NEW T, NEW statements \in Seq(T)
    PROVE  ReplayedTo(source, statements) =
             [k \in 0..Len(statements) |->
                IF k = 0 THEN EmptyDatabase
                ELSE RunBatch(source, ReplayedTo(source, statements)[k - 1], statements[k])]
<1> DEFINE Begin == EmptyDatabase
           Body(f, k) == IF k = 0 THEN Begin ELSE RunBatch(source, f[k - 1], statements[k])
           Good == {m \in Nat : \E f : f = [k \in 0..m |-> Body(f, k)]}
<1> HIDE DEF Begin
<1>1. 0 \in Good
  <2> DEFINE f == [k \in 0..0 |-> Begin]
  <2>1. f = [k \in 0..0 |-> Body(f, k)]
    OBVIOUS
  <2> QED BY <2>1
<1>2. ASSUME NEW m \in Nat, m \in Good PROVE m + 1 \in Good
  <2>1. PICK f : f = [k \in 0..m |-> Body(f, k)]
    BY <1>2
  <2> DEFINE g == [k \in 0..(m + 1) |-> IF k \in 0..m THEN f[k] ELSE Body(f, k)]
  <2>2. ASSUME NEW k \in 0..(m + 1) PROVE g[k] = Body(g, k)
    <3>1. CASE k \in 0..m
      <4>1. f[k] = Body(f, k)
        BY <2>1, <3>1
      <4>2. k # 0 => k - 1 \in 0..m
        BY <3>1
      <4>3. k # 0 => g[k - 1] = f[k - 1]
        BY <4>2
      <4> QED BY <3>1, <4>1, <4>3
    <3>2. CASE k = m + 1
      <4>1. g[k - 1] = f[k - 1] /\ k \notin 0..m
        BY <3>2
      <4> QED BY <3>2, <4>1
    <3> QED BY <3>1, <3>2
  <2>3. g = [k \in 0..(m + 1) |-> Body(g, k)]
    <3> HIDE DEF Body
    <3> QED BY <2>2
  <2> HIDE DEF Body, g
  <2> QED BY <2>3
<1>3. \A m \in Nat : m \in Good
  <2> HIDE DEF Good
  <2> QED BY <1>1, <1>2, NaturalInduction
<1>4. \E f : f = [k \in 0..Len(statements) |-> Body(f, k)]
  BY <1>3, LenProperties
<1> QED BY <1>4 DEF ReplayedTo, EmptyDatabase, Begin

LEMMA ReplayedToSteps ==
    ASSUME NEW source, NEW T, NEW statements \in Seq(T)
    PROVE  /\ ReplayedTo(source, statements)[0] = EmptyDatabase
           /\ \A k \in 1..Len(statements) :
                ReplayedTo(source, statements)[k] =
                  RunBatch(source, ReplayedTo(source, statements)[k - 1], statements[k])
<1> DEFINE f == ReplayedTo(source, statements)
           Begin == EmptyDatabase
<1> HIDE DEF Begin
<1>1. f = [k \in 0..Len(statements) |-> IF k = 0 THEN Begin ELSE RunBatch(source, f[k - 1], statements[k])]
  BY ReplayedToExists DEF Begin
<1> HIDE DEF f
<1>2. 0 \in 0..Len(statements) /\ \A k \in 1..Len(statements) : k \in 0..Len(statements) /\ k # 0
  BY LenProperties
<1>3. f[0] = Begin /\ \A k \in 1..Len(statements) : f[k] = RunBatch(source, f[k - 1], statements[k])
  BY <1>1, <1>2
<1> QED BY <1>3 DEF f, Begin

\* and UnmakeableTo.
LEMMA UnmakeableToExists ==
    ASSUME NEW source, IsFiniteSet(source.objects)
    PROVE  UnmakeableTo(source) =
             [k \in 0..Cardinality(source.objects) |->
                IF k = 0 THEN source.hidden \cup DroppedWithParent(source)
                ELSE WantsOneOf(source, UnmakeableTo(source)[k - 1])]
<1> DEFINE Begin == source.hidden \cup DroppedWithParent(source)
           Body(f, k) == IF k = 0 THEN Begin ELSE WantsOneOf(source, f[k - 1])
           Good == {m \in Nat : \E f : f = [k \in 0..m |-> Body(f, k)]}
<1> HIDE DEF Begin
<1>1. 0 \in Good
  <2> DEFINE f == [k \in 0..0 |-> Begin]
  <2>1. f = [k \in 0..0 |-> Body(f, k)]
    OBVIOUS
  <2> QED BY <2>1
<1>2. ASSUME NEW m \in Nat, m \in Good PROVE m + 1 \in Good
  <2>1. PICK f : f = [k \in 0..m |-> Body(f, k)]
    BY <1>2
  <2> DEFINE g == [k \in 0..(m + 1) |-> IF k \in 0..m THEN f[k] ELSE Body(f, k)]
  <2>2. ASSUME NEW k \in 0..(m + 1) PROVE g[k] = Body(g, k)
    <3>1. CASE k \in 0..m
      <4>1. f[k] = Body(f, k)
        BY <2>1, <3>1
      <4>2. k # 0 => k - 1 \in 0..m
        BY <3>1
      <4>3. k # 0 => g[k - 1] = f[k - 1]
        BY <4>2
      <4> QED BY <3>1, <4>1, <4>3
    <3>2. CASE k = m + 1
      <4>1. g[k - 1] = f[k - 1] /\ k \notin 0..m
        BY <3>2
      <4> QED BY <3>2, <4>1
    <3> QED BY <3>1, <3>2
  <2>3. g = [k \in 0..(m + 1) |-> Body(g, k)]
    <3> HIDE DEF Body
    <3> QED BY <2>2
  <2> HIDE DEF Body, g
  <2> QED BY <2>3
<1>3. \A m \in Nat : m \in Good
  <2> HIDE DEF Good
  <2> QED BY <1>1, <1>2, NaturalInduction
<1>4. \E f : f = [k \in 0..Cardinality(source.objects) |-> Body(f, k)]
  BY <1>3, FS_CardinalityType
<1> QED BY <1>4 DEF UnmakeableTo, Begin

LEMMA UnmakeableToSteps ==
    ASSUME NEW source, IsFiniteSet(source.objects)
    PROVE  /\ UnmakeableTo(source)[0] = source.hidden \cup DroppedWithParent(source)
           /\ \A k \in 1..Cardinality(source.objects) :
                UnmakeableTo(source)[k] =
                  WantsOneOf(source, UnmakeableTo(source)[k - 1])
<1> DEFINE f == UnmakeableTo(source)
           Begin == source.hidden \cup DroppedWithParent(source)
<1> HIDE DEF Begin
<1>1. f = [k \in 0..Cardinality(source.objects) |-> IF k = 0 THEN Begin ELSE WantsOneOf(source, f[k - 1])]
  BY UnmakeableToExists DEF Begin
<1> HIDE DEF f
<1>2. 0 \in 0..Cardinality(source.objects) /\ \A k \in 1..Cardinality(source.objects) : k \in 0..Cardinality(source.objects) /\ k # 0
  BY FS_CardinalityType
<1>3. f[0] = Begin /\ \A k \in 1..Cardinality(source.objects) : f[k] = WantsOneOf(source, f[k - 1])
  BY <1>1, <1>2
<1> QED BY <1>3 DEF f, Begin

Batches ==
    [does : {"create", "disable", "constrain", "trigger", "grant"}, on : Nat, to : SUBSET Nat]
Replays ==
    [there : SUBSET Nat, offline : SUBSET Nat, held : SUBSET Batches, refused : SUBSET Batches]

\* A script of no statements leaves the database empty.
LEMMA NoBatches ==
    ASSUME NEW source
    PROVE  ReplayBatches(source, <<>>) = EmptyDatabase
<1> DEFINE none == <<>>
           any == {}
<1>1. none \in Seq(any) /\ Len(none) = 0
  OBVIOUS
<1> HIDE DEF none, any
<1>2. ReplayedTo(source, none)[0] = EmptyDatabase
  BY <1>1, ReplayedToSteps
<1> QED BY <1>1, <1>2 DEF ReplayBatches, none

\* A statement more runs on what those before it left.
LEMMA BatchesAppend ==
    ASSUME NEW source, NEW T, NEW script \in Seq(T), NEW s \in T
    PROVE  ReplayBatches(source, Append(script, s)) =
             RunBatch(source, ReplayBatches(source, script), s)
<1> DEFINE t == Append(script, s)
           N == Len(script)
           f == ReplayedTo(source, t)
           g == ReplayedTo(source, script)
           Good == {n \in Nat : n > N \/ f[n] = g[n]}
<1>0. /\ t \in Seq(T) /\ Len(t) = N + 1 /\ N \in Nat
      /\ \A n \in 1..N : t[n] = script[n]
      /\ t[N + 1] = s
  BY AppendProperties, LenProperties
<1> HIDE DEF t
<1>8. f[0] = EmptyDatabase /\ \A k \in 1..Len(t) : f[k] = RunBatch(source, f[k - 1], t[k])
  BY <1>0, ReplayedToSteps
<1>9. g[0] = EmptyDatabase /\ \A k \in 1..N : g[k] = RunBatch(source, g[k - 1], script[k])
  BY ReplayedToSteps
<1> HIDE DEF f, g
<1>1. 0 \in Good
  BY <1>8, <1>9
<1>2. ASSUME NEW n \in Nat, n \in Good PROVE n + 1 \in Good
  <2>1. CASE n + 1 \in 1..N
    <3>1. n + 1 \in 1..Len(t) /\ (n + 1) - 1 = n
      BY <1>0, <2>1
    <3>2. f[n] = g[n] /\ t[n + 1] = script[n + 1]
      BY <1>0, <1>2, <2>1
    <3>3. f[n + 1] = RunBatch(source, f[n], t[n + 1])
      BY <1>8, <3>1
    <3>4. g[n + 1] = RunBatch(source, g[n], script[n + 1])
      BY <1>9, <3>1, <2>1
    <3> QED BY <3>2, <3>3, <3>4
  <2>2. CASE n + 1 \notin 1..N
    BY <1>0, <2>2
  <2> QED BY <2>1, <2>2
<1>3. \A n \in Nat : n \in Good
  <2> HIDE DEF Good
  <2> QED BY <1>1, <1>2, NaturalInduction
<1>4. f[N] = g[N]
  BY <1>0, <1>3
<1>5. f[N + 1] = RunBatch(source, f[N], t[N + 1])
  <2>1. N + 1 \in 1..Len(t) /\ (N + 1) - 1 = N
    BY <1>0
  <2> QED BY <1>8, <2>1
<1>6. f[N + 1] = RunBatch(source, g[N], s)
  BY <1>0, <1>4, <1>5
<1> QED BY <1>0, <1>6 DEF ReplayBatches, f, g, t

\* What a database lists are numbers.
LEMMA DatabaseNumbers ==
    ASSUME NEW source, DatabaseAsListed(source)
    PROVE  /\ source.objects \in SUBSET Nat /\ IsFiniteSet(source.objects)
           /\ CreatedByParent(source) \in SUBSET Nat
           /\ DroppedWithParent(source) \in SUBSET CreatedByParent(source)
           /\ source.hidden \in SUBSET source.objects
           /\ source.versioned \in SUBSET source.objects
           /\ source.disabled \in SUBSET source.objects
           /\ source.triggers \in SUBSET source.objects
           /\ \A n : /\ Named(source, n, TRUE) \in SUBSET Nat
                     /\ Named(source, n, FALSE) \in SUBSET Nat
<1>1. source.objects \in SUBSET Nat /\ IsFiniteSet(source.objects)
  BY DEF DatabaseAsListed, Numbered
<1>2. /\ source.hidden \in SUBSET source.objects
      /\ source.versioned \in SUBSET source.objects
      /\ source.disabled \in SUBSET source.objects
      /\ source.triggers \in SUBSET source.objects
  BY DEF DatabaseAsListed
<1>3. CreatedByParent(source) \in SUBSET Nat
  BY <1>1, <1>2 DEF CreatedByParent, History
<1>4. DroppedWithParent(source) \in SUBSET CreatedByParent(source)
  BY DEF DroppedWithParent, CreatedByParent
<1>5. \A r \in source.references : r.to \in Nat
  BY <1>1, <1>3 DEF DatabaseAsListed
<1>6. \A n : /\ Named(source, n, TRUE) \in SUBSET Nat
             /\ Named(source, n, FALSE) \in SUBSET Nat
  BY <1>5 DEF Named
<1> QED BY <1>1, <1>2, <1>3, <1>4, <1>6

\* What a statement makes of a database, field by field.
BatchMakes(source, db, s, takes, after) ==
    /\ after \in Replays
    /\ after.refused = IF takes THEN db.refused ELSE db.refused \cup {s}
    /\ after.there =
         IF s.does = "create" /\ takes
         THEN db.there \cup {s.on} \cup {History(t) : t \in source.versioned \cap {s.on}}
         ELSE db.there
    /\ after.offline = IF s.does = "disable" /\ takes THEN db.offline \cup {s.on}
                       ELSE db.offline
    /\ after.held = IF s.does \in {"constrain", "trigger", "grant"} /\ takes
                    THEN db.held \cup {s} ELSE db.held

LEMMA RunBatchDoes ==
    ASSUME NEW source, DatabaseAsListed(source), NEW db \in Replays, NEW s \in Batches
    PROVE  BatchMakes(source, db, s, Accepts(source, db, s), RunBatch(source, db, s))
<1> DEFINE after == RunBatch(source, db, s)
           more == IF s.on \in source.versioned THEN {History(s.on)} ELSE {}
<1>1. s.on \in Nat /\ s.does \in {"create", "disable", "constrain", "trigger", "grant"}
  BY DEF Batches
<1>2. /\ more \in SUBSET Nat
      /\ {History(t) : t \in source.versioned \cap {s.on}} = more
  BY <1>1 DEF History
<1>3. CASE ~Accepts(source, db, s)
  <2>1. after = [db EXCEPT !.refused = @ \cup {s}]
    BY <1>3 DEF RunBatch
  <2> HIDE DEF after
  <2> QED BY <1>3, <2>1 DEF Replays, BatchMakes, after
<1>4. CASE Accepts(source, db, s)
  <2>1. CASE s.does = "create"
    <3>1. after = [db EXCEPT !.there = @ \cup {s.on} \cup more]
      BY <1>4, <2>1 DEF RunBatch
    <3> HIDE DEF after, more
    <3>2. /\ after.there = db.there \cup {s.on} \cup more
          /\ after.refused = db.refused /\ after.offline = db.offline /\ after.held = db.held
          /\ after \in Replays
      BY <1>1, <1>2, <3>1 DEF Replays
    <3> QED BY <1>2, <1>4, <2>1, <3>2 DEF BatchMakes, after
  <2>2. CASE s.does = "disable"
    <3>1. after = [db EXCEPT !.offline = @ \cup {s.on}]
      BY <1>4, <2>2 DEF RunBatch
    <3> HIDE DEF after
    <3>2. /\ after.offline = db.offline \cup {s.on}
          /\ after.refused = db.refused /\ after.there = db.there /\ after.held = db.held
          /\ after \in Replays
      BY <1>1, <3>1 DEF Replays
    <3> QED BY <1>4, <2>2, <3>2 DEF BatchMakes, after
  <2>3. CASE s.does \in {"constrain", "trigger", "grant"}
    <3>1. after = [db EXCEPT !.held = @ \cup {s}]
      BY <1>4, <2>3 DEF RunBatch
    <3> HIDE DEF after
    <3>2. /\ after.held = db.held \cup {s}
          /\ after.refused = db.refused /\ after.there = db.there /\ after.offline = db.offline
          /\ after \in Replays
      BY <1>1, <3>1 DEF Replays
    <3> QED BY <1>4, <2>3, <3>2 DEF BatchMakes, after
  <2> QED BY <1>1, <2>1, <2>2, <2>3
<1> QED BY <1>3, <1>4

\* The order of the objects: each once, after all it names but over a broken cycle.
InOrderAre(source, order, broken) ==
    /\ order \in Seq(source.objects)
    /\ \A i, j \in 1..Len(order) : order[i] = order[j] => i = j
    /\ \A n \in source.objects : \E i \in 1..Len(order) : order[i] = n
    /\ \A i \in 1..Len(order), r \in source.references :
         r.from = order[i] /\ r.to # r.from /\ r.to \in source.objects =>
            \/ <<r.from, r.to>> \in broken
            \/ \E j \in 1..(i - 1) : order[j] = r.to

LEMMA DatabaseInOrder ==
    ASSUME NEW source, DatabaseAsListed(source)
    PROVE  LET scan == orderObjects(source.objects, source.references)
           IN  /\ InOrderAre(source, scan.out, scan.broken)
               /\ Len(scan.out) = Cardinality(source.objects)
<1> DEFINE objects == source.objects
           references == source.references
           scan == orderObjects(objects, references)
           N == Cardinality(objects)
<1>0. Numbered(objects) /\ IsFiniteSet(objects) /\ N \in Nat
  BY FS_CardinalityType DEF DatabaseAsListed, Numbered
<1>1. ScanOf(objects, references, scan, N)
  BY <1>0, ScansKept DEF orderObjects
<1>2. ~scan.stuck
  BY <1>0, ObjectsInOrder DEF GivesUpOnlyInNeed, DatabaseAsListed
<1> DEFINE out == scan.out
<1>3. /\ out \in Seq(objects) /\ Len(out) = N /\ DOMAIN out = 1..N
      /\ \A i, j \in 1..N : out[i] = out[j] => i = j
  <2>1. scan.out \in Seq(objects) /\ Len(scan.out) = N
    BY <1>1, <1>2 DEF ScanOf, ScanKept
  <2>2. DOMAIN scan.out = 1..N
    BY <2>1, LenProperties
  <2> QED BY <1>1, <2>1, <2>2 DEF ScanOf, ScanKept
<1>4. \A n \in objects : \E i \in 1..N : out[i] = n
  <2>1. out \in [1..N -> objects]
    BY <1>3, LenProperties
  <2>2. N = Cardinality(objects)
    OBVIOUS
  <2> HIDE DEF out, N
  <2> QED BY <1>0, <1>3, <2>1, <2>2, ListsEach
<1>5. ASSUME NEW i \in 1..N, NEW r \in references,
             r.from = out[i], r.to # r.from, r.to \in objects
      PROVE  <<r.from, r.to>> \in scan.broken \/ \E j \in 1..(i - 1) : out[j] = r.to
  <2> DEFINE pair == <<r.from, r.to>>
  <2>1. pair[1] = out[i] /\ pair[2] = r.to
    BY <1>5
  <2>2. pair \in Unmet(objects, references)
    <3>1. out[i] \in objects
      BY <1>3, ElementOfSeq
    <3> QED BY <1>5, <3>1 DEF Unmet
  <2> HIDE DEF pair
  <2>3. pair \in scan.broken \/ \E j \in 1..(i - 1) : out[j] = pair[2]
    BY <1>1, <1>3, <2>1, <2>2 DEF ScanOf, ScanKept
  <2> QED BY <2>1, <2>3 DEF pair
<1> DEFINE broken == scan.broken
<1>6. \A i \in 1..N, r \in references :
         r.from = out[i] /\ r.to # r.from /\ r.to \in objects =>
            <<r.from, r.to>> \in broken \/ \E j \in 1..(i - 1) : out[j] = r.to
  BY <1>5
<1> HIDE DEF out, broken, N
<1>7. InOrderAre(source, out, broken)
  BY <1>3, <1>4, <1>6 DEF InOrderAre
<1> QED BY <1>3, <1>7 DEF out, broken, N

Entries ==
    [does : {"create", "constrain", "trigger"}, on : Nat, to : SUBSET Nat,
     needs : SUBSET Nat, late : SUBSET Nat]

\* The entry of an object, and those of the rest.
Creation(source, n) ==
    Entry("create", n, {}, Named(source, n, TRUE), Named(source, n, FALSE))
ConstraintEntries(source) ==
    {Entry("constrain", c.on, c.names, {c.on} \cup c.names, {}) : c \in source.constraints}
TriggerEntries(source) == {Entry("trigger", t, {}, {t}, {}) : t \in source.triggers}

\* The queue: the objects in their order, then each of the rest.
QueueIs(source, order, queue) ==
    LET n == Len(order)
        rest == ConstraintEntries(source) \cup TriggerEntries(source)
    IN  /\ queue \in Seq(Entries) /\ n <= Len(queue)
        /\ \A i \in 1..n : queue[i] = Creation(source, order[i])
        /\ \A i \in (n + 1)..Len(queue) : queue[i] \in rest
        /\ \A e \in rest : \E i \in (n + 1)..Len(queue) : queue[i] = e

LEMMA QueueHas ==
    ASSUME NEW source, DatabaseAsListed(source), NEW order \in Seq(source.objects)
    PROVE  QueueIs(source, order, Queue(source, order))
<1> DEFINE n == Len(order)
           C == ConstraintEntries(source)
           T == TriggerEntries(source)
           a == [i \in DOMAIN order |-> Creation(source, order[i])]
           b == Listed(C)
           c == Listed(T)
           ab == a \o b
           abc == ab \o c
<1>0. Queue(source, order) = abc
  BY DEF Queue, Creation, ConstraintEntries, TriggerEntries
<1>1. n \in Nat /\ DOMAIN order = 1..n /\ \A i \in 1..n : order[i] \in source.objects
  BY LenProperties, ElementOfSeq
<1>2. C \in SUBSET Entries /\ IsFiniteSet(C)
  <2> DEFINE e(x) == Entry("constrain", x.on, x.names, {x.on} \cup x.names, {})
             f == [x \in source.constraints |-> e(x)]
  <2>0. C = {e(x) : x \in source.constraints}
    BY DEF ConstraintEntries
  <2>1. ASSUME NEW x \in source.constraints PROVE e(x) \in Entries
    <3>1. x.on \in source.objects /\ x.names \in SUBSET source.objects
      BY DEF DatabaseAsListed
    <3>2. source.objects \in SUBSET Nat
      BY DatabaseNumbers
    <3> QED BY <3>1, <3>2 DEF Entry, Entries
  <2>6. C \in SUBSET Entries
    BY <2>0, <2>1
  <2>2. IsFiniteSet(source.constraints)
    BY DEF DatabaseAsListed
  <2> HIDE DEF C
  <2>3. C = {f[x] : x \in source.constraints} /\ DOMAIN f = source.constraints
    BY <2>0
  <2> HIDE DEF f
  <2>4. IsFiniteSet(C)
    BY <2>2, <2>3, ImageFinite
  <2> QED BY <2>4, <2>6
<1>3. T \in SUBSET Entries /\ IsFiniteSet(T)
  <2> DEFINE e(x) == Entry("trigger", x, {}, {x}, {})
             f == [x \in source.triggers |-> e(x)]
  <2>0. T = {e(x) : x \in source.triggers}
    BY DEF TriggerEntries
  <2>5. /\ source.triggers \in SUBSET source.objects /\ source.objects \in SUBSET Nat
        /\ IsFiniteSet(source.objects)
    BY DatabaseNumbers
  <2>1. ASSUME NEW x \in source.triggers PROVE e(x) \in Entries
    BY <2>5 DEF Entry, Entries
  <2>6. T \in SUBSET Entries
    BY <2>0, <2>1
  <2>2. IsFiniteSet(source.triggers)
    BY <2>5, FS_Subset
  <2> HIDE DEF T
  <2>3. T = {f[x] : x \in source.triggers} /\ DOMAIN f = source.triggers
    BY <2>0
  <2> HIDE DEF f
  <2>4. IsFiniteSet(T)
    BY <2>2, <2>3, ImageFinite
  <2> QED BY <2>4, <2>6
<1> HIDE DEF C, T
<1>4. /\ b \in Seq(Entries) /\ \A x \in C : \E i \in 1..Len(b) : b[i] = x
      /\ \A i \in 1..Len(b) : b[i] \in C
  <2>1. b \in Seq(C) /\ \A x \in C : \E i \in 1..Len(b) : b[i] = x
    BY <1>2, ListedLists
  <2> HIDE DEF b
  <2> QED BY <1>2, <2>1, ElementOfSeq
<1>5. /\ c \in Seq(Entries) /\ \A x \in T : \E i \in 1..Len(c) : c[i] = x
      /\ \A i \in 1..Len(c) : c[i] \in T
  <2>1. c \in Seq(T) /\ \A x \in T : \E i \in 1..Len(c) : c[i] = x
    BY <1>3, ListedLists
  <2> HIDE DEF c
  <2> QED BY <1>3, <2>1, ElementOfSeq
<1>6. /\ a \in Seq(Entries) /\ Len(a) = n
      /\ \A i \in 1..n : a[i] = Creation(source, order[i])
  <2>1. \A i \in 1..n : Creation(source, order[i]) \in Entries
    BY <1>1, DatabaseNumbers DEF Creation, Entry, Entries
  <2>2. a = [i \in 1..n |-> Creation(source, order[i])]
    BY <1>1
  <2> HIDE DEF a
  <2> QED BY <1>1, <2>1, <2>2
<1> HIDE DEF a, b, c
<1> DEFINE l == Len(b)
           m == Len(c)
<1>7. /\ ab \in Seq(Entries) /\ Len(ab) = n + l /\ l \in Nat
      /\ \A i \in 1..(n + l) : ab[i] = IF i <= n THEN a[i] ELSE b[i - n]
  <2>1. a \in Seq(Entries) /\ b \in Seq(Entries) /\ Len(a) = n /\ l \in Nat
    BY <1>4, <1>6, LenProperties
  <2> HIDE DEF n
  <2> QED BY <2>1, ConcatProperties
<1> HIDE DEF ab
<1>8. /\ abc \in Seq(Entries) /\ Len(abc) = (n + l) + m /\ m \in Nat
      /\ \A i \in 1..((n + l) + m) : abc[i] = IF i <= n + l THEN ab[i] ELSE c[i - (n + l)]
  <2> DEFINE k == n + l
  <2>1. ab \in Seq(Entries) /\ c \in Seq(Entries) /\ Len(ab) = k /\ m \in Nat
    BY <1>5, <1>7, LenProperties
  <2> HIDE DEF k
  <2>2. /\ ab \o c \in Seq(Entries) /\ Len(ab \o c) = k + m
        /\ \A i \in 1..(k + m) : (ab \o c)[i] = IF i <= k THEN ab[i] ELSE c[i - k]
    BY <2>1, ConcatProperties
  <2> QED BY <2>1, <2>2 DEF k
<1> HIDE DEF abc, l, m
<1>9. \A i \in 1..n : abc[i] = Creation(source, order[i])
  <2>1. SUFFICES ASSUME NEW i \in 1..n PROVE abc[i] = Creation(source, order[i])
    OBVIOUS
  <2>2. i \in 1..((n + l) + m) /\ i <= n + l /\ i \in 1..(n + l) /\ i <= n
    BY <1>1, <1>7, <1>8
  <2>3. abc[i] = ab[i] /\ ab[i] = a[i]
    BY <1>7, <1>8, <2>2
  <2> QED BY <1>6, <2>3
<1>10. ASSUME NEW i \in (n + 1)..((n + l) + m) PROVE abc[i] \in C \cup T
  <2>1. CASE i <= n + l
    <3>1. abc[i] = b[i - n] /\ i - n \in 1..l
      BY <1>1, <1>7, <1>8, <2>1
    <3> QED BY <1>4, <3>1 DEF l
  <2>2. CASE ~(i <= n + l)
    <3>1. abc[i] = c[i - (n + l)] /\ i - (n + l) \in 1..m
      BY <1>1, <1>7, <1>8, <2>2
    <3> QED BY <1>5, <3>1 DEF m
  <2> QED BY <2>1, <2>2
<1>11. ASSUME NEW e \in C \cup T PROVE \E i \in (n + 1)..((n + l) + m) : abc[i] = e
  <2>1. CASE e \in C
    <3>1. PICK j \in 1..l : b[j] = e
      BY <1>4, <2>1 DEF l
    <3>2. n + j \in (n + 1)..((n + l) + m) /\ abc[n + j] = b[j]
      <4>1. n + j \in 1..(n + l) /\ ~(n + j <= n) /\ (n + j) - n = j
        BY <1>1, <1>7, <3>1
      <4> QED BY <1>1, <1>7, <1>8, <4>1
    <3> QED BY <3>1, <3>2
  <2>2. CASE e \in T
    <3>1. PICK j \in 1..m : c[j] = e
      BY <1>5, <2>2 DEF m
    <3>2. (n + l) + j \in (n + 1)..((n + l) + m) /\ abc[(n + l) + j] = c[j]
      <4>1. /\ (n + l) + j \in 1..((n + l) + m) /\ ~((n + l) + j <= n + l)
            /\ ((n + l) + j) - (n + l) = j /\ (n + l) + j \in (n + 1)..((n + l) + m)
        BY <1>1, <1>7, <1>8, <3>1
      <4> QED BY <1>8, <4>1
    <3> QED BY <3>1, <3>2
  <2> QED BY <2>1, <2>2
<1>12. n <= (n + l) + m
  BY <1>1, <1>7, <1>8
<1> QED BY <1>0, <1>8, <1>9, <1>10, <1>11, <1>12 DEF QueueIs, C, T

ScriptsSoFar ==
    [statements : Seq(Batches), missing : SUBSET Nat, noted : SUBSET Nat,
     warned : SUBSET (Nat \X Nat)]

\* Whether an entry becomes a note, and what its statements make of a database.
IsLeftOut(source, missing, e) ==
    e.needs \cap missing # {} \/ (e.does = "create" /\ e.on \in source.hidden)
EntryRuns(source, db, e) ==
    LET made == RunBatch(source, db, Batch(e.does, e.on, e.to))
    IN  IF e.does = "create" /\ e.on \in source.disabled
        THEN RunBatch(source, made, Batch("disable", e.on, {}))
        ELSE made

LEMMA EntryBatches ==
    ASSUME NEW e \in Entries
    PROVE  Batch(e.does, e.on, e.to) \in Batches /\ Batch("disable", e.on, {}) \in Batches
BY DEF Entries, Batch, Batches

\* One turn of scriptQueue, and what is replayed of it.
TurnMakes(source, q, e, out, noted, after, db, then) ==
    /\ after \in ScriptsSoFar
    /\ after.noted = q.noted \cup noted
    /\ after.missing = q.missing \cup noted
    /\ after.warned = IF out THEN q.warned
                      ELSE q.warned \cup {<<e.on, k>> : k \in e.late \cap q.missing}
    /\ then = IF out THEN db ELSE EntryRuns(source, db, e)

LEMMA TurnDoes ==
    ASSUME NEW source, DatabaseAsListed(source), NEW q \in ScriptsSoFar, NEW e \in Entries
    PROVE  LET after == Scripted(source, q, e)
               db == ReplayBatches(source, q.statements)
               out == IsLeftOut(source, q.missing, e)
               noted == IF out /\ e.does = "create" THEN {e.on} ELSE {}
           IN  TurnMakes(source, q, e, out, noted, after, db,
                         ReplayBatches(source, after.statements))
<1> DEFINE after == Scripted(source, q, e)
           db == ReplayBatches(source, q.statements)
           out == IsLeftOut(source, q.missing, e)
           noted == IF out /\ e.does = "create" THEN {e.on} ELSE {}
           b == Batch(e.does, e.on, e.to)
           d == Batch("disable", e.on, {})
           disables == e.does = "create" /\ e.on \in source.disabled
           warns == {<<e.on, k>> : k \in e.late \cap q.missing}
<1>0. /\ q.statements \in Seq(Batches) /\ q.missing \in SUBSET Nat /\ q.noted \in SUBSET Nat
      /\ q.warned \in SUBSET (Nat \X Nat)
      /\ e.on \in Nat /\ e.late \in SUBSET Nat
  BY DEF ScriptsSoFar, Entries
<1>1. b \in Batches /\ d \in Batches
  BY EntryBatches
<1>2. CASE out
  <2>1. CASE e.does = "create"
    <3>1. after = [q EXCEPT !.noted = @ \cup {e.on}, !.missing = @ \cup {e.on}]
      BY <1>2, <2>1 DEF Scripted, IsLeftOut
    <3>2. noted = {e.on}
      BY <1>2, <2>1
    <3> HIDE DEF after, noted, out
    <3>3. /\ after.noted = q.noted \cup {e.on} /\ after.missing = q.missing \cup {e.on}
          /\ after.warned = q.warned /\ after.statements = q.statements
          /\ after \in ScriptsSoFar
      BY <1>0, <3>1 DEF ScriptsSoFar
    <3> QED BY <1>2, <3>2, <3>3 DEF TurnMakes, after, noted, out
  <2>2. CASE e.does # "create"
    <3>1. after = q
      BY <1>2, <2>2 DEF Scripted, IsLeftOut
    <3>2. noted = {}
      BY <2>2
    <3> HIDE DEF after, noted, out
    <3> QED BY <1>2, <3>1, <3>2 DEF TurnMakes, after, noted, out
  <2> QED BY <2>1, <2>2
<1>3. CASE ~out
  <2> DEFINE more == IF disables THEN <<d>> ELSE <<>>
             with == Append(q.statements, b)
             all == IF disables THEN Append(with, d) ELSE with
  <2>1. after = [q EXCEPT !.statements = @ \o <<b>> \o more, !.warned = @ \cup warns]
    BY <1>3 DEF Scripted, IsLeftOut
  <2>2. with \in Seq(Batches) /\ all \in Seq(Batches)
    BY <1>0, <1>1
  <2>3. q.statements \o <<b>> = with
    BY <1>0, <1>1, AppendIsConcat
  <2>4. with \o more = all
    <3>1. with \o <<d>> = Append(with, d)
      <4> HIDE DEF with
      <4> QED BY <1>1, <2>2, AppendIsConcat
    <3>2. with \o <<>> = with
      <4> HIDE DEF with
      <4> QED BY <2>2, ConcatEmptySeq
    <3> QED BY <3>1, <3>2
  <2>5. /\ ReplayBatches(source, with) = RunBatch(source, db, b)
        /\ disables => ReplayBatches(source, all) = RunBatch(source, RunBatch(source, db, b), d)
    <3>1. ReplayBatches(source, with) = RunBatch(source, db, b)
      BY <1>0, <1>1, BatchesAppend
    <3>2. ReplayBatches(source, Append(with, d)) = RunBatch(source, ReplayBatches(source, with), d)
      <4> HIDE DEF with
      <4> QED BY <1>1, <2>2, BatchesAppend
    <3> QED BY <3>1, <3>2
  <2>6. ReplayBatches(source, all) = EntryRuns(source, db, e)
    BY <2>5 DEF EntryRuns
  <2>7. warns \in SUBSET (Nat \X Nat) /\ noted = {}
    BY <1>0, <1>3
  <2> HIDE DEF after, warns, more, with, all, b, out, noted
  <2>8. /\ after.noted = q.noted /\ after.missing = q.missing
        /\ after.warned = q.warned \cup warns /\ after.statements = all
        /\ after \in ScriptsSoFar
    BY <1>0, <2>1, <2>2, <2>3, <2>4, <2>7 DEF ScriptsSoFar
  <2> QED BY <1>3, <2>6, <2>7, <2>8 DEF TurnMakes, after, warns, out, noted
<1> QED BY <1>2, <1>3

-----------------------------------------------------------------------------
(* What an empty database refuses of the script.                               *)

\* The objects whose creation was refused, and all that is not there for it.
Lost(refused) == {s.on : s \in {x \in refused : x.does = "create"}}
Absent(source, refused) ==
    Lost(refused) \cup {History(t) : t \in Lost(refused) \cap source.versioned}

Excused(source, broken, stranded, refused, s) ==
    IF s.does = "create"
    THEN \E r \in source.references :
           r.from = s.on /\ (r.to \in Lost(refused) \/ Overlooked(source, broken, r))
    ELSE \/ ({s.on} \cup s.to) \cap Absent(source, refused) # {}
         \/ s.does = "grant" /\ s.on \in stranded
         \/ s.does = "constrain" /\ s.on \in source.disabled

\* So far only what is excused was refused, only indexes that are to be disabled were,
\* and every table has its history; and each of the first k objects was left out,
\* created or refused.
Accepted(source, broken, stranded, db) ==
    /\ db.offline \subseteq source.disabled
    /\ \A t \in source.versioned \cap db.there : History(t) \in db.there
    /\ \A s \in db.refused : Excused(source, broken, stranded, db.refused, s)
Tried(order, k, missing, db) ==
    \A i \in 1..Len(order) : i <= k => order[i] \in missing \cup db.there \cup Lost(db.refused)

LEMMA ExcusedStill ==
    ASSUME NEW source, NEW broken, NEW stranded, NEW refused, NEW more, refused \subseteq more,
           NEW s, Excused(source, broken, stranded, refused, s)
    PROVE  Excused(source, broken, stranded, more, s)
<1>1. Lost(refused) \subseteq Lost(more) /\ Absent(source, refused) \subseteq Absent(source, more)
  BY DEF Lost, Absent
<1> QED BY <1>1 DEF Excused

\* A statement keeps it so, if there is an excuse should it be refused.
LEMMA BatchAccepted ==
    ASSUME NEW source, DatabaseAsListed(source), NEW broken, NEW stranded, NEW db \in Replays, NEW s \in Batches,
           Accepted(source, broken, stranded, db),
           ~Accepts(source, db, s) => Excused(source, broken, stranded, db.refused \cup {s}, s),
           s.does = "disable" => s.on \in source.disabled
    PROVE  LET after == RunBatch(source, db, s)
           IN  /\ after \in Replays /\ Accepted(source, broken, stranded, after)
               /\ db.there \subseteq after.there
               /\ Lost(db.refused) \subseteq Lost(after.refused)
               /\ s.does = "create" => s.on \in after.there \cup Lost(after.refused)
<1> DEFINE after == RunBatch(source, db, s)
           takes == Accepts(source, db, s)
<1>1. /\ after \in Replays
      /\ after.refused = IF takes THEN db.refused ELSE db.refused \cup {s}
      /\ db.there \subseteq after.there
      /\ s.does = "create" /\ takes => s.on \in after.there
      /\ after.offline = IF s.does = "disable" /\ takes
                         THEN db.offline \cup {s.on} ELSE db.offline
      /\ after.there \in {db.there,
           db.there \cup {s.on} \cup {History(t) : t \in source.versioned \cap {s.on}}}
  <2>1. BatchMakes(source, db, s, takes, after)
    BY RunBatchDoes
  <2> HIDE DEF after, takes
  <2> QED BY <2>1 DEF BatchMakes
<1> HIDE DEF after, takes
<1>2. db.refused \subseteq after.refused /\ Lost(db.refused) \subseteq Lost(after.refused)
  BY <1>1 DEF Lost
<1>3. after.offline \subseteq source.disabled
  BY <1>1 DEF Accepted
<1>4. ASSUME NEW x \in after.refused PROVE Excused(source, broken, stranded, after.refused, x)
  <2>1. CASE x \in db.refused
    <3>1. Excused(source, broken, stranded, db.refused, x)
      BY <2>1 DEF Accepted
    <3> QED BY <1>2, <3>1, ExcusedStill
  <2>2. CASE x \notin db.refused
    BY <1>1, <1>4, <2>2 DEF takes
  <2> QED BY <2>1, <2>2
<1>5. s.does = "create" => s.on \in after.there \cup Lost(after.refused)
  BY <1>1 DEF Lost
<1>6. ASSUME NEW t \in source.versioned \cap after.there PROVE History(t) \in after.there
  <2>1. t \in db.there => History(t) \in db.there
    BY DEF Accepted
  <2>2. t \notin CreatedByParent(source)
    BY DEF DatabaseAsListed
  <2>3. t \in db.there \/ t = s.on
    BY <1>1, <2>2 DEF CreatedByParent
  <2> QED BY <1>1, <2>1, <2>3
<1> QED BY <1>1, <1>2, <1>3, <1>4, <1>5, <1>6 DEF Accepted, after

\* What the server resolves as it creates an object is among what the script needs.
LEMMA UnresolvedNeeded ==
    ASSUME NEW source, DatabaseAsListed(source), NEW there, NEW n \in source.objects,
           NEW r \in Unresolved(source, there, n)
    PROVE  /\ r \in source.references /\ r.from = n /\ r.to # n
           /\ r.to \in source.objects \cup CreatedByParent(source)
           /\ r.to \in Named(source, n, TRUE)
           /\ ~Resolves(source, there, r.to)
<1>1. /\ r \in source.references /\ r.from = n /\ r.to # n
      /\ ~Resolves(source, there, r.to)
      /\ r.bound \/ source.kind[n] \in {"type", "table", "view", "inlineFunction"}
           \/ IsType(source, r.to)
  BY DEF Unresolved
<1>2. r.to \in source.objects \cup CreatedByParent(source) /\ r.bound \in BOOLEAN
  BY <1>1 DEF DatabaseAsListed
<1>3. source.kind[n] \in {"type", "table", "view", "inlineFunction"} => ~Late(source, n)
  BY DEF Late
<1>4. r.bound \/ ~Late(source, n) \/ IsType(source, r.to)
  BY <1>1, <1>3
<1>5. r.to \in Named(source, n, TRUE)
  BY <1>1, <1>4 DEF Named
<1> QED BY <1>1, <1>2, <1>5

\* The creation of the next object has an excuse, if it is refused.
LEMMA CreationExcused ==
    ASSUME NEW source, DatabaseAsListed(source), NEW order, NEW broken, NEW stranded,
           InOrderAre(source, order, broken), NEW k \in 1..Len(order),
           NEW missing, NEW db \in Replays, Tried(order, k - 1, missing, db),
           Named(source, order[k], TRUE) \cap missing = {},
           NEW s, s.does = "create", s.on = order[k], ~Accepts(source, db, s)
    PROVE  Excused(source, broken, stranded, db.refused \cup {s}, s)
<1> DEFINE n == order[k]
<1>0. n \in source.objects /\ Len(order) \in Nat
  BY ElementOfSeq, LenProperties DEF InOrderAre
<1>1. PICK r \in Unresolved(source, db.there, n) : TRUE
  BY DEF Accepts
<1>2. /\ r \in source.references /\ r.from = n /\ r.to # n
      /\ r.to \in source.objects \cup CreatedByParent(source)
      /\ r.to \in Named(source, n, TRUE)
      /\ ~Resolves(source, db.there, r.to)
  BY <1>0, <1>1, UnresolvedNeeded
<1>3. CASE r.to \in CreatedByParent(source)
  BY <1>2, <1>3 DEF Excused, Overlooked
<1>4. CASE r.to \in source.objects /\ r.to \notin db.there
  <2>1. CASE <<r.from, r.to>> \in broken
    BY <1>2, <2>1 DEF Excused, Overlooked
  <2>2. CASE \E j \in 1..(k - 1) : order[j] = r.to
    <3>1. PICK j \in 1..(k - 1) : order[j] = r.to
      BY <2>2
    <3>2. r.to \in missing \cup db.there \cup Lost(db.refused)
      BY <1>0, <3>1 DEF Tried
    <3>3. r.to \in Lost(db.refused)
      BY <1>2, <1>4, <3>2
    <3>4. r.to \in Lost(db.refused \cup {s})
      BY <3>3 DEF Lost
    <3> QED BY <1>2, <3>4 DEF Excused
  <2>3. <<r.from, r.to>> \in broken \/ \E j \in 1..(k - 1) : order[j] = r.to
    BY <1>2, <1>4 DEF InOrderAre
  <2> QED BY <2>1, <2>2, <2>3
<1>5. CASE r.to \in source.objects /\ r.to \in db.there
  <2>1. source.kind[r.to] = "synonym"
    BY <1>2, <1>5 DEF Resolves
  <2> QED BY <1>2, <1>5, <2>1 DEF Excused, Overlooked
<1> QED BY <1>2, <1>3, <1>4, <1>5

\* The histories of the tables left out are stranded, or are left out too.
StrandedAre(source, stranded, missing) ==
    {History(t) : t \in source.versioned \cap missing} \subseteq stranded \cup missing

\* Only a grant may be on a history.
OnObjectsOr(source, stranded, missing, s) ==
    \/ {s.on} \cup s.to \subseteq source.objects
    \/ s.does = "grant" /\ s.to = {} /\ StrandedAre(source, stranded, missing)

\* So do a constraint, a trigger and a grant, once all objects were tried.
LEMMA RestExcused ==
    ASSUME NEW source, DatabaseAsListed(source), NEW order, NEW broken, NEW stranded,
           InOrderAre(source, order, broken), NEW missing, NEW db \in Replays,
           Tried(order, Len(order), missing, db), Accepted(source, broken, stranded, db),
           NEW s \in Batches, s.does \in {"constrain", "trigger", "grant"},
           {s.on} \cup s.to \subseteq (source.objects \cup CreatedByParent(source)) \ missing,
           OnObjectsOr(source, stranded, missing, s),
           ~Accepts(source, db, s)
    PROVE  Excused(source, broken, stranded, db.refused \cup {s}, s)
<1> DEFINE all == db.refused \cup {s}
<1>1. ASSUME NEW x \in {s.on} \cup s.to, x \notin db.there
      PROVE  x \in Absent(source, all) \/ (s.does = "grant" /\ x = s.on /\ x \in stranded)
  <2>1. CASE x \in source.objects
    <3>1. PICK i \in 1..Len(order) : order[i] = x
      BY <2>1 DEF InOrderAre
    <3>2. Len(order) \in Nat
      BY LenProperties DEF InOrderAre
    <3>3. x \in missing \cup db.there \cup Lost(db.refused)
      BY <3>1, <3>2 DEF Tried
    <3> QED BY <1>1, <3>3 DEF Absent, Lost
  <2>2. CASE x \in CreatedByParent(source)
    <3>1. source.versioned \in SUBSET source.objects
      BY DatabaseNumbers
    <3>2. PICK t \in source.versioned : x = History(t)
      BY <2>2 DEF CreatedByParent
    <3>3. t \notin db.there
      BY <1>1, <3>2 DEF Accepted
    <3>4. PICK i \in 1..Len(order) : order[i] = t
      BY <3>1 DEF InOrderAre
    <3>5. Len(order) \in Nat
      BY LenProperties DEF InOrderAre
    <3>6. t \in missing \cup Lost(db.refused)
      BY <3>3, <3>4, <3>5 DEF Tried
    <3>7. CASE t \in Lost(db.refused)
      BY <3>2, <3>7 DEF Absent, Lost
    <3>8. CASE t \in missing
      <4>1. x \notin source.objects /\ x \notin missing
        BY <1>1, <2>2 DEF DatabaseAsListed
      <4>2. s.does = "grant" /\ s.to = {} /\ StrandedAre(source, stranded, missing)
        BY <1>1, <4>1 DEF OnObjectsOr
      <4> QED BY <1>1, <3>2, <3>8, <4>1, <4>2 DEF StrandedAre
    <3> QED BY <3>6, <3>7, <3>8
  <2> QED BY <2>1, <2>2
<1>2. CASE \E x \in {s.on} \cup s.to : x \notin db.there
  <2>1. PICK x \in {s.on} \cup s.to : x \notin db.there
    BY <1>2
  <2>2. x \in Absent(source, all) \/ (s.does = "grant" /\ x = s.on /\ x \in stranded)
    BY <1>1, <2>1
  <2> HIDE DEF all
  <2>3. Excused(source, broken, stranded, all, s)
    BY <2>1, <2>2 DEF Excused
  <2> QED BY <2>3 DEF all
<1>3. CASE {s.on} \cup s.to \subseteq db.there
  <2>1. s.does = "constrain" /\ s.on \in db.offline
    BY <1>3 DEF Accepts
  <2>2. s.on \in source.disabled
    BY <2>1 DEF Accepted
  <2> QED BY <2>1, <2>2 DEF Excused
<1> QED BY <1>2, <1>3

\* An entry that is not left out keeps it so, and is tried.
LEMMA EntryAccepted ==
    ASSUME NEW source, DatabaseAsListed(source), NEW order, NEW broken, NEW stranded,
           InOrderAre(source, order, broken), NEW queue, QueueIs(source, order, queue),
           NEW k \in 1..Len(queue), NEW missing, NEW db \in Replays,
           DroppedWithParent(source) \subseteq missing,
           Accepted(source, broken, stranded, db), Tried(order, k - 1, missing, db),
           ~IsLeftOut(source, missing, queue[k])
    PROVE  LET after == EntryRuns(source, db, queue[k])
           IN  /\ after \in Replays /\ Accepted(source, broken, stranded, after)
               /\ Tried(order, k, missing, after)
<1> DEFINE e == queue[k]
           b == Batch(e.does, e.on, e.to)
           d == Batch("disable", e.on, {})
           made == RunBatch(source, db, b)
           after == EntryRuns(source, db, e)
<1>0. /\ e \in Entries /\ Len(order) \in Nat /\ Len(queue) \in Nat
      /\ k \in 1..Len(order) => e = Creation(source, order[k])
      /\ k \notin 1..Len(order) => e \in ConstraintEntries(source) \cup TriggerEntries(source)
  <2>1. queue \in Seq(Entries) /\ Len(order) \in Nat /\ Len(queue) \in Nat
    BY LenProperties DEF QueueIs, InOrderAre
  <2>2. e \in Entries
    BY <2>1, ElementOfSeq
  <2>3. k \notin 1..Len(order) => k \in (Len(order) + 1)..Len(queue)
    BY <2>1
  <2> HIDE DEF e
  <2> QED BY <2>1, <2>2, <2>3 DEF QueueIs, e
<1>1. b \in Batches /\ d \in Batches
  BY <1>0, EntryBatches
<1>2. b.does = e.does /\ b.on = e.on /\ b.to = e.to /\ d.does = "disable" /\ d.on = e.on
      /\ d.to = {}
  BY DEF Batch
<1>3. e.needs \cap missing = {}
  BY DEF IsLeftOut
<1>4. CASE k \in 1..Len(order)
  <2> DEFINE n == order[k]
  <2>1. e.does = "create" /\ e.on = n /\ e.needs = Named(source, n, TRUE)
    <3> DEFINE c == Creation(source, n)
    <3>1. e = c
      BY <1>0, <1>4
    <3>2. c.does = "create" /\ c.on = n /\ c.needs = Named(source, n, TRUE)
      BY DEF Creation, Entry
    <3> HIDE DEF e, n, c
    <3> QED BY <3>1, <3>2
  <2> HIDE DEF e, b, d
  <2>2. ~Accepts(source, db, b) => Excused(source, broken, stranded, db.refused \cup {b}, b)
    BY <1>2, <1>3, <1>4, <2>1, CreationExcused
  <2>3. /\ made \in Replays /\ Accepted(source, broken, stranded, made)
        /\ db.there \subseteq made.there
        /\ Lost(db.refused) \subseteq Lost(made.refused)
        /\ n \in made.there \cup Lost(made.refused)
    BY <1>1, <1>2, <2>1, <2>2, BatchAccepted
  <2> HIDE DEF made
  <2>4. Tried(order, k, missing, made)
    <3>1. ASSUME NEW i \in 1..Len(order), i <= k
          PROVE  order[i] \in missing \cup made.there \cup Lost(made.refused)
      <4>1. CASE i = k
        BY <2>3, <4>1
      <4>2. CASE i # k
        <5>1. i <= k - 1
          BY <1>4, <3>1, <4>2
        <5>2. order[i] \in missing \cup db.there \cup Lost(db.refused)
          BY <5>1 DEF Tried
        <5> QED BY <2>3, <5>2
      <4> QED BY <4>1, <4>2
    <3> QED BY <3>1 DEF Tried
  <2>5. CASE n \in source.disabled
    <3> DEFINE last == RunBatch(source, made, d)
    <3>1. after = last
      BY <1>2, <2>1, <2>5 DEF EntryRuns, made, b, d
    <3>2. ~Accepts(source, made, d) => Excused(source, broken, stranded, made.refused \cup {d}, d)
      <4>1. SUFFICES ASSUME ~Accepts(source, made, d)
                     PROVE  Excused(source, broken, stranded, made.refused \cup {d}, d)
        OBVIOUS
      <4>2. n \notin made.there
        BY <1>2, <2>1, <4>1 DEF Accepts
      <4>3. n \in Lost(made.refused \cup {d})
        BY <2>3, <4>2 DEF Lost
      <4>4. d.on \in Absent(source, made.refused \cup {d})
        BY <1>2, <2>1, <4>3 DEF Absent
      <4> QED BY <1>2, <4>4 DEF Excused
    <3>3. /\ last \in Replays /\ Accepted(source, broken, stranded, last)
          /\ made.there \subseteq last.there
          /\ Lost(made.refused) \subseteq Lost(last.refused)
      BY <1>1, <1>2, <2>1, <2>3, <2>5, <3>2, BatchAccepted
    <3> HIDE DEF after, last
    <3>4. Tried(order, k, missing, last)
      BY <2>4, <3>3 DEF Tried
    <3> QED BY <3>1, <3>3, <3>4 DEF after, e
  <2>6. CASE n \notin source.disabled
    <3>1. after = made
      BY <2>1, <2>6 DEF EntryRuns, made, b
    <3> HIDE DEF after
    <3> QED BY <2>3, <2>4, <3>1 DEF after, e
  <2> QED BY <2>5, <2>6
<1>5. CASE k \notin 1..Len(order)
  <2>1. Len(order) <= k - 1
    BY <1>0, <1>5
  <2>2. Tried(order, Len(order), missing, db)
    BY <1>0, <2>1 DEF Tried
  <2>3. /\ e.does \in {"constrain", "trigger"} /\ {e.on} \cup e.to = e.needs
        /\ e.needs \subseteq source.objects
    <3>1. CASE e \in ConstraintEntries(source)
      <4>1. PICK c \in source.constraints :
              e = Entry("constrain", c.on, c.names, {c.on} \cup c.names, {})
        BY <3>1 DEF ConstraintEntries
      <4>2. c.on \in source.objects /\ c.names \in SUBSET source.objects
        BY DEF DatabaseAsListed
      <4> HIDE DEF e
      <4> QED BY <4>1, <4>2 DEF Entry
    <3>2. CASE e \in TriggerEntries(source)
      <4>1. PICK t \in source.triggers : e = Entry("trigger", t, {}, {t}, {})
        BY <3>2 DEF TriggerEntries
      <4>2. t \in source.objects
        BY DEF DatabaseAsListed
      <4> HIDE DEF e
      <4> QED BY <4>1, <4>2 DEF Entry
    <3> QED BY <1>0, <1>5, <3>1, <3>2
  <2> HIDE DEF e, b, d
  <2>4. ~Accepts(source, db, b) => Excused(source, broken, stranded, db.refused \cup {b}, b)
    <3>1. {b.on} \cup b.to \subseteq (source.objects \cup CreatedByParent(source)) \ missing
      BY <1>2, <1>3, <2>3
    <3>2. b.does \in {"constrain", "trigger", "grant"}
      BY <1>2, <2>3
    <3>3. OnObjectsOr(source, stranded, missing, b)
      BY <1>2, <2>3 DEF OnObjectsOr
    <3> QED BY <1>1, <2>2, <3>1, <3>2, <3>3, RestExcused
  <2>5. /\ made \in Replays /\ Accepted(source, broken, stranded, made)
        /\ db.there \subseteq made.there
        /\ Lost(db.refused) \subseteq Lost(made.refused)
    BY <1>1, <1>2, <2>3, <2>4, BatchAccepted
  <2>6. after = made
    BY <2>3 DEF EntryRuns, made, b
  <2> HIDE DEF made, after
  <2>7. Tried(order, k, missing, made)
    <3>1. ASSUME NEW i \in 1..Len(order)
          PROVE  order[i] \in missing \cup made.there \cup Lost(made.refused)
      <4>1. order[i] \in missing \cup db.there \cup Lost(db.refused)
        BY <1>0, <2>2 DEF Tried
      <4> QED BY <2>5, <4>1
    <3> QED BY <3>1 DEF Tried
  <2> QED BY <2>5, <2>6, <2>7 DEF after, e
<1> QED BY <1>4, <1>5

\* The first k turns: what is missing is what was noted, and what went with its
\* parent; and the replay of the script so far.
TurnsAre(source, order, broken, stranded, k, q) ==
    LET db == ReplayBatches(source, q.statements)
    IN  /\ q \in ScriptsSoFar
        /\ q.missing = q.noted \cup DroppedWithParent(source)
        /\ q.noted \subseteq source.objects
        /\ db \in Replays /\ Accepted(source, broken, stranded, db) /\ Tried(order, k, q.missing, db)

LEMMA TurnsAccepted ==
    ASSUME NEW source, DatabaseAsListed(source), NEW order, NEW broken, NEW stranded,
           InOrderAre(source, order, broken), NEW queue, QueueIs(source, order, queue)
    PROVE  \A k \in 0..Len(queue) :
             TurnsAre(source, order, broken, stranded, k, ScriptedTo(source, queue)[k])
<1> DEFINE f == ScriptedTo(source, queue)
           N == Len(queue)
           Good == {k \in Nat : k > N \/ TurnsAre(source, order, broken, stranded, k, f[k])}
<1>0. /\ queue \in Seq(Entries) /\ N \in Nat /\ Len(order) \in Nat
      /\ DroppedWithParent(source) \in SUBSET Nat
  <2>1. DroppedWithParent(source) \in SUBSET Nat
    BY DatabaseNumbers
  <2> QED BY <2>1, LenProperties DEF QueueIs, InOrderAre
<1>1. f[0] = NothingYet(source) /\ \A k \in 1..N : f[k] = Scripted(source, f[k - 1], queue[k])
  BY <1>0, ScriptedToSteps
<1> HIDE DEF f, N
<1>2. 0 \in Good
  <2>1. /\ f[0].statements = <<>> /\ f[0].noted = {} /\ f[0].warned = {}
        /\ f[0].missing = DroppedWithParent(source)
        /\ f[0] \in ScriptsSoFar
    <3>1. <<>> \in Seq(Batches)
      OBVIOUS
    <3> QED BY <1>0, <1>1, <3>1 DEF NothingYet, ScriptsSoFar
  <2>2. ReplayBatches(source, f[0].statements) = EmptyDatabase
    BY <2>1, NoBatches
  <2>3. EmptyDatabase \in Replays /\ Accepted(source, broken, stranded, EmptyDatabase)
    BY DEF EmptyDatabase, Replays, Accepted
  <2>4. Tried(order, 0, f[0].missing, EmptyDatabase)
    BY <1>0 DEF Tried
  <2>5. TurnsAre(source, order, broken, stranded, 0, f[0])
    BY <2>1, <2>2, <2>3, <2>4 DEF TurnsAre
  <2> QED BY <2>5
<1>3. ASSUME NEW j \in Nat, j \in Good PROVE j + 1 \in Good
  <2>1. CASE j + 1 \in 1..N
    <3> DEFINE k == j + 1
               q == f[j]
               e == queue[k]
               after == f[k]
               db == ReplayBatches(source, q.statements)
               out == IsLeftOut(source, q.missing, e)
               noted == IF out /\ e.does = "create" THEN {e.on} ELSE {}
               then == ReplayBatches(source, after.statements)
    <3>1. TurnsAre(source, order, broken, stranded, k - 1, q) /\ k \in 1..N /\ k - 1 = j
      BY <1>0, <1>3, <2>1
    <3>2. after = Scripted(source, q, e)
      BY <1>1, <3>1
    <3>3. e \in Entries
      BY <1>0, <3>1, ElementOfSeq DEF N
    <3>4. /\ k \in 1..Len(order) => e = Creation(source, order[k])
          /\ k \notin 1..Len(order) => e.does # "create"
      <4>1. k \notin 1..Len(order) => e \in ConstraintEntries(source) \cup TriggerEntries(source)
        <5>1. k \notin 1..Len(order) => k \in (Len(order) + 1)..Len(queue)
          BY <1>0, <3>1 DEF N
        <5> QED BY <5>1 DEF QueueIs
      <4>2. e \in ConstraintEntries(source) \cup TriggerEntries(source) => e.does # "create"
        <5> HIDE DEF e
        <5> QED BY DEF ConstraintEntries, TriggerEntries, Entry
      <4>3. k \in 1..Len(order) => e = Creation(source, order[k])
        BY DEF QueueIs
      <4> QED BY <4>1, <4>2, <4>3
    <3> HIDE DEF q, e, after, db, k, then
    <3>5. q \in ScriptsSoFar /\ db \in Replays
      BY <3>1 DEF TurnsAre, db
    <3>6. /\ after \in ScriptsSoFar
          /\ after.noted = q.noted \cup noted
          /\ after.missing = q.missing \cup noted
          /\ then = IF out THEN db ELSE EntryRuns(source, db, e)
      <4>1. TurnMakes(source, q, e, out, noted, after, db, then)
        BY <3>2, <3>3, <3>5, TurnDoes DEF db, then
      <4> HIDE DEF out, noted
      <4> QED BY <4>1 DEF TurnMakes
    <3>7. noted \subseteq source.objects
      <4>1. SUFFICES ASSUME k \in 1..Len(order) PROVE e.on \in source.objects
        BY <3>4
      <4>2. e.on = order[k]
        BY <3>4, <4>1 DEF Creation, Entry
      <4> QED BY <4>1, <4>2, ElementOfSeq DEF InOrderAre
    <3>8. /\ after.missing = after.noted \cup DroppedWithParent(source)
          /\ after.noted \subseteq source.objects
      BY <3>1, <3>6, <3>7 DEF TurnsAre
    <3>9. CASE out
      <4>1. Tried(order, k, after.missing, db)
        <5>1. ASSUME NEW i \in 1..Len(order), i <= k
              PROVE  order[i] \in after.missing \cup db.there \cup Lost(db.refused)
          <6>1. CASE i = k
            <7>1. e.does = "create" /\ e.on = order[i]
              BY <3>4, <6>1 DEF Creation, Entry
            <7>2. noted = {order[i]}
              BY <3>9, <7>1
            <7> QED BY <3>6, <7>2
          <6>2. CASE i # k
            <7>1. i <= k - 1
              BY <3>1, <5>1, <6>2 DEF k
            <7>2. order[i] \in q.missing \cup db.there \cup Lost(db.refused)
              BY <3>1, <7>1 DEF TurnsAre, Tried, db
            <7> QED BY <3>6, <7>2
          <6> QED BY <6>1, <6>2
        <5> QED BY <5>1 DEF Tried
      <4>2. then = db
        BY <3>6, <3>9
      <4>3. Accepted(source, broken, stranded, db)
        BY <3>1 DEF TurnsAre, db
      <4> HIDE DEF Good
      <4>4. TurnsAre(source, order, broken, stranded, k, after)
        BY <3>5, <3>6, <3>8, <4>1, <4>2, <4>3 DEF TurnsAre, then
      <4> QED BY <4>4 DEF Good, k, after
    <3>10. CASE ~out
      <4>1. after.missing = q.missing
        BY <3>6, <3>10
      <4>2. DroppedWithParent(source) \subseteq q.missing /\ Accepted(source, broken, stranded, db)
            /\ Tried(order, k - 1, q.missing, db)
        BY <3>1 DEF TurnsAre, db
      <4>3. then = EntryRuns(source, db, e)
        BY <3>6, <3>10
      <4>4. /\ then \in Replays /\ Accepted(source, broken, stranded, then)
            /\ Tried(order, k, q.missing, then)
        <5>1. k \in 1..Len(queue) /\ e = queue[k]
          BY <3>1 DEF N, e
        <5> HIDE DEF N
        <5> QED BY <3>5, <3>10, <4>2, <4>3, <5>1, EntryAccepted
      <4> HIDE DEF Good
      <4>5. TurnsAre(source, order, broken, stranded, k, after)
        BY <3>6, <3>8, <4>1, <4>4 DEF TurnsAre, then
      <4> QED BY <4>5 DEF Good, k, after
    <3> QED BY <3>9, <3>10
  <2>2. CASE j + 1 \notin 1..N
    BY <1>0, <2>2
  <2> QED BY <2>1, <2>2
<1>4. \A k \in Nat : k \in Good
  <2> HIDE DEF Good
  <2> QED BY <1>2, <1>3, NaturalInduction
<1> QED BY <1>0, <1>4 DEF f, N

\* The permissions: a grant for each that is not left out.
Grants(source, missing) ==
    {Batch("grant", g, {}) :
        g \in source.grants \cap ((source.objects \cup CreatedByParent(source)) \ missing)}

LEMMA PermissionsAre ==
    ASSUME NEW source, DatabaseAsListed(source), NEW missing
    PROVE  LET p == Permissions(source, missing)
           IN  /\ Grants(source, missing) \in SUBSET Batches
               /\ p \in Seq(Grants(source, missing))
               /\ \A s \in Grants(source, missing) : \E i \in 1..Len(p) : p[i] = s
<1> DEFINE G == Grants(source, missing)
           S == {g \in source.grants : ~LeftOut(source, missing, g)}
           f == [g \in S |-> Batch("grant", g, {})]
           T == {f[g] : g \in S}
<1>1. T = G
  BY DEF Grants, LeftOut
<1>2. IsFiniteSet(T)
  <2>1. S \in SUBSET source.grants /\ IsFiniteSet(source.grants)
    BY DEF DatabaseAsListed
  <2>2. DOMAIN f = S
    OBVIOUS
  <2> HIDE DEF S, f
  <2>3. IsFiniteSet(S)
    BY <2>1, FS_Subset
  <2> QED BY <2>2, <2>3, ImageFinite
<1>3. Permissions(source, missing) = Listed(T)
  BY DEF Permissions
<1>4. G \in SUBSET Batches
  <2>1. source.grants \in SUBSET Nat
    BY DEF DatabaseAsListed
  <2> QED BY <2>1 DEF Grants, Batch, Batches
<1> HIDE DEF T, G
<1>5. Listed(T) \in Seq(T) /\ \A x \in T : \E i \in 1..Len(Listed(T)) : Listed(T)[i] = x
  BY <1>2, ListedLists
<1> QED BY <1>1, <1>3, <1>4, <1>5 DEF G

\* A statement more at the end of two parts.
LEMMA JoinedAppend ==
    ASSUME NEW source, NEW T, NEW p \in Seq(T), NEW t \in Seq(T), NEW s \in T
    PROVE  ReplayBatches(source, p \o Append(t, s)) =
             RunBatch(source, ReplayBatches(source, p \o t), s)
<1> DEFINE pt == p \o t
<1>1. p \o Append(t, s) = Append(pt, s) /\ pt \in Seq(T)
  OBVIOUS
<1> HIDE DEF pt
<1>2. ReplayBatches(source, Append(pt, s)) = RunBatch(source, ReplayBatches(source, pt), s)
  BY <1>1, BatchesAppend
<1> QED BY <1>1, <1>2 DEF pt

\* What is refused of the grants is excused too.
LEMMA GrantsAccepted ==
    ASSUME NEW source, DatabaseAsListed(source), NEW order, NEW broken, NEW stranded,
           InOrderAre(source, order, broken), NEW missing, NEW p \in Seq(Batches),
           ReplayBatches(source, p) \in Replays,
           Accepted(source, broken, stranded, ReplayBatches(source, p)),
           Tried(order, Len(order), missing, ReplayBatches(source, p)),
           StrandedAre(source, stranded, missing),
           NEW q \in Seq(Grants(source, missing))
    PROVE  Accepted(source, broken, stranded, ReplayBatches(source, p \o q))
<1> DEFINE G == Grants(source, missing)
           At(t) == ReplayBatches(source, p \o t)
           Good == {t \in Seq(G) :
                      /\ At(t) \in Replays /\ Accepted(source, broken, stranded, At(t))
                      /\ Tried(order, Len(order), missing, At(t))}
<1>0. G \in SUBSET Batches
  BY PermissionsAre
<1>1. <<>> \in Good
  <2>1. p \o <<>> = p /\ <<>> \in Seq(G)
    BY ConcatEmptySeq, EmptySeq
  <2> HIDE DEF G
  <2> QED BY <2>1
<1>2. ASSUME NEW t \in Seq(G), NEW s \in G, t \in Good PROVE Append(t, s) \in Good
  <2> DEFINE db == At(t)
             after == At(Append(t, s))
  <2>1. s \in Batches /\ t \in Seq(Batches) /\ Append(t, s) \in Seq(G)
    <3> HIDE DEF G
    <3>1. \A i \in 1..Len(t) : t[i] \in G
      BY ElementOfSeq
    <3> QED BY <1>0
  <2>2. after = RunBatch(source, db, s)
    <3> HIDE DEF G
    <3> QED BY <2>1, JoinedAppend
  <2>3. db \in Replays /\ Accepted(source, broken, stranded, db) /\ Tried(order, Len(order), missing, db)
    BY <1>2
  <2>4. /\ s.does = "grant" /\ s.to = {}
        /\ s.on \in (source.objects \cup CreatedByParent(source)) \ missing
    BY DEF Grants, Batch
  <2> HIDE DEF G, db, after
  <2>5. {s.on} \cup s.to \subseteq (source.objects \cup CreatedByParent(source)) \ missing
        /\ s.does \in {"constrain", "trigger", "grant"} /\ s.does # "disable"
    BY <2>4
  <2>6. ~Accepts(source, db, s) => Excused(source, broken, stranded, db.refused \cup {s}, s)
    <3>1. OnObjectsOr(source, stranded, missing, s)
      BY <2>4 DEF OnObjectsOr
    <3> QED BY <2>1, <2>3, <2>5, <3>1, RestExcused
  <2>7. /\ after \in Replays /\ Accepted(source, broken, stranded, after)
        /\ db.there \subseteq after.there /\ Lost(db.refused) \subseteq Lost(after.refused)
    BY <2>1, <2>2, <2>3, <2>5, <2>6, BatchAccepted
  <2>8. Tried(order, Len(order), missing, after)
    BY <2>3, <2>7 DEF Tried
  <2> QED BY <2>1, <2>7, <2>8 DEF after
<1>3. q \in Good
  <2> HIDE DEF Good, G
  <2>1. Seq(G) \subseteq Good
    BY <1>1, <1>2, SequenceInduction
  <2> QED BY <2>1 DEF G
<1> QED BY <1>3

\* ScriptDatabaseObjectList: of any database, what an empty one refuses of its script
\* it refuses over a reference the order overlooks, for want of what was refused, or
\* because it is a grant on a stranded history or a constraint on an offline table.
LEMMA DatabaseAccepted ==
    ASSUME NEW source, DatabaseAsListed(source)
    PROVE  RefusesOnlyOverlooked(source, Replayed(source))
<1> DEFINE scan == orderObjects(source.objects, source.references)
           order == scan.out
           broken == scan.broken
           queue == Queue(source, order)
           all == ScriptedTo(source, queue)[Len(queue)]
           p == all.statements
           q == Permissions(source, all.missing)
           script == ScriptDatabaseObjectList(source)
           db == ReplayBatches(source, p \o q)
           stranded == Stranded(source, all.noted)
<1>1. InOrderAre(source, order, broken)
  BY DatabaseInOrder
<1> HIDE DEF scan
<1>2. QueueIs(source, order, queue)
  <2>1. order \in Seq(source.objects)
    BY <1>1 DEF InOrderAre
  <2> QED BY <2>1, QueueHas
<1>3. script = [all EXCEPT !.statements = p \o q]
  BY DEF ScriptDatabaseObjectList, scan
<1> HIDE DEF order, broken, queue, stranded
<1>4. TurnsAre(source, order, broken, stranded, Len(queue), all)
  <2>1. Len(queue) \in 0..Len(queue)
    BY <1>2, LenProperties DEF QueueIs
  <2> QED BY <1>1, <1>2, <2>1, TurnsAccepted
<1> HIDE DEF all, script
<1>5. Tried(order, Len(order), all.missing, ReplayBatches(source, p))
  <2>1. Len(order) <= Len(queue) /\ Len(order) \in Nat /\ Len(queue) \in Nat
    BY <1>1, <1>2, LenProperties DEF QueueIs, InOrderAre
  <2> QED BY <1>4, <2>1 DEF TurnsAre, Tried
<1>6. /\ p \in Seq(Batches) /\ ReplayBatches(source, p) \in Replays
      /\ Accepted(source, broken, stranded, ReplayBatches(source, p))
  BY <1>4 DEF TurnsAre, ScriptsSoFar
<1>7. q \in Seq(Grants(source, all.missing))
  BY PermissionsAre
<1> HIDE DEF q
<1>8. StrandedAre(source, stranded, all.missing)
  <2>1. /\ all.missing = all.noted \cup DroppedWithParent(source)
        /\ DroppedWithParent(source) \cap source.objects = {}
        /\ source.versioned \in SUBSET source.objects
    BY <1>4, DatabaseNumbers DEF TurnsAre, DatabaseAsListed
  <2> QED BY <2>1 DEF stranded, Stranded, StrandedAre
<1>9. Accepted(source, broken, stranded, db)
  <2> DEFINE m == all.missing
  <2>1. /\ Tried(order, Len(order), m, ReplayBatches(source, p)) /\ q \in Seq(Grants(source, m))
        /\ StrandedAre(source, stranded, m)
    BY <1>5, <1>7, <1>8
  <2> HIDE DEF m, p
  <2> QED BY <1>1, <1>6, <2>1, GrantsAccepted DEF p
<1>10. script.statements = p \o q /\ script.noted = all.noted
  BY <1>3, <1>4 DEF TurnsAre, ScriptsSoFar
<1> HIDE DEF p
<1>11. Replayed(source) = [script |-> script, db |-> db, broken |-> broken]
  BY <1>10 DEF Replayed, script, broken, scan
<1> HIDE DEF db
<1>12. \A s \in db.refused : Excused(source, broken, stranded, db.refused, s)
  BY <1>9 DEF Accepted
<1>13. stranded = Stranded(source, script.noted)
  BY <1>10 DEF stranded
<1> QED BY <1>11, <1>12, <1>13 DEF RefusesOnlyOverlooked, Excused, Absent, Lost

-----------------------------------------------------------------------------
(* What the script leaves out.                                                 *)

\* An entry whose statements are all accepted.
EntryMakes(source, db, e, after) ==
    LET creates == e.does = "create"
    IN  /\ db.refused = {}
        /\ after.there =
             IF creates
             THEN db.there \cup {e.on} \cup {History(t) : t \in source.versioned \cap {e.on}}
             ELSE db.there
        /\ after.offline = IF creates THEN db.offline \cup (source.disabled \cap {e.on})
                           ELSE db.offline
        /\ after.held = IF creates THEN db.held
                        ELSE db.held \cup {Batch(e.does, e.on, e.to)}

LEMMA EntryDoes ==
    ASSUME NEW source, DatabaseAsListed(source), NEW db \in Replays, NEW e \in Entries,
           EntryRuns(source, db, e).refused = {}
    PROVE  EntryMakes(source, db, e, EntryRuns(source, db, e))
<1> DEFINE after == EntryRuns(source, db, e)
           b == Batch(e.does, e.on, e.to)
           d == Batch("disable", e.on, {})
           made == RunBatch(source, db, b)
           takes == Accepts(source, db, b)
           last == RunBatch(source, made, d)
           offlines == Accepts(source, made, d)
           histories == {History(t) : t \in source.versioned \cap {e.on}}
           disables == e.does = "create" /\ e.on \in source.disabled
<1>1. b \in Batches /\ d \in Batches
  BY EntryBatches
<1>2. /\ b.does = e.does /\ b.on = e.on /\ d.does = "disable" /\ d.on = e.on
      /\ e.does \in {"create", "constrain", "trigger"}
  BY DEF Batch, Entries
<1>3. BatchMakes(source, db, b, takes, made)
  BY <1>1, RunBatchDoes
<1>4. BatchMakes(source, made, d, offlines, last)
  <2>1. made \in Replays
    BY <1>3 DEF BatchMakes
  <2> HIDE DEF made, d
  <2> QED BY <1>1, <2>1, RunBatchDoes
<1>5. after = IF disables THEN last ELSE made
  BY DEF EntryRuns
<1> HIDE DEF after, b, d, made, takes, last, offlines
<1>6. /\ made.refused = IF takes THEN db.refused ELSE db.refused \cup {b}
      /\ made.there = IF e.does = "create" /\ takes THEN db.there \cup {e.on} \cup histories
                      ELSE db.there
      /\ made.offline = db.offline
      /\ made.held = IF e.does # "create" /\ takes THEN db.held \cup {b} ELSE db.held
  BY <1>2, <1>3 DEF BatchMakes
<1>7. /\ last.refused = IF offlines THEN made.refused ELSE made.refused \cup {d}
      /\ last.there = made.there /\ last.held = made.held
      /\ last.offline = IF offlines THEN made.offline \cup {e.on} ELSE made.offline
  BY <1>2, <1>4 DEF BatchMakes
<1>8. after.refused = {}
  BY DEF after
<1> HIDE DEF histories
<1>9. takes /\ db.refused = {}
  BY <1>5, <1>6, <1>7, <1>8
<1>10. CASE disables
  <2>1. offlines /\ after = last
    BY <1>5, <1>7, <1>8, <1>10
  <2>2. source.disabled \cap {e.on} = {e.on}
    BY <1>10
  <2> QED BY <1>6, <1>7, <1>9, <1>10, <2>1, <2>2 DEF after, histories, b, EntryMakes
<1>11. CASE ~disables
  <2>1. after = made
    BY <1>5, <1>11
  <2>2. e.does = "create" => source.disabled \cap {e.on} = {}
    BY <1>11
  <2> QED BY <1>6, <1>9, <2>1, <2>2 DEF after, histories, b, EntryMakes
<1> QED BY <1>10, <1>11

\* The first k objects, and the script of the first k entries: which objects are left
\* out, and which of the others it warns of.
Firsts(order, k) == {order[i] : i \in {j \in 1..Len(order) : j <= k}}
LeftSoFar(source, order, k, q) ==
    LET tried == Firsts(order, k)
    IN  /\ q.noted \subseteq tried
        /\ \A n \in tried :
             n \in q.noted <=> n \in source.hidden \/ Named(source, n, TRUE) \cap q.missing # {}
        /\ \A n, x \in Nat :
             <<n, x>> \in q.warned <=>
                n \in tried \ q.noted /\ x \in Named(source, n, FALSE) \cap q.missing

\* The database they make, if it refuses nothing.
MadeSoFar(source, order, queue, k, q, db) ==
    LET made == Firsts(order, k) \ q.noted
    IN  db.refused = {} =>
          /\ db.there = made \cup {History(t) : t \in source.versioned \cap made}
          /\ db.offline = source.disabled \cap made
          /\ \A s : s \in db.held <=>
               \E i \in (Len(order) + 1)..Len(queue) :
                  /\ i <= k /\ queue[i].needs \cap q.missing = {}
                  /\ s = Batch(queue[i].does, queue[i].on, queue[i].to)

\* An object names none that comes after it, where no cycle is broken.
LEMMA NamesEarlier ==
    ASSUME NEW source, NEW order, InOrderAre(source, order, {}),
           NEW i \in 1..Len(order), NEW k \in 1..Len(order), i <= k, NEW needed \in BOOLEAN
    PROVE  order[k] \notin Named(source, order[i], needed)
<1> SUFFICES ASSUME order[k] \in Named(source, order[i], needed) PROVE FALSE
  OBVIOUS
<1>1. Len(order) \in Nat /\ order[k] \in source.objects
  BY LenProperties, ElementOfSeq DEF InOrderAre
<1>2. PICK r \in source.references : r.from = order[i] /\ r.to # order[i] /\ r.to = order[k]
  BY DEF Named
<1>3. PICK j \in 1..(i - 1) : order[j] = r.to
  BY <1>1, <1>2 DEF InOrderAre
<1>4. j \in 1..Len(order) /\ j # k
  BY <1>1, <1>3
<1> QED BY <1>2, <1>3, <1>4 DEF InOrderAre

\* A turn for the next object leaves out what needs what is left out.
CreationLeaves(source, order, k, q, e, after) ==
    /\ LeftSoFar(source, order, k, after)
    /\ Firsts(order, k) = Firsts(order, k - 1) \cup {order[k]}
    /\ order[k] \notin Firsts(order, k - 1)
    /\ order[k] \in after.noted <=> IsLeftOut(source, q.missing, e)
    /\ after.noted \subseteq q.noted \cup {order[k]} /\ q.noted \subseteq after.noted

LEMMA CreationLeft ==
    ASSUME NEW source, DatabaseAsListed(source), NEW order, InOrderAre(source, order, {}),
           NEW k \in 1..Len(order), NEW q \in ScriptsSoFar, LeftSoFar(source, order, k - 1, q),
           NEW e, e = Creation(source, order[k]), NEW after, NEW db, NEW then,
           LET out == IsLeftOut(source, q.missing, e)
               noted == IF out /\ e.does = "create" THEN {e.on} ELSE {}
           IN  TurnMakes(source, q, e, out, noted, after, db, then)
    PROVE  CreationLeaves(source, order, k, q, e, after)
<1> DEFINE n == order[k]
           out == IsLeftOut(source, q.missing, e)
           old == Firsts(order, k - 1)
           new == Firsts(order, k)
           noted == IF out THEN {n} ELSE {}
           needs(x) == Named(source, x, TRUE)
           late(x) == Named(source, x, FALSE)
<1>0. /\ Len(order) \in Nat /\ n \in source.objects /\ n \in Nat
  <2>1. Len(order) \in Nat /\ n \in source.objects
    BY LenProperties, ElementOfSeq DEF InOrderAre
  <2>2. source.objects \in SUBSET Nat
    BY DatabaseNumbers
  <2> QED BY <2>1, <2>2
<1>1. e.does = "create" /\ e.on = n /\ e.needs = needs(n) /\ e.late = late(n)
  BY DEF Creation, Entry
<1>2. /\ after.noted = q.noted \cup noted /\ after.missing = q.missing \cup noted
      /\ after.warned = IF out THEN q.warned
                        ELSE q.warned \cup {<<n, x>> : x \in late(n) \cap q.missing}
  <2> DEFINE given == IF out /\ e.does = "create" THEN {e.on} ELSE {}
  <2>1. given = noted
    BY <1>1
  <2>2. TurnMakes(source, q, e, out, given, after, db, then)
    OBVIOUS
  <2> HIDE DEF given, noted, out, n
  <2> QED BY <1>1, <2>1, <2>2 DEF TurnMakes
<1>3. out <=> n \in source.hidden \/ needs(n) \cap q.missing # {}
  BY <1>1 DEF IsLeftOut
<1>4. new = old \cup {n}
  <2>1. \A i \in 1..Len(order) : i <= k <=> i <= k - 1 \/ i = k
    BY <1>0
  <2> QED BY <2>1 DEF Firsts
<1>5. n \notin old
  <2>1. SUFFICES ASSUME NEW i \in 1..Len(order), i <= k - 1, order[i] = order[k] PROVE FALSE
    BY DEF Firsts
  <2>2. \A a, b \in 1..Len(order) : order[a] = order[b] => a = b
    BY DEF InOrderAre
  <2>3. i = k
    BY <2>1, <2>2
  <2> QED BY <1>0, <2>1, <2>3
<1>6. ASSUME NEW x \in new PROVE n \notin needs(x) /\ n \notin late(x)
  <2>1. PICK i \in 1..Len(order) : i <= k /\ x = order[i]
    BY DEF Firsts
  <2> QED BY <2>1, NamesEarlier
<1>7. q.noted \subseteq old
  BY DEF LeftSoFar
<1>8. after.noted \subseteq new
  BY <1>2, <1>4, <1>7
<1> HIDE DEF out, old, new, needs, late, n
<1>9. ASSUME NEW x \in new
      PROVE  x \in after.noted <=> x \in source.hidden \/ needs(x) \cap after.missing # {}
  <2>1. needs(x) \cap after.missing = needs(x) \cap q.missing
    BY <1>2, <1>6
  <2>2. CASE x = n
    <3>1. x \notin q.noted
      BY <1>5, <1>7, <2>2
    <3> QED BY <1>2, <1>3, <2>1, <2>2, <3>1
  <2>3. CASE x # n
    <3>1. x \in old /\ (x \in after.noted <=> x \in q.noted)
      BY <1>2, <1>4, <2>3
    <3>2. x \in q.noted <=> x \in source.hidden \/ needs(x) \cap q.missing # {}
      BY <3>1 DEF LeftSoFar, old, needs
    <3> QED BY <2>1, <3>1, <3>2
  <2> QED BY <2>2, <2>3
<1>10. ASSUME NEW m \in Nat, NEW x \in Nat
       PROVE  <<m, x>> \in after.warned <=> m \in new \ after.noted /\ x \in late(m) \cap after.missing
  <2>1. <<m, x>> \in q.warned <=> m \in old \ q.noted /\ x \in late(m) \cap q.missing
    BY DEF LeftSoFar, old, late
  <2>2. m \in new => late(m) \cap after.missing = late(m) \cap q.missing
    BY <1>2, <1>6
  <2>3. CASE out
    <3>1. new \ after.noted = old \ q.noted
      BY <1>2, <1>4, <1>5, <2>3
    <3> QED BY <1>2, <1>4, <2>1, <2>2, <2>3, <3>1
  <2>4. CASE ~out
    <3>1. after.noted = q.noted /\ new \ after.noted = (old \ q.noted) \cup {n}
      BY <1>2, <1>4, <1>5, <1>7, <2>4
    <3>2. <<m, x>> \in after.warned <=>
            <<m, x>> \in q.warned \/ (m = n /\ x \in late(n) \cap q.missing)
      BY <1>2, <2>4
    <3>3. CASE m = n
      BY <1>4, <1>5, <2>1, <2>2, <3>1, <3>2, <3>3
    <3>4. CASE m # n
      BY <1>4, <2>1, <2>2, <3>1, <3>2, <3>4
    <3> QED BY <3>3, <3>4
  <2> QED BY <2>3, <2>4
<1>11. LeftSoFar(source, order, k, after)
  BY <1>8, <1>9, <1>10 DEF LeftSoFar, new, needs, late
<1>12. n \in after.noted <=> out
  BY <1>2, <1>5, <1>7
<1> QED BY <1>2, <1>4, <1>5, <1>11, <1>12 DEF new, old, n, out, CreationLeaves

\* The database is what the script so far makes, after the turn of the next object.
LEMMA CreationMade ==
    ASSUME NEW source, DatabaseAsListed(source), NEW order, InOrderAre(source, order, {}),
           NEW queue, NEW k \in 1..Len(order), NEW q \in ScriptsSoFar, NEW after \in ScriptsSoFar,
           NEW e \in Entries, e = Creation(source, order[k]), NEW db \in Replays, NEW then,
           MadeSoFar(source, order, queue, k - 1, q, db),
           LeftSoFar(source, order, k - 1, q), CreationLeaves(source, order, k, q, e, after),
           then = IF IsLeftOut(source, q.missing, e) THEN db ELSE EntryRuns(source, db, e)
    PROVE  MadeSoFar(source, order, queue, k, after, then)
<1> DEFINE n == order[k]
           out == IsLeftOut(source, q.missing, e)
           old == Firsts(order, k - 1)
           new == Firsts(order, k)
           was == old \ q.noted
           made == new \ after.noted
           his(S) == {History(t) : t \in source.versioned \cap S}
<1>0. Len(order) \in Nat
  BY LenProperties DEF InOrderAre
<1>1. SUFFICES ASSUME then.refused = {}
               PROVE  /\ then.there = made \cup his(made)
                      /\ then.offline = source.disabled \cap made
                      /\ then.held = {}
  <2>1. \A i \in (Len(order) + 1)..Len(queue) : ~(i <= k)
    BY <1>0
  <2> QED BY <1>1, <2>1 DEF MadeSoFar
<1>2. db.refused = {} => /\ db.there = was \cup his(was)
                         /\ db.offline = source.disabled \cap was
                         /\ db.held = {}
  <2>1. \A i \in (Len(order) + 1)..Len(queue) : ~(i <= k - 1)
    BY <1>0
  <2> QED BY <2>1 DEF MadeSoFar
<1>3. e.does = "create" /\ e.on = n
  BY DEF Creation, Entry
<1>6. /\ new = old \cup {n} /\ n \notin old /\ q.noted \subseteq old
      /\ n \in after.noted <=> out
      /\ after.noted \subseteq q.noted \cup {n} /\ q.noted \subseteq after.noted
  <2> HIDE DEF out
  <2> QED BY DEF CreationLeaves, LeftSoFar, out
<1> HIDE DEF n, out, old, new
<1>4. CASE out
  <2>1. made = was
    BY <1>4, <1>6
  <2>2. then = db
    BY <1>4 DEF out
  <2> HIDE DEF made, was, his
  <2> QED BY <1>1, <1>2, <2>1, <2>2
<1>5. CASE ~out
  <2>1. made = was \cup {n}
    BY <1>5, <1>6
  <2>2. EntryRuns(source, db, e).refused = {} /\ then = EntryRuns(source, db, e)
    BY <1>1, <1>5 DEF out
  <2>3. /\ db.refused = {}
        /\ then.there = db.there \cup {n} \cup his({n})
        /\ then.offline = db.offline \cup (source.disabled \cap {n})
        /\ then.held = db.held
    <3>1. EntryMakes(source, db, e, then)
      BY <2>2, EntryDoes
    <3> HIDE DEF his
    <3>2. his({n}) = {History(t) : t \in source.versioned \cap {n}}
      BY DEF his
    <3> QED BY <1>3, <3>1, <3>2 DEF EntryMakes
  <2>4. his(made) = his(was) \cup his({n})
    <3> HIDE DEF made, was
    <3> QED BY <2>1
  <2> HIDE DEF made, was, his
  <2> QED BY <1>2, <2>1, <2>3, <2>4
<1> QED BY <1>4, <1>5

\* A turn for a constraint or a trigger changes nothing else.
LEMMA RestMade ==
    ASSUME NEW source, DatabaseAsListed(source), NEW order, NEW queue, Len(order) \in Nat,
           NEW k \in (Len(order) + 1)..Len(queue), Len(queue) \in Nat,
           NEW q \in ScriptsSoFar, LeftSoFar(source, order, k - 1, q), NEW e \in Entries,
           e = queue[k], e \in ConstraintEntries(source) \cup TriggerEntries(source),
           NEW after, NEW db \in Replays, NEW then,
           MadeSoFar(source, order, queue, k - 1, q, db),
           LET out == IsLeftOut(source, q.missing, e)
               noted == IF out /\ e.does = "create" THEN {e.on} ELSE {}
           IN  TurnMakes(source, q, e, out, noted, after, db, then)
    PROVE  /\ LeftSoFar(source, order, k, after)
           /\ MadeSoFar(source, order, queue, k, after, then)
<1> DEFINE out == IsLeftOut(source, q.missing, e)
           made == Firsts(order, k) \ q.noted
           his(S) == {History(t) : t \in source.versioned \cap S}
           ran(i, s) == /\ queue[i].needs \cap q.missing = {}
                        /\ s = Batch(queue[i].does, queue[i].on, queue[i].to)
           rest == (Len(order) + 1)..Len(queue)
<1>1. e.does # "create" /\ e.late = {}
  BY DEF ConstraintEntries, TriggerEntries, Entry
<1>2. /\ after.noted = q.noted /\ after.missing = q.missing /\ after.warned = q.warned
      /\ then = IF out THEN db ELSE EntryRuns(source, db, e)
  <2> DEFINE noted == IF out /\ e.does = "create" THEN {e.on} ELSE {}
  <2>1. noted = {} /\ TurnMakes(source, q, e, out, noted, after, db, then)
    BY <1>1
  <2> HIDE DEF noted, out
  <2>2. {<<e.on, x>> : x \in e.late \cap q.missing} = {}
    BY <1>1
  <2> QED BY <2>1, <2>2 DEF TurnMakes
<1>3. out <=> e.needs \cap q.missing # {}
  BY <1>1 DEF IsLeftOut
<1>4. Firsts(order, k) = Firsts(order, k - 1)
  <2>1. \A i \in 1..Len(order) : i <= k /\ i <= k - 1
    OBVIOUS
  <2> QED BY <2>1 DEF Firsts
<1>5. LeftSoFar(source, order, k, after)
  <2> HIDE DEF out
  <2> QED BY <1>2, <1>4 DEF LeftSoFar
<1>6. SUFFICES ASSUME then.refused = {}
               PROVE  /\ then.there = made \cup his(made)
                      /\ then.offline = source.disabled \cap made
                      /\ \A s : s \in then.held <=> \E i \in rest : i <= k /\ ran(i, s)
  <2> HIDE DEF out
  <2> QED BY <1>2, <1>5, <1>6 DEF MadeSoFar
<1>7. db.refused = {} => /\ db.there = made \cup his(made)
                         /\ db.offline = source.disabled \cap made
                         /\ \A s : s \in db.held <=> \E i \in rest : i <= k - 1 /\ ran(i, s)
  BY <1>4 DEF MadeSoFar
<1>8. \A i \in rest : i <= k <=> i <= k - 1 \/ i = k
  OBVIOUS
<1>9. k \in rest
  OBVIOUS
<1>10. \A s : ran(k, s) <=> ~out /\ s = Batch(e.does, e.on, e.to)
  BY <1>3
<1>11. \A s : (\E i \in rest : i <= k /\ ran(i, s)) <=>
              \/ \E i \in rest : i <= k - 1 /\ ran(i, s)
              \/ ~out /\ s = Batch(e.does, e.on, e.to)
  <2> HIDE DEF rest, ran, out
  <2> QED BY <1>8, <1>9, <1>10
<1> HIDE DEF made, his, ran, rest, out
<1>12. CASE out
  BY <1>2, <1>6, <1>7, <1>11, <1>12
<1>13. CASE ~out
  <2>1. EntryRuns(source, db, e).refused = {} /\ then = EntryRuns(source, db, e)
    BY <1>2, <1>6, <1>13
  <2>2. /\ db.refused = {} /\ then.there = db.there /\ then.offline = db.offline
        /\ then.held = db.held \cup {Batch(e.does, e.on, e.to)}
    <3>1. EntryMakes(source, db, e, then)
      BY <2>1, EntryDoes
    <3> QED BY <1>1, <3>1 DEF EntryMakes
  <2> QED BY <1>7, <1>11, <1>13, <2>2
<1> QED BY <1>12, <1>13

\* So it is after every turn.
LEMMA TurnsComplete ==
    ASSUME NEW source, DatabaseAsListed(source), NEW order, InOrderAre(source, order, {}),
           NEW queue, QueueIs(source, order, queue)
    PROVE  \A k \in 0..Len(queue) :
             LET q == ScriptedTo(source, queue)[k]
             IN  /\ LeftSoFar(source, order, k, q)
                 /\ MadeSoFar(source, order, queue, k, q, ReplayBatches(source, q.statements))
<1> DEFINE f == ScriptedTo(source, queue)
           N == Len(queue)
           At(k) == ReplayBatches(source, f[k].statements)
           Good == {k \in Nat : k <= N => /\ LeftSoFar(source, order, k, f[k])
                                          /\ MadeSoFar(source, order, queue, k, f[k], At(k))}
<1>0. queue \in Seq(Entries) /\ N \in Nat /\ Len(order) \in Nat
  BY LenProperties DEF QueueIs, InOrderAre
<1>1. f[0] = NothingYet(source) /\ \A k \in 1..N : f[k] = Scripted(source, f[k - 1], queue[k])
  BY <1>0, ScriptedToSteps
<1>2. \A k \in 0..N : TurnsAre(source, order, {}, {}, k, f[k])
  BY TurnsAccepted
<1> HIDE DEF f, N
<1>3. 0 \in Good
  <2>1. f[0].statements = <<>> /\ f[0].noted = {} /\ f[0].warned = {}
    BY <1>1 DEF NothingYet
  <2>2. At(0) = EmptyDatabase
    BY <2>1, NoBatches
  <2>3. Firsts(order, 0) = {}
    BY <1>0 DEF Firsts
  <2>4. LeftSoFar(source, order, 0, f[0])
    BY <2>1, <2>3 DEF LeftSoFar
  <2>5. MadeSoFar(source, order, queue, 0, f[0], EmptyDatabase)
    BY <1>0, <2>3 DEF MadeSoFar, EmptyDatabase
  <2> QED BY <2>2, <2>4, <2>5
<1>4. ASSUME NEW j \in Nat, j \in Good PROVE j + 1 \in Good
  <2>1. SUFFICES ASSUME j + 1 \in 1..N PROVE j + 1 \in Good
    BY <1>0
  <2> DEFINE k == j + 1
             q == f[j]
             e == queue[k]
             after == f[k]
             db == At(j)
             then == At(k)
             out == IsLeftOut(source, q.missing, e)
             noted == IF out /\ e.does = "create" THEN {e.on} ELSE {}
  <2>2. k \in 1..N /\ k - 1 = j /\ j \in 0..N
    BY <1>0, <2>1
  <2>3. /\ LeftSoFar(source, order, k - 1, q) /\ MadeSoFar(source, order, queue, k - 1, q, db)
        /\ after = Scripted(source, q, e) /\ e \in Entries
        /\ TurnsAre(source, order, {}, {}, j, q)
    BY <1>0, <1>1, <1>2, <1>4, <2>2, ElementOfSeq DEF N
  <2>4. q \in ScriptsSoFar /\ db \in Replays
    BY <2>3 DEF TurnsAre
  <2> HIDE DEF q, after, e, Good
  <2>5. TurnMakes(source, q, e, out, noted, after, db, then)
    BY <2>3, <2>4, TurnDoes DEF q, after
  <2>6. /\ after \in ScriptsSoFar
        /\ then = IF out THEN db ELSE EntryRuns(source, db, e)
    <3> HIDE DEF out, noted, db, then
    <3> QED BY <2>5 DEF TurnMakes
  <2> HIDE DEF db, then, k
  <2>7. /\ LeftSoFar(source, order, k, after)
        /\ MadeSoFar(source, order, queue, k, after, then)
    <3>1. CASE k \in 1..Len(order)
      <4>1. e = Creation(source, order[k])
        BY <3>1 DEF QueueIs, e
      <4>2. LeftSoFar(source, order, k - 1, q)
        BY <2>3
      <4>3. CreationLeaves(source, order, k, q, e, after)
        BY <2>4, <2>5, <3>1, <4>1, <4>2, CreationLeft
      <4>4. MadeSoFar(source, order, queue, k, after, then)
        BY <2>3, <2>4, <2>6, <3>1, <4>1, <4>3, CreationMade
      <4> QED BY <4>3, <4>4 DEF CreationLeaves
    <3>2. CASE k \notin 1..Len(order)
      <4>1. k \in (Len(order) + 1)..Len(queue)
        BY <1>0, <2>2, <3>2 DEF N
      <4>2. e = queue[k] /\ e \in ConstraintEntries(source) \cup TriggerEntries(source)
        BY <4>1 DEF QueueIs, e
      <4>3. Len(order) \in Nat /\ Len(queue) \in Nat
        BY <1>0 DEF N
      <4> QED BY <2>3, <2>4, <2>5, <4>1, <4>2, <4>3, RestMade
    <3> QED BY <3>1, <3>2
  <2> QED BY <2>7 DEF Good, after, then, k
<1>5. \A k \in Nat : k \in Good
  <2> HIDE DEF Good
  <2> QED BY <1>3, <1>4, NaturalInduction
<1> QED BY <1>0, <1>5 DEF f, N

\* What is left out, where no cycle is broken: what cannot be made without it.
LEMMA NotedUnmakeable ==
    ASSUME NEW source, DatabaseAsListed(source), NEW order, InOrderAre(source, order, {}),
           Len(order) = Cardinality(source.objects), NEW noted \in SUBSET source.objects,
           \A n \in source.objects :
              n \in noted <=> \/ n \in source.hidden
                              \/ Named(source, n, TRUE) \cap
                                    (noted \cup DroppedWithParent(source)) # {}
    PROVE  noted = Unmakeable(source)
<1> DEFINE objects == source.objects
           N == Cardinality(objects)
           missing == noted \cup DroppedWithParent(source)
           W == UnmakeableTo(source)
           Firm == {k \in Nat : k <= N => W[k] \subseteq missing}
           Filled == {k \in Nat : k <= N => /\ W[0] \subseteq W[k]
                                          /\ \A i \in 1..Len(order) :
                                               i <= k /\ order[i] \in noted => order[i] \in W[k]}
<1>0. /\ N \in Nat /\ IsFiniteSet(objects) /\ source.hidden \in SUBSET objects
      /\ \A x \in DroppedWithParent(source) : x \notin objects
  <2>1. IsFiniteSet(objects) /\ source.hidden \in SUBSET objects
        /\ DroppedWithParent(source) \in SUBSET CreatedByParent(source)
    BY DatabaseNumbers
  <2>2. CreatedByParent(source) \cap objects = {}
    BY DEF DatabaseAsListed
  <2> QED BY <2>1, <2>2, FS_CardinalityType
<1>1. /\ W[0] = source.hidden \cup DroppedWithParent(source)
      /\ \A k \in 1..N : W[k] = WantsOneOf(source, W[k - 1])
  BY <1>0, UnmakeableToSteps
<1>2. \A n \in objects :
        n \in noted <=> n \in source.hidden \/ Named(source, n, TRUE) \cap missing # {}
  OBVIOUS
<1> HIDE DEF missing, W, N
<1>3. ASSUME NEW S \in SUBSET missing PROVE WantsOneOf(source, S) \subseteq missing
  <2>1. SUFFICES ASSUME NEW n \in objects, NEW r \in source.references,
                        r.to \in S, r \in Unresolved(source, {}, n)
                 PROVE  n \in missing
    BY DEF WantsOneOf
  <2>2. r.to \in Named(source, n, TRUE)
    BY <2>1, UnresolvedNeeded
  <2> QED BY <1>2, <2>1, <2>2 DEF missing
<1>4. \A k \in Nat : k \in Firm
  <2>1. 0 \in Firm
    <3>1. source.hidden \subseteq missing
      BY <1>0, <1>2 DEF missing
    <3> QED BY <1>1, <3>1 DEF missing
  <2>2. ASSUME NEW k \in Nat, k \in Firm PROVE k + 1 \in Firm
    <3>1. SUFFICES ASSUME k + 1 <= N PROVE W[k + 1] \subseteq missing
      OBVIOUS
    <3>2. k + 1 \in 1..N /\ (k + 1) - 1 = k /\ W[k] \subseteq missing
      BY <1>0, <2>2, <3>1
    <3>3. W[k + 1] = WantsOneOf(source, W[k])
      BY <1>1, <3>2
    <3> QED BY <1>3, <3>2, <3>3
  <2> HIDE DEF Firm
  <2> QED BY <2>1, <2>2, NaturalInduction
<1>5. ASSUME NEW n \in objects, NEW r \in source.references, r.from = n, r.to # n,
             r.bound \/ ~Late(source, n) \/ IsType(source, r.to),
             source.kind[n] # "droppedTable"
      PROVE  r \in Unresolved(source, {}, n)
  <2>1. source.kind[n] \in ObjectKinds
    BY DEF DatabaseAsListed
  <2>2. ~Late(source, n) =>
           source.kind[n] \in {"type", "table", "view", "inlineFunction"}
    BY <1>5, <2>1 DEF Late, ObjectKinds
  <2>3. ~Resolves(source, {}, r.to)
    BY DEF Resolves
  <2> QED BY <1>5, <2>2, <2>3 DEF Unresolved
<1>6. \A k \in Nat : k \in Filled
  <2>1. 0 \in Filled
    <3>1. \A i \in 1..Len(order) : ~(i <= 0)
      OBVIOUS
    <3> QED BY <3>1
  <2>2. ASSUME NEW k \in Nat, k \in Filled PROVE k + 1 \in Filled
    <3>1. SUFFICES ASSUME k + 1 <= N PROVE k + 1 \in Filled
      OBVIOUS
    <3>2. /\ k + 1 \in 1..N /\ (k + 1) - 1 = k /\ W[0] \subseteq W[k]
          /\ \A i \in 1..Len(order) : i <= k /\ order[i] \in noted => order[i] \in W[k]
      BY <1>0, <2>2, <3>1
    <3>3. W[k + 1] = WantsOneOf(source, W[k])
      BY <1>1, <3>2
    <3>4. W[k] \subseteq W[k + 1]
      BY <3>3 DEF WantsOneOf
    <3>5. ASSUME NEW i \in 1..Len(order), i = k + 1, order[i] \in noted
          PROVE  order[i] \in W[k + 1]
      <4> DEFINE n == order[i]
      <4>1. n \in objects
        BY <3>5
      <4>2. CASE n \in source.hidden
        BY <1>1, <3>2, <3>4, <4>2
      <4>3. CASE n \notin source.hidden
        <5>1. PICK x \in Named(source, n, TRUE) : x \in missing
          BY <1>2, <3>5, <4>1, <4>3
        <5>2. PICK r \in source.references :
                r.to = x /\ r.from = n /\ r.to # n
                /\ (r.bound \/ ~Late(source, n) \/ IsType(source, r.to))
          BY <5>1 DEF Named
        <5>3. source.kind[n] # "droppedTable"
          BY <4>1, <4>3 DEF DatabaseAsListed
        <5>4. r \in Unresolved(source, {}, n)
          BY <1>5, <4>1, <5>2, <5>3
        <5>5. r.to \in W[k]
          <6>1. CASE x \in DroppedWithParent(source)
            BY <1>1, <3>2, <5>2, <6>1
          <6>2. CASE x \in noted
            <7>1. x \in objects
              BY <6>2
            <7>2. PICK j \in 1..(i - 1) : order[j] = x
              BY <5>2, <7>1 DEF InOrderAre
            <7>3. j \in 1..Len(order) /\ j <= k
              BY <3>5, <7>2
            <7> QED BY <3>2, <5>2, <6>2, <7>2, <7>3
          <6> QED BY <5>1, <6>1, <6>2 DEF missing
        <5> HIDE DEF n
        <5> QED BY <3>3, <4>1, <5>2, <5>4, <5>5 DEF WantsOneOf, n
      <4> QED BY <4>2, <4>3
    <3>6. \A i \in 1..Len(order) : i <= k + 1 => i <= k \/ i = k + 1
      BY <1>0 DEF N
    <3> QED BY <3>2, <3>4, <3>5, <3>6
  <2> HIDE DEF Filled
  <2> QED BY <2>1, <2>2, NaturalInduction
<1>7. W[N] \subseteq missing
  BY <1>0, <1>4
<1>8. noted \subseteq W[N]
  <2>1. SUFFICES ASSUME NEW n \in noted PROVE n \in W[N]
    OBVIOUS
  <2>2. PICK i \in 1..Len(order) : order[i] = n
    BY <2>1 DEF InOrderAre
  <2>3. i <= N
    BY <1>0, <2>2 DEF N
  <2>4. N \in Filled
    BY <1>0, <1>6
  <2> QED BY <1>0, <2>2, <2>3, <2>4
<1>9. Unmakeable(source) = W[N] \cap objects
  BY DEF Unmakeable, W, N
<1> QED BY <1>0, <1>7, <1>8, <1>9 DEF missing

\* The grants, if none is refused, are held, and nothing else changes.
GrantsMake(db, q, after) ==
    /\ after \in Replays /\ after.there = db.there /\ after.offline = db.offline
    /\ after.refused = {} =>
         /\ db.refused = {}
         /\ \A s : s \in after.held <=> s \in db.held \/ \E i \in 1..Len(q) : q[i] = s
         /\ \A i \in 1..Len(q) : q[i].on \in db.there

LEMMA GrantsRun ==
    ASSUME NEW source, DatabaseAsListed(source), NEW G \in SUBSET Batches,
           \A s \in G : s.does = "grant", NEW p \in Seq(Batches),
           ReplayBatches(source, p) \in Replays, NEW q \in Seq(G)
    PROVE  GrantsMake(ReplayBatches(source, p), q, ReplayBatches(source, p \o q))
<1> DEFINE At(t) == ReplayBatches(source, p \o t)
           db0 == ReplayBatches(source, p)
           Good == {t \in Seq(G) : GrantsMake(db0, t, At(t))}
<1>1. <<>> \in Good
  <2>1. p \o <<>> = p /\ <<>> \in Seq(G) /\ Len(<<>>) = 0
    BY ConcatEmptySeq, EmptySeq
  <2> QED BY <2>1 DEF GrantsMake
<1>2. ASSUME NEW t \in Seq(G), NEW s \in G, t \in Good PROVE Append(t, s) \in Good
  <2> DEFINE db == At(t)
             longer == Append(t, s)
             after == At(longer)
             takes == Accepts(source, db, s)
  <2>1. /\ s \in Batches /\ t \in Seq(Batches) /\ longer \in Seq(G)
        /\ Len(longer) = Len(t) + 1 /\ Len(t) \in Nat
        /\ \A i \in 1..Len(t) : longer[i] = t[i]
        /\ longer[Len(t) + 1] = s
    <3>1. \A i \in 1..Len(t) : t[i] \in G
      BY ElementOfSeq
    <3> QED BY <3>1, AppendProperties, LenProperties
  <2>2. after = RunBatch(source, db, s)
    BY <2>1, JoinedAppend
  <2>3. GrantsMake(db0, t, db)
    BY <1>2
  <2>4. s.does = "grant"
    OBVIOUS
  <2> HIDE DEF db, after, longer, takes, db0, At
  <2>5. BatchMakes(source, db, s, takes, after)
    <3>1. db \in Replays
      BY <2>3 DEF GrantsMake
    <3> QED BY <2>1, <2>2, <3>1, RunBatchDoes DEF takes
  <2>6. /\ after \in Replays
        /\ after.refused = IF takes THEN db.refused ELSE db.refused \cup {s}
        /\ after.there = db.there /\ after.offline = db.offline
        /\ after.held = IF takes THEN db.held \cup {s} ELSE db.held
    BY <2>4, <2>5 DEF BatchMakes
  <2>7. takes => s.on \in db.there
    BY <2>4 DEF takes, Accepts
  <2>8. \A x : (\E i \in 1..Len(longer) : longer[i] = x) <=>
                 (\E i \in 1..Len(t) : t[i] = x) \/ x = s
    <3>1. \A i \in 1..Len(longer) : i \in 1..Len(t) \/ i = Len(t) + 1
      BY <2>1
    <3>2. Len(t) + 1 \in 1..Len(longer) /\ 1..Len(t) \subseteq 1..Len(longer)
      BY <2>1
    <3> QED BY <2>1, <3>1, <3>2
  <2>9. GrantsMake(db0, longer, after)
    <3>1. ASSUME after.refused = {}
          PROVE  /\ db0.refused = {}
                 /\ \A x : x \in after.held <=>
                            x \in db0.held \/ \E i \in 1..Len(longer) : longer[i] = x
                 /\ \A i \in 1..Len(longer) : longer[i].on \in db0.there
      <4>1. takes /\ db.refused = {} /\ after.held = db.held \cup {s}
        BY <2>6, <3>1
      <4>2. /\ db0.refused = {} /\ db.there = db0.there
            /\ \A x : x \in db.held <=> x \in db0.held \/ \E i \in 1..Len(t) : t[i] = x
            /\ \A i \in 1..Len(t) : t[i].on \in db0.there
        BY <2>3, <4>1 DEF GrantsMake
      <4>3. \A i \in 1..Len(longer) : longer[i].on \in db0.there
        BY <2>1, <2>7, <4>1, <4>2
      <4> QED BY <2>8, <4>1, <4>2, <4>3
    <3> QED BY <2>3, <2>6, <3>1 DEF GrantsMake
  <2> QED BY <2>1, <2>9 DEF longer, after
<1>3. q \in Good
  <2> HIDE DEF Good
  <2>1. Seq(G) \subseteq Good
    BY <1>1, <1>2, SequenceInduction
  <2> QED BY <2>1
<1> QED BY <1>3

\* What is there of the objects is what was not left out; and of what is there, nothing
\* is missing.
ReachedIs(source, made, there, missing) ==
    /\ there \cap source.objects = made
    /\ \A S \in SUBSET source.objects : S \cap missing = {} <=> S \subseteq there
    /\ there \subseteq (source.objects \cup CreatedByParent(source)) \ missing

LEMMA ThereOrMissing ==
    ASSUME NEW source, DatabaseAsListed(source), NEW noted \in SUBSET source.objects,
           source.hidden \subseteq noted
    PROVE  LET made == source.objects \ noted
               there == made \cup {History(t) : t \in source.versioned \cap made}
               missing == noted \cup DroppedWithParent(source)
           IN  ReachedIs(source, made, there, missing)
<1> DEFINE made == source.objects \ noted
           histories == {History(t) : t \in source.versioned \cap made}
           dropped == DroppedWithParent(source)
           created == CreatedByParent(source)
<1>1. /\ source.versioned \in SUBSET source.objects /\ source.objects \in SUBSET Nat
      /\ dropped \in SUBSET created
  BY DatabaseNumbers
<1>2. created \cap source.objects = {}
  BY DEF DatabaseAsListed
<1>3. histories \in SUBSET created
  BY DEF CreatedByParent
<1>4. histories \cap dropped = {}
  <2>1. SUFFICES ASSUME NEW t \in source.versioned \cap made, NEW u \in source.versioned,
                        source.kind[u] = "droppedTable", History(t) = History(u)
                 PROVE  FALSE
    BY DEF DroppedWithParent
  <2>2. t \in Nat /\ u \in Nat
    BY <1>1
  <2>3. t = u
    BY <2>1, <2>2 DEF History
  <2>4. u \in source.hidden
    BY <1>1, <2>1 DEF DatabaseAsListed
  <2> QED BY <2>3, <2>4
<1> HIDE DEF histories, dropped, created
<1> QED BY <1>1, <1>2, <1>3, <1>4 DEF histories, dropped, created, ReachedIs

\* What is held: each constraint and trigger that nothing is missing to.
HeldOf(source, there) ==
    {Batch("constrain", c.on, c.names) :
        c \in {x \in source.constraints : {x.on} \cup x.names \subseteq there}}
    \cup {Batch("trigger", t, {}) : t \in source.triggers \cap there}
    \cup {Batch("grant", g, {}) : g \in source.grants \cap there}

RestRan(order, queue, missing, s) ==
    \E i \in (Len(order) + 1)..Len(queue) :
        /\ queue[i].needs \cap missing = {}
        /\ s = Batch(queue[i].does, queue[i].on, queue[i].to)
RestOf(source, there, s) ==
    \/ \E c \in source.constraints :
         {c.on} \cup c.names \subseteq there /\ s = Batch("constrain", c.on, c.names)
    \/ \E t \in source.triggers : t \in there /\ s = Batch("trigger", t, {})
GrantOf(source, there, s) == \E g \in source.grants : g \in there /\ s = Batch("grant", g, {})

LEMMA HeldOfBoth ==
    ASSUME NEW source, NEW there, NEW s
    PROVE  s \in HeldOf(source, there) <=> RestOf(source, there, s) \/ GrantOf(source, there, s)
BY DEF HeldOf, RestOf, GrantOf

LEMMA RestHeld ==
    ASSUME NEW source, DatabaseAsListed(source), NEW order, NEW queue,
           QueueIs(source, order, queue), NEW made, NEW missing, NEW there,
           ReachedIs(source, made, there, missing), NEW s
    PROVE  RestRan(order, queue, missing, s) <=> RestOf(source, there, s)
<1> DEFINE rest == (Len(order) + 1)..Len(queue)
           ran(e) == e.needs \cap missing = {} /\ s = Batch(e.does, e.on, e.to)
           ofc(c) == Entry("constrain", c.on, c.names, {c.on} \cup c.names, {})
           oft(t) == Entry("trigger", t, {}, {t}, {})
<1>0. \A S \in SUBSET source.objects : S \cap missing = {} <=> S \subseteq there
  BY DEF ReachedIs
<1>1. (\E i \in rest : ran(queue[i])) <=>
        (\E e \in ConstraintEntries(source) \cup TriggerEntries(source) : ran(e))
  <2>1. /\ \A i \in rest : queue[i] \in ConstraintEntries(source) \cup TriggerEntries(source)
        /\ \A e \in ConstraintEntries(source) \cup TriggerEntries(source) :
              \E i \in rest : queue[i] = e
    BY DEF QueueIs
  <2> HIDE DEF rest, ran
  <2> QED BY <2>1
<1>2. \A c \in source.constraints :
        ran(ofc(c)) <=> {c.on} \cup c.names \subseteq there
                        /\ s = Batch("constrain", c.on, c.names)
  <2>1. SUFFICES ASSUME NEW c \in source.constraints
                 PROVE  ran(ofc(c)) <=> {c.on} \cup c.names \subseteq there
                                        /\ s = Batch("constrain", c.on, c.names)
    OBVIOUS
  <2>2. c.on \in source.objects /\ c.names \in SUBSET source.objects
    BY DEF DatabaseAsListed
  <2>3. {c.on} \cup c.names \in SUBSET source.objects
    BY <2>2
  <2> QED BY <1>0, <2>3 DEF Entry
<1>3. \A t \in source.triggers :
        ran(oft(t)) <=> t \in there /\ s = Batch("trigger", t, {})
  <2>1. SUFFICES ASSUME NEW t \in source.triggers
                 PROVE  ran(oft(t)) <=> t \in there /\ s = Batch("trigger", t, {})
    OBVIOUS
  <2>2. {t} \in SUBSET source.objects
    BY DatabaseNumbers
  <2>3. {t} \cap missing = {} <=> t \in there
    BY <1>0, <2>2
  <2> QED BY <2>3 DEF Entry
<1> HIDE DEF ran
<1>4. (\E e \in ConstraintEntries(source) \cup TriggerEntries(source) : ran(e)) <=>
        (\E c \in source.constraints : ran(ofc(c))) \/ (\E t \in source.triggers : ran(oft(t)))
  BY DEF ConstraintEntries, TriggerEntries
<1>5. (\E i \in rest : ran(queue[i])) <=>
        \/ \E c \in source.constraints :
             {c.on} \cup c.names \subseteq there /\ s = Batch("constrain", c.on, c.names)
        \/ \E t \in source.triggers : t \in there /\ s = Batch("trigger", t, {})
  <2> HIDE DEF rest, ofc, oft
  <2> QED BY <1>1, <1>2, <1>3, <1>4
<1> QED BY <1>5 DEF ran, RestRan, RestOf

\* What is warned of: what an object that is there names of what is missing.
Warns(source, made, missing, warned) ==
    \A n, x \in Nat :
       <<n, x>> \in warned <=> n \in made /\ x \in Named(source, n, FALSE) \cap missing
Wanting(source, made, missing) ==
    {<<r.from, r.to>> : r \in {x \in source.references :
                                x.from \in made /\ x.to # x.from /\ x.to \in missing}}

LEMMA WarnedOf ==
    ASSUME NEW source, DatabaseAsListed(source), NEW made \in SUBSET source.objects,
           NEW missing, NEW warned \in SUBSET (Nat \X Nat),
           \A n \in made : Named(source, n, TRUE) \cap missing = {},
           Warns(source, made, missing, warned)
    PROVE  warned = Wanting(source, made, missing)
<1> DEFINE wants == {x \in source.references :
                       x.from \in made /\ x.to # x.from /\ x.to \in missing}
<1>0. \A n, x \in Nat :
        <<n, x>> \in warned <=> n \in made /\ x \in Named(source, n, FALSE) \cap missing
  BY DEF Warns
<1>1. ASSUME NEW r \in wants PROVE <<r.from, r.to>> \in warned
  <2>1. r \in source.references /\ r.from \in made /\ r.to # r.from /\ r.to \in missing
    OBVIOUS
  <2>2. r.from \in Nat /\ r.to \in Nat /\ r.bound \in BOOLEAN
    <3>1. /\ source.objects \in SUBSET Nat /\ CreatedByParent(source) \in SUBSET Nat
      BY DatabaseNumbers
    <3>2. /\ r.from \in source.objects
          /\ r.to \in source.objects \cup CreatedByParent(source) /\ r.bound \in BOOLEAN
      BY <2>1 DEF DatabaseAsListed
    <3> QED BY <3>1, <3>2
  <2>3. r.to \in Named(source, r.from, FALSE)
    <3>1. r.to \notin Named(source, r.from, TRUE)
      BY <2>1
    <3>2. ~(r.bound \/ ~Late(source, r.from) \/ IsType(source, r.to))
      BY <2>1, <3>1 DEF Named
    <3> QED BY <2>1, <3>2 DEF Named
  <2> QED BY <1>0, <2>1, <2>2, <2>3
<1>2. ASSUME NEW w \in warned PROVE \E r \in wants : w = <<r.from, r.to>>
  <2>1. PICK n \in Nat, x \in Nat : w = <<n, x>>
    OBVIOUS
  <2>2. n \in made /\ x \in Named(source, n, FALSE) /\ x \in missing
    BY <1>0, <2>1
  <2>3. PICK r \in source.references : r.from = n /\ r.to # n /\ r.to = x
    BY <2>2 DEF Named
  <2>4. r \in wants
    BY <2>2, <2>3
  <2> HIDE DEF wants
  <2> QED BY <2>1, <2>3, <2>4
<1> HIDE DEF wants
<1>3. warned = {<<r.from, r.to>> : r \in wants}
  BY <1>1, <1>2
<1> QED BY <1>3 DEF wants, Wanting

\* ScriptDatabaseObjectList: where nothing is refused and no cycle was broken, a script
\* leaves out only what cannot be made, and makes and says all the rest.
LEMMA DatabaseComplete ==
    ASSUME NEW source, DatabaseAsListed(source)
    PROVE  LeavesOutOnlyInNeed(source, Replayed(source))
<1> DEFINE scan == orderObjects(source.objects, source.references)
           order == scan.out
           queue == Queue(source, order)
           all == ScriptedTo(source, queue)[Len(queue)]
           p == all.statements
           q == Permissions(source, all.missing)
           script == ScriptDatabaseObjectList(source)
           db == ReplayBatches(source, p \o q)
           db0 == ReplayBatches(source, p)
           made == source.objects \ all.noted
           there == made \cup {History(t) : t \in source.versioned \cap made}
           dropped == DroppedWithParent(source)
           missing == all.noted \cup dropped
<1>1. Replayed(source) = [script |-> script, db |-> ReplayBatches(source, script.statements),
                          broken |-> scan.broken]
  BY DEF Replayed
<1>2. script = [all EXCEPT !.statements = p \o q]
  BY DEF ScriptDatabaseObjectList
<1> HIDE DEF script
<1>3. SUFFICES ASSUME ReplayBatches(source, script.statements).refused = {},
                      scan.broken = {}
               PROVE  LeavesOutOnlyInNeed(source, Replayed(source))
  <2> HIDE DEF scan
  <2> QED BY <1>1 DEF LeavesOutOnlyInNeed
<1>4. InOrderAre(source, order, {}) /\ Len(order) = Cardinality(source.objects)
  BY <1>3, DatabaseInOrder
<1> HIDE DEF scan
<1>5. QueueIs(source, order, queue)
  <2>1. order \in Seq(source.objects)
    BY <1>4 DEF InOrderAre
  <2> QED BY <2>1, QueueHas
<1> HIDE DEF order, queue
<1>6. /\ TurnsAre(source, order, {}, {}, Len(queue), all)
      /\ LeftSoFar(source, order, Len(queue), all)
      /\ MadeSoFar(source, order, queue, Len(queue), all, db0)
  <2>1. Len(queue) \in 0..Len(queue)
    BY <1>5, LenProperties DEF QueueIs
  <2> QED BY <1>4, <1>5, <2>1, TurnsAccepted, TurnsComplete
<1> HIDE DEF all
<1>7. /\ p \in Seq(Batches) /\ db0 \in Replays /\ all.noted \in SUBSET source.objects
      /\ all.missing = missing /\ all.warned \in SUBSET (Nat \X Nat) /\ all \in ScriptsSoFar
  BY <1>6 DEF TurnsAre, ScriptsSoFar
<1>8. /\ script.statements = p \o q /\ script.noted = all.noted /\ script.warned = all.warned
  BY <1>2, <1>7 DEF ScriptsSoFar
<1>9. Firsts(order, Len(queue)) = source.objects
  <2>1. order \in Seq(source.objects) /\ Len(order) \in Nat /\ Len(queue) \in Nat
        /\ Len(order) <= Len(queue)
    BY <1>4, <1>5, LenProperties DEF InOrderAre, QueueIs
  <2>2. {i \in 1..Len(order) : i <= Len(queue)} = 1..Len(order)
    BY <2>1
  <2>3. \A i \in 1..Len(order) : order[i] \in source.objects
    BY <2>1, ElementOfSeq
  <2>4. \A n \in source.objects : \E i \in 1..Len(order) : order[i] = n
    BY <1>4 DEF InOrderAre
  <2> QED BY <2>2, <2>3, <2>4 DEF Firsts
<1> DEFINE G == Grants(source, missing)
<1>10. /\ G \in SUBSET Batches /\ q \in Seq(G)
       /\ \A s \in G : \E i \in 1..Len(q) : q[i] = s
       /\ \A s \in G : s.does = "grant"
  <2>1. \A s \in G : s.does = "grant"
    BY DEF Grants, Batch
  <2> DEFINE m == all.missing
  <2> HIDE DEF m
  <2>2. /\ Grants(source, m) \in SUBSET Batches /\ Permissions(source, m) \in Seq(Grants(source, m))
        /\ \A s \in Grants(source, m) :
             \E i \in 1..Len(Permissions(source, m)) : Permissions(source, m)[i] = s
    BY PermissionsAre
  <2>3. G = Grants(source, m) /\ q = Permissions(source, m)
    BY <1>7 DEF m
  <2> HIDE DEF G, q
  <2> QED BY <2>1, <2>2, <2>3
<1> HIDE DEF p, q, G
<1>11. GrantsMake(db0, q, db)
  BY <1>7, <1>10, GrantsRun
<1> HIDE DEF db0, db, missing
<1>12. db.refused = {}
  BY <1>3, <1>8 DEF db
<1>13. /\ db0.refused = {} /\ db.there = db0.there /\ db.offline = db0.offline
       /\ \A s : s \in db.held <=> s \in db0.held \/ \E i \in 1..Len(q) : q[i] = s
       /\ \A i \in 1..Len(q) : q[i].on \in db0.there
  BY <1>11, <1>12 DEF GrantsMake
<1>14. /\ db.there = there /\ db.offline = source.disabled \cap made
       /\ \A s : s \in db0.held <=>
             \E i \in (Len(order) + 1)..Len(queue) :
                /\ i <= Len(queue) /\ queue[i].needs \cap missing = {}
                /\ s = Batch(queue[i].does, queue[i].on, queue[i].to)
  BY <1>6, <1>7, <1>9, <1>13 DEF MadeSoFar
<1>15. /\ \A n \in source.objects :
            n \in all.noted <=> n \in source.hidden \/ Named(source, n, TRUE) \cap missing # {}
       /\ \A n, x \in Nat :
            <<n, x>> \in all.warned <=> n \in made /\ x \in Named(source, n, FALSE) \cap missing
  BY <1>6, <1>7, <1>9 DEF LeftSoFar
<1>16. /\ source.hidden \subseteq all.noted /\ source.versioned \in SUBSET source.objects
       /\ source.disabled \in SUBSET source.objects
  <2>1. source.hidden \in SUBSET source.objects
    BY DatabaseNumbers
  <2> QED BY <1>15, <2>1, DatabaseNumbers
<1> DEFINE N == all.noted
<1>17. N = Unmakeable(source)
  BY <1>4, <1>7, <1>15, NotedUnmakeable DEF missing
<1>18. ReachedIs(source, made, there, missing)
  <2> HIDE DEF N
  <2>1. ReachedIs(source, source.objects \ N,
                  (source.objects \ N) \cup
                     {History(t) : t \in source.versioned \cap (source.objects \ N)},
                  N \cup DroppedWithParent(source))
    BY <1>7, <1>16, ThereOrMissing DEF N
  <2> QED BY <2>1 DEF N, missing
<1>19. there = (source.objects \ N) \cup {History(t) : t \in source.versioned \ N}
  <2>1. source.versioned \cap made = source.versioned \ N
    BY <1>16
  <2> QED BY <2>1
<1>20. source.disabled \cap made = source.disabled \ N
  BY <1>16
<1> HIDE DEF there
<1>21. db.held = HeldOf(source, there)
  <2>1. \A s : (\E i \in 1..Len(q) : q[i] = s) <=> GrantOf(source, there, s)
    <3>1. ASSUME NEW i \in 1..Len(q)
          PROVE  \E g \in source.grants : g \in there /\ q[i] = Batch("grant", g, {})
      <4>1. q[i] \in G /\ q[i].on \in there
        BY <1>10, <1>13, <1>14, ElementOfSeq
      <4>2. PICK g \in source.grants : q[i] = Batch("grant", g, {})
        BY <4>1 DEF G, Grants
      <4>3. q[i].on = g
        BY <4>2 DEF Batch
      <4> QED BY <4>1, <4>2, <4>3
    <3>2. ASSUME NEW g \in source.grants, g \in there
          PROVE  \E i \in 1..Len(q) : q[i] = Batch("grant", g, {})
      <4>1. Batch("grant", g, {}) \in G
        BY <1>18, <3>2 DEF G, Grants, ReachedIs
      <4> QED BY <1>10, <4>1
    <3> QED BY <3>1, <3>2 DEF GrantOf
  <2>2. \A s : s \in db0.held <=> RestOf(source, there, s)
    <3>1. SUFFICES ASSUME NEW s PROVE s \in db0.held <=> RestOf(source, there, s)
      OBVIOUS
    <3>2. s \in db0.held <=> RestRan(order, queue, missing, s)
      <4>1. Len(queue) \in Nat /\ Len(order) \in Nat
        BY <1>4, <1>5, LenProperties DEF QueueIs, InOrderAre
      <4> QED BY <1>14, <4>1 DEF RestRan
    <3> HIDE DEF made
    <3>3. RestRan(order, queue, missing, s) <=> RestOf(source, there, s)
      BY <1>5, <1>18, RestHeld
    <3> QED BY <3>2, <3>3
  <2>3. \A s : s \in db.held <=> s \in HeldOf(source, there)
    BY <1>13, <2>1, <2>2, HeldOfBoth
  <2>4. db.held = HeldOf(source, there)
    BY <2>3
  <2> QED BY <2>4
<1>22. all.warned = Wanting(source, made, missing)
  <2>1. /\ made \in SUBSET source.objects
        /\ \A n \in made : Named(source, n, TRUE) \cap missing = {}
    BY <1>15
  <2>2. Warns(source, made, missing, all.warned)
    BY <1>15 DEF Warns
  <2> DEFINE warned == all.warned
  <2>3. warned \in SUBSET (Nat \X Nat) /\ Warns(source, made, missing, warned)
    BY <1>7, <2>2
  <2> HIDE DEF made, warned
  <2>4. warned = Wanting(source, made, missing)
    BY <2>1, <2>3, WarnedOf
  <2> QED BY <2>4 DEF warned
<1> DEFINE r == Replayed(source)
<1>23. r.script = script /\ r.db = db
  <2>1. r = [script |-> script, db |-> db, broken |-> scan.broken]
    BY <1>1, <1>8 DEF db
  <2> HIDE DEF r
  <2> QED BY <2>1
<1> HIDE DEF r, made
<1>24. /\ script.noted = Unmakeable(source)
       /\ db.there = (source.objects \ script.noted)
             \cup {History(t) : t \in source.versioned \ script.noted}
       /\ db.offline = source.disabled \ script.noted
  BY <1>8, <1>14, <1>17, <1>19, <1>20
<1>25. db.held = HeldOf(source, db.there)
  BY <1>14, <1>21
<1>26. script.warned = {<<x.from, x.to>> : x \in
             {y \in source.references :
                /\ y.from \in db.there \cap source.objects /\ y.to # y.from
                /\ y.to \in script.noted \cup DroppedWithParent(source)}}
  <2>1. db.there \cap source.objects = made
    BY <1>14, <1>18 DEF ReachedIs
  <2> QED BY <1>8, <1>22, <2>1 DEF missing, Wanting
<1> QED BY <1>23, <1>24, <1>25, <1>26 DEF LeavesOutOnlyInNeed, HeldOf, r

\* ScriptDatabaseObjectList, in the words of the runs: of any database, with any number
\* of objects of any kinds that name each other in any way, an empty one accepts every
\* statement in its turn, but over a reference no order can satisfy or the order takes
\* no account of, or for want of what was so refused; and but for the two kinds of
\* statement the code gets wrong: a permission on the history of a table that was left
\* out (createdByParent has it as created), and a constraint of a table whose disabled
\* clustered index the script has disabled by then.
THEOREM EveryDatabaseAccepted ==
    ASSUME input.of = "database" => DatabaseAsListed(input.source)
    PROVE  ScriptAccepted
BY DatabaseAccepted DEF ScriptAccepted

\* And where it refuses nothing and no cycle was broken, the script leaves out exactly
\* what cannot be made without an object that cannot be scripted; all else is there in
\* the end, with every constraint, trigger, permission and disabled index it can have,
\* and the script warns of each name of what is not.
THEOREM EveryDatabaseComplete ==
    ASSUME input.of = "database" => DatabaseAsListed(input.source)
    PROVE  ScriptComplete
BY DatabaseComplete DEF ScriptComplete

-----------------------------------------------------------------------------
(* ServerConfiguration: a batch of changes of any length.                      *)

show == Config!showAdvancedOptions

\* A server, whatever is configured and runs; sp_configure lets nothing into
\* "show advanced options" but 0 and 1.
Serves(server) ==
    /\ server \in [value : [Config!Options -> Nat], running : [Config!Options -> Nat],
                   refused : BOOLEAN, over : BOOLEAN]
    /\ server.value[show] < 2 /\ server.running[show] < 2

\* "show advanced options" is not one of the options it hides.
LEMMA ShowIs ==
    show \in Config!Options /\ ~Config!Advanced(show) /\ Config!Dynamic(show)
<1>1. show \in Config!Options
  BY DEF show, Config!Options
<1>2. ~Config!Advanced(show) /\ Config!Dynamic(show)
  BY DEF show, Config!showAdvancedOptions, Config!Advanced, Config!Dynamic
<1> QED BY <1>1, <1>2

\* SetTo is a recursive function, and there is one.
LEMMA SetToExists ==
    ASSUME NEW server, NEW T, NEW changes \in Seq(T)
    PROVE  Config!SetTo(server, changes) =
             [n \in 0..Len(changes) |->
                IF n = 0 THEN server
                ELSE Config!SetValue(Config!SetTo(server, changes)[n - 1], changes[n])]
<1> DEFINE Body(f, n) == IF n = 0 THEN server ELSE Config!SetValue(f[n - 1], changes[n])
           Good == {m \in Nat : \E f : f = [n \in 0..m |-> Body(f, n)]}
<1>1. 0 \in Good
  <2> DEFINE f == [n \in 0..0 |-> server]
  <2>1. f = [n \in 0..0 |-> Body(f, n)]
    OBVIOUS
  <2> QED BY <2>1
<1>2. ASSUME NEW m \in Nat, m \in Good PROVE m + 1 \in Good
  <2>1. PICK f : f = [n \in 0..m |-> Body(f, n)]
    BY <1>2
  <2> DEFINE g == [n \in 0..(m + 1) |-> IF n \in 0..m THEN f[n] ELSE Body(f, n)]
  <2>2. ASSUME NEW n \in 0..(m + 1) PROVE g[n] = Body(g, n)
    <3>1. CASE n \in 0..m
      <4>1. f[n] = Body(f, n)
        BY <2>1, <3>1
      <4>2. n # 0 => n - 1 \in 0..m
        BY <3>1
      <4>3. n # 0 => g[n - 1] = f[n - 1]
        BY <4>2
      <4> QED BY <3>1, <4>1, <4>3
    <3>2. CASE n = m + 1
      <4>1. g[n - 1] = f[n - 1] /\ n \notin 0..m
        BY <3>2
      <4> QED BY <3>2, <4>1
    <3> QED BY <3>1, <3>2
  <2>3. g = [n \in 0..(m + 1) |-> Body(g, n)]
    <3> HIDE DEF Body
    <3> QED BY <2>2
  <2> HIDE DEF Body, g
  <2> QED BY <2>3
<1>3. \A m \in Nat : m \in Good
  <2> HIDE DEF Good
  <2> QED BY <1>1, <1>2, NaturalInduction
<1>4. \E f : f = [n \in 0..Len(changes) |-> Body(f, n)]
  BY <1>3, LenProperties
<1> QED BY <1>4 DEF Config!SetTo

\* So each change is set on what the ones before it left.
LEMMA SetToSteps ==
    ASSUME NEW server, NEW T, NEW changes \in Seq(T)
    PROVE  /\ Config!SetTo(server, changes)[0] = server
           /\ \A n \in 1..Len(changes) :
                Config!SetTo(server, changes)[n]
                   = Config!SetValue(Config!SetTo(server, changes)[n - 1], changes[n])
<1> DEFINE f == Config!SetTo(server, changes)
<1>1. f = [n \in 0..Len(changes) |->
             IF n = 0 THEN server ELSE Config!SetValue(f[n - 1], changes[n])]
  BY SetToExists
<1> HIDE DEF f
<1>2. 0 \in 0..Len(changes) /\ \A n \in 1..Len(changes) : n \in 0..Len(changes) /\ n # 0
  BY LenProperties
<1>3. f[0] = server /\ \A n \in 1..Len(changes) : f[n] = Config!SetValue(f[n - 1], changes[n])
  BY <1>1, <1>2
<1> QED BY <1>3 DEF f

\* No change sets nothing.
LEMMA SetAllEmpty ==
    ASSUME NEW server
    PROVE  Config!SetAll(server, <<>>) = server
<1> DEFINE none == <<>>
<1>1. none \in Seq({}) /\ Len(none) = 0
  OBVIOUS
<1> HIDE DEF none
<1>2. Config!SetAll(server, none) = server
  BY <1>1, SetToSteps DEF Config!SetAll
<1> QED BY <1>2 DEF none

\* What the changes so far do does not depend on what follows them.
LEMMA SetAllAppend ==
    ASSUME NEW server, NEW T, NEW changes \in Seq(T), NEW c \in T
    PROVE  Config!SetAll(server, Append(changes, c))
               = Config!SetValue(Config!SetAll(server, changes), c)
<1> DEFINE t == Append(changes, c)
           N == Len(changes)
           Good == {n \in Nat :
                      n > N \/ Config!SetTo(server, t)[n] = Config!SetTo(server, changes)[n]}
<1>0. /\ t \in Seq(T) /\ Len(t) = N + 1 /\ N \in Nat /\ t[N + 1] = c
      /\ \A n \in 1..N : t[n] = changes[n]
  BY AppendProperties, LenProperties
<1> HIDE DEF t
<1>1. 0 \in Good
  BY <1>0, SetToSteps
<1>2. ASSUME NEW n \in Nat, n \in Good PROVE n + 1 \in Good
  <2>1. CASE n + 1 \in 1..N
    <3>1. n + 1 \in 1..Len(t) /\ (n + 1) - 1 = n
      BY <1>0, <2>1
    <3>2. Config!SetTo(server, t)[n] = Config!SetTo(server, changes)[n]
      BY <1>0, <1>2, <2>1
    <3>3. Config!SetTo(server, t)[n + 1] = Config!SetValue(Config!SetTo(server, t)[n], t[n + 1])
      BY <1>0, <3>1, SetToSteps
    <3>4. Config!SetTo(server, changes)[n + 1]
                = Config!SetValue(Config!SetTo(server, changes)[n], changes[n + 1])
      BY <3>1, <2>1, SetToSteps
    <3> QED BY <1>0, <2>1, <3>2, <3>3, <3>4
  <2>2. CASE n + 1 \notin 1..N
    BY <1>0, <2>2
  <2> QED BY <2>1, <2>2
<1>3. \A n \in Nat : n \in Good
  <2> HIDE DEF Good
  <2> QED BY <1>1, <1>2, NaturalInduction
<1>4. Config!SetTo(server, t)[N] = Config!SetTo(server, changes)[N]
  BY <1>0, <1>3
<1>5. N + 1 \in 1..Len(t) /\ (N + 1) - 1 = N
  BY <1>0
<1>6. Config!SetTo(server, t)[N + 1] = Config!SetValue(Config!SetTo(server, t)[N], t[N + 1])
  BY <1>0, <1>5, SetToSteps
<1>7. Config!SetAll(server, t) = Config!SetValue(Config!SetAll(server, changes), c)
  BY <1>0, <1>4, <1>6 DEF Config!SetAll
<1> QED BY <1>7 DEF t

\* sp_configure: one value is configured, or one refusal is told.
LEMMA SetValueDoes ==
    ASSUME NEW server, Serves(server), NEW c, c.value \in Nat
    PROVE  LET after == Config!SetValue(server, c)
           IN  /\ Serves(after)
               /\ after.running = server.running /\ after.over = server.over
               /\ after.refused = (server.refused \/ ~Config!Accepts(server, c))
               /\ \A o \in Config!Options :
                    after.value[o] = IF Config!Accepts(server, c) /\ o = c.name THEN c.value
                                     ELSE server.value[o]
<1> DEFINE after == Config!SetValue(server, c)
<1>0. /\ server \in [value : [Config!Options -> Nat], running : [Config!Options -> Nat],
                     refused : BOOLEAN, over : BOOLEAN]
      /\ server.value[show] < 2 /\ server.running[show] < 2 /\ show \in Config!Options
  BY DEF Serves, show, Config!Options
<1>1. CASE Config!Accepts(server, c)
  <2>1. after = [server EXCEPT !.value = [@ EXCEPT ![c.name] = c.value]]
    BY <1>1 DEF Config!SetValue
  <2>2. after = [server EXCEPT !.value = [server.value EXCEPT ![c.name] = c.value]]
    BY <1>0, <2>1
  <2>3. [server.value EXCEPT ![c.name] = c.value] \in [Config!Options -> Nat]
    BY <1>0
  <2>4. /\ after \in [value : [Config!Options -> Nat], running : [Config!Options -> Nat],
                      refused : BOOLEAN, over : BOOLEAN]
        /\ after.value = [server.value EXCEPT ![c.name] = c.value]
        /\ after.running = server.running /\ after.over = server.over
        /\ after.refused = server.refused
    BY <1>0, <2>2, <2>3
  <2>5. c.name = show => c.value < 2
    BY <1>1 DEF Config!Accepts, Config!InRange, show
  <2> HIDE DEF after
  <2>6. \A o \in Config!Options : after.value[o] = IF o = c.name THEN c.value ELSE server.value[o]
    BY <1>0, <2>4
  <2>7. Serves(after)
    BY <1>0, <2>4, <2>5, <2>6 DEF Serves
  <2> QED BY <1>1, <2>4, <2>6, <2>7 DEF after
<1>2. CASE ~Config!Accepts(server, c)
  <2>1. after = [server EXCEPT !.refused = TRUE]
    BY <1>2 DEF Config!SetValue, Config!Refuse
  <2>2. /\ after \in [value : [Config!Options -> Nat], running : [Config!Options -> Nat],
                      refused : BOOLEAN, over : BOOLEAN]
        /\ after.value = server.value /\ after.refused = TRUE
        /\ after.running = server.running /\ after.over = server.over
    BY <1>0, <2>1
  <2> HIDE DEF after
  <2>3. Serves(after)
    BY <1>0, <2>2 DEF Serves
  <2> QED BY <1>2, <2>2, <2>3 DEF after
<1> QED BY <1>1, <1>2

\* A batch leaves alone what runs.
LEMMA SetAllType ==
    ASSUME NEW server, Serves(server)
    PROVE  \A changes \in Seq(Config!Changes) :
             /\ Serves(Config!SetAll(server, changes))
             /\ Config!SetAll(server, changes).running = server.running
             /\ Config!SetAll(server, changes).over = server.over
<1> DEFINE Good == {cs \in Seq(Config!Changes) : /\ Serves(Config!SetAll(server, cs))
                                          /\ Config!SetAll(server, cs).running = server.running
                                          /\ Config!SetAll(server, cs).over = server.over}
<1>1. <<>> \in Good
  <2>1. Config!SetAll(server, <<>>) = server
    BY SetAllEmpty
  <2> QED BY <2>1, EmptySeq
<1>2. ASSUME NEW cs \in Seq(Config!Changes), NEW c \in Config!Changes, cs \in Good
      PROVE  Append(cs, c) \in Good
  <2>1. Config!SetAll(server, Append(cs, c)) = Config!SetValue(Config!SetAll(server, cs), c)
    BY SetAllAppend
  <2>2. Append(cs, c) \in Seq(Config!Changes)
    BY AppendProperties
  <2>3. c.value \in Nat
    BY DEF Config!Changes
  <2> QED BY <1>2, <2>1, <2>2, <2>3, SetValueDoes
<1>3. Seq(Config!Changes) \subseteq Good
  <2> HIDE DEF Good
  <2> QED BY <1>1, <1>2, SequenceInduction
<1> QED BY <1>3

\* The same options are configured, but for "show advanced options".
Alike(server, other) ==
    \A o \in Config!Options \ {show} : server.value[o] = other.value[o]
Advances(changes) == \E i \in DOMAIN changes : Config!Advanced(changes[i].name)
Shown(server) == server.running[show] = 1

\* A list names an advanced option if its last change does, or the rest.
LEMMA AdvancesAppend ==
    ASSUME NEW changes \in Seq(Config!Changes), NEW c \in Config!Changes
    PROVE  Advances(Append(changes, c)) <=> Advances(changes) \/ Config!Advanced(c.name)
<1>1. /\ Len(Append(changes, c)) = Len(changes) + 1 /\ Len(changes) \in Nat
      /\ \A i \in 1..Len(changes) : Append(changes, c)[i] = changes[i]
      /\ Append(changes, c)[Len(changes) + 1] = c
      /\ DOMAIN changes = 1..Len(changes) /\ DOMAIN Append(changes, c) = 1..(Len(changes) + 1)
  BY AppendProperties, LenProperties
<1> QED BY <1>1 DEF Advances

\* What the sessions run decides only whether advanced options are taken.
LEMMA SetAllAlike ==
    ASSUME NEW server, Serves(server), NEW other, Serves(other), Alike(server, other),
           server.refused = other.refused
    PROVE  \A changes \in Seq(Config!Changes) :
             (Shown(server) <=> Shown(other)) \/ ~Advances(changes) =>
               /\ Alike(Config!SetAll(server, changes), Config!SetAll(other, changes))
               /\ Config!SetAll(server, changes).refused = Config!SetAll(other, changes).refused
<1> DEFINE P(cs) == (Shown(server) <=> Shown(other)) \/ ~Advances(cs) =>
               /\ Alike(Config!SetAll(server, cs), Config!SetAll(other, cs))
               /\ Config!SetAll(server, cs).refused = Config!SetAll(other, cs).refused
           Good == {cs \in Seq(Config!Changes) : P(cs)}
<1>1. <<>> \in Good
  <2>1. Config!SetAll(server, <<>>) = server /\ Config!SetAll(other, <<>>) = other
    BY SetAllEmpty
  <2> QED BY <2>1, EmptySeq
<1>2. ASSUME NEW cs \in Seq(Config!Changes), NEW c \in Config!Changes, cs \in Good
      PROVE  Append(cs, c) \in Good
  <2> DEFINE a == Config!SetAll(server, cs)
             b == Config!SetAll(other, cs)
  <2>1. /\ Config!SetAll(server, Append(cs, c)) = Config!SetValue(a, c)
        /\ Config!SetAll(other, Append(cs, c)) = Config!SetValue(b, c)
    BY SetAllAppend
  <2>2. Append(cs, c) \in Seq(Config!Changes)
    BY AppendProperties
  <2>3. /\ Serves(a) /\ Serves(b) /\ a.running = server.running /\ b.running = other.running
    BY SetAllType
  <2> SUFFICES ASSUME (Shown(server) <=> Shown(other)) \/ ~Advances(Append(cs, c))
               PROVE  /\ Alike(Config!SetValue(a, c), Config!SetValue(b, c))
                      /\ Config!SetValue(a, c).refused = Config!SetValue(b, c).refused
    BY <2>1, <2>2
  <2>4. (Shown(server) <=> Shown(other)) \/ (~Advances(cs) /\ ~Config!Advanced(c.name))
    BY AdvancesAppend
  <2>5. Alike(a, b) /\ a.refused = b.refused
    BY <1>2, <2>4
  <2>6. Config!Accepts(a, c) <=> Config!Accepts(b, c)
    BY <2>3, <2>4 DEF Config!Accepts, Shown, show
  <2>7. c.value \in Nat
    BY DEF Config!Changes
  <2> HIDE DEF a, b
  <2> QED BY <2>3, <2>5, <2>6, <2>7, SetValueDoes DEF Alike
<1>3. Seq(Config!Changes) \subseteq Good
  <2> HIDE DEF Good
  <2> QED BY <1>1, <1>2, SequenceInduction
<1> QED BY <1>3

\* The changes Others and Shows pick.
NotShow == {c \in Config!Changes : c.name # show}
IsShow == {c \in Config!Changes : c.name = show}

\* The lists Others and Shows pick, in the words of Induction's lemmas.
LEMMA OthersAre ==
    ASSUME NEW changes
    PROVE  Config!Others(changes) = Only(changes, NotShow)
BY DEF Config!Others, Config!Only, Config!OnlyTo, Only, OnlyTo, NotShow, show

LEMMA ShowsAre ==
    ASSUME NEW changes
    PROVE  Config!Shows(changes) = Only(changes, IsShow)
BY DEF Config!Shows, Config!Only, Config!OnlyTo, Only, OnlyTo, IsShow, show

\* One change more is in one of the two lists, and last in it.
LEMMA OthersAppend ==
    ASSUME NEW cs \in Seq(Config!Changes), NEW c \in Config!Changes
    PROVE  Config!Others(Append(cs, c)) =
               IF c.name # show THEN Append(Config!Others(cs), c) ELSE Config!Others(cs)
<1>1. Only(Append(cs, c), NotShow) =
          IF c \in NotShow THEN Append(Only(cs, NotShow), c) ELSE Only(cs, NotShow)
  BY OnlyAppend
<1>2. c \in NotShow <=> c.name # show
  BY DEF NotShow
<1>3. Append(cs, c) \in Seq(Config!Changes)
  BY AppendProperties
<1>4. /\ Config!Others(Append(cs, c)) = Only(Append(cs, c), NotShow)
      /\ Config!Others(cs) = Only(cs, NotShow)
  BY <1>3, OthersAre
<1> QED BY <1>1, <1>2, <1>4

LEMMA ShowsAppend ==
    ASSUME NEW cs \in Seq(Config!Changes), NEW c \in Config!Changes
    PROVE  Config!Shows(Append(cs, c)) =
               IF c.name = show THEN Append(Config!Shows(cs), c) ELSE Config!Shows(cs)
<1>1. Only(Append(cs, c), IsShow) =
          IF c \in IsShow THEN Append(Only(cs, IsShow), c) ELSE Only(cs, IsShow)
  BY OnlyAppend
<1>2. c \in IsShow <=> c.name = show
  BY DEF IsShow
<1>3. Append(cs, c) \in Seq(Config!Changes)
  BY AppendProperties
<1>4. /\ Config!Shows(Append(cs, c)) = Only(Append(cs, c), IsShow)
      /\ Config!Shows(cs) = Only(cs, IsShow)
  BY <1>3, ShowsAre
<1> QED BY <1>1, <1>2, <1>4

\* Who leaves out the changes of "show advanced options" sets the others alike.
LEMMA OthersAlike ==
    ASSUME NEW server, Serves(server)
    PROVE  \A changes \in Seq(Config!Changes) :
             /\ Config!Others(changes) \in Seq(Config!Changes)
             /\ Config!Shows(changes) \in Seq(Config!Changes \cap IsShow)
             /\ Alike(Config!SetAll(server, Config!Others(changes)), Config!SetAll(server, changes))
             /\ Config!SetAll(server, Config!Others(changes)).value[show] = server.value[show]
             /\ Advances(Config!Others(changes)) <=> Advances(changes)
<1> DEFINE P(cs) ==
             /\ Alike(Config!SetAll(server, Config!Others(cs)), Config!SetAll(server, cs))
             /\ Config!SetAll(server, Config!Others(cs)).value[show] = server.value[show]
             /\ Advances(Config!Others(cs)) <=> Advances(cs)
           Good == {cs \in Seq(Config!Changes) : P(cs)}
<1>0. \A cs \in Seq(Config!Changes) :
        /\ Config!Others(cs) \in Seq(Config!Changes)
        /\ Config!Shows(cs) \in Seq(Config!Changes \cap IsShow)
  <2> TAKE cs \in Seq(Config!Changes)
  <2>1. /\ Only(cs, NotShow) \in Seq(Config!Changes \cap NotShow)
        /\ Only(cs, IsShow) \in Seq(Config!Changes \cap IsShow)
    BY OnlyType
  <2>2. Config!Changes \cap NotShow \subseteq Config!Changes
    OBVIOUS
  <2> QED BY <2>1, <2>2, OthersAre, ShowsAre
<1>1. <<>> \in Good
  <2>1. Config!Others(<<>>) = <<>>
    BY OnlyEmpty, OthersAre
  <2>2. Config!SetAll(server, <<>>) = server
    BY SetAllEmpty
  <2> QED BY <2>1, <2>2, EmptySeq DEF Alike
<1>2. ASSUME NEW cs \in Seq(Config!Changes), NEW c \in Config!Changes, cs \in Good
      PROVE  Append(cs, c) \in Good
  <2> DEFINE os == Config!Others(cs)
             a == Config!SetAll(server, os)
             b == Config!SetAll(server, cs)
             next == Append(cs, c)
  <2>1. os \in Seq(Config!Changes) /\ next \in Seq(Config!Changes)
    BY <1>0, AppendProperties
  <2>2. Config!Others(next) = IF c.name # show THEN Append(os, c) ELSE os
    BY OthersAppend
  <2>3. /\ Config!SetAll(server, next) = Config!SetValue(b, c)
        /\ Config!SetAll(server, Append(os, c)) = Config!SetValue(a, c)
    BY <2>1, SetAllAppend
  <2>4. Serves(a) /\ Serves(b) /\ a.running = b.running
    BY <2>1, SetAllType
  <2>5. Alike(a, b) /\ a.value[show] = server.value[show] /\ (Advances(os) <=> Advances(cs))
    BY <1>2
  <2>6. /\ Advances(next) <=> Advances(cs) \/ Config!Advanced(c.name)
        /\ Advances(Append(os, c)) <=> Advances(os) \/ Config!Advanced(c.name)
    BY <2>1, AdvancesAppend
  <2>7. show \in Config!Options /\ ~Config!Advanced(show) /\ c.value \in Nat
    BY ShowIs DEF Config!Changes
  <2> HIDE DEF a, b, os, next
  <2>8. CASE c.name # show
    <3>1. Config!Others(next) = Append(os, c)
      BY <2>2, <2>8
    <3>2. Config!Accepts(a, c) <=> Config!Accepts(b, c)
      BY <2>4 DEF Config!Accepts
    <3>3. Alike(Config!SetValue(a, c), Config!SetValue(b, c))
      BY <2>4, <2>5, <3>2, <2>7, SetValueDoes DEF Alike
    <3>4. Config!SetValue(a, c).value[show] = a.value[show]
      BY <2>4, <2>7, <2>8, SetValueDoes
    <3> QED BY <2>1, <2>3, <2>5, <2>6, <3>1, <3>3, <3>4 DEF next
  <2>9. CASE c.name = show
    <3>1. Config!Others(next) = os
      BY <2>2, <2>9
    <3>2. Alike(a, Config!SetValue(b, c))
      BY <2>4, <2>5, <2>9, <2>7, SetValueDoes DEF Alike
    <3> QED BY <2>1, <2>3, <2>5, <2>6, <2>7, <2>9, <3>1, <3>2 DEF a, next
  <2> QED BY <2>8, <2>9
<1>3. Seq(Config!Changes) \subseteq Good
  <2> HIDE DEF Good
  <2> QED BY <1>1, <1>2, SequenceInduction
<1> QED BY <1>0, <1>3

\* RECONFIGURE.
LEMMA ReconfigureDoes ==
    ASSUME NEW server, Serves(server), NEW override \in BOOLEAN
    PROVE  LET after == Config!Reconfigure(server, override)
               installs == Config!Installs(server, override)
           IN  /\ Serves(after) /\ after.value = server.value
               /\ after.refused = (server.refused \/ ~installs)
               /\ after.over = (server.over \/ ~installs)
               /\ \A o \in Config!Options :
                    after.running[o] = IF installs /\ Config!Dynamic(o) THEN server.value[o]
                                       ELSE server.running[o]
<1> DEFINE after == Config!Reconfigure(server, override)
           new == [o \in Config!Options |->
                     IF Config!Dynamic(o) THEN server.value[o] ELSE server.running[o]]
<1>0. /\ server \in [value : [Config!Options -> Nat], running : [Config!Options -> Nat],
                     refused : BOOLEAN, over : BOOLEAN]
      /\ server.value[show] < 2 /\ server.running[show] < 2 /\ show \in Config!Options
  BY DEF Serves, show, Config!Options
<1>1. new \in [Config!Options -> Nat]
  BY <1>0
<1>2. CASE Config!Installs(server, override)
  <2>1. after = [server EXCEPT !.running = new]
    BY <1>0, <1>2 DEF Config!Reconfigure
  <2>2. /\ after \in [value : [Config!Options -> Nat], running : [Config!Options -> Nat],
                      refused : BOOLEAN, over : BOOLEAN]
        /\ after.value = server.value /\ after.running = new
        /\ after.refused = server.refused /\ after.over = server.over
    BY <1>0, <1>1, <2>1
  <2>3. \A o \in Config!Options :
          after.running[o] = IF Config!Dynamic(o) THEN server.value[o] ELSE server.running[o]
    BY <2>2
  <2> HIDE DEF after, new
  <2>4. Serves(after)
    BY <1>0, <2>2, <2>3 DEF Serves
  <2> QED BY <1>0, <1>2, <2>2, <2>3, <2>4 DEF after
<1>3. CASE ~Config!Installs(server, override)
  <2>1. after = [[server EXCEPT !.refused = TRUE] EXCEPT !.over = TRUE]
    BY <1>3 DEF Config!Reconfigure, Config!Refuse
  <2>2. /\ after \in [value : [Config!Options -> Nat], running : [Config!Options -> Nat],
                      refused : BOOLEAN, over : BOOLEAN]
        /\ after.value = server.value /\ after.running = server.running
        /\ after.refused = TRUE /\ after.over = TRUE
    BY <1>0, <2>1
  <2> HIDE DEF after
  <2>3. Serves(after)
    BY <1>0, <2>2 DEF Serves
  <2> QED BY <1>0, <1>3, <2>2, <2>3 DEF after
<1> QED BY <1>2, <1>3

\* It goes by what is pending but for "show advanced options", which is advised
\* whatever it is.
LEMMA InstallsAlike ==
    ASSUME NEW server, Serves(server), NEW other, Serves(other), NEW override \in BOOLEAN,
           Alike(server, other),
           \A o \in Config!Options \ {show} : server.running[o] = other.running[o]
    PROVE  Config!Installs(server, override) <=> Config!Installs(other, override)
<1>1. Config!Advised(server.value[show]) /\ Config!Advised(other.value[show])
  BY DEF Serves, Config!Advised
<1> QED BY <1>1 DEF Config!Installs, Config!Pending, Alike

\* "show advanced options" is always taken if it is in range.
LEMMA ShowSet ==
    ASSUME NEW server, Serves(server), NEW value \in Nat, value < 2
    PROVE  LET after == Config!SetValue(server,
                                       Config!ConfigChange(Config!showAdvancedOptions, value))
           IN  /\ Serves(after) /\ after.running = server.running
               /\ after.refused = server.refused /\ after.over = server.over
               /\ Alike(after, server) /\ after.value[show] = value
<1> DEFINE c == Config!ConfigChange(Config!showAdvancedOptions, value)
<1>1. c.name = show /\ c.value = value
  BY DEF Config!ConfigChange, show
<1>2. Config!Accepts(server, c)
  BY <1>1, ShowIs DEF Config!Accepts, Config!InRange, show
<1> HIDE DEF c
<1>3. LET after == Config!SetValue(server, c)
      IN  /\ Serves(after) /\ after.running = server.running
          /\ after.refused = server.refused /\ after.over = server.over
          /\ Alike(after, server) /\ after.value[show] = value
  <2>1. server.refused \in BOOLEAN
    BY DEF Serves
  <2> QED BY <1>1, <1>2, <2>1, ShowIs, SetValueDoes DEF Alike
<1> QED BY <1>3 DEF c

\* The list that is run: the same changes of the others, one of "show advanced
\* options" at most, and none but of no changes.
LEMMA OrderedDoes ==
    ASSUME NEW server, Serves(server), NEW changes \in Seq(Config!Changes)
    PROVE  LET asked == Config!Shows(changes)
               batch == Config!Ordered(changes)
               after == Config!SetAll(server, batch)
               value == Config!Last(asked).value
           IN  /\ batch \in Seq(Config!Changes)
               /\ Advances(batch) <=> Advances(changes)
               /\ batch = <<>> <=> changes = <<>>
               /\ Alike(after, Config!SetAll(server, changes))
               /\ asked = <<>> => after.value[show] = server.value[show]
               /\ asked # <<>> /\ value < 2 => after.value[show] = value
               /\ value \in Nat \/ asked = <<>>
<1> DEFINE asked == Config!Shows(changes)
           others == Config!Others(changes)
           batch == Config!Ordered(changes)
           last == Config!Last(asked)
           set == Config!SetAll(server, others)
<1>1. /\ others \in Seq(Config!Changes) /\ asked \in Seq(Config!Changes \cap IsShow)
      /\ Alike(set, Config!SetAll(server, changes))
      /\ set.value[show] = server.value[show]
      /\ Advances(others) <=> Advances(changes)
  BY OthersAlike
<1>2. batch = IF asked = <<>> THEN others ELSE Append(others, last)
  BY DEF Config!Ordered
<1>3. asked # <<>> => last \in Config!Changes /\ last.name = show
  <2>1. asked # <<>> => Len(asked) \in 1..Len(asked)
    BY <1>1, LenProperties, EmptySeq
  <2>2. asked # <<>> => asked[Len(asked)] \in Config!Changes \cap IsShow
    BY <1>1, <2>1, ElementOfSeq
  <2>3. last = asked[Len(asked)]
    BY DEF Config!Last
  <2> QED BY <2>2, <2>3 DEF IsShow
<1>4. batch = <<>> <=> changes = <<>>
  <2>1. ASSUME changes = <<>> PROVE batch = <<>>
    <3>1. Config!Others(<<>>) = <<>> /\ Config!Shows(<<>>) = <<>>
      BY OnlyEmpty, OthersAre, ShowsAre
    <3> QED BY <1>2, <2>1, <3>1
  <2>2. ASSUME changes # <<>> PROVE batch # <<>>
    <3>1. PICK cs \in Seq(Config!Changes), c \in Config!Changes : changes = Append(cs, c)
      BY <2>2, SequenceEmptyOrAppend
    <3>2. /\ others = IF c.name # show THEN Append(Config!Others(cs), c) ELSE Config!Others(cs)
          /\ asked = IF c.name = show THEN Append(Config!Shows(cs), c) ELSE Config!Shows(cs)
      BY <3>1, OthersAppend, ShowsAppend
    <3>3. Config!Others(cs) \in Seq(Config!Changes) /\ Config!Shows(cs) \in Seq(Config!Changes)
      <4>1. /\ Config!Shows(cs) \in Seq(Config!Changes \cap IsShow)
            /\ Config!Others(cs) \in Seq(Config!Changes)
        BY OthersAlike
      <4> QED BY <4>1
    <3>4. Append(Config!Others(cs), c) # <<>> /\ Append(Config!Shows(cs), c) # <<>>
      BY <3>3, AppendProperties
    <3>5. asked # <<>> => Append(others, last) # <<>>
      BY <1>1, <1>3, AppendProperties
    <3> HIDE DEF asked, others, batch, last
    <3> QED BY <1>2, <3>2, <3>4, <3>5
  <2> QED BY <2>1, <2>2
<1>5. CASE asked = <<>>
  <2>1. batch = others
    BY <1>2, <1>5
  <2> QED BY <1>1, <1>4, <1>5, <2>1
<1>6. CASE asked # <<>>
  <2>1. batch = Append(others, last) /\ batch \in Seq(Config!Changes)
    BY <1>1, <1>2, <1>3, <1>6, AppendProperties
  <2>2. Advances(batch) <=> Advances(changes)
    BY <1>1, <1>3, <1>6, <2>1, AdvancesAppend, ShowIs
  <2>3. Config!SetAll(server, batch) = Config!SetValue(set, last) /\ Serves(set)
    BY <1>1, <1>3, <1>6, <2>1, SetAllAppend, SetAllType
  <2>4. last.value \in Nat /\ (last.value < 2 => Config!Accepts(set, last))
    BY <1>3, <1>6, ShowIs DEF Config!Accepts, Config!InRange, Config!Changes, show
  <2>5. Alike(Config!SetValue(set, last), set)
    BY <1>3, <1>6, <2>3, <2>4, SetValueDoes DEF Alike
  <2>6. last.value < 2 => Config!SetValue(set, last).value[show] = last.value
    BY <1>3, <1>6, <2>3, <2>4, ShowIs, SetValueDoes
  <2>7. Alike(Config!SetAll(server, batch), Config!SetAll(server, changes))
    BY <1>1, <2>3, <2>5 DEF Alike
  <2> HIDE DEF batch, asked, last, set
  <2> QED BY <1>4, <1>6, <2>1, <2>2, <2>3, <2>4, <2>6, <2>7 DEF batch, asked, last
<1> QED BY <1>5, <1>6

\* What putting "show advanced options" back does.
LEMMA PutBackDoes ==
    ASSUME NEW server, Serves(server), NEW before, Serves(before)
    PROVE  LET after == Config!PutBack(server, before)
           IN  /\ Serves(after) /\ after.running = server.running
               /\ after.refused = server.refused /\ after.over = server.over
               /\ Alike(after, server) /\ after.value[show] = before.value[show]
<1>1. before.value[show] \in Nat /\ before.value[show] < 2
  BY ShowIs DEF Serves
<1>2. Config!PutBack(server, before)
        = Config!SetValue(server,
              Config!ConfigChange(Config!showAdvancedOptions, before.value[show]))
  BY DEF Config!PutBack, show
<1> QED BY <1>1, <1>2, ShowSet

\* Step 1 refused: everything is as it was.
LEMMA StoppedKeeps ==
    ASSUME NEW server, Serves(server), NEW override \in BOOLEAN,
           ~Config!Installs(server, override)
    PROVE  LET after == Config!Enable(server, override)
           IN  /\ Serves(after) /\ after.running = server.running
               /\ after.refused /\ after.over
               /\ Alike(after, server) /\ after.value[show] = server.value[show]
<1> DEFINE set == Config!SetValue(server, Config!ConfigChange(Config!showAdvancedOptions, 1))
           tried == Config!Reconfigure(set, override)
           after == Config!Enable(server, override)
<1>1. Serves(set) /\ set.running = server.running /\ Alike(set, server)
  BY ShowSet
<1>2. ~Config!Installs(set, override)
  BY <1>1, InstallsAlike DEF Alike
<1>3. /\ Serves(tried) /\ tried.value = set.value /\ tried.refused /\ tried.over
      /\ \A o \in Config!Options : tried.running[o] = set.running[o]
  <2> HIDE DEF set
  <2>1. /\ Serves(tried) /\ tried.value = set.value
        /\ tried.refused = (set.refused \/ ~Config!Installs(set, override))
        /\ tried.over = (set.over \/ ~Config!Installs(set, override))
        /\ \A o \in Config!Options :
             tried.running[o] = IF Config!Installs(set, override) /\ Config!Dynamic(o)
                                THEN set.value[o]
                                ELSE set.running[o]
    BY <1>1, ReconfigureDoes
  <2> HIDE DEF tried
  <2> QED BY <1>2, <2>1
<1>4. after = Config!PutBack(tried, server)
  BY <1>3 DEF Config!Enable, Config!TryReconfigure
<1>5. tried.running = server.running
  <2>1. tried.running \in [Config!Options -> Nat] /\ server.running \in [Config!Options -> Nat]
    BY <1>3 DEF Serves
  <2> HIDE DEF tried, set
  <2> QED BY <1>1, <1>3, <2>1
<1>6. Alike(tried, server)
  BY <1>1, <1>3 DEF Alike
<1> HIDE DEF tried, after, set
<1>7. /\ Serves(after) /\ after.running = server.running
      /\ after.refused /\ after.over
      /\ Alike(after, server) /\ after.value[show] = server.value[show]
  <2>1. /\ Serves(after) /\ after.running = tried.running
        /\ after.refused = tried.refused /\ after.over = tried.over
        /\ Alike(after, tried) /\ after.value[show] = server.value[show]
    BY <1>3, <1>4, PutBackDoes
  <2> QED BY <1>3, <1>5, <1>6, <2>1 DEF Alike
<1> QED BY <1>7 DEF after

\* Step 1 done: the server is as its RECONFIGURE leaves it, with "show advanced
\* options" on.
LEMMA EnabledShows ==
    ASSUME NEW server, Serves(server), NEW override \in BOOLEAN,
           ~server.over, Config!Installs(server, override)
    PROVE  LET after == Config!Enable(server, override)
               installed == Config!Reconfigure(server, override)
           IN  /\ Serves(after)
               /\ after.refused = server.refused /\ after.over = server.over
               /\ Alike(after, installed)
               /\ \A o \in Config!Options \ {show} : after.running[o] = installed.running[o]
               /\ after.value[show] = 1 /\ after.running[show] = 1
<1> DEFINE set == Config!SetValue(server, Config!ConfigChange(Config!showAdvancedOptions, 1))
           tried == Config!Reconfigure(set, override)
           after == Config!Enable(server, override)
           installed == Config!Reconfigure(server, override)
<1>1. /\ Serves(set) /\ set.running = server.running /\ Alike(set, server) /\ set.value[show] = 1
      /\ set.refused = server.refused /\ set.over = server.over
  BY ShowSet
<1>2. Config!Installs(set, override)
  BY <1>1, InstallsAlike DEF Alike
<1>3. after = IF tried.over THEN Config!PutBack(tried, server) ELSE tried
  BY DEF Config!Enable, Config!TryReconfigure
<1> HIDE DEF set
<1>4. /\ Serves(tried) /\ tried.value = set.value
      /\ tried.refused = (set.refused \/ ~Config!Installs(set, override))
      /\ tried.over = (set.over \/ ~Config!Installs(set, override))
      /\ \A o \in Config!Options :
           tried.running[o] = IF Config!Installs(set, override) /\ Config!Dynamic(o)
                              THEN set.value[o]
                              ELSE set.running[o]
  BY <1>1, ReconfigureDoes
<1>5. /\ installed.value = server.value
      /\ \A o \in Config!Options :
           installed.running[o] = IF Config!Installs(server, override) /\ Config!Dynamic(o)
                                  THEN server.value[o]
                                  ELSE server.running[o]
  BY ReconfigureDoes
<1>6. server.refused \in BOOLEAN /\ server.over \in BOOLEAN
  BY DEF Serves
<1> HIDE DEF tried, after, installed
<1>7. after = tried /\ tried.refused = server.refused /\ tried.over = server.over
  BY <1>1, <1>2, <1>3, <1>4, <1>6
<1>8. tried.value[show] = 1 /\ tried.running[show] = 1
  BY <1>1, <1>2, <1>4, ShowIs
<1>9. Alike(tried, installed)
  BY <1>1, <1>4, <1>5 DEF Alike
<1>10. \A o \in Config!Options \ {show} : tried.running[o] = installed.running[o]
  BY <1>1, <1>2, <1>4, <1>5 DEF Alike
<1> QED BY <1>4, <1>7, <1>8, <1>9, <1>10 DEF after, installed

\* Steps 3 and 4: the values that were set take effect if they are let in, and
\* "show advanced options" is put back unless a change names it.
LEMMA InstallDoes ==
    ASSUME NEW set, Serves(set), ~set.over, NEW before, Serves(before),
           NEW override \in BOOLEAN, NEW enabled \in BOOLEAN, NEW changes,
           Config!Shows(changes) = <<>> /\ ~enabled => set.value[show] = before.value[show]
    PROVE  LET after == Config!Install(set, changes, override, before, enabled)
               installs == Config!Installs(set, override)
               value == IF Config!Shows(changes) = <<>> THEN before.value[show] ELSE set.value[show]
           IN  /\ Alike(after, set) /\ after.value[show] = value
               /\ after.refused = (set.refused \/ ~installs)
               /\ after.over = ~installs
               /\ \A o \in Config!Options \ {show} :
                    after.running[o] = IF installs /\ Config!Dynamic(o) THEN set.value[o]
                                       ELSE set.running[o]
               /\ after.running[show] = IF installs THEN value ELSE set.running[show]
<1> DEFINE tried == Config!Reconfigure(set, override)
           back == Config!PutBack(tried, before)
           again == Config!Reconfigure(back, override)
           installs == Config!Installs(set, override)
           after == Config!Install(set, changes, override, before, enabled)
<1>1. /\ Serves(tried) /\ tried.value = set.value
      /\ tried.refused = (set.refused \/ ~installs)
      /\ tried.over = (set.over \/ ~installs)
      /\ \A o \in Config!Options :
           tried.running[o] = IF installs /\ Config!Dynamic(o) THEN set.value[o] ELSE set.running[o]
  BY ReconfigureDoes
<1>2. set.over = FALSE /\ set.refused \in BOOLEAN
  BY DEF Serves
<1>3. /\ (Config!Shows(changes) = <<>> => ~enabled) => after = tried
      /\ Config!Shows(changes) = <<>> /\ enabled => after = IF tried.over THEN back ELSE again
  <2>1. CASE Config!Shows(changes) # <<>>
    BY <2>1 DEF Config!Install
  <2>2. CASE Config!Shows(changes) = <<>> /\ ~enabled
    BY <2>2 DEF Config!Install, Config!TryReconfigure
  <2>3. CASE Config!Shows(changes) = <<>> /\ enabled /\ tried.over
    <3>1. Config!TryReconfigure(set, override, before, enabled) = back
      BY <2>3 DEF Config!TryReconfigure
    <3>2. back.over
      BY <2>3, <1>1, PutBackDoes
    <3>3. after = back
      BY <2>3, <3>1, <3>2 DEF Config!Install
    <3> QED BY <2>3, <3>3
  <2>4. CASE Config!Shows(changes) = <<>> /\ enabled /\ ~tried.over
    <3>1. Config!TryReconfigure(set, override, before, enabled) = tried
      BY <2>4 DEF Config!TryReconfigure
    <3>2. after = again
      BY <2>4, <3>1 DEF Config!Install
    <3> QED BY <2>4, <3>2
  <2> QED BY <2>1, <2>2, <2>3, <2>4
<1> HIDE DEF tried
<1>4. /\ Serves(back) /\ back.running = tried.running
      /\ back.refused = tried.refused /\ back.over = tried.over
      /\ Alike(back, tried) /\ back.value[show] = before.value[show]
  BY <1>1, PutBackDoes
<1> HIDE DEF back
<1>5. /\ Serves(again) /\ again.value = back.value
      /\ again.refused = (back.refused \/ ~Config!Installs(back, override))
      /\ again.over = (back.over \/ ~Config!Installs(back, override))
      /\ \A o \in Config!Options :
           again.running[o] = IF Config!Installs(back, override) /\ Config!Dynamic(o)
                              THEN back.value[o]
                              ELSE back.running[o]
  BY <1>4, ReconfigureDoes
<1>6. installs => Config!Installs(back, override)
  <2> SUFFICES ASSUME installs, ~override, NEW o \in Config!Pending(back)
               PROVE  Config!Advised(back.value[o])
    BY DEF Config!Installs
  <2>1. CASE o = show
    BY <1>4, <2>1 DEF Serves, Config!Advised
  <2>2. CASE o # show
    <3>1. /\ o \in Config!Options /\ back.value[o] # back.running[o]
          /\ back.value[o] = set.value[o]
      BY <1>1, <1>4, <2>2 DEF Config!Pending, Alike
    <3>2. set.value[o] # set.running[o]
      BY <1>1, <1>4, <3>1
    <3> QED BY <3>1, <3>2 DEF Config!Pending, Config!Installs
  <2> QED BY <2>1, <2>2
<1> HIDE DEF again, after, installs
<1>7. CASE Config!Shows(changes) = <<>> => ~enabled
  BY <1>1, <1>2, <1>3, <1>7, ShowIs DEF Alike, after, installs
<1>8. CASE Config!Shows(changes) = <<>> /\ enabled /\ tried.over
  BY <1>1, <1>2, <1>3, <1>4, <1>8, ShowIs DEF Alike, after, installs
<1>9. CASE Config!Shows(changes) = <<>> /\ enabled /\ ~tried.over
  <2>1. installs /\ Config!Installs(back, override)
    BY <1>1, <1>2, <1>6, <1>9
  <2>2. again.refused = set.refused /\ again.over = FALSE
    BY <1>1, <1>2, <1>4, <1>5, <2>1
  <2>3. again.value[show] = before.value[show] /\ again.running[show] = before.value[show]
    BY <1>4, <1>5, <2>1, ShowIs
  <2>4. ASSUME NEW o \in Config!Options \ {show}
        PROVE  /\ again.value[o] = set.value[o]
               /\ again.running[o] = IF Config!Dynamic(o) THEN set.value[o] ELSE set.running[o]
    BY <1>1, <1>4, <1>5, <2>1 DEF Alike
  <2>5. after = again
    BY <1>3, <1>9
  <2>6. set.refused \/ ~installs <=> set.refused
    BY <2>1
  <2>7. Alike(after, set)
    BY <2>4, <2>5 DEF Alike
  <2> HIDE DEF installs
  <2>8. /\ after.refused = (set.refused \/ ~installs) /\ after.over = ~installs
        /\ \A o \in Config!Options \ {show} :
             after.running[o] = IF installs /\ Config!Dynamic(o) THEN set.value[o]
                                 ELSE set.running[o]
    BY <1>2, <2>1, <2>2, <2>4, <2>5
  <2> QED BY <1>9, <2>1, <2>3, <2>5, <2>7, <2>8 DEF after, installs
<1> QED BY <1>7, <1>8, <1>9

\* A server as ApplyConfiguration finds one.
Found(server) == Serves(server) /\ ~server.refused /\ ~server.over

\* What the batch sets the values on, and what they are set on if "show advanced
\* options" already runs, unless step 1 is refused.
FirstStep(server, changes, override) ==
    IF Config!Hides(server, changes) THEN Config!Enable(server, override) ELSE server
Plain(server, changes, override) ==
    [(IF Config!Hides(server, changes) THEN Config!Reconfigure(server, override) ELSE server)
       EXCEPT !.running[Config!showAdvancedOptions] = 1]

\* Alike in what is configured and in what runs.
AlikeAll(server, other) ==
    /\ Alike(server, other)
    /\ \A o \in Config!Options \ {show} : server.running[o] = other.running[o]

\* Step 1, where it is not refused, and what RECONFIGURE alone would do.
LEMMA BeginsAlike ==
    ASSUME NEW server, Found(server), NEW changes, NEW override \in BOOLEAN,
           Config!Hides(server, changes) => Config!Installs(server, override)
    PROVE  LET begun == FirstStep(server, changes, override)
               plain == Plain(server, changes, override)
           IN  /\ Found(begun) /\ Found(plain) /\ AlikeAll(begun, plain)
               /\ (Shown(begun) <=> Shown(plain)) \/ ~Advances(changes)
               /\ IF Config!Hides(server, changes) THEN begun.value[show] = 1 ELSE begun = server
<1> DEFINE installed ==
           IF Config!Hides(server, changes) THEN Config!Reconfigure(server, override) ELSE server
           begun == FirstStep(server, changes, override)
           plain == Plain(server, changes, override)
<1>1. /\ Found(begun) /\ AlikeAll(begun, installed)
      /\ IF Config!Hides(server, changes) THEN begun.value[show] = 1 /\ begun.running[show] = 1
         ELSE begun = server
  BY EnabledShows DEF Found, FirstStep, AlikeAll, Alike
<1>2. Found(installed)
  <2>1. CASE Config!Hides(server, changes)
    <3>1. /\ Serves(Config!Reconfigure(server, override))
          /\ Config!Reconfigure(server, override).refused
               = (server.refused \/ ~Config!Installs(server, override))
          /\ Config!Reconfigure(server, override).over =
               (server.over \/ ~Config!Installs(server, override))
      BY ReconfigureDoes DEF Found
    <3> QED BY <2>1, <3>1 DEF Found
  <2>2. CASE ~Config!Hides(server, changes)
    BY <2>2
  <2> QED BY <2>1, <2>2
<1> HIDE DEF installed, begun
<1>3. /\ Found(plain) /\ plain.running[show] = 1 /\ plain.value = installed.value
      /\ \A o \in Config!Options \ {show} : plain.running[o] = installed.running[o]
  <2> DEFINE running == [installed.running EXCEPT ![show] = 1]
  <2>1. installed \in [value : [Config!Options -> Nat], running : [Config!Options -> Nat],
                       refused : BOOLEAN, over : BOOLEAN]
    BY <1>2 DEF Found, Serves
  <2>2. running \in [Config!Options -> Nat] /\ running[show] = 1
        /\ \A o \in Config!Options \ {show} : running[o] = installed.running[o]
    BY <2>1, ShowIs
  <2>3. plain = [installed EXCEPT !.running = running]
    BY <2>1 DEF Plain, installed, show
  <2> HIDE DEF running, plain
  <2>4. /\ plain \in [value : [Config!Options -> Nat], running : [Config!Options -> Nat],
                      refused : BOOLEAN, over : BOOLEAN]
        /\ plain.value = installed.value /\ plain.running = running
        /\ plain.refused = installed.refused /\ plain.over = installed.over
    BY <2>1, <2>2, <2>3
  <2> QED BY <1>2, <2>2, <2>4 DEF Found, Serves
<1> HIDE DEF plain
<1>4. AlikeAll(begun, plain)
  BY <1>1, <1>3 DEF AlikeAll, Alike
<1>5. (Shown(begun) <=> Shown(plain)) \/ ~Advances(changes)
  <2>1. begun.running[show] = 0 \/ begun.running[show] = 1
    BY <1>1, ShowIs DEF Found, Serves
  <2> QED BY <1>1, <1>3, <2>1 DEF Shown, Config!Hides, Advances, show
<1> QED BY <1>1, <1>3, <1>4, <1>5 DEF begun, plain

\* The same list set on each of the two leaves the same and refuses the same.
LEMMA BatchesAlike ==
    ASSUME NEW begun, Found(begun), NEW plain, Found(plain), AlikeAll(begun, plain),
           NEW changes \in Seq(Config!Changes),
           (Shown(begun) <=> Shown(plain)) \/ ~Advances(changes),
           NEW override \in BOOLEAN
    PROVE  LET set == Config!SetAll(begun, Config!Ordered(changes))
               same == Config!SetAll(plain, Config!Ordered(changes))
               all == Config!SetAll(plain, changes)
           IN  /\ Serves(set) /\ ~set.over /\ set.running = begun.running
               /\ Serves(same) /\ Serves(all) /\ AlikeAll(set, all)
               /\ set.refused = same.refused
               /\ Config!Installs(set, override) <=> Config!Installs(all, override)
               /\ Config!Installs(set, override) <=> Config!Installs(same, override)
<1> DEFINE set == Config!SetAll(begun, Config!Ordered(changes))
           same == Config!SetAll(plain, Config!Ordered(changes))
           all == Config!SetAll(plain, changes)
<1>1. /\ Config!Ordered(changes) \in Seq(Config!Changes)
      /\ Advances(Config!Ordered(changes)) <=> Advances(changes)
      /\ Alike(same, all)
  BY OrderedDoes DEF Found
<1>0. /\ Serves(begun) /\ Serves(plain) /\ Alike(begun, plain)
      /\ begun.refused = plain.refused /\ ~begun.over
  BY DEF Found, Serves, AlikeAll
<1>2. /\ Serves(set) /\ set.running = begun.running /\ set.over = begun.over
      /\ Serves(same) /\ same.running = plain.running
      /\ Serves(all) /\ all.running = plain.running
  <2>1. \A cs \in Seq(Config!Changes) : Serves(Config!SetAll(begun, cs))
           /\ Config!SetAll(begun, cs).running = begun.running
           /\ Config!SetAll(begun, cs).over = begun.over
    BY <1>0, SetAllType
  <2>2. \A cs \in Seq(Config!Changes) :
          Serves(Config!SetAll(plain, cs)) /\ Config!SetAll(plain, cs).running = plain.running
    BY <1>0, SetAllType
  <2> QED BY <1>1, <2>1, <2>2
<1>3. Alike(set, same) /\ set.refused = same.refused
  BY <1>0, <1>1, SetAllAlike
<1> HIDE DEF set, same, all
<1>4. AlikeAll(set, same) /\ AlikeAll(set, all)
  BY <1>1, <1>2, <1>3 DEF AlikeAll, Alike
<1>5. /\ Config!Installs(set, override) <=> Config!Installs(all, override)
      /\ Config!Installs(set, override) <=> Config!Installs(same, override)
  BY <1>2, <1>4, InstallsAlike DEF AlikeAll
<1> QED BY <1>0, <1>2, <1>3, <1>4, <1>5 DEF set, same, all

\* ApplyConfiguration: what it asks of a batch of any changes, on any server.
LEMMA BatchConfigures ==
    ASSUME NEW server, Found(server), NEW changes \in Seq(Config!Changes), NEW override \in BOOLEAN
    PROVE  Config!Configured(server, changes, override)
<1> DEFINE after == Config!ApplyConfiguration(server, changes, override)
           hides == Config!Hides(server, changes)
           installs == Config!Installs(server, override)
           begun == FirstStep(server, changes, override)
           plain == Plain(server, changes, override)
           batch == Config!Ordered(changes)
           asked == Config!Shows(changes)
           set == Config!SetAll(begun, batch)
<1>1. /\ batch \in Seq(Config!Changes)
      /\ Advances(batch) <=> Advances(changes)
      /\ batch = <<>> <=> changes = <<>>
  BY OrderedDoes DEF Found
<1>2. Config!Hides(server, batch) <=> hides
  <2>1. \A cs : Config!Hides(server, cs) <=> server.running[show] = 0 /\ Advances(cs)
    BY DEF Config!Hides, Advances, show
  <2> QED BY <1>1, <2>1
<1>3. Plain(server, batch, override) = plain
  BY <1>2 DEF Plain
<1>4. /\ Config!Plainly(server, changes, override)
           = IF changes = <<>> THEN server
              ELSE Config!Reconfigure(Config!SetAll(plain, changes), override)
      /\ Config!Plainly(server, batch, override)
           = IF changes = <<>> THEN server
              ELSE Config!Reconfigure(Config!SetAll(plain, batch), override)
  BY <1>1, <1>3 DEF Config!Plainly, Plain
<1>5. after = IF changes = <<>> \/ begun.over THEN begun
              ELSE Config!Install(set, changes, override, server, hides)
  BY DEF Config!ApplyConfiguration, FirstStep
<1>6. CASE changes = <<>>
  <2>1. ~hides
    BY <1>6 DEF Config!Hides
  <2>2. after = server
    BY <1>5, <1>6, <2>1 DEF FirstStep
  <2>3. asked = <<>>
    BY <1>6, OnlyEmpty, ShowsAre
  <2> HIDE DEF after, hides, asked, batch
  <2>4. Config!AppliesChanges(server, changes, override)
    BY <1>4, <1>6, <2>1, <2>2 DEF Config!AppliesChanges, after, hides
  <2>5. Config!KeepsShown(server, changes, override)
    BY <2>2, <2>3 DEF Config!KeepsShown, after, asked, show
  <2>6. Config!Heard(server, changes, override)
    BY <1>4, <1>6, <2>1, <2>2 DEF Config!Heard, Found, after, hides, batch
  <2> QED BY <2>4, <2>5, <2>6 DEF Config!Configured
<1>7. CASE changes # <<>> /\ hides /\ ~installs
  <2>1. /\ Serves(begun) /\ begun.running = server.running /\ begun.refused /\ begun.over
        /\ Alike(begun, server) /\ begun.value[show] = server.value[show]
    BY <1>7, StoppedKeeps DEF FirstStep, Found
  <2>2. after = begun
    BY <1>5, <2>1
  <2> HIDE DEF after, hides, installs, begun, asked
  <2>3. Config!AppliesChanges(server, changes, override)
    BY <1>7, <2>1, <2>2 DEF Config!AppliesChanges, Alike, after, hides, installs, show
  <2>4. Config!KeepsShown(server, changes, override)
    BY <1>7, <2>1, <2>2 DEF Config!KeepsShown, after, hides, installs, show
  <2>5. Config!Heard(server, changes, override)
    BY <1>7, <2>1, <2>2 DEF Config!Heard, after, hides, installs
  <2> QED BY <2>3, <2>4, <2>5 DEF Config!Configured
<1>8. CASE changes # <<>> /\ (hides => installs)
  <2>1. /\ Found(begun) /\ Found(plain) /\ AlikeAll(begun, plain)
        /\ (Shown(begun) <=> Shown(plain)) \/ ~Advances(changes)
        /\ IF hides THEN begun.value[show] = 1 ELSE begun = server
    BY <1>8, BeginsAlike
  <2>2. /\ Serves(set) /\ ~set.over /\ set.running = begun.running
        /\ Serves(Config!SetAll(plain, batch)) /\ Serves(Config!SetAll(plain, changes))
        /\ AlikeAll(set, Config!SetAll(plain, changes))
        /\ set.refused = Config!SetAll(plain, batch).refused
        /\ Config!Installs(set, override)
             <=> Config!Installs(Config!SetAll(plain, changes), override)
        /\ Config!Installs(set, override) <=> Config!Installs(Config!SetAll(plain, batch), override)
    BY <2>1, BatchesAlike
  <2>3. /\ asked = <<>> => set.value[show] = begun.value[show]
        /\ asked # <<>> /\ Config!Last(asked).value < 2
             => set.value[show] = Config!Last(asked).value
    BY <2>1, OrderedDoes DEF Found
  <2>4. after = Config!Install(set, changes, override, server, hides)
    BY <1>5, <1>8, <2>1 DEF Found
  <2> DEFINE value == IF asked = <<>> THEN server.value[show] ELSE set.value[show]
             lets == Config!Installs(set, override)
  <2>5. /\ Alike(after, set) /\ after.value[show] = value
        /\ after.refused = (set.refused \/ ~lets) /\ after.over = ~lets
        /\ \A o \in Config!Options \ {show} :
             after.running[o] = IF lets /\ Config!Dynamic(o) THEN set.value[o] ELSE set.running[o]
        /\ after.running[show] = IF lets THEN value ELSE set.running[show]
    <3>1. asked = <<>> /\ ~hides => set.value[show] = server.value[show]
      BY <2>1, <2>3
    <3>2. Serves(server) /\ hides \in BOOLEAN
      BY DEF Found, Config!Hides
    <3> HIDE DEF set, hides, after
    <3> QED BY <2>2, <2>4, <3>1, <3>2, InstallDoes
  <2> DEFINE all == Config!Plainly(server, changes, override)
             same == Config!Plainly(server, batch, override)
  <2>6. /\ all = Config!Reconfigure(Config!SetAll(plain, changes), override)
        /\ same = Config!Reconfigure(Config!SetAll(plain, batch), override)
    BY <1>4, <1>8
  <2> HIDE DEF set, plain, after, begun, all, same, hides, installs, asked, batch
  <2>7. /\ all.value = Config!SetAll(plain, changes).value
        /\ \A o \in Config!Options : all.running[o]
             = IF lets /\ Config!Dynamic(o) THEN Config!SetAll(plain, changes).value[o]
               ELSE Config!SetAll(plain, changes).running[o]
    BY <2>2, <2>6, ReconfigureDoes
  <2>8. same.refused = (Config!SetAll(plain, batch).refused \/ ~lets)
    BY <2>2, <2>6, ReconfigureDoes
  <2>9. Config!AppliesChanges(server, changes, override)
    <3>1. ASSUME NEW o \in Config!Options \ {show}
          PROVE  after.value[o] = all.value[o] /\ after.running[o] = all.running[o]
      BY <2>2, <2>5, <2>7 DEF AlikeAll, Alike
    <3> QED BY <1>8, <3>1 DEF Config!AppliesChanges, after, all, hides, installs, show
  <2>10. Config!Heard(server, changes, override)
    BY <1>8, <2>2, <2>5, <2>8 DEF Config!Heard, after, same, hides, installs, batch
  <2>11. Config!KeepsShown(server, changes, override)
    <3> DEFINE named == asked # <<>> /\ ~(hides /\ ~installs)
               wanted == IF named THEN Config!Last(asked).value ELSE server.value[show]
    <3>1. named <=> asked # <<>>
      BY <1>8
    <3>2. ASSUME wanted < 2
          PROVE  /\ after.value[show] = wanted
                 /\ after.running[show] = 1 => 1 \in {wanted, server.running[show]} \/ after.over
      <4>1. value = wanted
        BY <2>3, <3>1, <3>2
      <4> QED BY <2>5, <4>1
    <3> QED BY <3>2 DEF Config!KeepsShown, Config!InRange, after, hides, installs, asked, show
  <2> QED BY <2>9, <2>10, <2>11 DEF Config!Configured
<1> QED BY <1>6, <1>7, <1>8

\* The same in the words of the runs.
THEOREM EveryBatchApplied ==
    ASSUME input.of = "configuration" =>
             /\ Found(input.server) /\ input.changes \in Seq(Config!Changes)
             /\ input.override \in BOOLEAN
    PROVE  ConfigurationApplied
BY BatchConfigures DEF ConfigurationApplied

-----------------------------------------------------------------------------
(* DatabaseSettings: the script of a database itself.                          *)

\* Settings!ExecutedTo is a recursive function, and there is one.
LEMMA SettingsToExists ==
    ASSUME NEW guarded, NEW rival, NEW before, NEW T, NEW script \in Seq(T)
    PROVE  Settings!ExecutedTo(script, before, guarded, rival) =
             [k \in 0..Len(script) |->
                IF k = 0 THEN before
                ELSE Settings!Executes(Settings!ExecutedTo(script, before, guarded, rival)[k - 1],
                                       script[k], guarded, rival)]
<1> DEFINE Begin == before
           Body(f, k) == IF k = 0 THEN Begin
                         ELSE Settings!Executes(f[k - 1], script[k], guarded, rival)
           Good == {m \in Nat : \E f : f = [k \in 0..m |-> Body(f, k)]}
<1> HIDE DEF Begin
<1>1. 0 \in Good
  <2> DEFINE f == [k \in 0..0 |-> Begin]
  <2>1. f = [k \in 0..0 |-> Body(f, k)]
    OBVIOUS
  <2> QED BY <2>1
<1>2. ASSUME NEW m \in Nat, m \in Good PROVE m + 1 \in Good
  <2>1. PICK f : f = [k \in 0..m |-> Body(f, k)]
    BY <1>2
  <2> DEFINE g == [k \in 0..(m + 1) |-> IF k \in 0..m THEN f[k] ELSE Body(f, k)]
  <2>2. ASSUME NEW k \in 0..(m + 1) PROVE g[k] = Body(g, k)
    <3>1. CASE k \in 0..m
      <4>1. f[k] = Body(f, k)
        BY <2>1, <3>1
      <4>2. k # 0 => k - 1 \in 0..m
        BY <3>1
      <4>3. k # 0 => g[k - 1] = f[k - 1]
        BY <4>2
      <4> QED BY <3>1, <4>1, <4>3
    <3>2. CASE k = m + 1
      <4>1. g[k - 1] = f[k - 1] /\ k \notin 0..m
        BY <3>2
      <4> QED BY <3>2, <4>1
    <3> QED BY <3>1, <3>2
  <2>3. g = [k \in 0..(m + 1) |-> Body(g, k)]
    <3> HIDE DEF Body
    <3> QED BY <2>2
  <2> HIDE DEF Body, g
  <2> QED BY <2>3
<1>3. \A m \in Nat : m \in Good
  <2> HIDE DEF Good
  <2> QED BY <1>1, <1>2, NaturalInduction
<1>4. \E f : f = [k \in 0..Len(script) |-> Body(f, k)]
  BY <1>3, LenProperties
<1> QED BY <1>4 DEF Settings!ExecutedTo, Begin

LEMMA SettingsToSteps ==
    ASSUME NEW guarded, NEW rival, NEW before, NEW T, NEW script \in Seq(T)
    PROVE  /\ Settings!ExecutedTo(script, before, guarded, rival)[0] = before
           /\ \A k \in 1..Len(script) :
                Settings!ExecutedTo(script, before, guarded, rival)[k] =
                  Settings!Executes(Settings!ExecutedTo(script, before, guarded, rival)[k - 1],
                                    script[k], guarded, rival)
<1> DEFINE f == Settings!ExecutedTo(script, before, guarded, rival)
           Begin == before
<1> HIDE DEF Begin
<1>1. f = [k \in 0..Len(script) |->
             IF k = 0 THEN Begin ELSE Settings!Executes(f[k - 1], script[k], guarded, rival)]
  BY SettingsToExists DEF Begin
<1> HIDE DEF f
<1>2. 0 \in 0..Len(script) /\ \A k \in 1..Len(script) : k \in 0..Len(script) /\ k # 0
  BY LenProperties
<1>3. f[0] = Begin
      /\ \A k \in 1..Len(script) : f[k] = Settings!Executes(f[k - 1], script[k], guarded, rival)
  BY <1>1, <1>2
<1> QED BY <1>3 DEF f, Begin

\* A script of no statements leaves everything as it was.
LEMMA SettingsNothing ==
    ASSUME NEW guarded, NEW rival, NEW before
    PROVE  Settings!Replay(<<>>, before, guarded, rival) = before
<1> DEFINE none == <<>>
           any == {}
<1>1. none \in Seq(any)
  OBVIOUS
<1>3. Len(none) = 0
  OBVIOUS
<1> HIDE DEF none, any
<1>2. Settings!Replay(none, before, guarded, rival) = before
  <2>1. Settings!ExecutedTo(none, before, guarded, rival)[0] = before
    BY <1>1, SettingsToSteps
  <2> QED BY <1>3, <2>1 DEF Settings!Replay
<1> QED BY <1>2 DEF none

\* A statement more is executed on what those before it left.
LEMMA SettingsAppend ==
    ASSUME NEW guarded, NEW rival, NEW before,
           NEW T, NEW script \in Seq(T), NEW s \in T
    PROVE  Settings!Replay(Append(script, s), before, guarded, rival) =
             Settings!Executes(Settings!Replay(script, before, guarded, rival), s, guarded, rival)
<1> DEFINE t == Append(script, s)
           N == Len(script)
           f == Settings!ExecutedTo(t, before, guarded, rival)
           g == Settings!ExecutedTo(script, before, guarded, rival)
           Good == {n \in Nat : n > N \/ f[n] = g[n]}
<1>0. /\ t \in Seq(T) /\ Len(t) = N + 1 /\ N \in Nat
      /\ \A n \in 1..N : t[n] = script[n]
      /\ t[N + 1] = s
  BY AppendProperties, LenProperties
<1> HIDE DEF t
<1>8. f[0] = before
      /\ \A k \in 1..Len(t) : f[k] = Settings!Executes(f[k - 1], t[k], guarded, rival)
  BY <1>0, SettingsToSteps
<1>9. g[0] = before
      /\ \A k \in 1..N : g[k] = Settings!Executes(g[k - 1], script[k], guarded, rival)
  BY SettingsToSteps
<1> HIDE DEF f, g
<1>1. 0 \in Good
  BY <1>8, <1>9
<1>2. ASSUME NEW n \in Nat, n \in Good PROVE n + 1 \in Good
  <2>1. CASE n + 1 \in 1..N
    <3>1. n + 1 \in 1..Len(t) /\ (n + 1) - 1 = n
      BY <1>0, <2>1
    <3>2. f[n] = g[n] /\ t[n + 1] = script[n + 1]
      BY <1>0, <1>2, <2>1
    <3>3. f[n + 1] = Settings!Executes(f[n], t[n + 1], guarded, rival)
      BY <1>8, <3>1
    <3>4. g[n + 1] = Settings!Executes(g[n], script[n + 1], guarded, rival)
      BY <1>9, <3>1, <2>1
    <3> QED BY <3>2, <3>3, <3>4
  <2>2. CASE n + 1 \notin 1..N
    BY <1>0, <2>2
  <2> QED BY <2>1, <2>2
<1>3. \A n \in Nat : n \in Good
  <2> HIDE DEF Good
  <2> QED BY <1>1, <1>2, NaturalInduction
<1>4. f[N] = g[N]
  BY <1>0, <1>3
<1>5. f[N + 1] = Settings!Executes(f[N], t[N + 1], guarded, rival)
  <2>1. N + 1 \in 1..Len(t) /\ (N + 1) - 1 = N
    BY <1>0
  <2> QED BY <1>8, <2>1
<1>6. f[N + 1] = Settings!Executes(g[N], s, guarded, rival)
  BY <1>0, <1>4, <1>5
<1> QED BY <1>0, <1>6 DEF Settings!Replay, f, g, t

\* And so are those of a second part of a script on what the first left.
LEMMA SettingsJoined ==
    ASSUME NEW guarded, NEW rival, NEW before,
           NEW T, NEW p \in Seq(T), NEW q \in Seq(T)
    PROVE  Settings!Replay(p \o q, before, guarded, rival) =
             Settings!Replay(q, Settings!Replay(p, before, guarded, rival), guarded, rival)
<1> DEFINE after == Settings!Replay(p, before, guarded, rival)
           Good == {r \in Seq(T) : Settings!Replay(p \o r, before, guarded, rival) =
                                     Settings!Replay(r, after, guarded, rival)}
<1>1. <<>> \in Good
  <2>1. p \o <<>> = p /\ <<>> \in Seq(T)
    BY ConcatEmptySeq, EmptySeq
  <2>2. Settings!Replay(<<>>, after, guarded, rival) = after
    BY SettingsNothing
  <2> QED BY <2>1, <2>2
<1>2. ASSUME NEW r \in Seq(T), NEW s \in T, r \in Good PROVE Append(r, s) \in Good
  <2>1. p \o Append(r, s) = Append(p \o r, s) /\ p \o r \in Seq(T) /\ Append(r, s) \in Seq(T)
    OBVIOUS
  <2> DEFINE pr == p \o r
  <2>4. pr \in Seq(T) /\ s \in T
    OBVIOUS
  <2> HIDE DEF pr
  <2>5. Settings!Replay(Append(pr, s), before, guarded, rival) =
          Settings!Executes(Settings!Replay(pr, before, guarded, rival), s, guarded, rival)
    BY <2>4, SettingsAppend
  <2>2. Settings!Replay(Append(p \o r, s), before, guarded, rival) =
          Settings!Executes(Settings!Replay(p \o r, before, guarded, rival), s, guarded, rival)
    BY <2>5 DEF pr
  <2>3. Settings!Replay(Append(r, s), after, guarded, rival) =
          Settings!Executes(Settings!Replay(r, after, guarded, rival), s, guarded, rival)
    BY SettingsAppend
  <2> HIDE DEF after
  <2> QED BY <1>2, <2>1, <2>2, <2>3
<1>3. q \in Good
  <2> HIDE DEF Good
  <2> QED BY <1>1, <1>2, SequenceInduction
<1> QED BY <1>3

\* A script of one statement does what the statement does.
LEMMA SettingsOne ==
    ASSUME NEW guarded, NEW rival, NEW before, NEW s
    PROVE  Settings!Replay(<<s>>, before, guarded, rival) =
             Settings!Executes(before, s, guarded, rival)
<1> DEFINE none == <<>>
           only == {s}
<1>1. none \in Seq(only) /\ s \in only
  OBVIOUS
<1>4. Append(none, s) = <<s>>
  OBVIOUS
<1>3. Settings!Replay(none, before, guarded, rival) = before
  BY SettingsNothing
<1> HIDE DEF none, only
<1>2. Settings!Replay(Append(none, s), before, guarded, rival) =
        Settings!Executes(Settings!Replay(none, before, guarded, rival), s, guarded, rival)
  BY <1>1, SettingsAppend
<1> QED BY <1>2, <1>3, <1>4

\* What was read of a database: there is always something to say of its layout, its
\* recovery model, its options, and who may use it; a database is encrypted with a key.
DatabaseAsRead(source) ==
    /\ source.hidden \cap {"layout", "recovery", "options", "access", "readOnly"} = {}
    /\ source.is["encrypted"] # "new" => source.is["key"] # "new"

\* An instance, as it may be.
Target(t) ==
    /\ t = [there |-> t.there, is |-> t.is, at |-> t.at, taken |-> t.taken,
            stray |-> t.stray, refused |-> t.refused]
    /\ t.is = [item \in Settings!Items |-> t.is[item]]
    /\ t.there \in BOOLEAN /\ t.taken \in BOOLEAN

\* What may be said of a database.
Values(source) == {source.is[item] : item \in Settings!Items} \cup {"primary", "it", "master", ""}
DatabaseStatements(source) ==
    [item : Settings!Items \cup {"use", "drop", "create"}, value : Values(source)]

\* The database is there, new but for the items that are done, and the session is
\* where it is.
Stage(done, at) == [done |-> done, at |-> at]
Reached(t, source, stage, refused) ==
    /\ Target(t) /\ t.there /\ ~t.taken
    /\ t.stray = {} /\ t.at = stage.at /\ t.refused = refused
    /\ \A item \in Settings!Items :
         t.is[item] = IF item \in stage.done THEN Settings!Sayable(source, item)
                      ELSE Settings!New(source.is["layout"])[item]

\* A script that brings it from one stage to another.
Brings(script, source, guarded, rival, refused, from, to) ==
    /\ script \in Seq(DatabaseStatements(source))
    /\ \A t : Reached(t, source, from, refused)
                => Reached(Settings!Replay(script, t, guarded, rival), source, to, refused)

\* Scripts that bring it on from one another bring it all the way.
LEMMA BringsOn ==
    ASSUME NEW source, NEW guarded, NEW rival, NEW refused, NEW a, NEW b, NEW c, NEW p, NEW q,
           Brings(p, source, guarded, rival, refused, a, b),
           Brings(q, source, guarded, rival, refused, b, c)
    PROVE  Brings(p \o q, source, guarded, rival, refused, a, c)
<1>1. p \in Seq(DatabaseStatements(source)) /\ q \in Seq(DatabaseStatements(source))
  BY DEF Brings
<1>2. ASSUME NEW t, Reached(t, source, a, refused)
      PROVE  Reached(Settings!Replay(p \o q, t, guarded, rival), source, c, refused)
  <2>1. Reached(Settings!Replay(p, t, guarded, rival), source, b, refused)
    BY <1>2 DEF Brings
  <2>2. Reached(Settings!Replay(q, Settings!Replay(p, t, guarded, rival), guarded, rival),
                source, c, refused)
    BY <2>1 DEF Brings
  <2>3. Settings!Replay(p \o q, t, guarded, rival) =
          Settings!Replay(q, Settings!Replay(p, t, guarded, rival), guarded, rival)
    BY <1>1, SettingsJoined
  <2> QED BY <2>2, <2>3
<1>3. p \o q \in Seq(DatabaseStatements(source))
  BY <1>1
<1> QED BY <1>2, <1>3 DEF Brings

\* A statement that a database takes sets its item, and nothing else.
LEMMA StatementSets ==
    ASSUME NEW source, NEW guarded, NEW rival, NEW refused, NEW from, NEW t,
           Reached(t, source, from, refused), "readOnly" \notin from.done,
           NEW item \in Settings!Items \ {"access", "readOnly", "encrypted"},
           item \in Settings!Inside => from.at = "it",
           NEW value
    PROVE  Settings!Executes(t, Settings!Set(item, value), guarded, rival) =
             [t EXCEPT !.is[item] = value]
<1> DEFINE s == Settings!Set(item, value)
<1>1. s.item = item /\ s.value = value
  BY DEF Settings!Set
<1>2. item \notin {"drop", "create", "use", "access", "readOnly", "encrypted"}
  BY DEF Settings!Items
<1>3. t.is["readOnly"] = "READ_WRITE"
  BY DEF Reached, Settings!New, Settings!Items
<1>4. ~Settings!Refused(t, s)
  BY <1>1, <1>2, <1>3 DEF Reached, Settings!Refused
<1>5. s # Settings!Set("access", "SINGLE_USER")
  BY <1>1, <1>2 DEF Settings!Set
<1>6. Settings!Takes(t, s, rival) = [t EXCEPT !.is[s.item] = s.value, !.taken = FALSE]
  BY <1>1, <1>2, <1>5 DEF Reached, Settings!Takes
<1>7. t.taken = FALSE
  BY DEF Reached, Target
<1>8. [t EXCEPT !.is[item] = value, !.taken = FALSE] = [t EXCEPT !.is[item] = value]
  BY <1>7 DEF Reached, Target
<1> HIDE DEF s
<1> QED BY <1>1, <1>4, <1>6, <1>8 DEF Settings!Executes, s


\* A statement that says what is to be said of an item gets it done.
LEMMA StatementBrings ==
    ASSUME NEW source, DatabaseAsRead(source), NEW guarded, NEW rival, NEW refused,
           NEW done, NEW at, "readOnly" \notin done,
           NEW item \in Settings!Items \ {"access", "readOnly", "encrypted"},
           item \in Settings!Inside => at = "it",
           Settings!Sayable(source, item) \in Values(source)
    PROVE  Brings(<<Settings!Set(item, Settings!Sayable(source, item))>>, source, guarded, rival,
                 refused, Stage(done, at), Stage(done \cup {item}, at))
<1> DEFINE value == Settings!Sayable(source, item)
           s == Settings!Set(item, value)
           from == Stage(done, at)
           to == Stage(done \cup {item}, at)
<1>1. <<s>> \in Seq(DatabaseStatements(source))
  <2>2. s \in DatabaseStatements(source)
    BY DEF Settings!Set, DatabaseStatements
  <2> HIDE DEF s
  <2> QED BY <2>2
<1>2. ASSUME NEW t, Reached(t, source, from, refused)
      PROVE  Reached(Settings!Replay(<<s>>, t, guarded, rival), source, to, refused)
  <2> DEFINE u == [t EXCEPT !.is[item] = value]
  <2>1. Settings!Replay(<<s>>, t, guarded, rival) = Settings!Executes(t, s, guarded, rival)
    BY SettingsOne
  <2>2. from.done = done /\ from.at = at /\ to.done = done \cup {item} /\ to.at = at
    BY DEF Stage
  <2>3. Settings!Executes(t, s, guarded, rival) = u
    <3>1. Reached(t, source, from, refused)
      BY <1>2
    <3> HIDE DEF from, value
    <3>2. "readOnly" \notin from.done /\ (item \in Settings!Inside => from.at = "it")
      BY <2>2
    <3> QED BY <3>1, <3>2, StatementSets
  <2>4. Target(t)
    BY <1>2 DEF Reached
  <2>5. /\ Target(u) /\ u.there = t.there /\ u.taken = t.taken /\ u.stray = t.stray
        /\ u.at = t.at /\ u.refused = t.refused
        /\ \A other \in Settings!Items : u.is[other] = IF other = item THEN value ELSE t.is[other]
    <3> HIDE DEF value
    <3> QED BY <2>4 DEF Target
  <2> HIDE DEF u, from, to, value
  <2>6. \A other \in Settings!Items :
          u.is[other] = IF other \in to.done THEN Settings!Sayable(source, other)
                        ELSE Settings!New(source.is["layout"])[other]
    BY <1>2, <2>2, <2>5 DEF Reached, value
  <2>7. Reached(u, source, to, refused)
    BY <1>2, <2>2, <2>5, <2>6 DEF Reached
  <2> QED BY <2>1, <2>3, <2>7 DEF from, to, value
<1> HIDE DEF s
<1> QED BY <1>1, <1>2 DEF Brings, from, to, s, value

\* Nothing is written of an item of which nothing is to be said.
LEMMA NothingBrings ==
    ASSUME NEW source, NEW guarded, NEW rival, NEW refused, NEW done, NEW more, NEW at,
           \A item \in more :
             Settings!Sayable(source, item) = Settings!New(source.is["layout"])[item]
    PROVE  Brings(<<>>, source, guarded, rival, refused,
                 Stage(done, at), Stage(done \cup more, at))
<1> DEFINE from == Stage(done, at)
           to == Stage(done \cup more, at)
<1>1. from.done = done /\ from.at = at /\ to.done = done \cup more /\ to.at = at
  BY DEF Stage
<1> HIDE DEF from, to
<1>2. ASSUME NEW t, Reached(t, source, from, refused)
      PROVE  Reached(Settings!Replay(<<>>, t, guarded, rival), source, to, refused)
  <2>1. Settings!Replay(<<>>, t, guarded, rival) = t
    BY SettingsNothing
  <2>2. Reached(t, source, to, refused)
    BY <1>1, <1>2 DEF Reached
  <2> QED BY <2>1, <2>2
<1>3. <<>> \in Seq(DatabaseStatements(source))
  BY EmptySeq
<1>4. Brings(<<>>, source, guarded, rival, refused, from, to)
  BY <1>2, <1>3 DEF Brings
<1> QED BY <1>4 DEF from, to

\* What USE does, of a database that is there.
LEMMA UseBrings ==
    ASSUME NEW source, NEW guarded, NEW rival, NEW refused, NEW done, NEW at,
           NEW place \in {"it", "master"}
    PROVE  Brings(<<Settings!Use(place)>>, source, guarded, rival, refused,
                 Stage(done, at), Stage(done, place))
<1> DEFINE s == Settings!Use(place)
           from == Stage(done, at)
           to == Stage(done, place)
<1>1. s.item = "use" /\ s.value = place
  BY DEF Settings!Use, Settings!Set
<1>9. s \in DatabaseStatements(source)
  BY DEF Settings!Use, Settings!Set, DatabaseStatements, Values
<1>2. from.done = done /\ from.at = at /\ to.done = done /\ to.at = place
  BY DEF Stage
<1> HIDE DEF s, from, to
<1>3. ASSUME NEW t, Reached(t, source, from, refused)
      PROVE  Reached(Settings!Replay(<<s>>, t, guarded, rival), source, to, refused)
  <2>1. Settings!Replay(<<s>>, t, guarded, rival) = Settings!Executes(t, s, guarded, rival)
    BY SettingsOne
  <2>2. ~Settings!Refused(t, s)
    <3>1. t.there /\ ~t.taken
      BY <1>3 DEF Reached
    <3> QED BY <1>1, <3>1 DEF Settings!Refused
  <2>3. Settings!Takes(t, s, rival) = [t EXCEPT !.at = place]
    <3>1. s.item \notin {"drop", "create"}
      BY <1>1
    <3>2. s.item \notin Settings!Inside
      BY <1>1 DEF Settings!Inside
    <3>3. Settings!Takes(t, s, rival) = [t EXCEPT !.at = s.value]
      BY <1>1, <3>1, <3>2, Zenon DEF Settings!Takes
    <3> QED BY <1>1, <3>3
  <2>4. Settings!Executes(t, s, guarded, rival) = [t EXCEPT !.at = place]
    BY <2>2, <2>3 DEF Settings!Executes
  <2> DEFINE u == [t EXCEPT !.at = place]
  <2>5. Target(t)
    BY <1>3 DEF Reached
  <2>6. /\ Target(u) /\ u.there = t.there /\ u.taken = t.taken /\ u.stray = t.stray
        /\ u.at = place /\ u.refused = t.refused /\ u.is = t.is
    BY <2>5 DEF Target
  <2> HIDE DEF u
  <2>7. Reached(u, source, to, refused)
    BY <1>2, <1>3, <2>6 DEF Reached
  <2> QED BY <2>1, <2>4, <2>7 DEF u
<1>4. <<s>> \in Seq(DatabaseStatements(source))
  BY <1>9
<1>5. Brings(<<s>>, source, guarded, rival, refused, from, to)
  BY <1>3, <1>4 DEF Brings
<1> QED BY <1>5 DEF s, from, to


\* Items that are written if there is something to set and a way to.
PlainItems ==
    {"empty", "readOnlyGroup", "tracking", "store", "key", "scoped", "secondary", "props", "owner"}

LEMMA WrittenBrings ==
    ASSUME NEW source, DatabaseAsRead(source), source.is["layout"] # "snapshot",
           NEW guarded, NEW rival, NEW refused,
           NEW done, NEW at, "readOnly" \notin done,
           NEW item \in PlainItems, item \in Settings!Inside => at = "it"
    PROVE  Brings(Settings!Written(source, item), source, guarded, rival,
                 refused, Stage(done, at), Stage(done \cup {item}, at))
<1>1. /\ item \in Settings!Items \ {"access", "readOnly", "encrypted"}
      /\ item \notin {"versions", "layout", "recovery", "options"}
  BY DEF PlainItems, Settings!Items
<1>2. Settings!New("")[item] = "new" /\ Settings!New(source.is["layout"])[item] = "new"
  BY <1>1 DEF Settings!New
<1>3. Settings!Sayable(source, item) =
        IF item \in source.hidden THEN "new" ELSE source.is[item]
  BY <1>1, <1>2 DEF Settings!Sayable
<1>4. CASE source.is[item] = "new" \/ item \in source.hidden
  <2>1. Settings!Written(source, item) = <<>>
    BY <1>4 DEF Settings!Written
  <2>2. \A i \in {item} :
          Settings!Sayable(source, i) = Settings!New(source.is["layout"])[i]
    BY <1>2, <1>3, <1>4
  <2>3. Brings(<<>>, source, guarded, rival, refused, Stage(done, at), Stage(done \cup {item}, at))
    BY <2>2, NothingBrings
  <2> QED BY <2>1, <2>3
<1>5. CASE ~(source.is[item] = "new" \/ item \in source.hidden)
  <2>1. Settings!Sayable(source, item) = source.is[item]
    BY <1>3, <1>5
  <2>2. Settings!Written(source, item) =
          <<Settings!Set(item, Settings!Sayable(source, item))>>
    BY <1>5, <2>1 DEF Settings!Written
  <2>3. Settings!Sayable(source, item) \in Values(source)
    BY <1>1, <2>1 DEF Values
  <2>4. Brings(<<Settings!Set(item, Settings!Sayable(source, item))>>, source, guarded, rival,
              refused, Stage(done, at), Stage(done \cup {item}, at))
    BY <1>1, <2>3, StatementBrings
  <2> QED BY <2>2, <2>4
<1> QED BY <1>4, <1>5

\* Where the version store is, or that there is one.
LEMMA VersionsBrings ==
    ASSUME NEW source, DatabaseAsRead(source), source.is["layout"] # "snapshot",
           NEW guarded, NEW rival, NEW refused, NEW done, NEW at, "readOnly" \notin done
    PROVE  Brings(Settings!Versions(source), source, guarded, rival,
                 refused, Stage(done, at), Stage(done \cup {"versions"}, at))
<1> DEFINE item == "versions"
<1>1. /\ item \in Settings!Items \ {"access", "readOnly", "encrypted"}
      /\ item \notin Settings!Inside
  BY DEF Settings!Items, Settings!Inside
<1>2. Settings!New(source.is["layout"])[item] = "new"
  BY <1>1 DEF Settings!New
<1>3. Settings!Sayable(source, item) =
        IF item \in source.hidden THEN "primary" ELSE source.is[item]
  BY DEF Settings!Sayable
<1>4. CASE source.is[item] = "new" /\ item \notin source.hidden
  <2>1. Settings!Versions(source) = <<>>
    BY <1>4 DEF Settings!Written, Settings!Versions
  <2>2. \A i \in {item} :
          Settings!Sayable(source, i) = Settings!New(source.is["layout"])[i]
    BY <1>2, <1>3, <1>4
  <2>3. Brings(<<>>, source, guarded, rival, refused, Stage(done, at), Stage(done \cup {item}, at))
    BY <2>2, NothingBrings
  <2> QED BY <2>1, <2>3
<1>5. CASE ~(source.is[item] = "new" /\ item \notin source.hidden)
  <2>2. Settings!Versions(source) = <<Settings!Set(item, Settings!Sayable(source, item))>>
    BY <1>3, <1>5 DEF Settings!Written, Settings!Versions
  <2>3. Settings!Sayable(source, item) \in Values(source)
    BY <1>1, <1>3 DEF Values
  <2> HIDE DEF item
  <2>4. Brings(<<Settings!Set(item, Settings!Sayable(source, item))>>, source, guarded, rival,
              refused, Stage(done, at), Stage(done \cup {item}, at))
    BY <1>1, <2>3, StatementBrings
  <2> QED BY <2>2, <2>4 DEF item
<1> QED BY <1>4, <1>5

\* Encryption is put into use, with a key, from master.
LEMMA EncryptionBrings ==
    ASSUME NEW source, DatabaseAsRead(source), source.is["layout"] # "snapshot",
           NEW guarded, NEW rival, NEW refused,
           NEW done, "readOnly" \notin done, "key" \in done, NEW at
    PROVE  Brings(Settings!Encryption(source), source, guarded, rival,
                 refused, Stage(done, at), Stage(done \cup {"encrypted"}, at))
<1> DEFINE item == "encrypted"
           value == Settings!Sayable(source, item)
           s == Settings!Set(item, value)
           from == Stage(done, at)
           to == Stage(done \cup {item}, at)
<1>1. item \in Settings!Items /\ "key" \in Settings!Items /\ "readOnly" \in Settings!Items
  BY DEF Settings!Items
<1>2. /\ Settings!New("")[item] = "new" /\ Settings!New(source.is["layout"])[item] = "new"
      /\ Settings!New(source.is["layout"])["readOnly"] = "READ_WRITE"
  BY <1>1 DEF Settings!New
<1>3. value = IF item \in source.hidden \/ "key" \in source.hidden THEN "new" ELSE source.is[item]
  BY <1>2 DEF Settings!Sayable
<1>4. Settings!Sayable(source, "key") = IF "key" \in source.hidden THEN "new" ELSE source.is["key"]
  <2>1. Settings!New("")["key"] = "new"
    BY <1>1 DEF Settings!New
  <2> QED BY <2>1 DEF Settings!Sayable
<1>5. CASE value = "new"
  <2>1. Settings!Encryption(source) = <<>>
    BY <1>3, <1>5 DEF Settings!Encryption, Settings!Written
  <2>2. \A i \in {item} :
          Settings!Sayable(source, i) = Settings!New(source.is["layout"])[i]
    BY <1>2, <1>5
  <2>3. Brings(<<>>, source, guarded, rival, refused, Stage(done, at), Stage(done \cup {item}, at))
    BY <2>2, NothingBrings
  <2> QED BY <2>1, <2>3
<1>6. CASE value # "new"
  <2>1. /\ item \notin source.hidden /\ "key" \notin source.hidden /\ value = source.is[item]
        /\ source.is["key"] # "new"
    BY <1>3, <1>6 DEF DatabaseAsRead
  <2>2. Settings!Encryption(source) = <<s>>
    BY <1>6, <2>1 DEF Settings!Encryption, Settings!Written
  <2>3. <<s>> \in Seq(DatabaseStatements(source))
    <3>1. s \in DatabaseStatements(source)
      BY <1>1, <2>1 DEF Settings!Set, DatabaseStatements, Values
    <3> HIDE DEF s
    <3> QED BY <3>1
  <2>4. s.item = item /\ s.value = value
    BY DEF Settings!Set
  <2>5. from.done = done /\ from.at = at /\ to.done = done \cup {item} /\ to.at = at
    BY DEF Stage
  <2>6. s # Settings!Set("access", "SINGLE_USER")
    BY DEF Settings!Set
  <2> HIDE DEF s, from, to, value
  <2>7. ASSUME NEW t, Reached(t, source, from, refused)
        PROVE  Reached(Settings!Replay(<<s>>, t, guarded, rival), source, to, refused)
    <3> DEFINE u == [t EXCEPT !.is[item] = value]
    <3>1. Settings!Replay(<<s>>, t, guarded, rival) = Settings!Executes(t, s, guarded, rival)
      BY SettingsOne
    <3>2. t.is["key"] # "new" /\ t.is["readOnly"] = "READ_WRITE"
      BY <1>1, <1>2, <1>4, <2>1, <2>5, <2>7 DEF Reached
    <3>3. ~Settings!Refused(t, s)
      BY <2>4, <3>2 DEF Settings!Refused
    <3>4. Settings!Takes(t, s, rival) = [t EXCEPT !.is[item] = value, !.taken = FALSE]
      <4>1. s.item \notin {"drop", "create", "use"} /\ s.item \notin Settings!Inside
        BY <2>4 DEF Settings!Inside
      <4>2. Settings!Takes(t, s, rival) = [t EXCEPT !.is[s.item] = s.value, !.taken = FALSE]
        BY <4>1, <2>6 DEF Settings!Takes
      <4> QED BY <2>4, <4>2
    <3>5. Target(t)
      BY <2>7 DEF Reached
    <3>6. [t EXCEPT !.is[item] = value, !.taken = FALSE] = u
      <4>1. t.taken = FALSE
        BY <2>7 DEF Reached, Target
      <4> QED BY <3>5, <4>1 DEF Target
    <3>7. /\ Target(u) /\ u.there = t.there /\ u.taken = t.taken /\ u.stray = t.stray
          /\ u.at = t.at /\ u.refused = t.refused
          /\ \A other \in Settings!Items : u.is[other] = IF other = item THEN value ELSE t.is[other]
      BY <3>5 DEF Target
    <3>8. Settings!Executes(t, s, guarded, rival) = u
      BY <3>3, <3>4, <3>6 DEF Settings!Executes
    <3> HIDE DEF u, item
    <3>9. \A other \in Settings!Items :
            u.is[other] = IF other \in to.done THEN Settings!Sayable(source, other)
                          ELSE Settings!New(source.is["layout"])[other]
      BY <2>5, <2>7, <3>7 DEF Reached, value
    <3>10. Reached(u, source, to, refused)
      BY <2>5, <2>7, <3>7, <3>9 DEF Reached
    <3> QED BY <3>1, <3>8, <3>10
  <2>8. Brings(<<s>>, source, guarded, rival, refused, from, to)
    BY <2>3, <2>7 DEF Brings
  <2> QED BY <2>2, <2>8 DEF s, from, to
<1> QED BY <1>5, <1>6


\* What is set inside the database is set from inside it, and the session comes back to
\* master; or there is nothing of it to set, and the session stays where it is.
Left(source, at) ==
    IF \A item \in Settings!Inside : source.is[item] = "new" /\ item \notin source.hidden
    THEN at ELSE "master"
LEMMA InsideBrings ==
    ASSUME NEW source, DatabaseAsRead(source), source.is["layout"] # "snapshot",
           NEW guarded, NEW rival, NEW refused, NEW done, "readOnly" \notin done, NEW at
    PROVE  Brings(Settings!writeInDatabaseSettings(source), source, guarded, rival, refused,
                 Stage(done, at),
                 Stage(done \cup (Settings!Inside \cup {"encrypted"}), Left(source, at)))
<1> DEFINE nothing == \A item \in Settings!Inside :
                        source.is[item] = "new" /\ item \notin source.hidden
           all == done \cup (Settings!Inside \cup {"encrypted"})
<1>1. CASE nothing
  <2>1. Settings!writeInDatabaseSettings(source) = <<>> /\ Left(source, at) = at
    BY <1>1 DEF Settings!writeInDatabaseSettings, Left
  <2>2. \A i \in Settings!Inside \cup {"encrypted"} :
          Settings!Sayable(source, i) = Settings!New(source.is["layout"])[i]
    <3>1. source.is["key"] = "new" /\ source.is["encrypted"] = "new"
      BY <1>1 DEF Settings!Inside, DatabaseAsRead
    <3>2. \A i \in Settings!Inside \cup {"encrypted"} : source.is[i] = "new"
      BY <1>1, <3>1
    <3>3. ASSUME NEW i \in Settings!Inside \cup {"encrypted"}
          PROVE  Settings!New("")[i] = "new" /\ Settings!New(source.is["layout"])[i] = "new"
                 /\ i # "versions"
      BY DEF Settings!New, Settings!Inside, Settings!Items
    <3> QED BY <3>2, <3>3 DEF Settings!Sayable
  <2>3. Brings(<<>>, source, guarded, rival, refused, Stage(done, at), Stage(all, at))
    BY <2>2, NothingBrings
  <2> QED BY <2>1, <2>3
<1>2. CASE ~nothing
  <2> DEFINE W(item) == Settings!Written(source, item)
             d1 == done \cup {"key"}
             d2 == d1 \cup {"scoped"}
             d3 == d2 \cup {"secondary"}
             d4 == d3 \cup {"props"}
             d5 == d4 \cup {"encrypted"}
             L(script, from, to) == Brings(script, source, guarded, rival, refused, from, to)
  <2>1. /\ Settings!writeInDatabaseSettings(source) =
             <<Settings!Use("it")>>
             \o (W("key") \o W("scoped") \o W("secondary") \o W("props"))
             \o <<Settings!Use("master")>> \o Settings!Encryption(source)
        /\ Left(source, at) = "master"
    BY <1>2 DEF Settings!writeInDatabaseSettings, Left
  <2>2. d5 = all
    BY DEF Settings!Inside
  <2>3. /\ "readOnly" \notin d1 /\ "readOnly" \notin d2 /\ "readOnly" \notin d3
        /\ "readOnly" \notin d4 /\ "key" \in d4
    OBVIOUS
  <2>4. {"key", "scoped", "secondary", "props"} \subseteq PlainItems
    BY DEF PlainItems
  <2> HIDE DEF W, all
  <2>5. L(<<Settings!Use("it")>>, Stage(done, at), Stage(done, "it"))
    BY UseBrings
  <2>6. L(W("key"), Stage(done, "it"), Stage(d1, "it"))
    <3> HIDE DEF d1
    <3>1. L(Settings!Written(source, "key"), Stage(done, "it"), Stage(done \cup {"key"}, "it"))
      BY <2>4, WrittenBrings
    <3> QED BY <3>1 DEF W, d1
  <2>7. L(W("scoped"), Stage(d1, "it"), Stage(d2, "it"))
    <3> HIDE DEF d1, d2
    <3>1. L(Settings!Written(source, "scoped"), Stage(d1, "it"), Stage(d1 \cup {"scoped"}, "it"))
      BY <2>3, <2>4, WrittenBrings
    <3> QED BY <3>1 DEF W, d2
  <2>8. L(W("secondary"), Stage(d2, "it"), Stage(d3, "it"))
    <3> HIDE DEF d1, d2, d3
    <3>1. L(Settings!Written(source, "secondary"), Stage(d2, "it"),
            Stage(d2 \cup {"secondary"}, "it"))
      BY <2>3, <2>4, WrittenBrings
    <3> QED BY <3>1 DEF W, d3
  <2>9. L(W("props"), Stage(d3, "it"), Stage(d4, "it"))
    <3> HIDE DEF d1, d2, d3, d4
    <3>1. L(Settings!Written(source, "props"), Stage(d3, "it"), Stage(d3 \cup {"props"}, "it"))
      BY <2>3, <2>4, WrittenBrings
    <3> QED BY <3>1 DEF W, d4
  <2>10. L(<<Settings!Use("master")>>, Stage(d4, "it"), Stage(d4, "master"))
    <3> HIDE DEF d4
    <3> QED BY UseBrings
  <2>11. L(Settings!Encryption(source), Stage(d4, "master"), Stage(d5, "master"))
    <3> HIDE DEF d4
    <3> QED BY <2>3, EncryptionBrings
  <2> HIDE DEF d1, d2, d3, d4, d5
  <2>12. L(W("key") \o W("scoped"), Stage(done, "it"), Stage(d2, "it"))
    BY <2>6, <2>7, BringsOn
  <2>13. L(W("key") \o W("scoped") \o W("secondary"), Stage(done, "it"), Stage(d3, "it"))
    BY <2>8, <2>12, BringsOn
  <2> DEFINE within == W("key") \o W("scoped") \o W("secondary") \o W("props")
  <2>14. L(within, Stage(done, "it"), Stage(d4, "it"))
    BY <2>9, <2>13, BringsOn
  <2> HIDE DEF within
  <2>15. L(<<Settings!Use("it")>> \o within, Stage(done, at), Stage(d4, "it"))
    BY <2>5, <2>14, BringsOn
  <2>16. L(<<Settings!Use("it")>> \o within \o <<Settings!Use("master")>>,
           Stage(done, at), Stage(d4, "master"))
    BY <2>10, <2>15, BringsOn
  <2>17. L(<<Settings!Use("it")>> \o within \o <<Settings!Use("master")>>
             \o Settings!Encryption(source), Stage(done, at), Stage(d5, "master"))
    BY <2>11, <2>16, BringsOn
  <2> QED BY <2>1, <2>2, <2>17 DEF within, all
<1> QED BY <1>1, <1>2

\* A statement written whatever there is to say.
LEMMA SaidBrings ==
    ASSUME NEW source, DatabaseAsRead(source), source.is["layout"] # "snapshot",
           NEW guarded, NEW rival, NEW refused, NEW done, NEW at, "readOnly" \notin done,
           NEW item \in {"recovery", "options"}
    PROVE  Brings(<<Settings!Set(item, source.is[item])>>, source, guarded, rival,
                 refused, Stage(done, at), Stage(done \cup {item}, at))
<1>1. /\ item \in Settings!Items \ {"access", "readOnly", "encrypted"}
      /\ item \notin Settings!Inside
  BY DEF Settings!Items, Settings!Inside
<1>2. Settings!Sayable(source, item) = source.is[item]
  BY DEF Settings!Sayable, DatabaseAsRead
<1>3. Settings!Sayable(source, item) \in Values(source)
  BY <1>1, <1>2 DEF Values
<1>4. Brings(<<Settings!Set(item, Settings!Sayable(source, item))>>, source, guarded, rival,
            refused, Stage(done, at), Stage(done \cup {item}, at))
  BY <1>1, <1>3, StatementBrings
<1> QED BY <1>2, <1>4

\* What comes after CREATE DATABASE: everything else, and at the end who may use the
\* database and whether it is read-only.
RecoveryAndGroups(source) ==
    <<Settings!Set("recovery", source.is["recovery"])>>
    \o Settings!Written(source, "empty") \o Settings!Written(source, "readOnlyGroup")
OtherSettings(source) ==
    <<Settings!Set("options", source.is["options"])>> \o Settings!Versions(source)
    \o Settings!Written(source, "tracking") \o Settings!Written(source, "store")
    \o Settings!writeInDatabaseSettings(source)
    \o Settings!Written(source, "owner")

LEMMA OthersBring ==
    ASSUME NEW source, DatabaseAsRead(source), source.is["layout"] # "snapshot",
           NEW guarded, NEW rival, NEW refused, NEW at
    PROVE  /\ Brings(RecoveryAndGroups(source) \o OtherSettings(source),
                     source, guarded, rival, refused,
                     Stage({"layout"}, at),
                    Stage(Settings!Items \ {"access", "readOnly"}, Left(source, at)))
           /\ RecoveryAndGroups(source) \in Seq(DatabaseStatements(source))
           /\ OtherSettings(source) \in Seq(DatabaseStatements(source))
<1> DEFINE W(item) == Settings!Written(source, item)
           d0 == {"layout"}
           d1 == d0 \cup {"recovery"}
           d2 == d1 \cup {"empty"}
           d3 == d2 \cup {"readOnlyGroup"}
           d4 == d3 \cup {"options"}
           d5 == d4 \cup {"versions"}
           d6 == d5 \cup {"tracking"}
           d7 == d6 \cup {"store"}
           d8 == d7 \cup (Settings!Inside \cup {"encrypted"})
           d9 == d8 \cup {"owner"}
           then == Left(source, at)
           recovery == <<Settings!Set("recovery", source.is["recovery"])>>
           options == <<Settings!Set("options", source.is["options"])>>
           inside == Settings!writeInDatabaseSettings(source)
           L(script, from, to) == Brings(script, source, guarded, rival, refused, from, to)
<1>0. /\ "readOnly" \notin d0 /\ "readOnly" \notin d1 /\ "readOnly" \notin d2
      /\ "readOnly" \notin d3 /\ "readOnly" \notin d4 /\ "readOnly" \notin d5
      /\ "readOnly" \notin d6 /\ "readOnly" \notin d7 /\ "readOnly" \notin d8
  BY DEF Settings!Inside
<1>1. d9 = Settings!Items \ {"access", "readOnly"}
  BY DEF Settings!Inside, Settings!Items
<1>2. /\ {"empty", "readOnlyGroup", "tracking", "store", "owner"} \subseteq PlainItems
      /\ \A item \in {"empty", "readOnlyGroup", "tracking", "store", "owner"} :
           item \notin Settings!Inside
  BY DEF PlainItems, Settings!Inside
<1> HIDE DEF d0, d1, d2, d3, d4, d5, d6, d7, d8, d9
<1>3. ASSUME NEW item \in {"empty", "readOnlyGroup", "tracking", "store", "owner"},
             NEW d, "readOnly" \notin d, NEW place
      PROVE  L(W(item), Stage(d, place), Stage(d \cup {item}, place))
  BY <1>2, <1>3, WrittenBrings
<1>4. L(recovery, Stage(d0, at), Stage(d1, at))
  BY <1>0, SaidBrings DEF d1
<1>5. L(W("empty"), Stage(d1, at), Stage(d2, at))
  BY <1>0, <1>3 DEF d2
<1>6. L(W("readOnlyGroup"), Stage(d2, at), Stage(d3, at))
  BY <1>0, <1>3 DEF d3
<1>7. L(options, Stage(d3, at), Stage(d4, at))
  BY <1>0, SaidBrings DEF d4
<1>8. L(Settings!Versions(source), Stage(d4, at), Stage(d5, at))
  BY <1>0, VersionsBrings DEF d5
<1>9. L(W("tracking"), Stage(d5, at), Stage(d6, at))
  BY <1>0, <1>3 DEF d6
<1>10. L(W("store"), Stage(d6, at), Stage(d7, at))
  BY <1>0, <1>3 DEF d7
<1>11. L(inside, Stage(d7, at), Stage(d8, then))
  BY <1>0, InsideBrings DEF d8
<1>12. L(W("owner"), Stage(d8, then), Stage(d9, then))
  BY <1>0, <1>3 DEF d9
<1>13. OtherSettings(source) = options \o Settings!Versions(source) \o W("tracking") \o W("store")
                        \o inside \o W("owner")
  BY DEF OtherSettings
<1> HIDE DEF W, recovery, options, inside, then
<1>14. L(recovery \o W("empty"), Stage(d0, at), Stage(d2, at))
  BY <1>4, <1>5, BringsOn
<1>15. L(recovery \o W("empty") \o W("readOnlyGroup"), Stage(d0, at), Stage(d3, at))
  BY <1>6, <1>14, BringsOn
<1>16. L(options \o Settings!Versions(source), Stage(d3, at), Stage(d5, at))
  BY <1>7, <1>8, BringsOn
<1>17. L(options \o Settings!Versions(source) \o W("tracking"), Stage(d3, at), Stage(d6, at))
  BY <1>9, <1>16, BringsOn
<1>18. L(options \o Settings!Versions(source) \o W("tracking") \o W("store"),
         Stage(d3, at), Stage(d7, at))
  BY <1>10, <1>17, BringsOn
<1>19. L(options \o Settings!Versions(source) \o W("tracking") \o W("store") \o inside,
         Stage(d3, at), Stage(d8, then))
  BY <1>11, <1>18, BringsOn
<1>20. L(OtherSettings(source), Stage(d3, at), Stage(d9, then))
  BY <1>12, <1>13, <1>19, BringsOn
<1>21. L(recovery \o W("empty") \o W("readOnlyGroup") \o OtherSettings(source),
         Stage(d0, at), Stage(d9, then))
  BY <1>15, <1>20, BringsOn
<1>22. RecoveryAndGroups(source) = recovery \o W("empty") \o W("readOnlyGroup")
  BY DEF RecoveryAndGroups, recovery, W
<1>23. L(RecoveryAndGroups(source) \o OtherSettings(source), Stage(d0, at), Stage(d9, then))
  BY <1>21, <1>22
<1>24. /\ RecoveryAndGroups(source) \in Seq(DatabaseStatements(source))
       /\ OtherSettings(source) \in Seq(DatabaseStatements(source))
  BY <1>15, <1>20, <1>22 DEF Brings
<1> QED BY <1>1, <1>23, <1>24 DEF d0, then


\* The database can be used by those who may, and is read-only if it was, unless
\* somebody else has taken it first.
LEMMA LastDoes ==
    ASSUME NEW source, DatabaseAsRead(source), source.is["layout"] # "snapshot",
           NEW guarded, NEW rival, NEW refused, NEW at, NEW t,
           Reached(t, source, Stage(Settings!Items \ {"access", "readOnly"}, at), refused)
    PROVE  LET once == Settings!Executes(t, Settings!Set("access", source.is["access"]),
                                         guarded, rival)
               u == Settings!Executes(once, Settings!Set("readOnly", source.is["readOnly"]),
                                      guarded, rival)
           IN  /\ u.there /\ u.stray = {} /\ u.at = at
               /\ \A item \in Settings!Items :
                    u.is[item] = Settings!Sayable(source, item) \/ item \in u.refused
               /\ u.refused \subseteq
                    refused \cup (IF rival /\ source.is["access"] = "SINGLE_USER"
                                  THEN {"readOnly"} ELSE {})
<1> DEFINE a == Settings!Set("access", source.is["access"])
           r == Settings!Set("readOnly", source.is["readOnly"])
           once == Settings!Executes(t, a, guarded, rival)
           u == Settings!Executes(once, r, guarded, rival)
           lost == rival /\ a = Settings!Set("access", "SINGLE_USER") /\ t.at # "it"
<1>1. /\ a.item = "access" /\ a.value = source.is["access"]
      /\ r.item = "readOnly" /\ r.value = source.is["readOnly"]
      /\ a = Settings!Set("access", "SINGLE_USER") <=> source.is["access"] = "SINGLE_USER"
      /\ r # Settings!Set("access", "SINGLE_USER")
  BY DEF Settings!Set
<1>2. /\ Target(t) /\ t.there /\ ~t.taken /\ t.stray = {} /\ t.at = at /\ t.refused = refused
      /\ \A item \in Settings!Items \ {"access", "readOnly"} :
           t.is[item] = Settings!Sayable(source, item)
  BY DEF Reached, Stage
<1>3. /\ Settings!Sayable(source, "access") = source.is["access"]
      /\ Settings!Sayable(source, "readOnly") = source.is["readOnly"]
  BY DEF Settings!Sayable, DatabaseAsRead
<1>4. "access" \in Settings!Items /\ "readOnly" \in Settings!Items
  BY DEF Settings!Items
<1> HIDE DEF a, r, lost
<1>5. once = [t EXCEPT !.is["access"] = source.is["access"], !.taken = lost]
  <2>1. a.item \notin {"drop", "create", "use"} /\ a.item \notin Settings!Inside
    BY <1>1 DEF Settings!Inside
  <2>2. ~Settings!Refused(t, a)
    BY <1>1, <1>2 DEF Settings!Refused
  <2>3. Settings!Takes(t, a, rival) = [t EXCEPT !.is[a.item] = a.value, !.taken = lost]
    BY <2>1 DEF Settings!Takes, lost
  <2> QED BY <1>1, <2>2, <2>3 DEF Settings!Executes
<1>6. /\ Target(once) /\ once.there = t.there /\ once.taken = lost /\ once.stray = t.stray
      /\ once.at = t.at /\ once.refused = t.refused
      /\ \A item \in Settings!Items :
           once.is[item] = IF item = "access" THEN source.is["access"] ELSE t.is[item]
  <2>1. lost \in BOOLEAN
    BY DEF lost
  <2> HIDE DEF once
  <2> QED BY <1>2, <1>4, <1>5, <2>1 DEF Target
<1> HIDE DEF once
<1>7. CASE ~lost
  <2>1. u = [once EXCEPT !.is["readOnly"] = source.is["readOnly"], !.taken = FALSE]
    <3>1. r.item \notin {"drop", "create", "use"} /\ r.item \notin Settings!Inside
      BY <1>1 DEF Settings!Inside
    <3>2. ~Settings!Refused(once, r)
      BY <1>1, <1>2, <1>6, <1>7 DEF Settings!Refused
    <3>3. Settings!Takes(once, r, rival) = [once EXCEPT !.is[r.item] = r.value, !.taken = FALSE]
      BY <1>1, <3>1 DEF Settings!Takes
    <3> QED BY <1>1, <3>2, <3>3 DEF Settings!Executes
  <2> HIDE DEF u
  <2>2. /\ u.there = once.there /\ u.stray = once.stray /\ u.at = once.at
        /\ u.refused = once.refused
        /\ \A item \in Settings!Items :
             u.is[item] = IF item = "readOnly" THEN source.is["readOnly"] ELSE once.is[item]
    BY <1>4, <1>6, <2>1 DEF Target
  <2>3. \A item \in Settings!Items : u.is[item] = Settings!Sayable(source, item)
    BY <1>2, <1>3, <1>6, <2>2
  <2>4. u.there /\ u.stray = {} /\ u.at = at /\ u.refused = refused
    BY <1>2, <1>6, <2>2
  <2> QED BY <2>3, <2>4 DEF u, once, a, r
<1>8. CASE lost
  <2>1. u = [once EXCEPT !.refused = once.refused \cup {"readOnly"}]
    <3>1. Settings!Refused(once, r)
      BY <1>1, <1>6, <1>8 DEF Settings!Refused
    <3> QED BY <1>1, <3>1 DEF Settings!Executes
  <2> HIDE DEF u
  <2>2. /\ u.there = once.there /\ u.stray = once.stray /\ u.at = once.at
        /\ u.refused = once.refused \cup {"readOnly"} /\ u.is = once.is
    BY <1>6, <2>1 DEF Target
  <2>3. \A item \in Settings!Items :
          u.is[item] = Settings!Sayable(source, item) \/ item \in u.refused
    BY <1>2, <1>3, <1>6, <2>2
  <2>4. u.there /\ u.stray = {} /\ u.at = at /\ u.refused = refused \cup {"readOnly"}
    BY <1>2, <1>6, <2>2
  <2>5. rival /\ source.is["access"] = "SINGLE_USER"
    BY <1>1, <1>8 DEF lost
  <2> QED BY <2>3, <2>4, <2>5 DEF u, once, a, r
<1> QED BY <1>7, <1>8

\* An instance nothing was refused by yet: where the script is to make a database, there
\* is none of its name unless it is to be dropped.
Recreates(verb) == verb = "drop and create"
MayRecreate(start, verb) ==
    /\ Target(start) /\ ~start.taken /\ start.stray = {} /\ start.refused = {}
    /\ start.there => Recreates(verb)

\* What is in the way is dropped, from master.
Dropped(start, guarded, rival) ==
    Settings!Executes(Settings!Executes(start, Settings!Use("master"), guarded, rival),
                      Settings!Set("drop", ""), guarded, rival)
LEMMA DropDoes ==
    ASSUME NEW start, NEW verb, MayRecreate(start, verb), NEW guarded, NEW rival
    PROVE  /\ Target(Dropped(start, guarded, rival)) /\ ~Dropped(start, guarded, rival).there
           /\ ~Dropped(start, guarded, rival).taken
           /\ Dropped(start, guarded, rival).stray = {}
           /\ Dropped(start, guarded, rival).at = "master"
           /\ Dropped(start, guarded, rival).refused =
                IF start.there \/ guarded THEN {} ELSE {"drop"}
<1> DEFINE m == Settings!Use("master")
           d == Settings!Set("drop", "")
           moved == Settings!Executes(start, m, guarded, rival)
           u == Settings!Executes(moved, d, guarded, rival)
<1>1. m.item = "use" /\ m.value = "master" /\ d.item = "drop"
  <2>1. m.item = "use" /\ m.value = "master"
    BY DEF Settings!Use, Settings!Set
  <2>2. d.item = "drop"
    <3> DEFINE none == ""
    <3> HIDE DEF none
    <3>1. Settings!Set("drop", none).item = "drop"
      BY DEF Settings!Set
    <3> QED BY <3>1 DEF none
  <2> QED BY <2>1, <2>2
<1>6. Dropped(start, guarded, rival) = u
  BY DEF Dropped
<1> HIDE DEF m, d
<1>2. moved = [start EXCEPT !.at = "master"]
  <2>1. m.item \notin {"drop", "create"} /\ m.item \notin Settings!Inside
    BY <1>1 DEF Settings!Inside
  <2>2. ~Settings!Refused(start, m)
    BY <1>1 DEF Settings!Refused
  <2>3. Settings!Takes(start, m, rival) = [start EXCEPT !.at = m.value]
    BY <1>1, <2>1, Zenon DEF Settings!Takes
  <2> QED BY <1>1, <2>2, <2>3 DEF Settings!Executes
<1> HIDE DEF moved
<1>3. /\ Target(moved) /\ moved.there = start.there /\ moved.taken = start.taken
      /\ moved.stray = start.stray /\ moved.at = "master" /\ moved.refused = start.refused
  BY <1>2 DEF MayRecreate, Target
<1>4. CASE start.there
  <2>1. ~Settings!Refused(moved, d)
    BY <1>1, <1>3, <1>4 DEF Settings!Refused
  <2>2. Settings!Takes(moved, d, rival) = [moved EXCEPT !.there = FALSE]
    <3>1. d.item # "create" /\ d.item # "use" /\ d.item \notin Settings!Inside
      BY <1>1 DEF Settings!Inside
    <3> QED BY <1>1, <3>1 DEF Settings!Takes
  <2>3. u = [moved EXCEPT !.there = FALSE]
    BY <2>1, <2>2 DEF Settings!Executes
  <2> HIDE DEF u
  <2>4. /\ Target(u) /\ u.there = FALSE /\ u.taken = moved.taken
        /\ u.stray = moved.stray /\ u.at = moved.at /\ u.refused = moved.refused
    BY <1>3, <2>3 DEF Target
  <2>5. /\ Target(u) /\ ~u.there /\ ~u.taken /\ u.stray = {} /\ u.at = "master"
        /\ u.refused = {}
    BY <1>3, <2>4 DEF MayRecreate
  <2> QED BY <1>4, <1>6, <2>5
<1>5. CASE ~start.there
  <2>1. Settings!Refused(moved, d)
    BY <1>1, <1>3, <1>5 DEF Settings!Refused
  <2>2. u = IF guarded THEN moved ELSE [moved EXCEPT !.refused = {"drop"}]
    <3>1. moved.there = FALSE /\ moved.refused = {}
      BY <1>3, <1>5 DEF MayRecreate, Target
    <3>2. moved.there = (d.item = "create")
      BY <1>1, <3>1
    <3>3. u = IF guarded THEN moved ELSE [moved EXCEPT !.refused = moved.refused \cup {d.item}]
      BY <1>1, <2>1, <3>2 DEF Settings!Executes
    <3> QED BY <1>1, <3>1, <3>3
  <2> HIDE DEF u
  <2>3. /\ Target(u) /\ u.there = moved.there /\ u.taken = moved.taken
        /\ u.stray = moved.stray /\ u.at = moved.at
        /\ u.refused = IF guarded THEN moved.refused ELSE {"drop"}
    BY <1>3, <2>2 DEF Target
  <2>4. /\ Target(u) /\ ~u.there /\ ~u.taken /\ u.stray = {} /\ u.at = "master"
        /\ u.refused = IF guarded THEN {} ELSE {"drop"}
    BY <1>3, <1>5, <2>3 DEF MayRecreate
  <2> QED BY <1>5, <1>6, <2>4
<1> QED BY <1>4, <1>5

\* A database that is created is new.
LEMMA CreateDoes ==
    ASSUME NEW source, DatabaseAsRead(source), NEW guarded, NEW rival, NEW t,
           Target(t), ~t.there, ~t.taken, t.stray = {}
    PROVE  Reached(Settings!Executes(t, Settings!Set("create", source.is["layout"]),
                                     guarded, rival),
                   source, Stage({"layout"}, t.at), t.refused)
<1> DEFINE c == Settings!Set("create", source.is["layout"])
           u == Settings!Executes(t, c, guarded, rival)
           layout == source.is["layout"]
           new == Settings!New(layout)
           stage == Stage({"layout"}, t.at)
<1>1. c.item = "create" /\ c.value = layout
  BY DEF Settings!Set
<1> HIDE DEF c
<1>2. u = [t EXCEPT !.there = TRUE, !.is = new]
  <2>1. ~Settings!Refused(t, c)
    BY <1>1 DEF Settings!Refused
  <2>2. Settings!Takes(t, c, rival) = [t EXCEPT !.there = TRUE, !.is = Settings!New(c.value)]
    <3>1. c.item # "drop" /\ c.item # "use" /\ c.item \notin Settings!Inside
      BY <1>1 DEF Settings!Inside
    <3> QED BY <1>1, <3>1 DEF Settings!Takes
  <2> QED BY <1>1, <2>1, <2>2 DEF Settings!Executes
<1>3. new = [item \in Settings!Items |-> new[item]] /\ new["layout"] = layout
  <2>1. "layout" \in Settings!Items
    BY DEF Settings!Items
  <2>2. new = [item \in Settings!Items |-> new[item]]
    BY DEF Settings!New
  <2>3. new["layout"] = layout
    BY <2>1 DEF Settings!New
  <2> QED BY <2>2, <2>3
<1>4. Settings!Sayable(source, "layout") = layout
  BY <1>3 DEF Settings!Sayable, DatabaseAsRead
<1>5. stage.done = {"layout"} /\ stage.at = t.at
  BY DEF Stage
<1> HIDE DEF u, new, stage, layout
<1>6. /\ Target(u) /\ u.there = TRUE /\ u.taken = t.taken /\ u.stray = t.stray
      /\ u.at = t.at /\ u.refused = t.refused /\ u.is = new
  BY <1>2, <1>3 DEF Target
<1>7. \A item \in Settings!Items :
        u.is[item] = IF item \in stage.done THEN Settings!Sayable(source, item)
                     ELSE Settings!New(source.is["layout"])[item]
  BY <1>3, <1>4, <1>5, <1>6 DEF new, layout
<1>8. Reached(u, source, stage, t.refused)
  BY <1>5, <1>6, <1>7 DEF Reached
<1> QED BY <1>8 DEF u, stage, c, layout


\* Two statements are one, and another.
LEMMA TwoStatements ==
    ASSUME NEW m, NEW d
    PROVE  <<m, d>> = <<m>> \o <<d>>
<1> DEFINE x == <<m>>
           y == <<d>>
           z == <<m, d>>
           S == {m, d}
<1>1. z \in Seq(S) /\ x \in Seq(S) /\ y \in Seq(S)
  OBVIOUS
<1>2. Len(x) = 1 /\ Len(y) = 1 /\ Len(z) = 2 /\ x[1] = m /\ y[1] = d /\ z[1] = m /\ z[2] = d
  OBVIOUS
<1> HIDE DEF x, y, z, S
<1> DEFINE w == x \o y
<1>3. w \in Seq(S) /\ Len(w) = 2
  BY <1>1, <1>2
<1>4. w[1] = x[1]
  BY <1>1, <1>2
<1>5. w[2] = y[1]
  <2>1. Len(y) \in 1..Len(y) /\ Len(x) + Len(y) = 2 /\ 1 \in 1..Len(y)
    BY <1>2
  <2>2. \A i \in 1..Len(y) : (x \o y)[Len(x) + i] = y[i]
    BY <1>1
  <2>3. w[Len(x) + 1] = y[1]
    BY <2>1, <2>2
  <2> HIDE DEF w
  <2> QED BY <1>2, <2>3
<1> HIDE DEF w
<1>6. z = w
  BY <1>1, <1>2, <1>3, <1>4, <1>5, SeqEqual
<1> QED BY <1>6 DEF x, y, z, w

\* scriptDatabaseFrom: of any database, with any values of its items and any of them
\* hidden that may be, the script makes it again as far as it can be said.
LEMMA DatabaseRecreated ==
    ASSUME NEW source, DatabaseAsRead(source), NEW verb,
           NEW start, MayRecreate(start, verb), NEW guarded, NEW rival
    PROVE  Settings!Recreated(source, verb, start, guarded, rival)
<1> DEFINE layout == source.is["layout"]
           S == DatabaseStatements(source)
           Made(script, t) == Settings!Replay(script, t, guarded, rival)
           Makes(t, s) == Settings!Executes(t, s, guarded, rival)
           m == Settings!Use("master")
           d == Settings!Set("drop", "")
           c == Settings!Set("create", layout)
           a == Settings!Set("access", source.is["access"])
           r == Settings!Set("readOnly", source.is["readOnly"])
           drops == IF Recreates(verb) THEN <<m, d>> ELSE <<>>
           rest == IF layout = "snapshot" THEN <<>>
                   ELSE RecoveryAndGroups(source) \o (OtherSettings(source) \o <<a>> \o <<r>>)
           fresh == Made(drops, start)
           made == Makes(fresh, c)
           after == Made(Settings!scriptDatabaseFrom(source, verb), start)
           refused == IF start.there \/ guarded THEN {} ELSE {"drop"}
<1>1. Settings!scriptDatabaseFrom(source, verb) = drops \o <<c>> \o rest
  BY DEF Settings!scriptDatabaseFrom, Settings!writeDatabaseSettings, Settings!ReadOnlyOrNot,
         RecoveryAndGroups, OtherSettings, Recreates
<1>2. m \in S /\ d \in S /\ c \in S /\ a \in S /\ r \in S
  <2>1. m \in S
    BY DEF Settings!Use, Settings!Set, DatabaseStatements, Values
  <2>2. d \in S
    <3> DEFINE none == ""
    <3>1. none \in Values(source)
      BY DEF Values
    <3> HIDE DEF none
    <3>2. Settings!Set("drop", none) \in S
      BY <3>1 DEF Settings!Set, DatabaseStatements
    <3> QED BY <3>2 DEF none
  <2>3. \A item \in {"layout", "access", "readOnly"} :
          item \in Settings!Items /\ source.is[item] \in Values(source)
    BY DEF Settings!Items, Values
  <2> QED BY <2>1, <2>2, <2>3 DEF Settings!Set, DatabaseStatements
<1> HIDE DEF m, d, c, a, r, S, layout, drops, rest, fresh, made, after
<1> DEFINE m1 == <<m>>
           d1 == <<d>>
           c1 == <<c>>
           a1 == <<a>>
           r1 == <<r>>
<1>20. /\ m1 \in Seq(S) /\ d1 \in Seq(S) /\ c1 \in Seq(S) /\ a1 \in Seq(S) /\ r1 \in Seq(S)
  BY <1>2
<1>21. <<m, d>> = m1 \o d1
  BY TwoStatements
<1>22. \A t : /\ Made(m1, t) = Makes(t, m) /\ Made(d1, t) = Makes(t, d) /\ Made(c1, t) = Makes(t, c)
              /\ Made(a1, t) = Makes(t, a) /\ Made(r1, t) = Makes(t, r)
  BY SettingsOne
<1>3. ~Recreates(verb) => fresh = start
  BY SettingsNothing DEF fresh, drops
<1>4. Recreates(verb) => fresh = Makes(Makes(start, m), d)
  <2> HIDE DEF m1, d1
  <2>1. Made(m1 \o d1, start) = Made(d1, Made(m1, start))
    BY <1>20, SettingsJoined
  <2>5. Recreates(verb) => fresh = Made(<<m, d>>, start)
    BY DEF fresh, drops
  <2> QED BY <1>21, <1>22, <2>1, <2>5
<1>5. /\ Target(fresh) /\ ~fresh.there /\ ~fresh.taken /\ fresh.stray = {}
      /\ fresh.refused \subseteq refused
      /\ Recreates(verb) => fresh.at = "master"
  <2>1. CASE ~Recreates(verb)
    BY <1>3, <2>1 DEF MayRecreate
  <2>2. CASE Recreates(verb)
    <3>2. fresh = Dropped(start, guarded, rival)
      BY <1>4, <2>2 DEF m, d, Dropped
    <3>3. /\ Target(fresh) /\ ~fresh.there /\ ~fresh.taken /\ fresh.stray = {} /\ fresh.at = "master"
          /\ fresh.refused = IF start.there \/ guarded THEN {} ELSE {"drop"}
      BY <3>2, DropDoes
    <3> QED BY <2>2, <3>3
  <2> QED BY <2>1, <2>2
<1>6. drops \in Seq(S)
  BY <1>2 DEF drops
<1>7. rest \in Seq(S)
  <2>1. CASE layout = "snapshot"
    <3>1. rest = <<>>
      BY <2>1 DEF rest
    <3> QED BY <3>1
  <2>2. CASE layout # "snapshot"
    <3>1. RecoveryAndGroups(source) \in Seq(S) /\ OtherSettings(source) \in Seq(S)
      BY <2>2, OthersBring DEF S, layout
    <3>2. <<a>> \in Seq(S) /\ <<r>> \in Seq(S)
      BY <1>2
    <3>3. RecoveryAndGroups(source) \o (OtherSettings(source) \o <<a>> \o <<r>>) \in Seq(S)
      BY <3>1, <3>2
    <3> QED BY <2>2, <3>3 DEF rest
  <2> QED BY <2>1, <2>2
<1>8. after = Made(rest, made)
  <2>0. Settings!scriptDatabaseFrom(source, verb) = drops \o c1 \o rest
    BY <1>1
  <2> HIDE DEF c1
  <2> DEFINE making == drops \o c1
  <2>2. making \in Seq(S)
    BY <1>6, <1>20
  <2>3. Made(making \o rest, start) = Made(rest, Made(making, start))
    <3> HIDE DEF making
    <3> QED BY <1>7, <2>2, SettingsJoined
  <2>4. Made(drops \o c1, start) = Made(c1, Made(drops, start))
    BY <1>6, <1>20, SettingsJoined
  <2>5. Made(c1, Made(drops, start)) = made
    BY <1>22 DEF fresh, made
  <2> QED BY <2>0, <2>3, <2>4, <2>5 DEF after
<1>9. Reached(made, source, Stage({"layout"}, fresh.at), fresh.refused)
  BY <1>5, CreateDoes DEF made, c, layout
<1>10. /\ after.there /\ after.stray = {}
       /\ Recreates(verb) => after.at = "master"
       /\ \A item \in Settings!Items :
            after.is[item] = Settings!Sayable(source, item) \/ item \in after.refused
       /\ after.refused \subseteq
            refused \cup (IF rival /\ source.is["access"] = "SINGLE_USER"
                          THEN {"readOnly"} ELSE {})
  <2> HIDE DEF refused
  <2>1. CASE layout = "snapshot"
    <3>1. after = made
      <4>1. Made(<<>>, made) = made
        BY SettingsNothing
      <4>2. rest = <<>>
        BY <2>1 DEF rest
      <4> QED BY <1>8, <4>1, <4>2
    <3> DEFINE stage == Stage({"layout"}, fresh.at)
    <3>2. stage.at = fresh.at /\ stage.done = {"layout"}
      BY DEF Stage
    <3>3. \A item \in Settings!Items :
            Settings!Sayable(source, item) = Settings!New(layout)[item]
      BY <2>1 DEF Settings!Sayable, layout
    <3> HIDE DEF stage
    <3>4. Reached(made, source, stage, fresh.refused)
      BY <1>9 DEF stage
    <3>5. \A item \in Settings!Items : made.is[item] = Settings!Sayable(source, item)
      BY <3>3, <3>4 DEF Reached, layout
    <3>6. made.there /\ made.stray = {} /\ made.at = fresh.at /\ made.refused = fresh.refused
      BY <3>2, <3>4 DEF Reached
    <3> QED BY <1>5, <3>1, <3>5, <3>6
  <2>2. CASE layout # "snapshot"
    <3> DEFINE then == Left(source, fresh.at)
               most == Made(RecoveryAndGroups(source) \o OtherSettings(source), made)
               once == Makes(most, a)
               done == Settings!Items \ {"access", "readOnly"}
    <3>1. /\ Brings(RecoveryAndGroups(source) \o OtherSettings(source),
                   source, guarded, rival, fresh.refused,
                   Stage({"layout"}, fresh.at), Stage(done, then))
          /\ RecoveryAndGroups(source) \in Seq(S) /\ OtherSettings(source) \in Seq(S)
      BY <2>2, OthersBring DEF S, layout
    <3> HIDE DEF then, done
    <3>2. Reached(most, source, Stage(done, then), fresh.refused)
      BY <1>9, <3>1 DEF Brings
    <3>3. after = Makes(once, r)
      <4> HIDE DEF once
      <4> DEFINE p == RecoveryAndGroups(source)
                 q == OtherSettings(source)
      <4>1. p \in Seq(S) /\ q \in Seq(S)
        BY <3>1
      <4>2. rest = p \o (q \o a1 \o r1)
        BY <2>2 DEF rest
      <4> HIDE DEF p, q, a1, r1
      <4> DEFINE qa == q \o a1
                 qar == qa \o r1
      <4>3. qa \in Seq(S)
        BY <1>20, <4>1
      <4> HIDE DEF qa
      <4>11. qar \in Seq(S)
        BY <1>20, <4>3
      <4>5. Made(qar, Made(p, made)) = Made(r1, Made(qa, Made(p, made)))
        BY <1>20, <4>3, SettingsJoined
      <4>12. rest = p \o qar
        BY <4>2 DEF qa
      <4> HIDE DEF qar
      <4>4. Made(rest, made) = Made(qar, Made(p, made))
        BY <4>1, <4>11, <4>12, SettingsJoined
      <4>6. Made(qa, Made(p, made)) = Made(a1, Made(q, Made(p, made)))
        BY <1>20, <4>1, SettingsJoined DEF qa
      <4>7. Made(p \o q, made) = Made(q, Made(p, made))
        BY <4>1, SettingsJoined
      <4>8. most = Made(q, Made(p, made))
        BY <4>7 DEF p, q
      <4> HIDE DEF most
      <4>9. Made(a1, most) = once
        BY <1>22 DEF once
      <4>10. Made(r1, once) = Makes(once, r)
        BY <1>22
      <4> QED BY <1>8, <4>4, <4>5, <4>6, <4>8, <4>9, <4>10
    <3> HIDE DEF most
    <3>4. LET o == Settings!Executes(most, Settings!Set("access", source.is["access"]),
                                     guarded, rival)
              u == Settings!Executes(o, Settings!Set("readOnly", source.is["readOnly"]),
                                     guarded, rival)
          IN  /\ u.there /\ u.stray = {} /\ u.at = then
              /\ \A item \in Settings!Items :
                   u.is[item] = Settings!Sayable(source, item) \/ item \in u.refused
              /\ u.refused \subseteq
                   fresh.refused \cup (IF rival /\ source.is["access"] = "SINGLE_USER"
                                      THEN {"readOnly"} ELSE {})
      BY <2>2, <3>2, LastDoes, ZenonT(40) DEF done, layout
    <3>5. /\ after.there /\ after.stray = {} /\ after.at = then
          /\ \A item \in Settings!Items :
               after.is[item] = Settings!Sayable(source, item) \/ item \in after.refused
          /\ after.refused \subseteq
               fresh.refused \cup (IF rival /\ source.is["access"] = "SINGLE_USER"
                                  THEN {"readOnly"} ELSE {})
      BY <3>3, <3>4 DEF a, r
    <3>6. Recreates(verb) => then = "master"
      BY <1>5 DEF then, Left
    <3> QED BY <1>5, <3>5, <3>6
  <2> QED BY <2>1, <2>2
<1> QED BY <1>10, Zenon DEF Settings!Recreated, Recreates, after, refused

\* ScriptDatabase, in the words of the runs: of any database, whatever the values of
\* its items and whichever of them could not be read, the script makes it again as far
\* as it can be said, where there is none of its name or one that is dropped first; and
\* only READ_ONLY at the end can be refused, by somebody else who has taken it.
THEOREM EveryDatabaseRecreated ==
    ASSUME input.of = "settings" =>
             DatabaseAsRead(input.source) /\ MayRecreate(input.start, input.verb)
    PROVE  SettingsRecreated
BY DatabaseRecreated DEF SettingsRecreated
=============================================================================
