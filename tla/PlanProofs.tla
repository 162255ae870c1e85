------------------------------ MODULE PlanProofs ------------------------------
(***************************************************************************)
(* Proofs about the statements that are planned before any is sent:        *)
(* RestorePlan, for any number of log records, backups and seconds, in     *)
(* every state a database's life comes to; JobReorder, for a job of any    *)
(* number of steps and any order of them; ScriptCapture, for a program of  *)
(* any number of calls on any number of servers; TableScript, for a table  *)
(* of any number of indexes and constraints.                               *)
(***************************************************************************)
EXTENDS PlanProperties, Induction
LOCAL INSTANCE SequencesExt

-----------------------------------------------------------------------------
(* RestorePlan: a database's life, and the plans for it.                        *)

\* What a life is made of.
LifeType ==
    /\ written \in Seq(0..MaxTime) /\ lsn \in 0..MaxRecords
    /\ now \in 0..MaxTime
    /\ history \in Seq(Backup)
    /\ chain \in 0..MaxRecords \cup {End} /\ base \in 0..MaxSets /\ simple \in BOOLEAN

\* A full backup a differential may be taken against.
Based(i) == history[i].kind = "full" /\ ~history[i].copyOnly

\* What is recorded of the i-th backup: it has all the log there was when it
\* finished, and no more; the clock and the log only go forward, and a log backup
\* goes beyond the sets before it; a differential is of the newest full backup
\* before it that can be its base.
EntryOf(i) ==
    LET b == history[i]
    IN  /\ b.id = i /\ b.last <= lsn /\ b.finish <= now
        /\ \A k \in 1..lsn : IF k <= b.last THEN written[k] <= b.finish
                                           ELSE b.finish <= written[k]
        /\ b.kind = "diff" =>
             /\ b.base \in 1..(i - 1) /\ Based(b.base)
             /\ \A g \in 1..(i - 1) : Based(g) => g <= b.base
        /\ \A j \in 1..(i - 1) :
             /\ history[j].last <= b.last /\ history[j].finish <= b.finish
             /\ b.kind = "log" => history[j].last < b.last

\* The same of every backup, and of the base the next differential is taken against.
Recorded ==
    /\ \A k \in 1..lsn : written[k] <= now
    /\ \A i \in 1..Len(history) : EntryOf(i)
    /\ base # 0 => base <= Len(history) /\ Based(base)
    /\ \A g \in 1..Len(history) : Based(g) => g <= base
    /\ chain # End => chain <= lsn

LifeInv == LifeType /\ Recorded

\* Before there is anything.
LEMMA InitLife == RestoreInit => LifeInv
<1> SUFFICES ASSUME RestoreInit PROVE LifeInv
  OBVIOUS
<1>1. /\ <<>> \in Seq(0..MaxTime) /\ <<>> \in Seq(Backup) /\ Len(<<>>) = 0
  BY EmptySeq
<1>2. LifeType
  <2>1. MaxRecords \in Nat /\ MaxSets \in Nat /\ MaxTime \in Nat
    BY RestoreAssumption
  <2>2. written \in Seq(0..MaxTime) /\ history \in Seq(Backup) /\ lsn = 0
    BY <1>1 DEF RestoreInit, lsn
  <2>3. now = 0 /\ chain = End /\ base = 0 /\ simple = FALSE
    BY DEF RestoreInit
  <2>4. lsn \in 0..MaxRecords /\ now \in 0..MaxTime /\ base \in 0..MaxSets
    BY <2>1, <2>2, <2>3
  <2>5. chain \in 0..MaxRecords \cup {End} /\ simple \in BOOLEAN
    BY <2>3
  <2> QED BY <2>2, <2>4, <2>5 DEF LifeType
<1>3. Recorded
  BY <1>1, RestoreAssumption DEF RestoreInit, Recorded, lsn
<1> QED BY <1>2, <1>3 DEF LifeInv

\* What a backup adds to the history, whichever it is.
LEMMA TakenKeeps ==
    ASSUME LifeInv, NEW kind \in {"full", "diff", "log"}, NEW copyOnly \in BOOLEAN,
           NEW first \in 0..MaxRecords, NEW against \in 0..MaxSets,
           Taken(kind, copyOnly, first, against),
           kind = "diff" => base # 0 /\ against = base,
           kind = "log" => \A i \in 1..Len(history) : history[i].last < lsn
    PROVE  /\ history' \in Seq(Backup) /\ Len(history') = Len(history) + 1
           /\ Len(history') \in 1..MaxSets
           /\ \A i \in 1..Len(history) : history'[i] = history[i]
           /\ history'[Len(history')].kind = kind
           /\ history'[Len(history')].copyOnly = copyOnly
           /\ \A i \in 1..Len(history') : EntryOf(i)'
<1>0. PICK n \in Nat : n = Len(history)
  BY LenProperties DEF LifeInv, LifeType
<1>1. n \in Nat /\ n + 1 \in 1..MaxSets
  BY <1>0, RestoreAssumption DEF Taken
<1>2. PICK r \in BOOLEAN :
        history' = Append(history,
            [id |-> n + 1, kind |-> kind, copyOnly |-> copyOnly, first |-> first,
             last |-> lsn, base |-> against, finish |-> now, Restorable |-> r])
  BY <1>0 DEF Taken
<1> DEFINE b == [id |-> n + 1, kind |-> kind, copyOnly |-> copyOnly, first |-> first,
                 last |-> lsn, base |-> against, finish |-> now, Restorable |-> r]
<1>3. b \in Backup
  BY <1>1 DEF Backup, LifeInv, LifeType
<1>4. /\ history' = Append(history, b)
      /\ b.id = n + 1 /\ b.kind = kind /\ b.copyOnly = copyOnly /\ b.last = lsn
      /\ b.base = against /\ b.finish = now
  BY <1>2
<1> HIDE DEF b
<1>5. /\ history' \in Seq(Backup) /\ Len(history') = n + 1
      /\ \A i \in 1..n : history'[i] = history[i]
      /\ history'[n + 1] = b
  BY <1>3, <1>4, <1>0, AppendProperties DEF LifeInv, LifeType
<1>6. written' = written /\ now' = now /\ lsn' = lsn
  BY DEF Taken, lsn
<1>7. ASSUME NEW i \in 1..n PROVE EntryOf(i)'
  <2>1. EntryOf(i)
    BY <1>0, <1>7 DEF LifeInv, Recorded, EntryOf
  <2>2. \A j \in 1..i : history'[j] = history[j]
    BY <1>1, <1>5
  <2>3. i \in 1..i
    BY <1>1
  <2> QED BY <1>1, <1>6, <2>1, <2>2, <2>3 DEF EntryOf, Based
<1>8. EntryOf(n + 1)'
  <2>1. lsn \in Nat /\ now \in Nat
    BY RestoreAssumption DEF LifeInv, LifeType
  <2>2. \A k \in 1..lsn : written[k] <= now
    BY <1>0 DEF LifeInv, Recorded
  <2>3. ASSUME kind = "diff"
        PROVE  against \in 1..n /\ Based(against) /\ \A g \in 1..n : Based(g) => g <= against
    BY <1>0, <1>1, <2>3 DEF LifeInv, LifeType, Recorded
  <2>4. \A j \in 1..n : history[j].last <= lsn /\ history[j].finish <= now
    BY <1>0 DEF LifeInv, Recorded, EntryOf
  <2>5. (n + 1) - 1 = n
    BY <1>1
  <2>6. kind = "diff" => /\ against \in 1..n /\ Based(against)'
                         /\ \A g \in 1..n : Based(g)' => g <= against
    BY <1>5, <2>3 DEF Based
  <2>7. kind = "log" => \A i \in 1..n : history[i].last < lsn
    BY <1>0
  <2>0. PICK e : e = history'[n + 1]
    OBVIOUS
  <2>8. /\ e.id = n + 1 /\ e.last = lsn /\ e.finish = now /\ e.kind = kind /\ e.base = against
    BY <1>4, <1>5, <2>0
  <2>9. \A k \in 1..lsn' : IF k <= e.last THEN written'[k] <= e.finish
                                           ELSE e.finish <= written'[k]
    BY <1>6, <2>1, <2>2, <2>8
  <2>10. e.kind = "diff" => /\ e.base \in 1..((n + 1) - 1) /\ Based(e.base)'
                            /\ \A g \in 1..((n + 1) - 1) : Based(g)' => g <= e.base
    BY <2>5, <2>6, <2>8
  <2>11. \A j \in 1..((n + 1) - 1) :
             /\ history'[j].last <= e.last /\ history'[j].finish <= e.finish
             /\ e.kind = "log" => history'[j].last < e.last
    BY <1>5, <2>4, <2>5, <2>7, <2>8
  <2>12. e.last <= lsn' /\ e.finish <= now'
    BY <1>6, <2>1, <2>8
  <2> QED BY <2>8, <2>9, <2>10, <2>11, <2>12, <2>0 DEF EntryOf
<1>9. \A i \in 1..(n + 1) : EntryOf(i)'
  <2> TAKE i \in 1..(n + 1)
  <2>1. i \in 1..n \/ i = n + 1
    BY <1>1
  <2> QED BY <1>7, <1>8, <2>1
<1>10. history'[n + 1].kind = kind /\ history'[n + 1].copyOnly = copyOnly
  BY <1>4, <1>5
<1> QED BY <1>0, <1>1, <1>5, <1>9, <1>10

\* Entries stay as long as the history does and the log and the clock go forward.
LEMMA EntriesKept ==
    ASSUME LifeInv, UNCHANGED history, now <= now', now' \in Nat, lsn <= lsn', lsn' \in Nat,
           \A k \in 1..lsn : written'[k] = written[k],
           \A k \in 1..lsn' : k > lsn => now <= written'[k] /\ written'[k] \in Nat
    PROVE  \A i \in 1..Len(history') : EntryOf(i)'
<1> TAKE i \in 1..Len(history')
<1>1. EntryOf(i) /\ history[i] \in Backup /\ i \in Nat
  BY ElementOfSeq DEF LifeInv, LifeType, Recorded, EntryOf
<1>2. PICK b : b = history[i]
  OBVIOUS
<1>3. /\ b.last <= lsn /\ b.finish <= now /\ b.last \in Nat /\ b.finish \in Nat
      /\ \A k \in 1..lsn : IF k <= b.last THEN written[k] <= b.finish
                                         ELSE b.finish <= written[k]
  BY <1>1, <1>2, RestoreAssumption DEF EntryOf, Backup
<1>4. lsn \in Nat /\ now \in Nat
  BY RestoreAssumption DEF LifeInv, LifeType
<1>5. b.last <= lsn' /\ b.finish <= now'
  BY <1>3, <1>4
<1>6. \A k \in 1..lsn' : IF k <= b.last THEN written'[k] <= b.finish
                                        ELSE b.finish <= written'[k]
  <2> TAKE k \in 1..lsn'
  <2>1. CASE k \in 1..lsn
    BY <1>3, <2>1
  <2>2. CASE k \notin 1..lsn
    BY <1>3, <1>4, <2>2
  <2> QED BY <2>1, <2>2
<1> QED BY <1>1, <1>2, <1>5, <1>6 DEF EntryOf, Based

\* Every action of a life keeps its record.
LEMMA StepLife == LifeInv /\ [RestoreNext]_life => LifeInv'
<1> SUFFICES ASSUME LifeInv, [RestoreNext]_life PROVE LifeInv'
  OBVIOUS
<1>0. /\ written \in Seq(0..MaxTime) /\ lsn \in 0..MaxRecords /\ now \in 0..MaxTime
      /\ history \in Seq(Backup) /\ chain \in 0..MaxRecords \cup {End}
      /\ base \in 0..MaxSets /\ simple \in BOOLEAN
      /\ MaxRecords \in Nat /\ MaxSets \in Nat /\ MaxTime \in Nat /\ End \notin Nat
  BY RestoreAssumption DEF LifeInv, LifeType
<1>00. Len(history) \in Nat
  BY <1>0, LenProperties
<1>1. CASE Work
  <2>1. /\ written' = Append(written, now) /\ lsn < MaxRecords
        /\ UNCHANGED <<history, now, chain, base, simple>>
    BY <1>1 DEF Work
  <2>2. /\ written' \in Seq(0..MaxTime) /\ lsn' = lsn + 1
        /\ \A k \in 1..lsn : written'[k] = written[k]
        /\ written'[lsn + 1] = now
    BY <1>0, <2>1, AppendProperties DEF lsn
  <2> HIDE DEF lsn
  <2>3. \A k \in 1..lsn' : k \in 1..lsn \/ k = lsn + 1
    <3>1. PICK m \in Nat : m = lsn
      BY <1>0
    <3> QED BY <2>2, <3>1
  <2>4. \A i \in 1..Len(history') : EntryOf(i)'
    <3>1. \A k \in 1..lsn' : k > lsn => now <= written'[k] /\ written'[k] \in Nat
      BY <1>0, <2>2, <2>3
    <3>2. now <= now' /\ now' \in Nat /\ lsn <= lsn' /\ lsn' \in Nat
      BY <1>0, <2>1, <2>2
    <3> QED BY <2>1, <2>2, <3>1, <3>2, EntriesKept
  <2>5. \A k \in 1..lsn' : written'[k] <= now'
    <3>1. \A k \in 1..lsn : written[k] <= now
      BY DEF LifeInv, Recorded
    <3>2. now <= now
      BY <1>0
    <3>3. ASSUME NEW k \in 1..lsn' PROVE written'[k] <= now'
      BY <2>1, <2>2, <2>3, <3>1, <3>2, <3>3
    <3> QED BY <3>3
  <2>6. LifeType'
    BY <1>0, <2>1, <2>2 DEF LifeType
  <2>7. /\ base' # 0 => base' <= Len(history') /\ Based(base)'
        /\ \A g \in 1..Len(history') : Based(g)' => g <= base'
        /\ chain' # End => chain' <= lsn'
    BY <1>0, <2>1, <2>2 DEF LifeInv, Recorded, Based
  <2> QED BY <2>4, <2>5, <2>6, <2>7 DEF LifeInv, Recorded, EntryOf
<1>2. CASE Tick
  <2>1. /\ now < MaxTime /\ now' = now + 1
        /\ UNCHANGED <<history, written, chain, base, simple>> /\ lsn' = lsn
    BY <1>2 DEF Tick, lsn
  <2> HIDE DEF lsn
  <2>4. \A i \in 1..Len(history') : EntryOf(i)'
    BY <1>0, <2>1, EntriesKept
  <2>5. \A k \in 1..lsn' : written'[k] <= now'
    <3> TAKE k \in 1..lsn'
    <3>1. written[k] \in 0..MaxTime /\ written[k] <= now
      BY <1>0, <2>1, ElementOfSeq DEF LifeInv, Recorded, lsn
    <3> QED BY <1>0, <2>1, <3>1
  <2>6. LifeType'
    BY <1>0, <2>1 DEF LifeType
  <2>7. /\ base' # 0 => base' <= Len(history') /\ Based(base)'
        /\ \A g \in 1..Len(history') : Based(g)' => g <= base'
        /\ chain' # End => chain' <= lsn'
    BY <1>0, <2>1 DEF LifeInv, Recorded, Based
  <2> QED BY <2>4, <2>5, <2>6, <2>7 DEF LifeInv, Recorded, EntryOf
<1>3. ASSUME NEW kind \in {"full", "diff", "log"}, NEW copyOnly \in BOOLEAN,
             NEW first \in 0..MaxRecords, NEW against \in 0..MaxSets,
             Taken(kind, copyOnly, first, against),
             kind = "diff" => base # 0 /\ against = base,
             kind = "log" => \A i \in 1..Len(history) : history[i].last < lsn,
             base' = IF kind = "full" /\ ~copyOnly THEN Len(history) + 1 ELSE base,
             chain' \in {chain, lsn}
      PROVE  LifeInv'
  <2>1. /\ history' \in Seq(Backup) /\ Len(history') = Len(history) + 1
        /\ Len(history') \in 1..MaxSets
        /\ \A i \in 1..Len(history) : history'[i] = history[i]
        /\ history'[Len(history')].kind = kind
        /\ history'[Len(history')].copyOnly = copyOnly
        /\ \A i \in 1..Len(history') : EntryOf(i)'
    BY <1>3, TakenKeeps
  <2>2. UNCHANGED <<written, now, simple>> /\ lsn' = lsn
    BY <1>3 DEF Taken, lsn
  <2> HIDE DEF lsn
  <2>3. PICK n \in Nat : n = Len(history)
    BY <1>00
  <2>4. \A g \in 1..n : Based(g)' <=> Based(g)
    BY <2>1, <2>3 DEF Based
  <2>5. Based(n + 1)' <=> kind = "full" /\ ~copyOnly
    BY <2>1, <2>3 DEF Based
  <2>6. PICK b : b = base' /\ b \in 0..MaxSets
    BY <1>0, <1>3, <2>1
  <2>7. b # 0 => b <= n + 1 /\ Based(b)'
    <3>1. base # 0 => base \in 1..n /\ Based(base)
      BY <1>0, <2>3 DEF LifeInv, Recorded
    <3>2. CASE b = n + 1 /\ kind = "full" /\ ~copyOnly
      BY <2>3, <2>5, <3>2
    <3>3. CASE b = base
      BY <2>3, <2>4, <3>1, <3>3
    <3> QED BY <1>3, <2>3, <2>6, <3>2, <3>3
  <2>8. ASSUME NEW g \in 1..(n + 1), Based(g)' PROVE g <= b
    <3>1. \A h \in 1..n : Based(h) => h <= base
      BY <2>3 DEF LifeInv, Recorded
    <3>2. base <= b /\ (b = base \/ b = n + 1)
      <4>1. base <= n + 1
        BY <1>0, <2>3 DEF LifeInv, Recorded
      <4> QED BY <1>0, <1>3, <2>3, <2>6, <4>1
    <3>3. CASE g \in 1..n
      BY <1>0, <2>4, <2>6, <2>8, <3>1, <3>2, <3>3
    <3>4. CASE g = n + 1
      BY <1>3, <2>3, <2>5, <2>6, <2>8, <3>4
    <3> QED BY <2>3, <3>3, <3>4
  <2>9. chain' # End => chain' <= lsn'
    BY <1>0, <1>3, <2>2 DEF LifeInv, Recorded
  <2>10. LifeType'
    BY <1>0, <1>3, <2>1, <2>2, <2>6 DEF LifeType
  <2>11. \A k \in 1..lsn' : written'[k] <= now'
    BY <2>2 DEF LifeInv, Recorded
  <2> QED BY <2>1, <2>3, <2>6, <2>7, <2>8, <2>9, <2>10, <2>11 DEF LifeInv, Recorded, EntryOf, Based
<1>4. Started \in {chain, lsn}
  BY DEF Started
<1>5. CASE Full
  <2>1. PICK copyOnly \in BOOLEAN :
          /\ Taken("full", copyOnly, lsn, 0)
          /\ IF copyOnly THEN UNCHANGED <<chain, base>>
             ELSE chain' = Started /\ base' = Len(history) + 1
    BY <1>5 DEF Full
  <2> HIDE DEF lsn
  <2> QED BY <1>0, <1>3, <1>4, <2>1
<1>6. CASE Diff
  <2> HIDE DEF lsn
  <2> QED BY <1>0, <1>3, <1>4, <1>6 DEF Diff
<1>7. CASE Log
  <2>1. PICK copyOnly \in BOOLEAN :
          Taken("log", copyOnly, chain, 0) /\ chain' = IF copyOnly THEN chain ELSE lsn
    BY <1>7 DEF Log
  <2>2. chain \in 0..MaxRecords /\ base' = base
    BY <1>0, <1>7 DEF Log
  <2>3. \A i \in 1..Len(history) : history[i].last < lsn
    BY <1>0, <1>7, LenProperties DEF Log, ToSet
  <2> HIDE DEF lsn
  <2> QED BY <1>0, <1>3, <2>1, <2>2, <2>3
<1>8. CASE SetRecovery
  <2>1. /\ UNCHANGED <<history, written, now, base>> /\ chain' = End
        /\ simple' \in BOOLEAN /\ lsn' = lsn
    BY <1>0, <1>8 DEF SetRecovery, lsn
  <2> HIDE DEF lsn
  <2>4. \A i \in 1..Len(history') : EntryOf(i)'
    BY <1>0, <2>1, EntriesKept
  <2>5. LifeType'
    BY <1>0, <2>1 DEF LifeType
  <2> QED BY <1>0, <2>1, <2>4, <2>5 DEF LifeInv, Recorded, EntryOf, Based
<1>9. CASE UNCHANGED life
  BY <1>9 DEF life, LifeInv, LifeType, Recorded, EntryOf, Based, lsn
<1> QED BY <1>1, <1>2, <1>5, <1>6, <1>7, <1>8, <1>9 DEF RestoreNext

-----------------------------------------------------------------------------
(* The history.                                                                *)

\* What a set of the history is.
LEMMA InHistory ==
    ASSUME LifeInv, NEW b \in ToSet(history)
    PROVE  /\ b \in Backup /\ b.id \in 1..Len(history) /\ b = history[b.id]
           /\ b.id \in Nat /\ b.last \in Nat /\ b.first \in Nat /\ b.finish \in Nat
           /\ b.last <= lsn
           /\ \A k \in 1..lsn : IF k <= b.last THEN written[k] <= b.finish
                                              ELSE b.finish <= written[k]
           /\ b.kind = "diff" =>
                \E f \in ToSet(history) :
                   /\ f.id = b.base /\ f.kind = "full" /\ ~f.copyOnly
                   /\ \A g \in ToSet(history) :
                        g.kind = "full" /\ ~g.copyOnly /\ g.id < b.id => g.id <= f.id
<1>1. PICK i \in 1..Len(history) : b = history[i]
  BY LenProperties DEF ToSet, LifeInv, LifeType
<1>2. EntryOf(i) /\ \A j \in 1..Len(history) : history[j].id = j
  BY DEF LifeInv, Recorded, EntryOf
<1>3. b \in Backup
  BY <1>1, ElementOfSeq DEF LifeInv, LifeType
<1>4. b.id \in Nat /\ b.last \in Nat /\ b.first \in Nat /\ b.finish \in Nat
  BY <1>3, RestoreAssumption DEF Backup
<1>5. ASSUME b.kind = "diff"
      PROVE  \E f \in ToSet(history) :
                   /\ f.id = b.base /\ f.kind = "full" /\ ~f.copyOnly
                   /\ \A g \in ToSet(history) :
                        g.kind = "full" /\ ~g.copyOnly /\ g.id < b.id => g.id <= f.id
  <2>1. /\ b.base \in 1..(i - 1) /\ Based(b.base)
        /\ \A g \in 1..(i - 1) : Based(g) => g <= b.base
    BY <1>1, <1>2, <1>5 DEF EntryOf
  <2>2. Len(history) \in Nat /\ DOMAIN history = 1..Len(history)
    BY LenProperties DEF LifeInv, LifeType
  <2>3. history[b.base] \in ToSet(history) /\ history[b.base].id = b.base
    BY <1>2, <2>1, <2>2 DEF ToSet
  <2>4. ASSUME NEW g \in ToSet(history), g.kind = "full", ~g.copyOnly, g.id < b.id
        PROVE  g.id <= b.base
    <3>1. PICK j \in 1..Len(history) : g = history[j]
      BY <2>2 DEF ToSet
    <3>2. g.id = j /\ b.id = i
      BY <1>1, <1>2, <3>1
    <3>3. j \in 1..(i - 1) /\ Based(j)
      BY <1>1, <2>2, <2>4, <3>1, <3>2 DEF Based
    <3> QED BY <2>1, <3>2, <3>3
  <2> QED BY <2>1, <2>3, <2>4 DEF Based
<1> QED BY <1>1, <1>2, <1>3, <1>4, <1>5 DEF EntryOf

\* The sets finish, and end, in the order they are numbered.
LEMMA HistoryOrder ==
    ASSUME LifeInv, NEW a \in ToSet(history), NEW b \in ToSet(history)
    PROVE  /\ a.id = b.id => a = b
           /\ a.id < b.id => /\ a.last <= b.last /\ a.finish <= b.finish
                             /\ b.kind = "log" => a.last < b.last
<1>1. a.id \in 1..Len(history) /\ a = history[a.id]
  BY InHistory
<1>2. b.id \in 1..Len(history) /\ b = history[b.id]
  BY InHistory
<1>3. EntryOf(b.id)
  BY <1>2 DEF LifeInv, Recorded, EntryOf
<1>4. Len(history) \in Nat
  BY LenProperties DEF LifeInv, LifeType
<1>5. a.id < b.id => a.id \in 1..(b.id - 1)
  BY <1>1, <1>2, <1>4
<1> QED BY <1>1, <1>2, <1>3, <1>5 DEF EntryOf

\* The newest of some sets is numbered last, and ends no earlier than any of them.
LEMMA NewestIs ==
    ASSUME LifeInv, NEW S \in SUBSET ToSet(history), S # {}
    PROVE  newest(S) \in S /\ \A a \in S : a.id <= newest(S).id /\ a.last <= newest(S).last
<1> DEFINE T == {Len(history) - a.id : a \in S}
<1>0. Len(history) \in Nat
  BY LenProperties DEF LifeInv, LifeType
<1>1. \A a \in S : a.id \in 1..Len(history) /\ a.finish \in Nat /\ a.last \in Nat
  BY InHistory
<1>2. PICK m \in T : \A k \in T : m <= k
  <2>1. T \in SUBSET Nat /\ T # {}
    BY <1>0, <1>1
  <2> HIDE DEF T
  <2> QED BY <2>1, LeastNatural
<1>3. PICK b \in S : m = Len(history) - b.id
  OBVIOUS
<1>4. \A a \in S : a.id <= b.id
  <2> TAKE a \in S
  <2>1. Len(history) - b.id <= Len(history) - a.id
    BY <1>2, <1>3
  <2> QED BY <1>0, <1>1, <2>1
<1>5. \A a \in S : a.finish < b.finish \/ (a.finish = b.finish /\ a.id <= b.id)
  <2> TAKE a \in S
  <2>1. a.id < b.id => a.finish <= b.finish
    BY HistoryOrder
  <2>2. a.id = b.id => a = b
    BY HistoryOrder
  <2> QED BY <1>1, <1>4, <2>1, <2>2
<1> DEFINE n == newest(S)
<1>6. n \in S /\ \A a \in S : a.finish < n.finish \/ (a.finish = n.finish /\ a.id <= n.id)
  BY <1>5 DEF newest
<1> HIDE DEF n
<1>7. ASSUME NEW a \in S PROVE a.id <= n.id /\ a.last <= n.last
  <2>1. n.id < a.id => n.finish <= a.finish
    BY <1>6, HistoryOrder
  <2>2. a.id <= n.id
    BY <1>1, <1>6, <2>1
  <2>3. (a.id < n.id => a.last <= n.last) /\ (a.id = n.id => a = n)
    BY <1>6, HistoryOrder
  <2> QED BY <1>1, <1>6, <2>2, <2>3
<1> QED BY <1>6, <1>7 DEF n

\* There is an earliest of some sets.
LEMMA EarliestIs ==
    ASSUME LifeInv, NEW S \in SUBSET ToSet(history), S # {}
    PROVE  Earliest(S) \in S
<1>1. \A a \in S : a.id \in Nat /\ a.finish \in Nat /\ a.first \in Nat
  BY InHistory
<1>2. PICK f \in {a.first : a \in S} : \A g \in {a.first : a \in S} : f <= g
  <2>1. {a.first : a \in S} \in SUBSET Nat /\ {a.first : a \in S} # {}
    BY <1>1
  <2> QED BY <2>1, LeastNatural
<1> DEFINE T == {a \in S : a.first = f}
<1>3. PICK i \in {a.id : a \in T} : \A j \in {a.id : a \in T} : i <= j
  <2>1. {a.id : a \in T} \in SUBSET Nat /\ {a.id : a \in T} # {}
    BY <1>1, <1>2
  <2> QED BY <2>1, LeastNatural
<1>4. PICK l \in S : l.first = f /\ l.id = i
  BY <1>3
<1>5. ASSUME NEW m \in S
      PROVE  \/ l.first < m.first
             \/ l.first = m.first /\ (l.finish < m.finish \/ (l.finish = m.finish /\ l.id <= m.id))
  <2>1. l.first <= m.first
    BY <1>2, <1>4
  <2>2. l.first = m.first => l.id <= m.id
    BY <1>3, <1>4
  <2>3. (l.id < m.id => l.finish <= m.finish) /\ (l.id = m.id => l = m)
    BY HistoryOrder
  <2> QED BY <1>1, <2>1, <2>2, <2>3
<1> QED BY <1>5 DEF Earliest

-----------------------------------------------------------------------------
(* The chain of logs.                                                          *)

\* The logs that can be planned are some of the history.
LEMMA LogsFinite ==
    ASSUME LifeInv
    PROVE  /\ Logs \in SUBSET ToSet(history) /\ IsFiniteSet(Logs)
           /\ Cardinality(Logs) \in Nat
<1>1. \A b \in Logs : \E i \in 1..Len(history) : history[i] = b
  BY LenProperties DEF Logs, ToSet, LifeInv, LifeType
<1>2. IsFiniteSet(Logs)
  BY <1>1, ListFinite DEF LifeInv, LifeType
<1> QED BY <1>2, FS_CardinalityType DEF Logs

\* Chains is a recursive function, and there is one.
LEMMA ChainsExist ==
    ASSUME LifeInv, NEW sets, NEW stop
    PROVE  Chains(sets, stop) =
             [k \in 0..Cardinality(Logs) |->
                IF k = 0 THEN sets ELSE Lengthened(Chains(sets, stop)[k - 1], stop)]
<1> DEFINE Body(f, k) == IF k = 0 THEN sets ELSE Lengthened(f[k - 1], stop)
           Good == {m \in Nat : \E f : f = [k \in 0..m |-> Body(f, k)]}
<1>1. 0 \in Good
  <2> DEFINE f == [k \in 0..0 |-> sets]
  <2>1. f = [k \in 0..0 |-> Body(f, k)]
    OBVIOUS
  <2> QED BY <2>1
<1>2. ASSUME NEW m \in Nat, m \in Good PROVE m + 1 \in Good
  <2>1. PICK f : f = [k \in 0..m |-> Body(f, k)]
    BY <1>2
  <2> DEFINE g == [k \in 0..(m + 1) |-> IF k \in 0..m THEN f[k] ELSE Body(f, k)]
  <2>2. ASSUME NEW k \in 0..(m + 1) PROVE g[k] = Body(g, k)
    <3>1. CASE k \in 0..m
      <4>1. f[k] = Body(f, k)
        BY <2>1, <3>1
      <4>2. k # 0 => k - 1 \in 0..m
        BY <3>1
      <4>3. k # 0 => g[k - 1] = f[k - 1]
        BY <4>2
      <4> QED BY <3>1, <4>1, <4>3
    <3>2. CASE k = m + 1
      <4>1. g[k - 1] = f[k - 1] /\ k \notin 0..m
        BY <3>2
      <4> QED BY <3>2, <4>1
    <3> QED BY <3>1, <3>2
  <2>3. g = [k \in 0..(m + 1) |-> Body(g, k)]
    <3> HIDE DEF Body
    <3> QED BY <2>2
  <2> HIDE DEF Body, g
  <2> QED BY <2>3
<1>3. \A m \in Nat : m \in Good
  <2> HIDE DEF Good
  <2> QED BY <1>1, <1>2, NaturalInduction
<1>4. \E f : f = [k \in 0..Cardinality(Logs) |-> Body(f, k)]
  BY <1>3, LogsFinite
<1> QED BY <1>4 DEF Chains

\* So each chain is the one before it, lengthened.
LEMMA ChainsSteps ==
    ASSUME LifeInv, NEW sets, NEW stop
    PROVE  /\ Chains(sets, stop)[0] = sets
           /\ \A k \in Nat : k + 1 <= Cardinality(Logs) =>
                Chains(sets, stop)[k + 1] = Lengthened(Chains(sets, stop)[k], stop)
<1> DEFINE f == Chains(sets, stop)
           N == Cardinality(Logs)
<1>1. f = [k \in 0..N |-> IF k = 0 THEN sets ELSE Lengthened(f[k - 1], stop)]
  BY ChainsExist
<1>2. N \in Nat
  BY LogsFinite
<1> HIDE DEF f, N
<1>3. f[0] = sets
  BY <1>1, <1>2
<1>4. ASSUME NEW k \in Nat, k + 1 <= N PROVE f[k + 1] = Lengthened(f[k], stop)
  <2>1. k + 1 \in 0..N /\ k + 1 # 0 /\ (k + 1) - 1 = k
    BY <1>2, <1>4
  <2> QED BY <1>1, <2>1
<1> QED BY <1>3, <1>4 DEF f, N

\* A chain of logs on sets: each goes on from the one before it.
GoesOn(c, sets) ==
    /\ c \in Seq(ToSet(history)) /\ Len(sets) <= Len(c)
    /\ \A i \in 1..Len(sets) : c[i] = sets[i]
    /\ \A i \in 1..Len(c) : i > Len(sets) => c[i] \in Logs /\ c[i].first <= c[i - 1].last
    /\ Last(sets).last <= Last(c).last

\* Nothing is to be added to it, and nothing can be.
Ended(c, stop) ==
    HoldsStop(c, stop) \/ \A l \in Logs : ~Continues(l, Last(c).last)

\* A chain that is lengthened is a chain, and ends later, unless it has ended.
LEMMA LengthenedFollows ==
    ASSUME LifeInv, NEW stop, NEW sets \in Seq(ToSet(history)), sets # <<>>,
           NEW c, GoesOn(c, sets)
    PROVE  /\ GoesOn(Lengthened(c, stop), sets)
           /\ Ended(c, stop) => Lengthened(c, stop) = c
           /\ ~Ended(c, stop) =>
                \E l \in Logs : /\ Last(Lengthened(c, stop)) = l
                                /\ Last(c).last < l.last
<1> DEFINE next == {l \in Logs : Continues(l, Last(c).last)}
<1>1. CASE Ended(c, stop)
  <2>1. HoldsStop(c, stop) \/ next = {}
    BY <1>1 DEF Ended
  <2> QED BY <1>1, <2>1 DEF Lengthened
<1>2. CASE ~Ended(c, stop)
  <2>1. ~HoldsStop(c, stop) /\ next # {}
    BY <1>2 DEF Ended
  <2> DEFINE l == Earliest(next)
  <2>2. l \in next
    BY <2>1, EarliestIs, LogsFinite
  <2>3. Lengthened(c, stop) = Append(c, l)
    BY <2>1 DEF Lengthened
  <2>4. l \in Logs /\ Continues(l, Last(c).last) /\ l \in ToSet(history)
    BY <2>2, LogsFinite
  <2> HIDE DEF l, next
  <2>5. PICK d : d = Append(c, l)
    OBVIOUS
  <2>6. /\ c \in Seq(ToSet(history)) /\ Len(c) \in Nat /\ Len(sets) \in Nat /\ Len(sets) # 0
        /\ Len(sets) <= Len(c)
    BY LenProperties, EmptySeq DEF GoesOn
  <2>7. /\ d \in Seq(ToSet(history)) /\ Len(d) = Len(c) + 1 /\ d[Len(d)] = l
        /\ \A i \in 1..Len(c) : d[i] = c[i]
    BY <2>4, <2>5, <2>6, AppendProperties
  <2>8. Last(d) = l /\ Last(c) = c[Len(c)]
    BY <2>7 DEF Last
  <2>9. \A i \in 1..Len(sets) : d[i] = sets[i]
    BY <2>6, <2>7 DEF GoesOn
  <2>10. ASSUME NEW i \in 1..Len(d), i > Len(sets)
         PROVE  d[i] \in Logs /\ d[i].first <= d[i - 1].last
    <3>1. CASE i = Len(d)
      <4>1. i - 1 = Len(c) /\ Len(c) \in 1..Len(c)
        BY <2>6, <2>7, <3>1
      <4> QED BY <2>4, <2>7, <2>8, <3>1, <4>1 DEF Continues
    <3>2. CASE i # Len(d)
      <4>1. i \in 1..Len(c) /\ i - 1 \in 1..Len(c)
        BY <2>6, <2>7, <2>10, <3>2
      <4> QED BY <2>7, <2>10, <4>1 DEF GoesOn
    <3> QED BY <3>1, <3>2
  <2>11. Last(sets).last <= Last(d).last /\ Last(c).last < l.last
    <3>1. c[Len(c)] \in ToSet(history) /\ sets[Len(sets)] \in ToSet(history)
      BY <2>6, ElementOfSeq
    <3>2. Last(c).last \in Nat /\ Last(sets).last \in Nat /\ l.last \in Nat
      BY <2>4, <3>1, InHistory DEF Last
    <3>3. Last(sets).last <= Last(c).last /\ Last(c).last < l.last
      BY <2>4 DEF GoesOn, Continues
    <3> QED BY <2>8, <3>2, <3>3
  <2>12. GoesOn(d, sets)
    BY <2>6, <2>7, <2>9, <2>10, <2>11 DEF GoesOn
  <2> QED BY <1>2, <2>3, <2>4, <2>5, <2>8, <2>11, <2>12
<1> QED
  <2>1. Ended(c, stop) => Lengthened(c, stop) = c
    BY <1>1 DEF Ended, Lengthened
  <2> QED BY <1>1, <1>2

\* As many turns as there are logs bring a chain to its end.
LEMMA ChainEnds ==
    ASSUME LifeInv, NEW stop, NEW sets \in Seq(ToSet(history)), sets # <<>>
    PROVE  GoesOn(ChainFrom(sets, stop), sets) /\ Ended(ChainFrom(sets, stop), stop)
<1> DEFINE N == Cardinality(Logs)
           Rest(c) == {l \in Logs : Last(c).last < l.last}
           C == Chains(sets, stop)
           Good == {k \in Nat : k <= N => /\ GoesOn(C[k], sets)
                                          /\ Ended(C[k], stop) \/ Cardinality(Rest(C[k])) <= N - k}
<1>0. N \in Nat /\ IsFiniteSet(Logs) /\ Logs \in SUBSET ToSet(history)
  BY LogsFinite
<1>1. ASSUME NEW c PROVE /\ IsFiniteSet(Rest(c)) /\ Cardinality(Rest(c)) \in Nat
                         /\ Cardinality(Rest(c)) <= N
  <2>1. Rest(c) \in SUBSET Logs
    OBVIOUS
  <2> HIDE DEF Rest
  <2> QED BY <1>0, <2>1, FS_Subset, FS_CardinalityType
<1>2. 0 \in Good
  <2>1. C[0] = sets
    BY ChainsSteps
  <2>2. GoesOn(sets, sets)
    <3>1. Len(sets) \in Nat /\ sets[Len(sets)] \in ToSet(history)
      BY LenProperties, EmptySeq, ElementOfSeq
    <3>2. Last(sets).last \in Nat
      BY <3>1, InHistory DEF Last
    <3> QED BY <3>1, <3>2 DEF GoesOn
  <2> HIDE DEF C, Rest, N
  <2> QED BY <1>0, <1>1, <2>1, <2>2
<1>3. ASSUME NEW k \in Nat, k \in Good PROVE k + 1 \in Good
  <2> SUFFICES ASSUME k + 1 <= N
               PROVE  /\ GoesOn(C[k + 1], sets)
                      /\ Ended(C[k + 1], stop) \/ Cardinality(Rest(C[k + 1])) <= N - (k + 1)
    OBVIOUS
  <2>1. C[k + 1] = Lengthened(C[k], stop)
    BY ChainsSteps
  <2>2. /\ GoesOn(C[k], sets)
        /\ Ended(C[k], stop) \/ Cardinality(Rest(C[k])) <= N - k
    BY <1>0, <1>3
  <2> DEFINE c == C[k]
             d == C[k + 1]
  <2>3. /\ GoesOn(d, sets)
        /\ Ended(c, stop) => d = c
        /\ ~Ended(c, stop) => \E l \in Logs : Last(d) = l /\ Last(c).last < l.last
    BY <2>1, <2>2, LengthenedFollows
  <2>4. CASE Ended(c, stop)
    BY <2>3, <2>4
  <2>5. CASE ~Ended(c, stop)
    <3>1. PICK l \in Logs : Last(d) = l /\ Last(c).last < l.last
      BY <2>3, <2>5
    <3> HIDE DEF c, d, C, N
    <3>2. l.last \in Nat /\ \A m \in Logs : m.last \in Nat
      BY <1>0, InHistory
    <3>3. Last(c).last \in Nat
      <4>1. Len(c) \in Nat /\ Len(c) # 0 /\ c \in Seq(ToSet(history))
        BY <2>2, LenProperties, EmptySeq DEF GoesOn, c
      <4>2. c[Len(c)] \in ToSet(history)
        BY <4>1, ElementOfSeq
      <4> QED BY <4>2, InHistory DEF Last
    <3>4. Rest(d) \in SUBSET (Rest(c) \ {l}) /\ l \in Rest(c)
      BY <3>1, <3>2, <3>3
    <3>5. /\ IsFiniteSet(Rest(c)) /\ Cardinality(Rest(c)) \in Nat
          /\ Cardinality(Rest(d)) \in Nat
      BY <1>1
    <3> HIDE DEF Rest
    <3>6. IsFiniteSet(Rest(c) \ {l}) /\ Cardinality(Rest(c) \ {l}) = Cardinality(Rest(c)) - 1
      BY <3>4, <3>5, FS_RemoveElement
    <3>7. Cardinality(Rest(d)) <= Cardinality(Rest(c) \ {l})
      BY <3>4, <3>6, FS_Subset
    <3>8. Cardinality(Rest(c)) <= N - k
      BY <2>2, <2>5 DEF c
    <3>9. Cardinality(Rest(d)) <= N - (k + 1)
      BY <1>0, <3>5, <3>6, <3>7, <3>8
    <3> QED BY <2>3, <3>9 DEF d
  <2> QED BY <2>4, <2>5
<1>4. \A k \in Nat : k \in Good
  <2> HIDE DEF Good
  <2> QED BY <1>2, <1>3, NaturalInduction
<1>5. GoesOn(C[N], sets) /\ (Ended(C[N], stop) \/ Cardinality(Rest(C[N])) <= 0)
  <2> HIDE DEF C, N, Rest
  <2>1. N \in Good
    BY <1>0, <1>4
  <2>2. N <= N /\ N - N = 0
    BY <1>0
  <2> QED BY <2>1, <2>2
<1>6. ASSUME Cardinality(Rest(C[N])) <= 0 PROVE Ended(C[N], stop)
  <2> DEFINE c == C[N]
  <2>1. Rest(c) = {}
    <3> HIDE DEF C, N, Rest
    <3> QED BY <1>1, <1>6, FS_EmptySet
  <2>2. \A l \in Logs : ~(Last(c).last < l.last)
    BY <2>1
  <2> QED BY <2>2 DEF Ended, Continues
<1> QED BY <1>5, <1>6 DEF ChainFrom

-----------------------------------------------------------------------------
(* The plans.                                                                  *)

\* The sets that place the database, and the plan from them.
Placed(stop) ==
    LET full == newest(Fulls(stop))
    IN  IF Diffs(full, stop) = {} THEN <<full>> ELSE <<full, newest(Diffs(full, stop))>>

\* PlanRestore, in these words.
LEMMA PlanIs ==
    ASSUME NEW stop, NEW tail, Fulls(stop) # {}
    PROVE  PlanRestore(stop, tail) = Plan(ChainFrom(Placed(stop), stop), stop, tail)
BY DEF PlanRestore, Placed

\* They are the newest full backup and the newest differential of it, if there is one,
\* and end no earlier than any that could have been taken in their place.
LEMMA PlacedIs ==
    ASSUME LifeInv, NEW stop, Fulls(stop) # {}
    PROVE  LET full == newest(Fulls(stop))
               placed == Placed(stop)
           IN  /\ placed \in Seq(ToSet(history)) /\ placed[1] = full
               /\ Len(placed) = 1 \/ (Len(placed) = 2 /\ placed[2] \in Diffs(full, stop))
               /\ full \in Fulls(stop)
               /\ \A f \in Fulls(stop) : f.id <= full.id
               /\ full.last <= Last(placed).last
               /\ \A d \in Diffs(full, stop) : d.last <= Last(placed).last
<1> DEFINE full == newest(Fulls(stop))
           placed == Placed(stop)
<1>1. Fulls(stop) \in SUBSET ToSet(history) /\ \A f : Diffs(f, stop) \in SUBSET ToSet(history)
  BY DEF Fulls, Diffs
<1>2. full \in Fulls(stop) /\ full \in ToSet(history) /\ \A f \in Fulls(stop) : f.id <= full.id
  BY <1>1, NewestIs
<1> HIDE DEF full
<1>3. CASE Diffs(full, stop) = {}
  <2>1. placed = <<full>>
    BY <1>3 DEF Placed, full
  <2>2. Last(placed) = full /\ full.last \in Nat
    BY <1>2, <2>1, InHistory DEF Last
  <2>3. placed \in Seq(ToSet(history)) /\ Len(placed) = 1 /\ placed[1] = full
    BY <1>2, <2>1
  <2>4. full.last <= Last(placed).last /\ \A d \in Diffs(full, stop) : d.last <= Last(placed).last
    BY <1>3, <2>2
  <2> HIDE DEF placed
  <2> QED BY <1>2, <2>3, <2>4 DEF full, placed
<1>4. CASE Diffs(full, stop) # {}
  <2> DEFINE d == newest(Diffs(full, stop))
  <2>1. placed = <<full, d>>
    BY <1>4 DEF Placed, full
  <2>2. /\ d \in Diffs(full, stop) /\ d \in ToSet(history)
        /\ \A e \in Diffs(full, stop) : e.last <= d.last
    BY <1>1, <1>4, NewestIs
  <2> HIDE DEF d
  <2>3. Last(placed) = d
    BY <2>1 DEF Last
  <2>4. full.last <= d.last
    <3>1. d.kind = "diff" /\ d.base = full.id
      BY <2>2 DEF Diffs
    <3>2. PICK f \in ToSet(history) : f.id = d.base
      BY <2>2, <3>1, InHistory
    <3>3. f = full
      BY <1>2, <3>1, <3>2, HistoryOrder
    <3>4. full.id < d.id
      <4>1. EntryOf(d.id) /\ d = history[d.id] /\ d.id \in 1..Len(history) /\ Len(history) \in Nat
        BY <2>2, InHistory, LenProperties DEF LifeInv, LifeType, Recorded, EntryOf
      <4>2. d.base \in 1..(d.id - 1)
        BY <3>1, <4>1 DEF EntryOf
      <4> QED BY <3>1, <4>1, <4>2
    <3> QED BY <1>2, <2>2, <3>4, HistoryOrder
  <2>5. placed \in Seq(ToSet(history)) /\ Len(placed) = 2 /\ placed[1] = full /\ placed[2] = d
    BY <1>2, <2>1, <2>2
  <2> HIDE DEF placed
  <2> QED BY <1>2, <2>2, <2>3, <2>4, <2>5 DEF full, placed
<1> QED BY <1>3, <1>4

\* They end somewhere.
LEMMA PlacedLast ==
    ASSUME LifeInv, NEW stop, Fulls(stop) # {}
    PROVE  Last(Placed(stop)).last \in Nat
<1>1. /\ Placed(stop) \in Seq(ToSet(history))
      /\ Len(Placed(stop)) = 1 \/ Len(Placed(stop)) = 2
  BY PlacedIs
<1>2. \A n \in {1, 2} : n \in 1..n
  OBVIOUS
<1>3. Last(Placed(stop)) \in ToSet(history)
  BY <1>1, <1>2, ElementOfSeq DEF Last
<1> QED BY <1>3, InHistory

\* The chain from there: the server accepts it.
LEMMA ChainAccepted ==
    ASSUME LifeInv, NEW stop, Fulls(stop) # {}
    PROVE  LET c == ChainFrom(Placed(stop), stop)
           IN  /\ Accepted(c) /\ c[1] = newest(Fulls(stop)) /\ c \in Seq(ToSet(history))
               /\ \A i \in DOMAIN c : c[i].kind # "log" => by(c[i], stop)
               /\ Ended(c, stop) /\ Last(Placed(stop)).last <= Last(c).last
<1> DEFINE full == newest(Fulls(stop))
           placed == Placed(stop)
           c == ChainFrom(placed, stop)
<1>1. /\ placed \in Seq(ToSet(history)) /\ placed[1] = full
      /\ Len(placed) = 1 \/ (Len(placed) = 2 /\ placed[2] \in Diffs(full, stop))
      /\ full \in Fulls(stop)
  BY PlacedIs
<1> HIDE DEF placed, full
<1>2. placed # <<>>
  BY <1>1, EmptySeq
<1>3. GoesOn(c, placed) /\ Ended(c, stop)
  BY <1>1, <1>2, ChainEnds
<1> HIDE DEF c
<1>4. c \in Seq(ToSet(history)) /\ Len(c) \in Nat /\ Len(c) >= 1 /\ DOMAIN c = 1..Len(c)
  BY <1>1, <1>3, LenProperties DEF GoesOn
<1>5. c[1] = full /\ full.kind = "full" /\ full.Restorable /\ by(full, stop)
  BY <1>1, <1>3 DEF GoesOn, Fulls
<1>6. ASSUME NEW i \in 1..Len(c), i # 1
      PROVE  \/ /\ c[i].kind = "log" /\ c[i].first <= c[i - 1].last /\ c[i].Restorable
             \/ /\ c[i].kind = "diff" /\ i = 2 /\ c[i].base = full.id /\ c[i].Restorable
                /\ by(c[i], stop)
  <2>1. CASE i > Len(placed)
    BY <1>3, <2>1 DEF GoesOn, Logs
  <2>2. CASE i = 2 /\ Len(placed) = 2
    BY <1>1, <1>3, <2>2 DEF GoesOn, Diffs
  <2>3. i > Len(placed) \/ (i = 2 /\ Len(placed) = 2)
    <3>1. PICK n \in {1, 2} : n = Len(placed)
      BY <1>1
    <3>2. i \in Nat /\ i > 1
      BY <1>4, <1>6
    <3> QED BY <3>1, <3>2
  <2> QED BY <2>1, <2>2, <2>3
<1>7. Accepted(c)
  <2>1. c # <<>>
    BY <1>4, EmptySeq
  <2>2. c[1].kind = "full"
    BY <1>5
  <2>3. \A i \in DOMAIN c : c[i].Restorable
    <3> TAKE i \in DOMAIN c
    <3> QED BY <1>4, <1>5, <1>6
  <2>4. \A i \in DOMAIN c \ {1} :
            \/ /\ c[i].kind = "diff" /\ i = 2 /\ c[i].base = c[1].id
            \/ c[i].kind = "log" /\ c[i].first <= c[i - 1].last
    BY <1>4, <1>5, <1>6
  <2> QED BY <2>1, <2>2, <2>3, <2>4 DEF Accepted
<1>8. \A i \in DOMAIN c : c[i].kind # "log" => by(c[i], stop)
  <2> TAKE i \in DOMAIN c
  <2> QED BY <1>4, <1>5, <1>6
<1>9. Last(placed).last <= Last(c).last
  BY <1>3 DEF GoesOn
<1> QED BY <1>3, <1>4, <1>5, <1>7, <1>8, <1>9 DEF c, full, placed

\* What a sequence of sets the server accepts ends at, some log of it holds, unless
\* a set before does not let it get there.
LEMMA Covers ==
    ASSUME LifeInv, NEW sets \in Seq(Chained), Accepted(sets), NEW e \in Nat,
           \A i \in DOMAIN sets : sets[i].kind # "log" => sets[i].last <= e,
           e < Last(sets).last
    PROVE  \E l \in Logs : Continues(l, e)
<1> DEFINE T == {i \in 1..Len(sets) : e < sets[i].last}
<1>1. Len(sets) \in Nat /\ sets # <<>> /\ Len(sets) \in 1..Len(sets) /\ DOMAIN sets = 1..Len(sets)
  BY LenProperties, EmptySeq DEF Accepted
<1>2. PICK i \in T : \A j \in T : i <= j
  <2>1. T \in SUBSET Nat /\ T # {}
    BY <1>1 DEF Last
  <2> HIDE DEF T
  <2> QED BY <2>1, LeastNatural
<1>3. sets[i] \in Chained /\ \A j \in 1..Len(sets) : sets[j] \in ToSet(history)
  BY <1>1, ElementOfSeq DEF Chained
<1>4. \A j \in 1..Len(sets) : sets[j].last \in Nat
  BY <1>3, InHistory
<1>5. sets[i].kind = "log"
  BY <1>1, <1>2, <1>4
<1>6. i # 1
  BY <1>5 DEF Accepted
<1>7. sets[i].first <= sets[i - 1].last
  BY <1>1, <1>5, <1>6 DEF Accepted
<1>8. i - 1 \in 1..Len(sets) /\ i - 1 \notin T
  BY <1>1, <1>2, <1>6
<1>9. sets[i - 1].last <= e
  BY <1>4, <1>8
<1>10. sets[i].first \in Nat /\ sets[i].Restorable
  BY <1>1, <1>3, InHistory DEF Accepted
<1>11. sets[i] \in Logs
  BY <1>3, <1>5, <1>10 DEF Chained, Logs
<1>12. Continues(sets[i], e)
  BY <1>4, <1>7, <1>8, <1>9, <1>10 DEF Continues
<1> QED BY <1>11, <1>12

\* A full backup, and a differential of it, that could have been planned from end
\* before what the plan places, unless a differential is taken over it.
LEMMA PlacedFurthest ==
    ASSUME LifeInv, NEW stop, NEW f \in Fulls(stop),
           f = newest(Fulls(stop)) \/ ~newest(Fulls(stop)).copyOnly
    PROVE  /\ f.last <= Last(Placed(stop)).last
           /\ \A d \in ToSet(history) :
                d.kind = "diff" /\ d.Restorable /\ by(d, stop) /\ d.base = f.id
                  => d.last <= Last(Placed(stop)).last
<1> DEFINE full == newest(Fulls(stop))
           last == Last(Placed(stop)).last
<1>1. /\ full \in Fulls(stop) /\ f.id <= full.id /\ full.last <= last
      /\ \A d \in Diffs(full, stop) : d.last <= last
  BY PlacedIs
<1>2. last \in Nat
  BY PlacedLast
<1> HIDE DEF full, last
<1>3. f \in ToSet(history) /\ full \in ToSet(history) /\ full.kind = "full"
  BY <1>1 DEF Fulls
<1>4. /\ f.id \in Nat /\ full.id \in Nat /\ f.last \in Nat /\ full.last \in Nat
      /\ f.id < full.id => f.last <= full.last
      /\ f.id = full.id => f = full
  BY <1>3, InHistory, HistoryOrder
<1>5. f.last <= last
  BY <1>1, <1>2, <1>4
<1>6. ASSUME NEW d \in ToSet(history), d.kind = "diff", d.Restorable, by(d, stop), d.base = f.id
      PROVE  d.last <= last
  <2>1. PICK g \in ToSet(history) :
          /\ g.id = d.base /\ g.kind = "full" /\ ~g.copyOnly
          /\ \A h \in ToSet(history) :
                h.kind = "full" /\ ~h.copyOnly /\ h.id < d.id => h.id <= g.id
    BY <1>6, InHistory
  <2>2. g = f
    BY <1>3, <1>6, <2>1, HistoryOrder
  <2>3. d.id \in Nat /\ d.last \in Nat
    BY InHistory
  <2>4. CASE f = full
    <3>1. d \in Diffs(full, stop)
      BY <1>6, <2>1, <2>2, <2>4 DEF Diffs
    <3> QED BY <1>1, <3>1
  <2>5. CASE f # full
    <3>1. ~full.copyOnly /\ f.id < full.id
      BY <1>1, <1>4, <2>5 DEF full
    <3>2. ~(full.id < d.id)
      BY <1>3, <1>4, <2>1, <2>2, <3>1
    <3>3. d.id # full.id
      BY <1>3, <1>6, HistoryOrder
    <3>4. d.last <= full.last
      BY <1>3, <1>4, <2>3, <3>2, <3>3, HistoryOrder
    <3> QED BY <1>1, <1>2, <1>4, <2>3, <3>4
  <2> QED BY <2>4, <2>5
<1> QED BY <1>5, <1>6 DEF last

\* A sequence the server accepts is one of sets of the history.
LEMMA AcceptableIs ==
    ASSUME LifeInv, NEW sets \in Acceptable
    PROVE  /\ sets \in Seq(Chained) /\ Accepted(sets) /\ Len(sets) \in 1..Len(sets)
           /\ DOMAIN sets = 1..Len(sets)
           /\ \A i \in DOMAIN sets : sets[i] \in ToSet(history)
<1>1. PICK S \in SUBSET Chained : sets = Only(history, S) /\ Accepted(sets)
  BY DEF Acceptable
<1>2. Only(history, S) \in Seq(Backup \cap S)
  BY OnlyType DEF LifeInv, LifeType
<1>3. sets \in Seq(Chained)
  <2>1. Backup \cap S \subseteq Chained
    OBVIOUS
  <2> QED BY <1>1, <1>2, <2>1
<1>4. sets # <<>>
  BY <1>1 DEF Accepted
<1>5. Len(sets) \in 1..Len(sets) /\ DOMAIN sets = 1..Len(sets)
  BY <1>3, <1>4, LenProperties, EmptySeq
<1>6. \A i \in DOMAIN sets : sets[i] \in ToSet(history)
  BY <1>3, <1>5, ElementOfSeq DEF Chained
<1> QED BY <1>1, <1>3, <1>5, <1>6

\* A log that goes on from a plan to a time holds records of its own, all written
\* after that time, and so the database is recovered at it, as it was then.
LEMMA NextRecovers ==
    ASSUME LifeInv, NEW c \in Seq(ToSet(history)), Accepted(c), NEW stop \in Nat,
           HoldsStop(c, stop), Restored(c, stop) = WrittenBy(stop),
           NEW l \in Logs \cup TailNow, Continues(l, Last(c).last)
    PROVE  RecoversAt(Append(c, l), stop)
<1>1. Len(c) \in Nat /\ Len(c) \in 1..Len(c) /\ DOMAIN c = 1..Len(c)
  BY LenProperties, EmptySeq DEF Accepted
<1>2. Last(c) \in ToSet(history) /\ Last(c) = c[Len(c)]
  BY <1>1, ElementOfSeq DEF Last
<1>3. /\ Last(c).last \in Nat /\ Last(c).finish \in Nat /\ stop < Last(c).finish
      /\ \A k \in 1..lsn : ~(k <= Last(c).last) => Last(c).finish <= written[k]
  BY <1>2, InHistory DEF HoldsStop
<1>4. /\ l.kind = "log" /\ l.Restorable /\ l.last \in Nat /\ l.last <= lsn
      /\ l.first <= Last(c).last /\ Last(c).last < l.last
  <2>1. l.first <= Last(c).last /\ Last(c).last < l.last
    BY DEF Continues
  <2>2. CASE l \in Logs
    BY <2>1, <2>2, InHistory DEF Logs
  <2>3. CASE l \in TailNow
    <3>1. l.kind = "log" /\ l.Restorable /\ l.last = lsn
      BY <2>3 DEF TailNow
    <3>2. lsn \in Nat
      BY RestoreAssumption DEF LifeInv, LifeType
    <3> QED BY <2>1, <3>1, <3>2
  <2> QED BY <2>2, <2>3
<1>5. \A k \in 1..lsn : written[k] \in Nat
  BY ElementOfSeq, RestoreAssumption DEF LifeInv, LifeType, lsn
<1>6. PICK d : d = Append(c, l)
  OBVIOUS
<1>7. /\ Len(d) = Len(c) + 1 /\ DOMAIN d = 1..(Len(c) + 1) /\ d # <<>>
      /\ \A i \in 1..Len(c) : d[i] = c[i]
      /\ d[Len(c) + 1] = l /\ Last(d) = l
  <2>1. c \in Seq(ToSet(history) \cup {l}) /\ l \in ToSet(history) \cup {l}
    OBVIOUS
  <2>2. d \in Seq(ToSet(history) \cup {l}) /\ Len(d) = Len(c) + 1 /\ d[Len(d)] = l
        /\ \A i \in 1..Len(c) : d[i] = c[i]
    BY <1>6, <2>1, AppendProperties
  <2>3. DOMAIN d = 1..Len(d) /\ d # <<>>
    BY <1>1, <2>2, LenProperties, EmptySeq
  <2> QED BY <2>2, <2>3 DEF Last
<1> HIDE DEF lsn
<1>8. lsn \in Nat /\ stop # End
  BY RestoreAssumption DEF LifeInv, LifeType, lsn
<1>9. Accepted(d)
  <2>1. d[1].kind = "full"
    BY <1>1, <1>7 DEF Accepted
  <2>2. ASSUME NEW i \in DOMAIN d
        PROVE  /\ d[i].Restorable
               /\ i # 1 => \/ /\ d[i].kind = "diff" /\ i = 2 /\ d[i].base = d[1].id
                           \/ d[i].kind = "log" /\ d[i].first <= d[i - 1].last
    <3>1. CASE i = Len(c) + 1
      <4>1. i - 1 = Len(c) /\ d[i - 1] = Last(c)
        BY <1>1, <1>2, <1>7, <3>1
      <4> QED BY <1>4, <1>7, <3>1, <4>1
    <3>2. CASE i # Len(c) + 1
      <4>1. i \in 1..Len(c) /\ 1 \in 1..Len(c) /\ (i # 1 => i - 1 \in 1..Len(c))
        BY <1>1, <1>7, <3>2
      <4>2. /\ c[i].Restorable
            /\ i # 1 => \/ /\ c[i].kind = "diff" /\ i = 2 /\ c[i].base = c[1].id
                        \/ c[i].kind = "log" /\ c[i].first <= c[i - 1].last
        BY <1>1, <4>1 DEF Accepted
      <4> QED BY <1>7, <4>1, <4>2
    <3> QED BY <3>1, <3>2
  <2> QED BY <1>7, <2>1, <2>2 DEF Accepted
<1>10. Recovered(d, stop)
  <2>1. l.last \in 1..l.last /\ l.last \in 1..lsn /\ ~(l.last <= Last(c).last)
    BY <1>3, <1>4, <1>8
  <2>2. written[l.last] > stop
    BY <1>3, <1>5, <2>1
  <2> QED BY <1>7, <2>1, <2>2 DEF Recovered
<1>11. Restored(d, stop) \subseteq WrittenBy(stop)
  <2> SUFFICES ASSUME NEW i \in DOMAIN d, NEW k \in 1..d[i].last,
                      d[i].kind # "log" \/ stop = End \/ written[k] <= stop
               PROVE  k \in WrittenBy(stop)
    BY DEF Restored
  <2>1. CASE i = Len(c) + 1
    <3>1. k \in 1..lsn /\ written[k] <= stop
      BY <1>4, <1>7, <1>8, <2>1
    <3> QED BY <3>1 DEF WrittenBy
  <2>2. CASE i # Len(c) + 1
    <3>1. i \in DOMAIN c /\ d[i] = c[i]
      BY <1>1, <1>7, <2>2
    <3>2. k \in Restored(c, stop)
      BY <3>1 DEF Restored
    <3> QED BY <3>2
  <2> QED BY <2>1, <2>2
<1>12. WrittenBy(stop) \subseteq Restored(d, stop)
  <2> SUFFICES ASSUME NEW k \in Restored(c, stop) PROVE k \in Restored(d, stop)
    OBVIOUS
  <2>1. PICK i \in DOMAIN c :
          k \in 1..c[i].last /\ (c[i].kind # "log" \/ stop = End \/ written[k] <= stop)
    BY DEF Restored
  <2>2. i \in DOMAIN d /\ d[i] = c[i]
    BY <1>1, <1>7
  <2> QED BY <2>1, <2>2 DEF Restored
<1> QED BY <1>6, <1>9, <1>10, <1>11, <1>12 DEF RecoversAt

\* The records a restore brings back, up to a time, are those written by it.
LEMMA PlansReach == ASSUME LifeInv PROVE ReachesStop
<1> SUFFICES ASSUME NEW stop \in Stops \cup {End}, NEW tail \in BOOLEAN,
                    PlanRestore(stop, tail) # Refused
             PROVE  LET plan == PlanRestore(stop, tail)
                    IN  /\ Accepted(plan.sets)
                        /\ stop # End /\ ~plan.TailLog =>
                             /\ Restored(plan.sets, stop) = WrittenBy(stop)
                             /\ \/ Recovered(plan.sets, stop)
                                \/ \A l \in Logs \cup TailNow :
                                     Continues(l, Last(plan.sets).last)
                                       => RecoversAt(Append(plan.sets, l), stop)
                        /\ plan.TailLog /\ (\E l \in Logs : l.last = chain)
                             => chain <= Last(plan.sets).last
  BY DEF ReachesStop
<1> DEFINE plan == PlanRestore(stop, tail)
           c == ChainFrom(Placed(stop), stop)
<1>0. Fulls(stop) # {}
  BY DEF PlanRestore
<1>1. plan = Plan(c, stop, tail)
  BY <1>0, PlanIs
<1>2. /\ Accepted(c) /\ c \in Seq(ToSet(history))
      /\ \A i \in DOMAIN c : c[i].kind # "log" => by(c[i], stop)
  BY <1>0, ChainAccepted
<1> HIDE DEF c, plan
<1>3. \/ plan = [sets |-> c, TailLog |-> FALSE] /\ (HoldsStop(c, stop) \/ stop = End)
      \/ plan = [sets |-> c, TailLog |-> TRUE] /\ AtEnd(c)
  BY <1>1 DEF Plan, plan
<1>4. plan.sets = c
  BY <1>3
<1>5. ASSUME stop # End, ~plan.TailLog PROVE Restored(c, stop) = WrittenBy(stop)
  <2>1. HoldsStop(c, stop)
    BY <1>3, <1>5
  <2>2. Len(c) \in 1..Len(c) /\ DOMAIN c = 1..Len(c)
    BY <1>2, LenProperties, EmptySeq DEF Accepted
  <2>3. \A i \in DOMAIN c : c[i] \in ToSet(history)
    BY <1>2, <2>2, ElementOfSeq
  <2>4. stop \in Nat /\ lsn \in Nat /\ \A k \in 1..lsn : written[k] \in Nat
    <3>1. MaxTime \in Nat /\ stop \in 0..MaxTime
      BY <1>5, RestoreAssumption DEF Stops
    <3>2. \A k \in 1..lsn : written[k] \in 0..MaxTime
      BY ElementOfSeq DEF LifeInv, LifeType, lsn
    <3>3. lsn \in Nat
      BY RestoreAssumption DEF LifeInv, LifeType
    <3> QED BY <3>1, <3>2, <3>3
  <2> HIDE DEF lsn
  <2>5. ASSUME NEW i \in DOMAIN c, NEW k \in 1..c[i].last,
               c[i].kind # "log" \/ stop = End \/ written[k] <= stop
        PROVE  k \in WrittenBy(stop)
    <3>1. /\ c[i].last \in Nat /\ c[i].last <= lsn /\ c[i].finish \in Nat
          /\ \A m \in 1..lsn : IF m <= c[i].last THEN written[m] <= c[i].finish
                                                 ELSE c[i].finish <= written[m]
      BY <2>3, InHistory
    <3>2. k \in 1..lsn /\ k <= c[i].last
      BY <2>4, <3>1
    <3>3. c[i].kind # "log" => c[i].finish <= stop
      BY <1>2, <1>5 DEF by
    <3>4. written[k] <= c[i].finish
      BY <3>1, <3>2
    <3>5. written[k] <= stop
      BY <1>5, <2>4, <2>5, <3>1, <3>2, <3>3, <3>4
    <3> QED BY <3>2, <3>5 DEF WrittenBy
  <2>6. ASSUME NEW k \in WrittenBy(stop)
        PROVE  k \in 1..Last(c).last /\ written[k] <= stop
    <3>1. k \in 1..lsn /\ written[k] <= stop
      BY <1>5 DEF WrittenBy
    <3>2. Last(c).finish > stop
      BY <2>1 DEF HoldsStop
    <3>3. Last(c) \in ToSet(history)
      BY <2>2, <2>3 DEF Last
    <3>4. /\ Last(c).last \in Nat /\ Last(c).finish \in Nat
          /\ k <= Last(c).last \/ Last(c).finish <= written[k]
      BY <3>1, <3>3, InHistory
    <3>5. k <= Last(c).last
      BY <2>4, <3>1, <3>2, <3>4
    <3> QED BY <2>4, <3>1, <3>4, <3>5
  <2>7. Restored(c, stop) \subseteq WrittenBy(stop)
    BY <2>5 DEF Restored
  <2>8. WrittenBy(stop) \subseteq Restored(c, stop)
    <3> SUFFICES ASSUME NEW k \in WrittenBy(stop) PROVE k \in Restored(c, stop)
      OBVIOUS
    <3>1. k \in 1..c[Len(c)].last /\ written[k] <= stop
      BY <2>6 DEF Last
    <3> QED BY <2>2, <3>1 DEF Restored
  <2> QED BY <2>7, <2>8
<1>6. ASSUME plan.TailLog, NEW l \in Logs, l.last = chain PROVE chain <= Last(c).last
  BY <1>3, <1>6 DEF AtEnd
<1>7. ASSUME stop # End, ~plan.TailLog, NEW l \in Logs \cup TailNow, Continues(l, Last(c).last)
      PROVE  RecoversAt(Append(c, l), stop)
  <2>1. stop \in Nat /\ HoldsStop(c, stop)
    BY <1>3, <1>7, RestoreAssumption DEF Stops
  <2> QED BY <1>2, <1>5, <1>7, <2>1, NextRecovers
<1> QED BY <1>2, <1>4, <1>5, <1>6, <1>7 DEF plan

\* A sequence the server accepts gets no further than the plan from the same, or a
\* newer, full backup: where the chain has ended, no log of the sequence goes on.
LEMMA RefusalsDeserved == ASSUME LifeInv PROVE RefusedOnlyInNeed
<1>1. ASSUME NEW stop, Fulls(stop) # {}, NEW sets \in Acceptable,
             ~HoldsStop(ChainFrom(Placed(stop), stop), stop),
             sets[1] \in Fulls(stop),
             sets[1] = newest(Fulls(stop)) \/ ~newest(Fulls(stop)).copyOnly,
             \A i \in DOMAIN sets : sets[i].kind # "log" => by(sets[i], stop)
      PROVE  Last(sets).last <= Last(ChainFrom(Placed(stop), stop)).last
  <2> DEFINE c == ChainFrom(Placed(stop), stop)
             e == Last(c).last
  <2>1. /\ Ended(c, stop) /\ Last(Placed(stop)).last <= e
        /\ c \in Seq(ToSet(history)) /\ Accepted(c)
    BY <1>1, ChainAccepted
  <2>2. /\ sets \in Seq(Chained) /\ Accepted(sets) /\ Len(sets) \in 1..Len(sets)
        /\ DOMAIN sets = 1..Len(sets)
        /\ \A i \in DOMAIN sets : sets[i] \in ToSet(history)
    BY <1>1, AcceptableIs
  <2>3. \A l \in Logs : ~Continues(l, e)
    BY <1>1, <2>1 DEF Ended
  <2>4. e \in Nat /\ Last(sets).last \in Nat
    <3>1. c # <<>>
      BY <2>1 DEF Accepted
    <3>2. Len(c) \in 1..Len(c)
      BY <2>1, <3>1, LenProperties, EmptySeq
    <3>3. Last(c) \in ToSet(history)
      BY <2>1, <3>2, ElementOfSeq DEF Last
    <3>4. Last(sets) \in ToSet(history)
      BY <2>2 DEF Last
    <3> QED BY <3>3, <3>4, InHistory
  <2>5. Last(Placed(stop)).last \in Nat
    BY <1>1, PlacedLast
  <2> HIDE DEF c, e
  <2>6. ASSUME NEW i \in DOMAIN sets, sets[i].kind # "log" PROVE sets[i].last <= e
    <3>1. sets[i] \in ToSet(history) /\ sets[i].last \in Nat
      BY <2>2, InHistory
    <3>2. sets[i].last <= Last(Placed(stop)).last
      <4>1. CASE i = 1
        BY <1>1, <4>1, PlacedFurthest
      <4>2. CASE i # 1
        <5>1. /\ sets[i].kind = "diff" /\ sets[i].base = sets[1].id /\ sets[i].Restorable
              /\ by(sets[i], stop)
          BY <1>1, <2>2, <2>6, <4>2 DEF Accepted
        <5> QED BY <1>1, <3>1, <5>1, PlacedFurthest
      <4> QED BY <4>1, <4>2
    <3> QED BY <2>1, <2>4, <2>5, <3>1, <3>2
  <2>7. ~(e < Last(sets).last)
    BY <2>2, <2>3, <2>4, <2>6, Covers
  <2> QED BY <2>4, <2>7 DEF c, e
<1>2. ASSUME NEW stop \in Stops, PlanRestore(stop, FALSE) = Refused, Fulls(stop) # {},
             ~newest(Fulls(stop)).copyOnly, NEW sets \in Acceptable, HoldsStop(sets, stop)
      PROVE  \E b \in ToSet(sets) : b.kind # "log" /\ ~by(b, stop)
  <2> SUFFICES ASSUME \A b \in ToSet(sets) : b.kind # "log" => by(b, stop) PROVE FALSE
    OBVIOUS
  <2> DEFINE c == ChainFrom(Placed(stop), stop)
  <2>0. stop \in Nat /\ stop # End
    BY RestoreAssumption DEF Stops
  <2>1. /\ Accepted(c) /\ c \in Seq(ToSet(history))
        /\ \A i \in DOMAIN c : c[i].kind # "log" => by(c[i], stop)
    BY <1>2, ChainAccepted
  <2>2. /\ Accepted(sets) /\ Len(sets) \in 1..Len(sets)
        /\ DOMAIN sets = 1..Len(sets)
        /\ \A i \in DOMAIN sets : sets[i] \in ToSet(history) /\ sets[i] \in Chained
    BY <1>2, AcceptableIs, ElementOfSeq
  <2>3. Plan(c, stop, FALSE) = Refused
    BY <1>2, PlanIs
  <2> HIDE DEF c
  <2>4. ~HoldsStop(c, stop)
    <3>1. ASSUME HoldsStop(c, stop) PROVE FALSE
      <4>1. [sets |-> c, TailLog |-> FALSE] = [sets |-> <<>>, TailLog |-> FALSE]
        BY <2>3, <3>1 DEF Plan, Refused
      <4> QED BY <2>1, <4>1 DEF Accepted
    <3> QED BY <3>1
  <2>5. \A i \in DOMAIN sets : sets[i].kind # "log" => by(sets[i], stop)
    BY DEF ToSet
  <2>6. sets[1] \in Fulls(stop)
    <3>1. 1 \in DOMAIN sets
      BY <2>2
    <3>2. sets[1].kind = "full" /\ sets[1].Restorable
      BY <2>2, <3>1 DEF Accepted
    <3> QED BY <2>2, <2>5, <3>1, <3>2 DEF Fulls
  <2>7. Last(sets).last <= Last(c).last
    BY <1>1, <1>2, <2>4, <2>5, <2>6 DEF c
  <2>8. Last(sets).kind = "log" /\ Last(sets).finish > stop
    BY <1>2 DEF HoldsStop
  <2>9. Last(c) \in ToSet(history) /\ Last(c).finish <= stop
    <3>1. c # <<>>
      BY <2>1 DEF Accepted
    <3>2. Len(c) \in 1..Len(c) /\ DOMAIN c = 1..Len(c)
      BY <2>1, <3>1, LenProperties, EmptySeq
    <3>3. Last(c) \in ToSet(history)
      BY <2>1, <3>2, ElementOfSeq DEF Last
    <3>4. Last(c).finish \in Nat
      BY <3>3, InHistory
    <3>5. CASE Last(c).kind = "log"
      BY <2>0, <2>4, <3>3, <3>4, <3>5 DEF HoldsStop
    <3>6. CASE Last(c).kind # "log"
      <4>1. by(Last(c), stop)
        BY <2>1, <3>2, <3>6 DEF Last
      <4> QED BY <2>0, <3>3, <4>1 DEF by
    <3> QED BY <3>5, <3>6
  <2>10. Last(sets) \in ToSet(history)
    BY <2>2 DEF Last
  <2>11. /\ Last(sets).id \in Nat /\ Last(sets).finish \in Nat /\ Last(sets).last \in Nat
         /\ Last(c).id \in Nat /\ Last(c).finish \in Nat /\ Last(c).last \in Nat
    BY <2>9, <2>10, InHistory
  <2>12. Last(c).id < Last(sets).id
    <3>1. Last(sets).id < Last(c).id => Last(sets).finish <= Last(c).finish
      BY <2>9, <2>10, HistoryOrder
    <3>2. Last(sets).id = Last(c).id => Last(sets) = Last(c)
      BY <2>9, <2>10, HistoryOrder
    <3> QED BY <2>0, <2>8, <2>9, <2>11, <3>1, <3>2
  <2>13. Last(c).last < Last(sets).last
    BY <2>8, <2>9, <2>10, <2>12, HistoryOrder
  <2> QED BY <2>7, <2>11, <2>13
<1>3. ASSUME Fulls(End) # {}, NEW sets \in Acceptable,
             sets[1] = PlanRestore(End, FALSE).sets[1]
      PROVE  Last(sets).last <= Last(PlanRestore(End, FALSE).sets).last
  <2> DEFINE c == ChainFrom(Placed(End), End)
  <2>1. Plan(c, End, FALSE) = [sets |-> c, TailLog |-> FALSE]
    BY DEF Plan
  <2>2. PlanRestore(End, FALSE).sets = c
    <3> DEFINE plan == PlanRestore(End, FALSE)
    <3>1. plan = Plan(c, End, FALSE)
      BY <1>3, PlanIs
    <3>2. plan = [sets |-> c, TailLog |-> FALSE]
      BY <2>1, <3>1, Zenon
    <3> HIDE DEF c, plan
    <3>3. plan.sets = c
      BY <3>2
    <3> QED BY <3>3 DEF plan
  <2>3. c[1] = newest(Fulls(End)) /\ newest(Fulls(End)) \in Fulls(End)
    BY <1>3, ChainAccepted, PlacedIs
  <2>4. ~HoldsStop(c, End) /\ \A b : by(b, End)
    BY DEF HoldsStop, by
  <2> HIDE DEF c
  <2>5. sets[1] = newest(Fulls(End))
    BY <1>3, <2>2, <2>3
  <2> QED BY <1>1, <1>3, <2>2, <2>3, <2>4, <2>5 DEF c
<1> QED BY <1>2, <1>3 DEF RefusedOnlyInNeed

\* PlanRestore plans what works, with the next log or the tail where its last log
\* has nothing later than StopAt, as far as anything does, and refuses only what
\* nothing reaches: for any number of records, backups and seconds, and any life.
THEOREM EveryPlanRestores == RestoreSpec => []PlanRestores
<1>1. LifeInv => PlanRestores
  BY PlansReach, RefusalsDeserved DEF PlanRestores
<1> QED BY <1>1, InitLife, StepLife, PTL DEF RestoreSpec

-----------------------------------------------------------------------------
(* JobReorder: the order of a job's steps.                                     *)

\* The flows of step i of n: to another step, or to none.
Flows(n, i) ==
    [action : Int \ {goToStepAction}, step : {0}]
    \cup [action : {goToStepAction}, step : (1..n) \ {i}]

AFlow == [action : Int, step : Nat]
AStep == [id : Nat, success : AFlow, fail : AFlow]
AJob == [steps : Seq(AStep), start : Nat, refused : BOOLEAN]
AStatement == [verb : {"delete", "add", "flow", "start"}, at : Nat, step : AStep]

\* A job of any number of steps, as the steps are read.
JobAsRead(job) ==
    /\ job \in AJob /\ ~job.refused
    /\ \A i \in DOMAIN job.steps :
         /\ job.steps[i].id = i
         /\ job.steps[i].success \in Flows(Len(job.steps), i)
         /\ job.steps[i].fail \in Flows(Len(job.steps), i)

\* A step that is taken out, and one that is put in.
LEMMA RemoveAtDoes ==
    ASSUME NEW T, NEW s \in Seq(T), NEW at \in 1..Len(s)
    PROVE  /\ RemoveAt(s, at) \in Seq(T)
           /\ Len(RemoveAt(s, at)) = Len(s) - 1
           /\ \A i \in 1..(Len(s) - 1) :
                RemoveAt(s, at)[i] = IF i < at THEN s[i] ELSE s[i + 1]
<1> DEFINE a == SubSeq(s, 1, at - 1)
           b == SubSeq(s, at + 1, Len(s))
<1>0. Len(s) \in Nat /\ \A i \in 1..Len(s) : s[i] \in T
  BY LenProperties, ElementOfSeq
<1>1. a \in Seq(T) /\ Len(a) = at - 1 /\ \A i \in 1..(at - 1) : a[i] = s[i]
  BY <1>0, SubSeqProperties
<1>2. b \in Seq(T) /\ Len(b) = Len(s) - at /\ \A i \in 1..(Len(s) - at) : b[i] = s[at + i]
  BY <1>0, SubSeqProperties
<1> HIDE DEF a, b
<1>3. /\ a \o b \in Seq(T) /\ Len(a \o b) = Len(a) + Len(b)
      /\ \A i \in 1..(Len(a) + Len(b)) : (a \o b)[i] = IF i <= Len(a) THEN a[i] ELSE b[i - Len(a)]
  BY <1>1, <1>2, ConcatProperties
<1>4. ASSUME NEW i \in 1..(Len(s) - 1)
      PROVE  (a \o b)[i] = IF i < at THEN s[i] ELSE s[i + 1]
  <2>1. CASE i < at
    BY <1>0, <1>1, <1>2, <1>3, <2>1
  <2>2. CASE ~(i < at)
    <3>1. i - (at - 1) \in 1..(Len(s) - at) /\ at + (i - (at - 1)) = i + 1
      BY <1>0, <2>2
    <3>2. (a \o b)[i] = b[i - (at - 1)]
      BY <1>0, <1>1, <1>2, <1>3, <2>2
    <3> QED BY <1>2, <2>2, <3>1, <3>2
  <2> QED BY <2>1, <2>2
<1>5. RemoveAt(s, at) = a \o b
  BY DEF RemoveAt, a, b
<1> QED BY <1>0, <1>1, <1>2, <1>3, <1>4, <1>5

LEMMA InsertAtDoes ==
    ASSUME NEW T, NEW s \in Seq(T), NEW at \in 1..(Len(s) + 1), NEW e \in T
    PROVE  /\ InsertAt(s, at, e) \in Seq(T)
           /\ Len(InsertAt(s, at, e)) = Len(s) + 1
           /\ \A i \in 1..(Len(s) + 1) :
                InsertAt(s, at, e)[i] = IF i < at THEN s[i] ELSE IF i = at THEN e ELSE s[i - 1]
<1> DEFINE a == SubSeq(s, 1, at - 1)
           c == a \o <<e>>
           b == SubSeq(s, at, Len(s))
<1>0. Len(s) \in Nat /\ \A i \in 1..Len(s) : s[i] \in T
  BY LenProperties, ElementOfSeq
<1>1. a \in Seq(T) /\ Len(a) = at - 1 /\ \A i \in 1..(at - 1) : a[i] = s[i]
  BY <1>0, SubSeqProperties
<1>2. /\ b \in Seq(T) /\ Len(b) = Len(s) - at + 1
      /\ \A i \in 1..(Len(s) - at + 1) : b[i] = s[at + i - 1]
  BY <1>0, SubSeqProperties
<1> HIDE DEF a, b
<1>3. c = Append(a, e)
  BY <1>1, AppendIsConcat
<1>4. /\ c \in Seq(T) /\ Len(c) = at /\ c[at] = e
      /\ \A i \in 1..(at - 1) : c[i] = s[i]
  BY <1>1, <1>3, AppendProperties, SMTT(30)
<1> HIDE DEF c
<1>5. /\ c \o b \in Seq(T) /\ Len(c \o b) = Len(c) + Len(b)
      /\ \A i \in 1..(Len(c) + Len(b)) : (c \o b)[i] = IF i <= Len(c) THEN c[i] ELSE b[i - Len(c)]
  BY <1>4, <1>2, ConcatProperties
<1>6. ASSUME NEW i \in 1..(Len(s) + 1)
      PROVE  (c \o b)[i] = IF i < at THEN s[i] ELSE IF i = at THEN e ELSE s[i - 1]
  <2>1. CASE i <= at
    BY <1>0, <1>2, <1>4, <1>5, <2>1
  <2>2. CASE ~(i <= at)
    <3>1. i - at \in 1..(Len(s) - at + 1) /\ at + (i - at) - 1 = i - 1
      BY <1>0, <2>2
    <3>2. (c \o b)[i] = b[i - at]
      BY <1>0, <1>4, <1>2, <1>5, <2>2
    <3> QED BY <1>2, <2>2, <3>1, <3>2
  <2> QED BY <2>1, <2>2
<1>7. InsertAt(s, at, e) = c \o b
  BY DEF InsertAt, a, b, c
<1> QED BY <1>0, <1>2, <1>4, <1>5, <1>6, <1>7

\* A flow that goes to no step stays as it is, whatever is taken out or put in.
Stays(step, old) ==
    /\ step.id = old.id
    /\ old.success.step = 0 => step.success = old.success
    /\ old.fail.step = 0 => step.fail = old.fail

LEMMA DeleteDoes ==
    ASSUME NEW job \in AJob, NEW at \in 1..Len(job.steps)
    PROVE  LET after == Delete(job, at)
           IN  /\ after \in AJob /\ Len(after.steps) = Len(job.steps) - 1
               /\ after.start = job.start /\ after.refused = job.refused
               /\ \A i \in 1..(Len(job.steps) - 1) :
                    Stays(after.steps[i], job.steps[IF i < at THEN i ELSE i + 1])
<1> DEFINE after == Delete(job, at)
           kept == RemoveAt(job.steps, at)
           f(flow, quit) == IF flow.step = at THEN Flow(quit, 0)
                            ELSE IF flow.step > at THEN Flow(flow.action, flow.step - 1) ELSE flow
           n == Len(job.steps) - 1
<1>0. job.steps \in Seq(AStep) /\ Len(job.steps) \in Nat
  BY LenProperties DEF AJob
<1>1. /\ kept \in Seq(AStep) /\ Len(kept) = n
      /\ \A i \in 1..n : kept[i] = job.steps[IF i < at THEN i ELSE i + 1]
  BY <1>0, RemoveAtDoes
<1>2. DOMAIN kept = 1..n /\ n \in Nat
  BY <1>0, <1>1, LenProperties
<1>3. after = [job EXCEPT !.steps = [i \in 1..n |-> MapFlows(kept[i], f)]]
  BY <1>2 DEF Delete
<1>4. ASSUME NEW s \in AStep
      PROVE  MapFlows(s, f) \in AStep /\ Stays(MapFlows(s, f), s)
  <2> DEFINE went == f(s.success, QuitWithSuccess)
             failed == f(s.fail, QuitWithFailure)
  <2>1. ASSUME NEW flow \in AFlow, NEW quit \in Int
        PROVE  f(flow, quit) \in AFlow /\ (flow.step = 0 => f(flow, quit) = flow)
    BY <1>0 DEF AFlow, Flow
  <2>2. s.success \in AFlow /\ s.fail \in AFlow
    BY DEF AStep
  <2>3. /\ went \in AFlow /\ (s.success.step = 0 => went = s.success)
        /\ failed \in AFlow /\ (s.fail.step = 0 => failed = s.fail)
    BY <2>1, <2>2 DEF QuitWithSuccess, QuitWithFailure
  <2>4. MapFlows(s, f) = [s EXCEPT !.success = went, !.fail = failed]
    BY DEF MapFlows
  <2> HIDE DEF went, failed, f
  <2> QED BY <2>3, <2>4 DEF AStep, Stays
<1> HIDE DEF kept, f
<1> DEFINE g == [i \in 1..n |-> MapFlows(kept[i], f)]
<1>5. \A i \in 1..n : kept[i] \in AStep
  BY <1>1, <1>2, ElementOfSeq
<1>6. g \in [1..n -> AStep]
  BY <1>4, <1>5
<1>7. g \in Seq(AStep) /\ Len(g) = n
  BY <1>2, <1>6
<1>8. \A i \in 1..n : Stays(g[i], job.steps[IF i < at THEN i ELSE i + 1])
  BY <1>1, <1>4, <1>5
<1> HIDE DEF g
<1>9. /\ after \in AJob /\ after.steps = g /\ after.start = job.start
      /\ after.refused = job.refused
  BY <1>3, <1>7 DEF AJob, g
<1> QED BY <1>7, <1>8, <1>9

LEMMA InsertDoes ==
    ASSUME NEW job \in AJob, NEW at \in 1..(Len(job.steps) + 1), NEW step \in AStep
    PROVE  LET after == Insert(job, at, step)
           IN  /\ after \in AJob /\ Len(after.steps) = Len(job.steps) + 1
               /\ after.start = job.start /\ after.refused = job.refused
               /\ after.steps[at] = step
               /\ \A i \in 1..(Len(job.steps) + 1) :
                    i # at => Stays(after.steps[i], job.steps[IF i < at THEN i ELSE i - 1])
<1> DEFINE after == Insert(job, at, step)
           f(flow, quit) == IF flow.step >= at THEN Flow(flow.action, flow.step + 1) ELSE flow
           n == Len(job.steps)
           g == [i \in 1..n |-> MapFlows(job.steps[i], f)]
<1>0. /\ job.steps \in Seq(AStep) /\ n \in Nat /\ DOMAIN job.steps = 1..n
      /\ \A i \in 1..n : job.steps[i] \in AStep
  BY LenProperties, ElementOfSeq DEF AJob
<1>3. after = [job EXCEPT !.steps = InsertAt(g, at, step)]
  BY <1>0 DEF Insert
<1>4. ASSUME NEW s \in AStep
      PROVE  MapFlows(s, f) \in AStep /\ Stays(MapFlows(s, f), s)
  <2> DEFINE went == f(s.success, QuitWithSuccess)
             failed == f(s.fail, QuitWithFailure)
  <2>1. ASSUME NEW flow \in AFlow, NEW quit \in Int
        PROVE  f(flow, quit) \in AFlow /\ (flow.step = 0 => f(flow, quit) = flow)
    BY <1>0 DEF AFlow, Flow
  <2>2. s.success \in AFlow /\ s.fail \in AFlow
    BY DEF AStep
  <2>3. /\ went \in AFlow /\ (s.success.step = 0 => went = s.success)
        /\ failed \in AFlow /\ (s.fail.step = 0 => failed = s.fail)
    BY <2>1, <2>2 DEF QuitWithSuccess, QuitWithFailure
  <2>4. MapFlows(s, f) = [s EXCEPT !.success = went, !.fail = failed]
    BY DEF MapFlows
  <2> HIDE DEF went, failed, f
  <2> QED BY <2>3, <2>4 DEF AStep, Stays
<1> HIDE DEF f
<1>6. g \in [1..n -> AStep]
  BY <1>0, <1>4
<1>7. g \in Seq(AStep) /\ Len(g) = n
  BY <1>0, <1>6
<1>8. \A i \in 1..n : Stays(g[i], job.steps[i])
  BY <1>0, <1>4
<1> HIDE DEF g
<1> DEFINE h == InsertAt(g, at, step)
<1>10. /\ h \in Seq(AStep) /\ Len(h) = n + 1
       /\ \A i \in 1..(n + 1) :
            h[i] = IF i < at THEN g[i] ELSE IF i = at THEN step ELSE g[i - 1]
  BY <1>7, InsertAtDoes
<1> HIDE DEF h
<1>9. /\ after \in AJob /\ after.steps = h /\ after.start = job.start
      /\ after.refused = job.refused
  BY <1>3, <1>10 DEF AJob, h
<1>11. h[at] = step
  BY <1>0, <1>10
<1>12. ASSUME NEW i \in 1..(n + 1), i # at
       PROVE  Stays(h[i], job.steps[IF i < at THEN i ELSE i - 1])
  <2>1. CASE i < at
    <3>1. i \in 1..n /\ h[i] = g[i]
      BY <1>0, <1>10, <2>1
    <3> QED BY <1>8, <2>1, <3>1
  <2>2. CASE ~(i < at)
    <3>1. i - 1 \in 1..n /\ h[i] = g[i - 1]
      BY <1>0, <1>10, <1>12, <2>2
    <3> QED BY <1>8, <2>2, <3>1
  <2> QED BY <2>1, <2>2
<1> QED BY <1>9, <1>10, <1>11, <1>12

\* RunTo is a recursive function, and there is one.
LEMMA RunToExists ==
    ASSUME NEW job, NEW T, NEW statements \in Seq(T)
    PROVE  RunTo(job, statements) =
             [n \in 0..Len(statements) |->
                IF n = 0 THEN job ELSE Run(RunTo(job, statements)[n - 1], statements[n])]
<1> DEFINE Body(f, n) == IF n = 0 THEN job ELSE Run(f[n - 1], statements[n])
           Good == {m \in Nat : \E f : f = [n \in 0..m |-> Body(f, n)]}
<1>1. 0 \in Good
  <2> DEFINE f == [n \in 0..0 |-> job]
  <2>1. f = [n \in 0..0 |-> Body(f, n)]
    OBVIOUS
  <2> QED BY <2>1
<1>2. ASSUME NEW m \in Nat, m \in Good PROVE m + 1 \in Good
  <2>1. PICK f : f = [n \in 0..m |-> Body(f, n)]
    BY <1>2
  <2> DEFINE g == [n \in 0..(m + 1) |-> IF n \in 0..m THEN f[n] ELSE Body(f, n)]
  <2>2. ASSUME NEW n \in 0..(m + 1) PROVE g[n] = Body(g, n)
    <3>1. CASE n \in 0..m
      <4>1. f[n] = Body(f, n)
        BY <2>1, <3>1
      <4>2. n # 0 => n - 1 \in 0..m
        BY <3>1
      <4>3. n # 0 => g[n - 1] = f[n - 1]
        BY <4>2
      <4> QED BY <3>1, <4>1, <4>3
    <3>2. CASE n = m + 1
      <4>1. g[n - 1] = f[n - 1] /\ n \notin 0..m
        BY <3>2
      <4> QED BY <3>2, <4>1
    <3> QED BY <3>1, <3>2
  <2>3. g = [n \in 0..(m + 1) |-> Body(g, n)]
    <3> HIDE DEF Body
    <3> QED BY <2>2
  <2> HIDE DEF Body, g
  <2> QED BY <2>3
<1>3. \A m \in Nat : m \in Good
  <2> HIDE DEF Good
  <2> QED BY <1>1, <1>2, NaturalInduction
<1>4. \E f : f = [n \in 0..Len(statements) |-> Body(f, n)]
  BY <1>3, LenProperties
<1> QED BY <1>4 DEF RunTo

\* So each statement is run on what the ones before it left.
LEMMA RunToSteps ==
    ASSUME NEW job, NEW T, NEW statements \in Seq(T)
    PROVE  /\ RunTo(job, statements)[0] = job
           /\ \A n \in 1..Len(statements) :
                RunTo(job, statements)[n] = Run(RunTo(job, statements)[n - 1], statements[n])
<1> DEFINE f == RunTo(job, statements)
<1>1. f = [n \in 0..Len(statements) |-> IF n = 0 THEN job ELSE Run(f[n - 1], statements[n])]
  BY RunToExists
<1> HIDE DEF f
<1>2. 0 \in 0..Len(statements) /\ \A n \in 1..Len(statements) : n \in 0..Len(statements) /\ n # 0
  BY LenProperties
<1>3. f[0] = job /\ \A n \in 1..Len(statements) : f[n] = Run(f[n - 1], statements[n])
  BY <1>1, <1>2
<1> QED BY <1>3 DEF f

\* What the statements so far do does not depend on what follows them.
LEMMA RunToFollowed ==
    ASSUME NEW job, NEW T, NEW s \in Seq(T), NEW more \in Seq(T)
    PROVE  RunTo(job, s \o more)[Len(s)] = RunAll(job, s)
<1> DEFINE t == s \o more
           N == Len(s)
           Good == {n \in Nat : n > N \/ RunTo(job, t)[n] = RunTo(job, s)[n]}
<1>0. /\ t \in Seq(T) /\ Len(t) = N + Len(more) /\ N \in Nat /\ Len(more) \in Nat
      /\ \A n \in 1..N : t[n] = s[n]
  BY ConcatProperties, LenProperties
<1> HIDE DEF t
<1>1. 0 \in Good
  BY <1>0, RunToSteps
<1>2. ASSUME NEW n \in Nat, n \in Good PROVE n + 1 \in Good
  <2>1. CASE n + 1 \in 1..N
    <3>1. n + 1 \in 1..Len(t) /\ (n + 1) - 1 = n
      BY <1>0, <2>1
    <3>2. RunTo(job, t)[n] = RunTo(job, s)[n]
      BY <1>0, <1>2, <2>1
    <3>3. RunTo(job, t)[n + 1] = Run(RunTo(job, t)[n], t[n + 1])
      BY <1>0, <3>1, RunToSteps
    <3>4. RunTo(job, s)[n + 1] = Run(RunTo(job, s)[n], s[n + 1])
      BY <3>1, <2>1, RunToSteps
    <3> QED BY <1>0, <2>1, <3>2, <3>3, <3>4
  <2>2. CASE n + 1 \notin 1..N
    BY <1>0, <2>2
  <2> QED BY <2>1, <2>2
<1>3. \A n \in Nat : n \in Good
  <2> HIDE DEF Good
  <2> QED BY <1>1, <1>2, NaturalInduction
<1>4. RunTo(job, t)[N] = RunTo(job, s)[N]
  BY <1>0, <1>3
<1> QED BY <1>4 DEF t, RunAll

LEMMA RunAllEmpty ==
    ASSUME NEW job
    PROVE  RunAll(job, <<>>) = job
<1> DEFINE none == <<>>
<1>1. none \in Seq({}) /\ Len(none) = 0
  OBVIOUS
<1> HIDE DEF none
<1>2. RunAll(job, none) = job
  BY <1>1, RunToSteps DEF RunAll
<1> QED BY <1>2 DEF none

LEMMA RunAllOne ==
    ASSUME NEW job, NEW T, NEW s \in Seq(T), NEW a \in T
    PROVE  RunAll(job, s \o <<a>>) = Run(RunAll(job, s), a)
<1> DEFINE more == <<a>>
           t == s \o more
           N == Len(s)
<1>1. more \in Seq(T)
  OBVIOUS
<1>2. t = Append(s, a)
  BY AppendIsConcat
<1>3. t \in Seq(T) /\ Len(t) = N + 1 /\ N \in Nat /\ t[N + 1] = a
  <2> HIDE DEF t
  <2> QED BY <1>2, AppendProperties, LenProperties
<1>4. RunTo(job, t)[N] = RunAll(job, s)
  <2> HIDE DEF more
  <2> QED BY <1>1, RunToFollowed
<1> HIDE DEF t
<1>5. RunTo(job, t)[N + 1] = Run(RunTo(job, t)[N], t[N + 1])
  <2>1. N + 1 \in 1..Len(t) /\ (N + 1) - 1 = N
    BY <1>3
  <2> QED BY <1>3, <2>1, RunToSteps
<1>6. RunAll(job, t) = Run(RunAll(job, s), a)
  BY <1>3, <1>4, <1>5 DEF RunAll
<1> QED BY <1>6 DEF t

LEMMA RunAllTwo ==
    ASSUME NEW job, NEW T, NEW s \in Seq(T), NEW a \in T, NEW b \in T
    PROVE  RunAll(job, s \o <<a, b>>) = Run(Run(RunAll(job, s), a), b)
<1>1. <<a>> \in Seq(T) /\ <<b>> \in Seq(T) /\ <<a, b>> = <<a>> \o <<b>>
  <2> DEFINE one == <<a>>
  <2>1. one \in Seq(T) /\ <<b>> \in Seq(T) /\ <<a, b>> = Append(one, b)
    OBVIOUS
  <2> HIDE DEF one
  <2>2. Append(one, b) = one \o <<b>>
    BY <2>1, AppendIsConcat
  <2> QED BY <2>1, <2>2 DEF one
<1>2. s \o <<a>> \in Seq(T)
  BY <1>1, ConcatProperties
<1>3. s \o <<a, b>> = (s \o <<a>>) \o <<b>>
  BY <1>1, ConcatAssociative
<1>4. RunAll(job, (s \o <<a>>) \o <<b>>) = Run(RunAll(job, s \o <<a>>), b)
  BY <1>2, RunAllOne
<1>5. RunAll(job, s \o <<a>>) = Run(RunAll(job, s), a)
  BY RunAllOne
<1> QED BY <1>3, <1>4, <1>5

\* MovesTo is a recursive function, and there is one.
LEMMA MovesToExists ==
    ASSUME NEW steps, NEW T, steps \in Seq(T), NEW want
    PROVE  MovesTo(steps, want) =
             [target \in 0..Len(steps) |->
                IF target = 0 THEN [current |-> Numbers(Len(steps)), statements |-> <<>>]
                ELSE Move(steps, want, MovesTo(steps, want)[target - 1], target)]
<1> DEFINE Begin == [current |-> Numbers(Len(steps)), statements |-> <<>>]
           Body(f, n) == IF n = 0 THEN Begin ELSE Move(steps, want, f[n - 1], n)
           Good == {m \in Nat : \E f : f = [n \in 0..m |-> Body(f, n)]}
<1> HIDE DEF Begin
<1>1. 0 \in Good
  <2> DEFINE f == [n \in 0..0 |-> Begin]
  <2>1. f = [n \in 0..0 |-> Body(f, n)]
    OBVIOUS
  <2> QED BY <2>1
<1>2. ASSUME NEW m \in Nat, m \in Good PROVE m + 1 \in Good
  <2>1. PICK f : f = [n \in 0..m |-> Body(f, n)]
    BY <1>2
  <2> DEFINE g == [n \in 0..(m + 1) |-> IF n \in 0..m THEN f[n] ELSE Body(f, n)]
  <2>2. ASSUME NEW n \in 0..(m + 1) PROVE g[n] = Body(g, n)
    <3>1. CASE n \in 0..m
      <4>1. f[n] = Body(f, n)
        BY <2>1, <3>1
      <4>2. n # 0 => n - 1 \in 0..m
        BY <3>1
      <4>3. n # 0 => g[n - 1] = f[n - 1]
        BY <4>2
      <4> QED BY <3>1, <4>1, <4>3
    <3>2. CASE n = m + 1
      <4>1. g[n - 1] = f[n - 1] /\ n \notin 0..m
        BY <3>2
      <4> QED BY <3>2, <4>1
    <3> QED BY <3>1, <3>2
  <2>3. g = [n \in 0..(m + 1) |-> Body(g, n)]
    <3> HIDE DEF Body
    <3> QED BY <2>2
  <2> HIDE DEF Body, g
  <2> QED BY <2>3
<1>3. \A m \in Nat : m \in Good
  <2> HIDE DEF Good
  <2> QED BY <1>1, <1>2, NaturalInduction
<1>4. \E f : f = [n \in 0..Len(steps) |-> Body(f, n)]
  BY <1>3, LenProperties
<1> QED BY <1>4 DEF MovesTo, Begin

\* So each move begins at the order the ones before it left.
LEMMA MovesToSteps ==
    ASSUME NEW steps, NEW T, steps \in Seq(T), NEW want
    PROVE  /\ MovesTo(steps, want)[0]
                 = [current |-> Numbers(Len(steps)), statements |-> <<>>]
           /\ \A n \in 1..Len(steps) :
                MovesTo(steps, want)[n] = Move(steps, want, MovesTo(steps, want)[n - 1], n)
<1> DEFINE f == MovesTo(steps, want)
           begin == [current |-> Numbers(Len(steps)), statements |-> <<>>]
<1>1. f = [n \in 0..Len(steps) |-> IF n = 0 THEN begin ELSE Move(steps, want, f[n - 1], n)]
  BY MovesToExists
<1> HIDE DEF f, begin
<1>2. 0 \in 0..Len(steps) /\ \A n \in 1..Len(steps) : n \in 0..Len(steps) /\ n # 0
  BY LenProperties
<1>3. f[0] = begin /\ \A n \in 1..Len(steps) : f[n] = Move(steps, want, f[n - 1], n)
  BY <1>1, <1>2
<1> QED BY <1>3 DEF f, begin

\* An order of n steps.
OrderOf(want, n) ==
    /\ want \in [1..n -> 1..n]
    /\ \A i, j \in 1..n : want[i] = want[j] => i = j

\* A step that is what it was read as, but for a flow that goes to a step.
Carries(step, old) ==
    /\ step.id = old.id
    /\ ~GoesTo(old.success) => step.success = old.success
    /\ ~GoesTo(old.fail) => step.fail = old.fail

\* A job whose steps are in an order, while it is being changed.
StandsIn(job, read, current) ==
    /\ job \in AJob /\ Len(job.steps) = Len(read.steps)
    /\ job.start = read.start /\ ~job.refused
    /\ \A i \in 1..Len(read.steps) : Carries(job.steps[i], read.steps[current[i]])

\* One step is taken out, and put in before others.
Shifted(current, from, target) ==
    [i \in DOMAIN current |->
       IF i < target \/ i > from THEN current[i]
       ELSE IF i = target THEN current[from] ELSE current[i - 1]]

\* msdb does to the steps what Move does to the order it keeps of them.
LEMMA MoveRuns ==
    ASSUME NEW read, JobAsRead(read), NEW job, NEW current,
           OrderOf(current, Len(read.steps)), StandsIn(job, read, current),
           NEW from \in 1..Len(read.steps), NEW target \in 1..(from - 1)
    PROVE  LET step == reAddRequest(read.steps[current[from]])
               added == Run(Run(job, Statement("delete", from, NoStep)),
                            Statement("add", target, step))
           IN  /\ step \in AStep
               /\ StandsIn(added, read, Shifted(current, from, target))
<1> DEFINE n == Len(read.steps)
           old == read.steps[current[from]]
           step == reAddRequest(old)
           without == Delete(job, from)
           added == Insert(without, target, step)
<1>0. /\ n \in Nat /\ \A i \in 1..n : current[i] \in 1..n /\ read.steps[i] \in AStep
      /\ job \in AJob /\ Len(job.steps) = n /\ ~job.refused /\ job.start = read.start
      /\ target \in 1..n
  <2>1. read.steps \in Seq(AStep) /\ n \in Nat
    BY LenProperties DEF JobAsRead, AJob
  <2>2. \A i \in 1..n : current[i] \in 1..n /\ read.steps[i] \in AStep
    BY <2>1, ElementOfSeq DEF OrderOf
  <2> QED BY <2>1, <2>2 DEF StandsIn
<1>1. \A i \in 1..n :
        LET s == read.steps[i]
        IN  /\ ~GoesTo(s.success) => s.success.step = 0
            /\ ~GoesTo(s.fail) => s.fail.step = 0
  BY LenProperties DEF JobAsRead, AJob, Flows, GoesTo
<1>2. step \in AStep /\ Carries(step, old) /\ ~GoesTo(step.success) /\ ~GoesTo(step.fail)
  <2> DEFINE went == Flow(IF GoesTo(old.success) THEN goToNextStepAction ELSE old.success.action, 0)
             failed == Flow(IF GoesTo(old.fail) THEN goToNextStepAction ELSE old.fail.action, 0)
  <2>1. old \in AStep /\ old.success \in AFlow /\ old.fail \in AFlow
    BY <1>0 DEF AStep
  <2>2. /\ ~GoesTo(old.success) => old.success.step = 0
        /\ ~GoesTo(old.fail) => old.fail.step = 0
    BY <1>0, <1>1
  <2>3. step = [old EXCEPT !.success = went, !.fail = failed]
    BY DEF reAddRequest, MapFlows
  <2>4. /\ went \in AFlow /\ ~GoesTo(went) /\ (~GoesTo(old.success) => went = old.success)
        /\ failed \in AFlow /\ ~GoesTo(failed) /\ (~GoesTo(old.fail) => failed = old.fail)
    BY <2>1, <2>2, SMTT(30) DEF AFlow, Flow, GoesTo, goToStepAction, goToNextStepAction
  <2> HIDE DEF went, failed, old, step
  <2> QED BY <2>1, <2>3, <2>4 DEF AStep, Carries
<1> HIDE DEF step, without, added
<1>3. /\ without \in AJob /\ Len(without.steps) = n - 1
      /\ without.start = job.start /\ without.refused = job.refused
      /\ \A i \in 1..(n - 1) :
           Stays(without.steps[i], job.steps[IF i < from THEN i ELSE i + 1])
  BY <1>0, DeleteDoes, ZenonT(40) DEF without
<1>4. /\ added \in AJob /\ Len(added.steps) = n
      /\ added.start = job.start /\ added.refused = job.refused
      /\ added.steps[target] = step
      /\ \A i \in 1..n : i # target =>
           Stays(added.steps[i], without.steps[IF i < target THEN i ELSE i - 1])
  <2>1. target \in 1..(Len(without.steps) + 1) /\ Len(without.steps) + 1 = n
    BY <1>0, <1>3
  <2> QED BY <1>2, <1>3, <2>1, InsertDoes DEF added
<1>5. /\ Run(job, Statement("delete", from, NoStep)) = without
      /\ Run(without, Statement("add", target, step)) = added
  <2>1. Run(job, Statement("delete", from, NoStep)) = without
    BY <1>0 DEF Run, Statement, without
  <2>2. Run(without, Statement("add", target, step)) = added
    BY <1>0, <1>2, <1>3 DEF Run, Statement, added, GoesToItself
  <2> QED BY <2>1, <2>2
<1> DEFINE after == Shifted(current, from, target)
<1>6. \A i \in 1..n :
        after[i] = IF i < target \/ i > from THEN current[i]
                   ELSE IF i = target THEN current[from] ELSE current[i - 1]
  BY DEF OrderOf, Shifted
<1> HIDE DEF after
<1>7. ASSUME NEW i \in 1..n, NEW k \in 1..n, after[i] = current[k],
             NEW s, Stays(s, job.steps[k]), Stays(added.steps[i], s)
      PROVE  Carries(added.steps[i], read.steps[after[i]])
  <2>1. Carries(job.steps[k], read.steps[current[k]])
    BY DEF StandsIn
  <2>2. current[k] \in 1..n
    BY <1>0
  <2> QED BY <1>1, <1>7, <2>1, <2>2 DEF Carries, Stays
<1>8. ASSUME NEW i \in 1..n PROVE Carries(added.steps[i], read.steps[after[i]])
  <2>1. CASE i = target
    <3>1. after[i] = current[from] /\ added.steps[i] = step
      BY <1>0, <1>4, <1>6, <2>1
    <3> QED BY <1>2, <3>1
  <2>2. CASE i < target
    <3>1. i \in 1..(n - 1) /\ i < from /\ after[i] = current[i]
      BY <1>0, <1>6, <2>2
    <3>2. Stays(added.steps[i], without.steps[i]) /\ Stays(without.steps[i], job.steps[i])
      BY <1>0, <1>3, <1>4, <2>2, <3>1
    <3> QED BY <1>7, <3>1, <3>2
  <2>3. CASE i > target /\ i <= from
    <3>0. /\ i - 1 \in 1..(n - 1) /\ i - 1 < from /\ i - 1 \in 1..n
          /\ ~(i < target \/ i > from) /\ i # target
      BY <1>0, <2>3
    <3>1. after[i] = current[i - 1]
      BY <1>6, <3>0
    <3>2. /\ Stays(added.steps[i], without.steps[i - 1])
          /\ Stays(without.steps[i - 1], job.steps[i - 1])
      BY <1>0, <1>3, <1>4, <2>3, <3>0
    <3> QED BY <1>7, <3>0, <3>1, <3>2
  <2>4. CASE i > from
    <3>1. /\ i - 1 \in 1..(n - 1) /\ ~(i - 1 < from) /\ after[i] = current[i]
          /\ (i - 1) + 1 = i /\ ~(i < target) /\ i # target
      BY <1>0, <1>6, <2>4
    <3>2. Stays(added.steps[i], without.steps[i - 1]) /\ Stays(without.steps[i - 1], job.steps[i])
      BY <1>0, <1>3, <1>4, <3>1
    <3> QED BY <1>7, <3>1, <3>2
  <2> QED BY <1>0, <2>1, <2>2, <2>3, <2>4
<1>9. StandsIn(added, read, after)
  BY <1>0, <1>3, <1>4, <1>8 DEF StandsIn
<1> QED BY <1>2, <1>5, <1>9 DEF after, step

\* An order has every step, and there is one that has them as they are.
LEMMA OrderHasAll ==
    ASSUME NEW n \in Nat, NEW order, OrderOf(order, n)
    PROVE  \A x \in 1..n : \E i \in 1..n : order[i] = x
BY ListsNumbers DEF OrderOf

\* The order Move keeps, and that it is one.
LEMMA ShiftedIs ==
    ASSUME NEW n \in Nat, NEW current, OrderOf(current, n),
           NEW from \in 1..n, NEW target \in 1..(from - 1)
    PROVE  /\ InsertAt(RemoveAt(current, from), target, current[from])
                  = Shifted(current, from, target)
           /\ OrderOf(Shifted(current, from, target), n)
<1> DEFINE T == 1..n
           kept == RemoveAt(current, from)
           after == InsertAt(kept, target, current[from])
           shifted == Shifted(current, from, target)
           m(i) == IF i < target \/ i > from THEN i ELSE IF i = target THEN from ELSE i - 1
<1>1. /\ current \in Seq(T) /\ Len(current) = n /\ DOMAIN current = 1..n
      /\ \A i \in 1..n : current[i] \in T
  BY DEF OrderOf
<1>2. \A i \in 1..n : m(i) \in 1..n
  OBVIOUS
<1>3. \A i, j \in 1..n : m(i) = m(j) => i = j
  OBVIOUS
<1>4. shifted = [i \in 1..n |-> current[m(i)]]
  BY <1>1 DEF Shifted
<1>5. /\ kept \in Seq(T) /\ Len(kept) = n - 1
      /\ \A i \in 1..(n - 1) : kept[i] = IF i < from THEN current[i] ELSE current[i + 1]
  BY <1>1, RemoveAtDoes
<1>6. target \in 1..(Len(kept) + 1) /\ Len(kept) + 1 = n
  BY <1>5
<1>7. /\ after \in Seq(T) /\ Len(after) = n
      /\ \A i \in 1..n :
           after[i] = IF i < target THEN kept[i] ELSE IF i = target THEN current[from] ELSE kept[i - 1]
  <2> DEFINE e == current[from]
  <2>1. e \in T
    BY <1>1
  <2> HIDE DEF kept, T, e
  <2>2. /\ InsertAt(kept, target, e) \in Seq(T)
        /\ Len(InsertAt(kept, target, e)) = Len(kept) + 1
        /\ \A i \in 1..(Len(kept) + 1) :
             InsertAt(kept, target, e)[i]
               = IF i < target THEN kept[i] ELSE IF i = target THEN e ELSE kept[i - 1]
    <3>1. kept \in Seq(T)
      BY <1>5
    <3>2. target \in 1..(Len(kept) + 1)
      BY <1>6
    <3> QED BY <2>1, <3>1, <3>2, InsertAtDoes
  <2> QED BY <1>6, <2>2 DEF e
<1> HIDE DEF kept, after
<1>8. ASSUME NEW i \in 1..n PROVE after[i] = current[m(i)]
  <2>1. CASE i = target
    BY <1>7, <2>1
  <2>2. CASE i < target
    <3>1. i \in 1..(n - 1) /\ i < from /\ m(i) = i
      BY <2>2
    <3> QED BY <1>5, <1>7, <2>2, <3>1
  <2>3. CASE i > target /\ i <= from
    <3>1. i - 1 \in 1..(n - 1) /\ i - 1 < from /\ m(i) = i - 1 /\ ~(i < target) /\ i # target
      BY <2>3
    <3> QED BY <1>5, <1>7, <3>1
  <2>4. CASE i > from
    <3>1. /\ i - 1 \in 1..(n - 1) /\ ~(i - 1 < from) /\ m(i) = i /\ (i - 1) + 1 = i
          /\ ~(i < target) /\ i # target
      BY <2>4
    <3> QED BY <1>5, <1>7, <3>1
  <2> QED BY <2>1, <2>2, <2>3, <2>4
<1> HIDE DEF m, shifted
<1>9. /\ shifted \in [1..n -> 1..n]
      /\ \A i \in 1..n : shifted[i] = current[m(i)]
  BY <1>1, <1>2, <1>4
<1>10. OrderOf(shifted, n)
  <2> SUFFICES ASSUME NEW i \in 1..n, NEW j \in 1..n, shifted[i] = shifted[j] PROVE i = j
    BY <1>9 DEF OrderOf
  <2>1. m(i) = m(j)
    BY <1>2, <1>9 DEF OrderOf
  <2> QED BY <1>3, <2>1
<1>11. after = shifted
  <2>1. shifted \in Seq(T) /\ Len(shifted) = n
    BY <1>9
  <2> QED BY <1>7, <1>8, <1>9, <2>1, SeqEqual
<1> QED BY <1>10, <1>11 DEF after, kept, shifted

\* What holds after the moves to the first k targets: those steps are where they
\* are wanted, and the statements bring the job to the order that is kept.
Moved(read, want, k, so) ==
    /\ OrderOf(so.current, Len(read.steps))
    /\ \A i \in 1..k : so.current[i] = want[i]
    /\ so.statements \in Seq(AStatement)
    /\ so.statements = <<>> => so.current = Numbers(Len(read.steps))
    /\ StandsIn(RunAll(read, so.statements), read, so.current)

LEMMA MoveKeeps ==
    ASSUME NEW read, JobAsRead(read), NEW want, OrderOf(want, Len(read.steps)),
           NEW target \in 1..Len(read.steps), NEW so, Moved(read, want, target - 1, so)
    PROVE  Moved(read, want, target, Move(read.steps, want, so, target))
<1> DEFINE n == Len(read.steps)
           current == so.current
           job == RunAll(read, so.statements)
<1>0. n \in Nat /\ target \in 1..n /\ DOMAIN current = 1..n
  BY LenProperties DEF JobAsRead, AJob, Moved, OrderOf
<1>1. CASE current[target] = want[target]
  <2>1. Move(read.steps, want, so, target) = so
    BY <1>1 DEF Move
  <2>2. \A i \in 1..target : current[i] = want[i]
    BY <1>0, <1>1 DEF Moved
  <2> QED BY <2>1, <2>2 DEF Moved
<1>2. CASE current[target] # want[target]
  <2> DEFINE from == CHOOSE i \in DOMAIN current : current[i] = want[target]
             step == reAddRequest(read.steps[want[target]])
             a == Statement("delete", from, NoStep)
             b == Statement("add", target, step)
             after == Move(read.steps, want, so, target)
  <2>1. from \in 1..n /\ current[from] = want[target]
    <3>1. want[target] \in 1..n
      BY <1>0 DEF OrderOf
    <3>2. \E i \in DOMAIN current : current[i] = want[target]
      <4>1. OrderOf(current, n)
        BY DEF Moved
      <4>2. \A x \in 1..n : \E i \in 1..n : current[i] = x
        <5> HIDE DEF n, current
        <5> QED BY <1>0, <4>1, OrderHasAll
      <4> HIDE DEF n, current
      <4> QED BY <1>0, <3>1, <4>2
    <3> QED BY <1>0, <3>2
  <2>2. after = [current |-> InsertAt(RemoveAt(current, from), target, want[target]),
                 statements |-> so.statements \o <<a, b>>]
    BY <1>2 DEF Move
  <2> HIDE DEF from, step
  <2>3. target \in 1..(from - 1)
    <3>1. CASE from < target
      <4>1. from \in 1..(target - 1) /\ current[from] = want[from]
        BY <1>0, <2>1, <3>1 DEF Moved
      <4> QED BY <1>0, <2>1, <3>1, <4>1 DEF OrderOf
    <3>2. from # target
      BY <1>2, <2>1
    <3> QED BY <1>0, <2>1, <3>1, <3>2
  <2> DEFINE shifted == Shifted(current, from, target)
  <2>4. OrderOf(current, n) /\ StandsIn(job, read, current)
    BY DEF Moved
  <2>5. after.current = shifted /\ OrderOf(shifted, n)
    <3>1. InsertAt(RemoveAt(current, from), target, want[target]) = shifted /\ OrderOf(shifted, n)
      BY <1>0, <2>1, <2>3, <2>4, ShiftedIs
    <3> HIDE DEF shifted, a, b, after
    <3> QED BY <2>2, <3>1
  <2>6. step \in AStep /\ StandsIn(Run(Run(job, a), b), read, shifted)
    <3>1. step = reAddRequest(read.steps[current[from]])
      BY <2>1 DEF step
    <3>2. /\ reAddRequest(read.steps[current[from]]) \in AStep
          /\ StandsIn(Run(Run(job, Statement("delete", from, NoStep)),
                         Statement("add", target, reAddRequest(read.steps[current[from]]))),
                     read, Shifted(current, from, target))
      <4> HIDE DEF job, current
      <4> QED BY <2>1, <2>3, <2>4, MoveRuns
    <3> QED BY <3>1, <3>2
  <2>7. a \in AStatement /\ b \in AStatement
    <3>1. NoStep \in AStep
      BY DEF NoStep, AStep, AFlow, Flow, QuitWithSuccess, QuitWithFailure
    <3> QED BY <1>0, <2>1, <2>6, <3>1 DEF AStatement, Statement
  <2> HIDE DEF a, b, shifted
  <2>8. /\ so.statements \in Seq(AStatement)
        /\ after.statements = so.statements \o <<a, b>>
    BY <2>2 DEF Moved
  <2>9. RunAll(read, after.statements) = Run(Run(job, a), b)
    BY <2>7, <2>8, RunAllTwo
  <2>10. after.statements \in Seq(AStatement) /\ after.statements # <<>>
    <3> DEFINE more == <<a, b>>
    <3>1. more \in Seq(AStatement) /\ Len(more) = 2
      BY <2>7
    <3> HIDE DEF more
    <3>2. /\ so.statements \o more \in Seq(AStatement)
          /\ Len(so.statements \o more) = Len(so.statements) + Len(more)
      BY <2>8, <3>1, ConcatProperties
    <3>3. so.statements \o more # <<>>
      <4>1. Len(so.statements) \in Nat
        BY <2>8, LenProperties
      <4> QED BY <3>1, <3>2, <4>1, EmptySeq
    <3> QED BY <2>8, <3>2, <3>3 DEF more
  <2>11. ASSUME NEW i \in 1..target PROVE shifted[i] = want[i]
    <3>1. shifted[i] = IF i < target THEN current[i] ELSE current[from]
      BY <1>0, <2>3, <2>1 DEF shifted, Shifted
    <3>2. i < target => i \in 1..(target - 1)
      BY <1>0
    <3> QED BY <1>0, <2>1, <3>1, <3>2 DEF Moved
  <2> HIDE DEF after
  <2> QED BY <2>5, <2>6, <2>9, <2>10, <2>11 DEF Moved, after
<1> QED BY <1>1, <1>2

\* All the moves bring the job to the order asked for.
LEMMA MovesDo ==
    ASSUME NEW read, JobAsRead(read), NEW want, OrderOf(want, Len(read.steps))
    PROVE  LET moved == Moves(read.steps, want)
           IN  /\ Moved(read, want, Len(read.steps), moved)
               /\ moved.current = want
<1> DEFINE n == Len(read.steps)
           to == MovesTo(read.steps, want)
           Good == {k \in Nat : k > n \/ Moved(read, want, k, to[k])}
<1>0. n \in Nat /\ read.steps \in Seq(AStep) /\ read \in AJob
  BY LenProperties DEF JobAsRead, AJob
<1>1. 0 \in Good
  <2> DEFINE begin == [current |-> Numbers(n), statements |-> <<>>]
  <2>1. to[0] = begin
    BY <1>0, MovesToSteps
  <2>2. OrderOf(begin.current, n)
    BY DEF OrderOf, Numbers
  <2>3. begin.statements = <<>> /\ <<>> \in Seq(AStatement)
    BY EmptySeq
  <2>4. StandsIn(read, read, begin.current)
    BY <1>0 DEF StandsIn, JobAsRead, Carries, Numbers
  <2> HIDE DEF to, begin, n
  <2>5. Moved(read, want, 0, begin)
    <3>1. RunAll(read, begin.statements) = read
      BY <2>3, RunAllEmpty
    <3>2. begin.current = Numbers(n)
      BY DEF begin
    <3> QED BY <2>2, <2>3, <2>4, <3>1, <3>2 DEF Moved, n
  <2> QED BY <2>1, <2>5
<1>2. ASSUME NEW k \in Nat, k \in Good PROVE k + 1 \in Good
  <2>1. CASE k + 1 \in 1..n
    <3>1. Moved(read, want, k, to[k]) /\ (k + 1) - 1 = k
      BY <1>0, <1>2, <2>1
    <3>2. to[k + 1] = Move(read.steps, want, to[k], k + 1)
      BY <1>0, <2>1, <3>1, MovesToSteps
    <3> HIDE DEF to
    <3>3. Moved(read, want, k + 1, Move(read.steps, want, to[k], k + 1))
      BY <2>1, <3>1, MoveKeeps
    <3> QED BY <3>2, <3>3
  <2>2. CASE k + 1 \notin 1..n
    BY <1>0, <2>2
  <2> QED BY <2>1, <2>2
<1>3. \A k \in Nat : k \in Good
  <2> HIDE DEF Good
  <2> QED BY <1>1, <1>2, NaturalInduction
<1>4. Moved(read, want, n, to[n])
  BY <1>0, <1>3
<1>5. to[n].current = want
  BY <1>4 DEF Moved, OrderOf
<1> QED BY <1>4, <1>5 DEF Moves

\* Where a step went is where the order has it.
LEMMA PositionIs ==
    ASSUME NEW n \in Nat, NEW want, OrderOf(want, n)
    PROVE  /\ \A id \in 1..n : Position(want, id) \in 1..n /\ want[Position(want, id)] = id
           /\ \A id \in Nat \ (1..n) : Position(want, id) = 0
<1>1. DOMAIN want = 1..n /\ \A i \in 1..n : want[i] \in 1..n
  BY DEF OrderOf
<1>2. ASSUME NEW id \in 1..n
      PROVE  Position(want, id) \in 1..n /\ want[Position(want, id)] = id
  <2>1. \A x \in 1..n : \E i \in 1..n : want[i] = x
    BY OrderHasAll
  <2>2. \E i \in DOMAIN want : want[i] = id
    BY <1>1, <2>1
  <2> QED BY <1>1, <2>2 DEF Position
<1>3. \A id \in Nat \ (1..n) : Position(want, id) = 0
  BY <1>1 DEF Position
<1> QED BY <1>2, <1>3

\* A step that leads where the step it was read as leads.
Leads(step, old, want) ==
    Follows(step.success, old.success, want) /\ Follows(step.fail, old.fail, want)

\* The repair of a step is one msdb accepts, and is right.
LEMMA RepairIs ==
    ASSUME NEW read, JobAsRead(read), NEW want, OrderOf(want, Len(read.steps)),
           NEW i \in 1..Len(read.steps)
    PROVE  LET old == read.steps[want[i]]
           IN  \E step \in AStep :
                 /\ Repaired(read.steps, want, i) = Statement("flow", i, step)
                 /\ Carries(step, old) /\ Leads(step, old, want) /\ ~GoesToItself(step, i)
<1> DEFINE n == Len(read.steps)
           old == read.steps[want[i]]
           moved(flow) == Flow(flow.action, Position(want, flow.step))
           step == [old EXCEPT !.success = moved(old.success), !.fail = moved(old.fail)]
<1>1. n \in Nat /\ want[i] \in 1..n /\ old \in AStep
  BY LenProperties, ElementOfSeq DEF JobAsRead, AJob, OrderOf
<1>2. old.success \in Flows(n, want[i]) /\ old.fail \in Flows(n, want[i])
  BY <1>1, LenProperties DEF JobAsRead, AJob
<1>0. /\ \A id \in 1..n : Position(want, id) \in 1..n /\ want[Position(want, id)] = id
      /\ Position(want, 0) = 0
  <2>1. OrderOf(want, n) /\ 0 \in Nat \ (1..n)
    BY <1>1
  <2> HIDE DEF n
  <2> QED BY <1>1, <2>1, PositionIs
<1>3. ASSUME NEW flow \in Flows(n, want[i])
      PROVE  LET to == moved(flow)
             IN  /\ to \in AFlow /\ Follows(to, flow, want)
                 /\ ~GoesTo(flow) => to = flow
                 /\ ~(GoesTo(to) /\ to.step = i)
  <2>1. CASE flow \in [action : Int \ {goToStepAction}, step : {0}]
    <3>1. Position(want, flow.step) = 0
      BY <1>0, <2>1
    <3> QED BY <2>1, <3>1 DEF AFlow, Flow, Follows, GoesTo
  <2>2. CASE flow \in [action : {goToStepAction}, step : (1..n) \ {want[i]}]
    <3>1. Position(want, flow.step) \in 1..n /\ want[Position(want, flow.step)] = flow.step
      BY <1>0, <2>2
    <3> QED BY <1>1, <2>2, <3>1 DEF AFlow, Flow, Follows, GoesTo, goToStepAction
  <2> QED BY <2>1, <2>2 DEF Flows
<1>4. Repaired(read.steps, want, i) = Statement("flow", i, step)
  BY DEF Repaired, MapFlows
<1> HIDE DEF moved, old, n
<1>5. step.id = old.id /\ step.success = moved(old.success) /\ step.fail = moved(old.fail)
  BY <1>1 DEF AStep
<1>6. step \in AStep
  BY <1>1, <1>2, <1>3 DEF AStep
<1> HIDE DEF step
<1>7. Carries(step, old) /\ Leads(step, old, want) /\ ~GoesToItself(step, i)
  BY <1>2, <1>3, <1>5 DEF Carries, Leads, GoesToItself
<1> QED BY <1>4, <1>6, <1>7 DEF old

\* msdb gives a step the flow it is told to.
LEMMA FlowRuns ==
    ASSUME NEW read, NEW want, NEW job, StandsIn(job, read, want), read \in AJob,
           NEW i \in 1..Len(read.steps), NEW step \in AStep, ~GoesToItself(step, i),
           Carries(step, read.steps[want[i]])
    PROVE  LET after == Run(job, Statement("flow", i, step))
           IN  /\ StandsIn(after, read, want)
               /\ after.steps[i].success = step.success /\ after.steps[i].fail = step.fail
               /\ \A j \in 1..Len(read.steps) : j # i => after.steps[j] = job.steps[j]
<1> DEFINE n == Len(read.steps)
           was == job.steps[i]
           is == [was EXCEPT !.success = step.success, !.fail = step.fail]
           steps == [job.steps EXCEPT ![i] = is]
           after == Run(job, Statement("flow", i, step))
<1>1. /\ job \in AJob /\ job.steps \in Seq(AStep) /\ Len(job.steps) = n /\ n \in Nat
      /\ was \in AStep /\ Carries(was, read.steps[want[i]])
  <2>1. job \in AJob /\ job.steps \in Seq(AStep) /\ Len(job.steps) = n /\ n \in Nat
    BY LenProperties DEF StandsIn, AJob
  <2>2. was \in AStep
    BY <2>1, ElementOfSeq
  <2> QED BY <2>1, <2>2 DEF StandsIn
<1>2. after = [job EXCEPT !.steps[i] = is]
  <2> DEFINE told == Statement("flow", i, step)
  <2>1. told.verb = "flow" /\ told.at = i /\ told.step = step
    BY DEF Statement
  <2> HIDE DEF told
  <2> QED BY <2>1 DEF StandsIn, Run, told
<1>3. after = [job EXCEPT !.steps = steps]
  <2> HIDE DEF is
  <2> QED BY <1>2
<1>4. /\ is \in AStep /\ is.id = was.id /\ is.success = step.success /\ is.fail = step.fail
  BY <1>1 DEF AStep
<1> HIDE DEF is, was
<1>5. /\ steps \in Seq(AStep) /\ Len(steps) = n /\ steps[i] = is
      /\ \A j \in 1..n : j # i => steps[j] = job.steps[j]
  BY <1>1, <1>4, ExceptSeq, LenProperties
<1> HIDE DEF steps, after
<1>6. /\ after \in AJob /\ after.steps = steps
      /\ after.start = job.start /\ after.refused = job.refused
  BY <1>1, <1>3, <1>5 DEF AJob
<1>7. Carries(is, read.steps[want[i]])
  BY <1>1, <1>4 DEF Carries
<1>8. \A j \in 1..n : Carries(steps[j], read.steps[want[j]])
  BY <1>5, <1>7 DEF StandsIn
<1>9. StandsIn(after, read, want)
  BY <1>5, <1>6, <1>8 DEF StandsIn
<1> QED BY <1>4, <1>5, <1>6, <1>9 DEF after

\* After the repairs, every step leads where it did.
LEMMA RepairsDo ==
    ASSUME NEW read, JobAsRead(read), NEW want, OrderOf(want, Len(read.steps)),
           NEW s \in Seq(AStatement), StandsIn(RunAll(read, s), read, want)
    PROVE  LET repairs == Repairs(read.steps, want)
               after == RunAll(read, s \o repairs)
           IN  /\ repairs \in Seq(AStatement)
               /\ StandsIn(after, read, want)
               /\ \A i \in 1..Len(read.steps) :
                    Leads(after.steps[i], read.steps[want[i]], want)
<1> DEFINE n == Len(read.steps)
           G == {i \in DOMAIN want : Goes(read.steps[want[i]])}
           going == Only(Numbers(Len(want)), G)
           repairs == Repairs(read.steps, want)
           m == Len(going)
           N == Len(s)
           t == s \o repairs
           at(k) == RunTo(read, t)[N + k]
<1>0. /\ n \in Nat /\ read \in AJob /\ Len(want) = n /\ DOMAIN want = 1..n
      /\ G \subseteq 1..n /\ N \in Nat
  BY LenProperties DEF JobAsRead, AJob, OrderOf
<1>1. /\ going \in Seq(G) /\ m \in Nat
      /\ \A i \in G : \E k \in 1..m : going[k] = i
  <2> DEFINE all == Numbers(Len(want))
  <2>1. all \in Seq(1..n) /\ Len(all) = n /\ \A i \in 1..n : all[i] = i
    BY <1>0 DEF Numbers
  <2> HIDE DEF all, n, G
  <2>2. Only(all, G) \in Seq((1..n) \cap G)
    BY <2>1, OnlyType
  <2>3. (1..n) \cap G = G
    BY <1>0
  <2>4. ASSUME NEW i \in G PROVE \E k \in 1..Len(Only(all, G)) : Only(all, G)[k] = i
    <3>1. i \in 1..Len(all) /\ all[i] = i /\ all[i] \in G
      BY <1>0, <2>1
    <3> QED BY <2>1, <3>1, OnlyHas
  <2> QED BY <2>2, <2>3, <2>4, LenProperties DEF all
<1>2. /\ repairs = [k \in 1..m |-> Repaired(read.steps, want, going[k])]
      /\ \A k \in 1..m : going[k] \in 1..n
  <2>1. DOMAIN going = 1..m /\ \A k \in 1..m : going[k] \in G
    <3> HIDE DEF going, G
    <3> QED BY <1>1, LenProperties, ElementOfSeq
  <2>2. repairs = [k \in DOMAIN going |-> Repaired(read.steps, want, going[k])]
    BY DEF Repairs
  <2> HIDE DEF going, repairs, G
  <2> QED BY <1>0, <2>1, <2>2
<1> HIDE DEF going, repairs, G, m
<1>3. \A k \in 1..m :
        \E step \in AStep :
          /\ repairs[k] = Statement("flow", going[k], step)
          /\ Carries(step, read.steps[want[going[k]]])
          /\ Leads(step, read.steps[want[going[k]]], want)
          /\ ~GoesToItself(step, going[k])
  BY <1>2, RepairIs
<1>4. repairs \in Seq(AStatement) /\ Len(repairs) = m
  <2>1. ASSUME NEW k \in 1..m PROVE repairs[k] \in AStatement
    <3>1. PICK step \in AStep : repairs[k] = Statement("flow", going[k], step)
      BY <1>3
    <3>2. going[k] \in Nat
      BY <1>0, <1>2
    <3> QED BY <3>1, <3>2 DEF Statement, AStatement
  <2>2. repairs \in [1..m -> AStatement]
    BY <1>2, <2>1
  <2> QED BY <1>1, <2>2
<1>5. /\ t \in Seq(AStatement) /\ Len(t) = N + m
      /\ \A k \in 1..m : t[N + k] = repairs[k]
  <2>1. /\ t \in Seq(AStatement) /\ Len(t) = N + Len(repairs)
        /\ \A i \in 1..(N + Len(repairs)) : t[i] = IF i <= N THEN s[i] ELSE repairs[i - N]
    BY <1>4, ConcatProperties
  <2>2. ASSUME NEW k \in 1..m PROVE t[N + k] = repairs[k]
    <3>1. N + k \in 1..(N + Len(repairs)) /\ ~(N + k <= N) /\ (N + k) - N = k
      BY <1>0, <1>1, <1>4
    <3> QED BY <2>1, <3>1
  <2> QED BY <1>4, <2>1, <2>2
<1>6. RunTo(read, t)[N] = RunAll(read, s)
  BY <1>4, RunToFollowed
<1> HIDE DEF t
<1> DEFINE Done(k) ==
             /\ StandsIn(at(k), read, want)
             /\ \A j \in 1..k : Leads(at(k).steps[going[j]], read.steps[want[going[j]]], want)
           Good == {k \in Nat : k > m \/ Done(k)}
<1>7. 0 \in Good
  BY <1>0, <1>6
<1>8. ASSUME NEW k \in Nat, k \in Good PROVE k + 1 \in Good
  <2>1. CASE k + 1 \in 1..m
    <3>1. Done(k)
      BY <1>1, <1>8, <2>1
    <3>2. N + (k + 1) \in 1..Len(t) /\ (N + (k + 1)) - 1 = N + k
      BY <1>0, <1>1, <1>5, <2>1
    <3>3. at(k + 1) = Run(at(k), repairs[k + 1])
      <4>1. RunTo(read, t)[N + (k + 1)] = Run(RunTo(read, t)[N + k], t[N + (k + 1)])
        BY <1>5, <3>2, RunToSteps
      <4> QED BY <1>5, <2>1, <4>1
    <3> DEFINE before == at(k)
               after == at(k + 1)
               i == going[k + 1]
    <3>4. PICK step \in AStep :
            /\ repairs[k + 1] = Statement("flow", i, step)
            /\ Carries(step, read.steps[want[i]])
            /\ Leads(step, read.steps[want[i]], want)
            /\ ~GoesToItself(step, i)
      BY <1>3, <2>1
    <3>5. i \in 1..n
      BY <1>2, <2>1
    <3>6. StandsIn(before, read, want)
      BY <3>1
    <3>7. after = Run(before, Statement("flow", i, step))
      BY <3>3, <3>4
    <3> HIDE DEF before, after, i
    <3>8. /\ StandsIn(after, read, want)
          /\ after.steps[i].success = step.success /\ after.steps[i].fail = step.fail
          /\ \A j \in 1..n : j # i => after.steps[j] = before.steps[j]
      BY <1>0, <3>4, <3>5, <3>6, <3>7, FlowRuns
    <3>9. Leads(after.steps[i], read.steps[want[i]], want)
      BY <3>4, <3>8 DEF Leads
    <3>10. ASSUME NEW j \in 1..(k + 1)
           PROVE  Leads(after.steps[going[j]], read.steps[want[going[j]]], want)
      <4>1. CASE going[j] = i
        BY <3>9, <4>1
      <4>2. CASE going[j] # i
        <5>1. j \in 1..k /\ j \in 1..m
          BY <1>1, <2>1, <4>2 DEF i
        <5>2. Leads(before.steps[going[j]], read.steps[want[going[j]]], want)
          BY <3>1, <5>1 DEF before
        <5>3. after.steps[going[j]] = before.steps[going[j]]
          BY <1>2, <3>8, <4>2, <5>1
        <5> QED BY <5>2, <5>3
      <4> QED BY <4>1, <4>2
    <3>11. Done(k + 1)
      BY <3>8, <3>10 DEF after
    <3> QED BY <3>11
  <2>2. CASE k + 1 \notin 1..m
    BY <1>1, <2>2
  <2> QED BY <2>1, <2>2
<1>9. \A k \in Nat : k \in Good
  <2> HIDE DEF Good
  <2> QED BY <1>7, <1>8, NaturalInduction
<1> DEFINE after == RunAll(read, t)
<1>10. Done(m) /\ after = at(m)
  <2>1. m \in Good
    <3> HIDE DEF Good
    <3> QED BY <1>1, <1>9
  <2>2. Done(m)
    BY <1>1, <2>1
  <2>3. after = at(m)
    BY <1>5 DEF RunAll
  <2> QED BY <2>2, <2>3
<1>11. StandsIn(after, read, want)
  BY <1>10
<1>12. ASSUME NEW i \in 1..n PROVE Leads(after.steps[i], read.steps[want[i]], want)
  <2>1. CASE i \in G
    <3>1. PICK k \in 1..m : going[k] = i
      BY <1>1, <2>1
    <3> QED BY <1>10, <3>1
  <2>2. CASE i \notin G
    <3>1. ~Goes(read.steps[want[i]])
      BY <1>0, <2>2 DEF G
    <3>2. Carries(after.steps[i], read.steps[want[i]])
      BY <1>11 DEF StandsIn
    <3> HIDE DEF after
    <3> QED BY <3>1, <3>2 DEF Carries, Goes, Leads, Follows
  <2> QED BY <2>1, <2>2
<1> HIDE DEF after
<1> QED BY <1>4, <1>11, <1>12 DEF after, repairs, t

\* The job ends in the order asked for, starting where it started.
LEMMA ReorderDoes ==
    ASSUME NEW read, JobAsRead(read), NEW want, OrderOf(want, Len(read.steps))
    PROVE  LET after == ReorderSteps(read, want)
           IN  /\ ~after.refused /\ after \in AJob /\ Len(after.steps) = Len(read.steps)
               /\ IF read.start \in DOMAIN want THEN want[after.start] = read.start
                  ELSE after.start = read.start
               /\ \A i \in 1..Len(read.steps) :
                    /\ after.steps[i].id = want[i]
                    /\ Leads(after.steps[i], read.steps[want[i]], want)
<1> DEFINE n == Len(read.steps)
           moved == Moves(read.steps, want)
           statements == moved.statements \o Repairs(read.steps, want)
           ended == RunAll(read, statements)
           after == ReorderSteps(read, want)
           place == Position(want, read.start)
           start == Statement("start", place, NoStep)
<1>0. /\ n \in Nat /\ read \in AJob /\ Len(want) = n /\ DOMAIN want = 1..n
      /\ \A i \in 1..n : want[i] \in 1..n /\ read.steps[want[i]].id = want[i]
  BY LenProperties DEF JobAsRead, AJob, OrderOf
<1>1. Moved(read, want, n, moved) /\ moved.current = want
  BY MovesDo
<1> HIDE DEF moved
<1>2. /\ Repairs(read.steps, want) \in Seq(AStatement)
      /\ StandsIn(ended, read, want)
      /\ \A i \in 1..n : Leads(ended.steps[i], read.steps[want[i]], want)
  <2>1. moved.statements \in Seq(AStatement) /\ StandsIn(RunAll(read, moved.statements), read, want)
    BY <1>1 DEF Moved
  <2> QED BY <2>1, RepairsDo
<1>3. statements \in Seq(AStatement)
  BY <1>1, <1>2, ConcatProperties DEF Moved
<1>4. /\ ended \in AJob /\ Len(ended.steps) = n /\ ended.start = read.start /\ ~ended.refused
      /\ \A i \in 1..n : ended.steps[i].id = want[i]
  BY <1>0, <1>2 DEF StandsIn, Carries
<1>5. checkReorder(want, n)
  BY <1>0 DEF checkReorder, OrderOf
<1> HIDE DEF statements, ended, after, start
<1>6. /\ read.start \in 1..n => place \in 1..n /\ want[place] = read.start
      /\ read.start \notin 1..n => place = 0
  <2>1. n \in Nat /\ OrderOf(want, n)
    BY <1>0
  <2>2. read.start \in Nat
    BY <1>0 DEF AJob
  <2> HIDE DEF n
  <2>3. /\ \A id \in 1..n : Position(want, id) \in 1..n /\ want[Position(want, id)] = id
        /\ \A id \in Nat \ (1..n) : Position(want, id) = 0
    <3> HIDE DEF place
    <3> QED BY <2>1, PositionIs
  <2> QED BY <2>2, <2>3
<1>7. read.start \notin 1..n => place = 0
  BY <1>6
<1> HIDE DEF place
<1>8. after = IF statements = <<>> THEN read
              ELSE Execute(read, statements \o StartMoved(want, read.start))
  BY <1>1, <1>5 DEF ReorderSteps, moved, statements, after, start
<1>9. StartMoved(want, read.start) = IF place \in {0, read.start} THEN <<>> ELSE <<start>>
  BY DEF StartMoved, place, start
<1>10. \/ after = ended /\ place \in {0, read.start}
       \/ after = [ended EXCEPT !.start = place] /\ place \notin {0, read.start}
  <2>1. CASE statements = <<>>
    <3>1. after = ended
      <4>1. ended = RunAll(read, <<>>)
        BY <2>1 DEF ended
      <4>2. RunAll(read, <<>>) = read
        BY RunAllEmpty
      <4> QED BY <1>8, <2>1, <4>1, <4>2
    <3>2. moved.statements = <<>>
      <4>1. /\ moved.statements \in Seq(AStatement)
            /\ Len(moved.statements) \in Nat /\ Len(Repairs(read.steps, want)) \in Nat
            /\ Len(statements) = Len(moved.statements) + Len(Repairs(read.steps, want))
        BY <1>1, <1>2, ConcatProperties, LenProperties DEF Moved, statements
      <4>2. Len(statements) = 0
        BY <2>1, EmptySeq
      <4> DEFINE k == Len(moved.statements)
                 l == Len(Repairs(read.steps, want))
      <4>3. k \in Nat /\ l \in Nat /\ k + l = 0
        BY <4>1, <4>2
      <4> HIDE DEF k, l
      <4>4. k = 0
        BY <4>3
      <4>5. Len(moved.statements) = 0
        BY <4>4 DEF k
      <4> QED BY <4>1, <4>5, EmptySeq
    <3>3. want = Numbers(n)
      BY <1>1, <3>2 DEF Moved
    <3>4. place \in {0, read.start}
      BY <1>0, <1>6, <1>7, <3>3 DEF Numbers
    <3> QED BY <3>1, <3>4
  <2>2. CASE statements # <<>> /\ place \in {0, read.start}
    <3>1. statements \o <<>> = statements
      BY <1>3, ConcatEmptySeq
    <3>2. after = Execute(read, statements)
      BY <1>8, <1>9, <2>2, <3>1
    <3>3. Execute(read, statements) = ended
      BY <1>4 DEF Execute, ended
    <3> QED BY <2>2, <3>2, <3>3
  <2>3. CASE statements # <<>> /\ place \notin {0, read.start}
    <3>1. after = Execute(read, statements \o <<start>>)
      BY <1>8, <1>9, <2>3
    <3>2. place \in Nat
      BY <1>0, <1>6, <1>7
    <3>3. start \in AStatement
      <4>1. NoStep \in AStep
        BY DEF NoStep, AStep, AFlow, Flow, QuitWithSuccess, QuitWithFailure
      <4> QED BY <3>2, <4>1 DEF AStatement, Statement, start
    <3>4. start.verb = "start" /\ start.at = place
      BY DEF Statement, start
    <3>5. RunAll(read, statements \o <<start>>) = Run(ended, start)
      BY <1>3, <3>3, RunAllOne DEF ended
    <3>6. Run(ended, start) = [ended EXCEPT !.start = place]
      BY <1>4, <3>4 DEF Run
    <3>7. ~[ended EXCEPT !.start = place].refused
      BY <1>4 DEF AJob
    <3>8. Execute(read, statements \o <<start>>) = [ended EXCEPT !.start = place]
      BY <3>5, <3>6, <3>7 DEF Execute
    <3> QED BY <2>3, <3>1, <3>8
  <2> QED BY <2>1, <2>2, <2>3
<1>11. /\ after.steps = ended.steps /\ after.refused = ended.refused /\ after \in AJob
       /\ IF read.start \in 1..n THEN want[after.start] = read.start
          ELSE after.start = read.start
  <2>1. CASE after = ended /\ place \in {0, read.start}
    BY <1>0, <1>4, <1>6, <2>1
  <2>2. CASE after = [ended EXCEPT !.start = place] /\ place \notin {0, read.start}
    <3>1. read.start \in 1..n /\ place \in Nat
      BY <1>0, <1>6, <1>7, <2>2
    <3>2. /\ after.steps = ended.steps /\ after.refused = ended.refused /\ after.start = place
          /\ after \in AJob
      BY <1>4, <2>2, <3>1 DEF AJob
    <3> QED BY <1>6, <3>1, <3>2
  <2> QED BY <1>10, <2>1, <2>2
<1>12. \A i \in 1..n :
         after.steps[i].id = want[i] /\ Leads(after.steps[i], read.steps[want[i]], want)
  BY <1>2, <1>4, <1>11
<1> QED BY <1>0, <1>4, <1>11, <1>12 DEF after

\* ReorderSteps, for any list of numbers.
LEMMA JobReordered ==
    ASSUME NEW read, JobAsRead(read), NEW want \in Seq(Int)
    PROVE  Reordered(read, want)
<1> DEFINE n == Len(read.steps)
           after == ReorderSteps(read, want)
<1>0. /\ n \in Nat /\ DOMAIN want = 1..Len(want)
      /\ \A i \in 1..n : read.steps[i].id = i
  BY LenProperties DEF JobAsRead, AJob
<1>1. CASE EachOnce(want, n)
  <2>1. OrderOf(want, n)
    <3>1. want \in [1..n -> 1..n] /\ \A id \in 1..n : \E i \in 1..n : want[i] = id
      BY <1>1 DEF EachOnce
    <3> HIDE DEF n
    <3> QED BY <1>0, <3>1, ListsNumbers, ZenonT(40) DEF OrderOf
  <2>2. /\ ~after.refused /\ Len(after.steps) = n
        /\ IF read.start \in DOMAIN want THEN want[after.start] = read.start
           ELSE after.start = read.start
        /\ \A i \in 1..n :
             /\ after.steps[i].id = want[i]
             /\ Leads(after.steps[i], read.steps[want[i]], want)
    BY <2>1, ReorderDoes
  <2>3. DOMAIN want = 1..n /\ \A i \in 1..n : want[i] \in 1..n
    BY <2>1 DEF OrderOf
  <2> HIDE DEF after
  <2> QED BY <1>0, <1>1, <2>2, <2>3 DEF Reordered, Leads, after
<1>2. CASE ~EachOnce(want, n)
  <2>1. ~checkReorder(want, n)
    <3> SUFFICES ASSUME checkReorder(want, n) PROVE EachOnce(want, n)
      BY <1>2
    <3>1. /\ want \in [1..n -> 1..n]
          /\ \A i, j \in 1..n : want[i] = want[j] => i = j
      <4>1. want \in [1..Len(want) -> Int]
        BY LenProperties
      <4> QED BY <1>0, <4>1 DEF checkReorder
    <3> HIDE DEF n
    <3> QED BY <1>0, <3>1, ListsNumbers DEF EachOnce
  <2>2. after = read
    BY <2>1 DEF ReorderSteps
  <2> QED BY <1>2, <2>2 DEF Reordered
<1> QED BY <1>1, <1>2

\* The numbers to n but one.
LEMMA NumbersBut ==
    ASSUME NEW n \in Nat, NEW from \in Int
    PROVE  LET others == Only(Numbers(n), Int \ {from})
           IN  /\ others \in Seq(1..n)
               /\ Len(others) = IF from \in 1..n THEN n - 1 ELSE n
               /\ from \in 1..n =>
                    \A i \in 1..(n - 1) : others[i] = IF i < from THEN i ELSE i + 1
<1> DEFINE all == Numbers(n)
           rest == Int \ {from}
           kept == OnlyTo(all, rest)
           size(m) == IF from \in 1..m THEN m - 1 ELSE m
           Is(s, m) == /\ s \in Seq(1..m) /\ Len(s) = size(m)
                       /\ \A i \in 1..size(m) : s[i] = IF from \in 1..m /\ i >= from THEN i + 1 ELSE i
           Good == {m \in Nat : m > n \/ Is(kept[m], m)}
<1>0. all \in Seq(1..n) /\ Len(all) = n /\ \A i \in 1..n : all[i] = i
  BY DEF Numbers
<1> HIDE DEF all, rest
<1>1. 0 \in Good
  <2>1. kept[0] = <<>>
    BY <1>0, OnlyToSteps
  <2> HIDE DEF kept
  <2>2. kept[0] \in Seq(1..0) /\ Len(kept[0]) = 0
    BY <2>1, EmptySeq
  <2> QED BY <2>2
<1>2. ASSUME NEW m \in Nat, m \in Good PROVE m + 1 \in Good
  <2>1. CASE m + 1 \in 1..n
    <3>1. kept[m + 1] = IF all[m + 1] \in rest THEN Append(kept[(m + 1) - 1], all[m + 1])
                        ELSE kept[(m + 1) - 1]
      BY <1>0, <2>1, OnlyToSteps
    <3>2. all[m + 1] = m + 1 /\ (m + 1) - 1 = m /\ (m + 1 \in rest <=> m + 1 # from)
      BY <1>0, <2>1 DEF rest
    <3>3. Is(kept[m], m)
      BY <1>2, <2>1
    <3> DEFINE s == kept[m]
               t == kept[m + 1]
    <3>4. t = IF m + 1 # from THEN Append(s, m + 1) ELSE s
      BY <3>1, <3>2
    <3> HIDE DEF s, t, kept
    <3>5. s \in Seq(1..(m + 1)) /\ m + 1 \in 1..(m + 1) /\ Len(s) = size(m)
      <4>1. s \in Seq(1..m) /\ 1..m \subseteq 1..(m + 1)
        BY <3>3 DEF s
      <4> QED BY <3>3, <4>1, SeqMonotonic DEF s
    <3>6. ASSUME m + 1 = from PROVE Is(t, m + 1)
      <4>1. /\ t = s /\ size(m) = m /\ size(m + 1) = m
            /\ from \notin 1..m /\ \A i \in 1..m : ~(i >= from)
        BY <3>4, <3>6
      <4> HIDE DEF size
      <4> QED BY <3>3, <3>5, <4>1 DEF s
    <3>7. ASSUME m + 1 # from PROVE Is(t, m + 1)
      <4>1. /\ t \in Seq(1..(m + 1)) /\ Len(t) = Len(s) + 1 /\ t[Len(s) + 1] = m + 1
            /\ \A i \in 1..Len(s) : t[i] = s[i]
        BY <3>4, <3>5, <3>7, AppendProperties
      <4>2. size(m + 1) = size(m) + 1 /\ (from \in 1..m <=> from \in 1..(m + 1))
        BY <3>7
      <4> HIDE DEF size
      <4>3. ASSUME NEW i \in 1..size(m + 1)
            PROVE  t[i] = IF from \in 1..(m + 1) /\ i >= from THEN i + 1 ELSE i
        <5>1. CASE i \in 1..size(m)
          BY <3>3, <3>5, <4>1, <4>2, <5>1 DEF s
        <5>2. CASE i = size(m) + 1
          BY <3>5, <4>1, <4>2, <5>2 DEF size
        <5>3. size(m) \in Nat
          BY DEF size
        <5> QED BY <4>2, <5>1, <5>2, <5>3
      <4> QED BY <3>5, <4>1, <4>2, <4>3
    <3>8. Is(t, m + 1)
      BY <3>6, <3>7
    <3> HIDE DEF Is
    <3> QED BY <3>8 DEF t
  <2>2. CASE m + 1 \notin 1..n
    BY <2>2
  <2> QED BY <2>1, <2>2
<1>3. \A m \in Nat : m \in Good
  <2> HIDE DEF Good
  <2> QED BY <1>1, <1>2, NaturalInduction
<1>4. Is(kept[n], n)
  BY <1>3
<1>5. Only(all, rest) = kept[n]
  BY <1>0 DEF Only
<1> DEFINE others == Only(all, rest)
<1>6. Is(others, n)
  BY <1>4, <1>5
<1> HIDE DEF kept, others
<1>7. /\ others \in Seq(1..n)
      /\ Len(others) = IF from \in 1..n THEN n - 1 ELSE n
      /\ from \in 1..n => \A i \in 1..(n - 1) : others[i] = IF i < from THEN i ELSE i + 1
  BY <1>6
<1> QED BY <1>7 DEF others, all, rest

\* MoveStep, from and to any number.
LEMMA StepMoved ==
    ASSUME NEW read, JobAsRead(read), NEW from \in Int, NEW to \in Int
    PROVE  MovedOne(read, from, to)
<1> DEFINE n == Len(read.steps)
           T == 1..n \cup {from}
           others == Only(Numbers(n), Int \ {from})
           at == IF to < 1 THEN 1 ELSE IF to > Len(others) + 1 THEN Len(others) + 1 ELSE to
           want == moveOrder(from, to, n)
           after == ReorderSteps(read, want)
           ids == [i \in DOMAIN after.steps |-> after.steps[i].id]
<1>0. /\ n \in Nat /\ DOMAIN read.steps = 1..n
  BY LenProperties DEF JobAsRead, AJob
<1>1. /\ others \in Seq(1..n)
      /\ Len(others) = IF from \in 1..n THEN n - 1 ELSE n
      /\ from \in 1..n => \A i \in 1..(n - 1) : others[i] = IF i < from THEN i ELSE i + 1
  <2> HIDE DEF n
  <2> QED BY <1>0, NumbersBut
<1>2. want = InsertAt(others, at, from)
  BY DEF moveOrder
<1> HIDE DEF others, T, n, want
<1>3. others \in Seq(T) /\ from \in T /\ Len(others) \in Nat
  <2>1. 1..n \subseteq T /\ from \in T
    BY DEF T
  <2> QED BY <1>1, <2>1, SeqMonotonic, LenProperties
<1>4. at \in 1..(Len(others) + 1)
  BY <1>3
<1> HIDE DEF at
<1>5. /\ want \in Seq(T) /\ Len(want) = Len(others) + 1
      /\ \A i \in 1..(Len(others) + 1) :
           want[i] = IF i < at THEN others[i] ELSE IF i = at THEN from ELSE others[i - 1]
  <2>1. others \in Seq(T) /\ from \in T
    BY <1>3
  <2>2. /\ InsertAt(others, at, from) \in Seq(T)
        /\ Len(InsertAt(others, at, from)) = Len(others) + 1
        /\ \A i \in 1..(Len(others) + 1) :
             InsertAt(others, at, from)[i]
               = IF i < at THEN others[i] ELSE IF i = at THEN from ELSE others[i - 1]
    BY <1>4, <2>1, InsertAtDoes
  <2> QED BY <1>2, <2>2
<1>6. want \in Seq(Int)
  <2>1. T \subseteq Int
    BY <1>0 DEF T
  <2> QED BY <1>5, <2>1, SeqMonotonic
<1>7. CASE from \notin 1..n
  <2>1. ~checkReorder(want, n)
    BY <1>0, <1>1, <1>5, <1>7 DEF checkReorder
  <2>2. after = read
    BY <2>1 DEF ReorderSteps, n
  <2>3. from \notin DOMAIN read.steps
    BY <1>0, <1>7
  <2> HIDE DEF ids
  <2> QED BY <2>2, <2>3 DEF MovedOne, want, n
<1>8. CASE from \in 1..n
  <2>1. /\ Len(others) = n - 1 /\ at \in 1..n
        /\ \A i \in 1..n :
             want[i] = IF i = at THEN from
                       ELSE IF i < at THEN IF i < from THEN i ELSE i + 1
                            ELSE IF i - 1 < from THEN i - 1 ELSE i
    <3>1. Len(others) = n - 1 /\ at \in 1..n /\ Len(others) + 1 = n
      BY <1>0, <1>1, <1>4, <1>8
    <3>2. ASSUME NEW i \in 1..n
          PROVE  want[i] = IF i = at THEN from
                           ELSE IF i < at THEN IF i < from THEN i ELSE i + 1
                                ELSE IF i - 1 < from THEN i - 1 ELSE i
      <4>1. CASE i = at
        BY <1>5, <3>1, <4>1
      <4>2. CASE i < at
        <5>1. i \in 1..(n - 1) /\ want[i] = others[i]
          BY <1>0, <1>5, <3>1, <4>2
        <5> QED BY <1>1, <1>8, <4>2, <5>1
      <4>3. CASE i > at
        <5>1. i - 1 \in 1..(n - 1) /\ want[i] = others[i - 1] /\ (i - 1) + 1 = i
          BY <1>0, <1>5, <3>1, <4>3
        <5>2. others[i - 1] = IF i - 1 < from THEN i - 1 ELSE (i - 1) + 1
          BY <1>1, <1>8, <5>1
        <5> QED BY <3>1, <4>3, <5>1, <5>2
      <4> QED BY <3>1, <4>1, <4>2, <4>3
    <3> QED BY <3>1, <3>2
  <2>2. want \in [1..n -> 1..n]
    <3>1. want \in [1..n -> T]
      BY <1>5, <2>1, <1>0, LenProperties
    <3>2. \A i \in 1..n : want[i] \in 1..n
      BY <1>0, <1>8, <2>1
    <3> QED BY <3>1, <3>2
  <2>3. \A i, j \in 1..n : want[i] = want[j] => i = j
    BY <1>0, <1>8, <2>1
  <2>4. OrderOf(want, Len(read.steps))
    BY <2>2, <2>3 DEF OrderOf, n
  <2>5. /\ after.steps \in Seq(AStep) /\ Len(after.steps) = n
        /\ \A i \in 1..n : after.steps[i].id = want[i]
    BY <2>4, ReorderDoes DEF n, AJob
  <2> HIDE DEF after
  <2>6. DOMAIN ids = 1..n /\ \A i \in 1..n : ids[i] = want[i]
    <3>1. DOMAIN after.steps = 1..n
      BY <2>5, LenProperties
    <3> QED BY <2>5, <3>1
  <2>7. ASSUME NEW i \in 1..n, NEW j \in 1..n, i < j, from \notin {ids[i], ids[j]}
        PROVE  ids[i] < ids[j]
    <3>1. ids[i] = want[i] /\ ids[j] = want[j]
      BY <2>6
    <3> HIDE DEF ids
    <3>2. i # at /\ j # at
      BY <2>1, <2>7, <3>1
    <3> QED BY <1>0, <1>8, <2>1, <2>7, <3>1, <3>2
  <2>8. \A j \in 1..n : Distance(at, to) <= Distance(j, to)
    BY <1>0, <2>1 DEF Distance, at
  <2>9. ids[at] = from
    BY <2>1, <2>6
  <2> HIDE DEF ids
  <2>10. /\ \A i, j \in DOMAIN ids : i < j /\ from \notin {ids[i], ids[j]} => ids[i] < ids[j]
         /\ \E i \in DOMAIN ids :
              ids[i] = from /\ \A j \in DOMAIN ids : Distance(i, to) <= Distance(j, to)
    BY <2>1, <2>6, <2>7, <2>8, <2>9
  <2> QED BY <1>0, <1>8, <2>10 DEF MovedOne, ids, after, want, n
<1> QED BY <1>7, <1>8

\* ReorderSteps and MoveStep, in the words of the runs: the statements of every order
\* are accepted and put the steps into it, each flow and the job's start naming what
\* they named.
THEOREM EveryStepReordered ==
    ASSUME input.of = "reorder" => JobAsRead(input.job) /\ input.want \in Seq(Int),
           input.of = "move" =>
             JobAsRead(input.job) /\ input.from \in Int /\ input.to \in Int
    PROVE  StepsReordered
BY JobReordered, StepMoved DEF StepsReordered

-----------------------------------------------------------------------------
(* ScriptCapture: the script of a program's calls.                             *)

\* ReplayTo is a recursive function, and there is one.
LEMMA ReplayToExists ==
    ASSUME NEW on, NEW T, NEW script \in Seq(T)
    PROVE  Capture!ReplayTo(script, on) =
             [k \in 0..Len(script) |->
                IF k = 0 THEN [server |-> Capture!Fresh, on |-> on, at |-> 0]
                ELSE Capture!Play(Capture!ReplayTo(script, on)[k - 1], script[k])]
<1> DEFINE Begin == [server |-> Capture!Fresh, on |-> on, at |-> 0]
           Body(f, k) == IF k = 0 THEN Begin ELSE Capture!Play(f[k - 1], script[k])
           Good == {m \in Nat : \E f : f = [k \in 0..m |-> Body(f, k)]}
<1> HIDE DEF Begin
<1>1. 0 \in Good
  <2> DEFINE f == [k \in 0..0 |-> Begin]
  <2>1. f = [k \in 0..0 |-> Body(f, k)]
    OBVIOUS
  <2> QED BY <2>1
<1>2. ASSUME NEW m \in Nat, m \in Good PROVE m + 1 \in Good
  <2>1. PICK f : f = [k \in 0..m |-> Body(f, k)]
    BY <1>2
  <2> DEFINE g == [k \in 0..(m + 1) |-> IF k \in 0..m THEN f[k] ELSE Body(f, k)]
  <2>2. ASSUME NEW k \in 0..(m + 1) PROVE g[k] = Body(g, k)
    <3>1. CASE k \in 0..m
      <4>1. f[k] = Body(f, k)
        BY <2>1, <3>1
      <4>2. k # 0 => k - 1 \in 0..m
        BY <3>1
      <4>3. k # 0 => g[k - 1] = f[k - 1]
        BY <4>2
      <4> QED BY <3>1, <4>1, <4>3
    <3>2. CASE k = m + 1
      <4>1. g[k - 1] = f[k - 1] /\ k \notin 0..m
        BY <3>2
      <4> QED BY <3>2, <4>1
    <3> QED BY <3>1, <3>2
  <2>3. g = [k \in 0..(m + 1) |-> Body(g, k)]
    <3> HIDE DEF Body
    <3> QED BY <2>2
  <2> HIDE DEF Body, g
  <2> QED BY <2>3
<1>3. \A m \in Nat : m \in Good
  <2> HIDE DEF Good
  <2> QED BY <1>1, <1>2, NaturalInduction
<1>4. \E f : f = [k \in 0..Len(script) |-> Body(f, k)]
  BY <1>3, LenProperties
<1> QED BY <1>4 DEF Capture!ReplayTo, Begin

LEMMA ReplayToSteps ==
    ASSUME NEW on, NEW T, NEW script \in Seq(T)
    PROVE  /\ Capture!ReplayTo(script, on)[0] = [server |-> Capture!Fresh, on |-> on, at |-> 0]
           /\ \A k \in 1..Len(script) :
                Capture!ReplayTo(script, on)[k] = Capture!Play(Capture!ReplayTo(script, on)[k - 1], script[k])
<1> DEFINE f == Capture!ReplayTo(script, on)
           Begin == [server |-> Capture!Fresh, on |-> on, at |-> 0]
<1> HIDE DEF Begin
<1>1. f = [k \in 0..Len(script) |-> IF k = 0 THEN Begin ELSE Capture!Play(f[k - 1], script[k])]
  BY ReplayToExists DEF Begin
<1> HIDE DEF f
<1>2. 0 \in 0..Len(script) /\ \A k \in 1..Len(script) : k \in 0..Len(script) /\ k # 0
  BY LenProperties
<1>3. f[0] = Begin /\ \A k \in 1..Len(script) : f[k] = Capture!Play(f[k - 1], script[k])
  BY <1>1, <1>2
<1> QED BY <1>3 DEF f, Begin

\* StringTo is a recursive function, and there is one.
LEMMA StringToExists ==
    ASSUME NEW T, NEW entries \in Seq(T)
    PROVE  Capture!StringTo(entries) =
             [k \in 0..Len(entries) |->
                IF k = 0 THEN [script |-> <<>>, cur |-> NoBase]
                ELSE Capture!Rendered(Capture!StringTo(entries)[k - 1], entries[k], Capture!Opens(entries, k))]
<1> DEFINE Begin == [script |-> <<>>, cur |-> NoBase]
           Body(f, k) == IF k = 0 THEN Begin ELSE Capture!Rendered(f[k - 1], entries[k], Capture!Opens(entries, k))
           Good == {m \in Nat : \E f : f = [k \in 0..m |-> Body(f, k)]}
<1> HIDE DEF Begin
<1>1. 0 \in Good
  <2> DEFINE f == [k \in 0..0 |-> Begin]
  <2>1. f = [k \in 0..0 |-> Body(f, k)]
    OBVIOUS
  <2> QED BY <2>1
<1>2. ASSUME NEW m \in Nat, m \in Good PROVE m + 1 \in Good
  <2>1. PICK f : f = [k \in 0..m |-> Body(f, k)]
    BY <1>2
  <2> DEFINE g == [k \in 0..(m + 1) |-> IF k \in 0..m THEN f[k] ELSE Body(f, k)]
  <2>2. ASSUME NEW k \in 0..(m + 1) PROVE g[k] = Body(g, k)
    <3>1. CASE k \in 0..m
      <4>1. f[k] = Body(f, k)
        BY <2>1, <3>1
      <4>2. k # 0 => k - 1 \in 0..m
        BY <3>1
      <4>3. k # 0 => g[k - 1] = f[k - 1]
        BY <4>2
      <4> QED BY <3>1, <4>1, <4>3
    <3>2. CASE k = m + 1
      <4>1. g[k - 1] = f[k - 1] /\ k \notin 0..m
        BY <3>2
      <4> QED BY <3>2, <4>1
    <3> QED BY <3>1, <3>2
  <2>3. g = [k \in 0..(m + 1) |-> Body(g, k)]
    <3> HIDE DEF Body
    <3> QED BY <2>2
  <2> HIDE DEF Body, g
  <2> QED BY <2>3
<1>3. \A m \in Nat : m \in Good
  <2> HIDE DEF Good
  <2> QED BY <1>1, <1>2, NaturalInduction
<1>4. \E f : f = [k \in 0..Len(entries) |-> Body(f, k)]
  BY <1>3, LenProperties
<1> QED BY <1>4 DEF Capture!StringTo, Begin

LEMMA StringToSteps ==
    ASSUME NEW T, NEW entries \in Seq(T)
    PROVE  /\ Capture!StringTo(entries)[0] = [script |-> <<>>, cur |-> NoBase]
           /\ \A k \in 1..Len(entries) :
                Capture!StringTo(entries)[k] = Capture!Rendered(Capture!StringTo(entries)[k - 1], entries[k], Capture!Opens(entries, k))
<1> DEFINE f == Capture!StringTo(entries)
           Begin == [script |-> <<>>, cur |-> NoBase]
<1> HIDE DEF Begin
<1>1. f = [k \in 0..Len(entries) |-> IF k = 0 THEN Begin ELSE Capture!Rendered(f[k - 1], entries[k], Capture!Opens(entries, k))]
  BY StringToExists DEF Begin
<1> HIDE DEF f
<1>2. 0 \in 0..Len(entries) /\ \A k \in 1..Len(entries) : k \in 0..Len(entries) /\ k # 0
  BY LenProperties
<1>3. f[0] = Begin /\ \A k \in 1..Len(entries) : f[k] = Capture!Rendered(f[k - 1], entries[k], Capture!Opens(entries, k))
  BY <1>1, <1>2
<1> QED BY <1>3 DEF f, Begin

\* LiveTo is a recursive function, and there is one.
LEMMA LiveToExists ==
    ASSUME NEW T, NEW program \in Seq(T), NEW tx
    PROVE  Capture!LiveTo(program, tx) =
             [k \in 0..Len(program) |->
                IF k = 0 THEN [server |-> Capture!Fresh, names |-> [s \in Hosts |-> Capture!Called],
                      observed |-> <<>>, renamed |-> FALSE]
                ELSE Capture!Performed(Capture!LiveTo(program, tx)[k - 1], program[k], tx)]
<1> DEFINE Begin == [server |-> Capture!Fresh, names |-> [s \in Hosts |-> Capture!Called],
                      observed |-> <<>>, renamed |-> FALSE]
           Body(f, k) == IF k = 0 THEN Begin ELSE Capture!Performed(f[k - 1], program[k], tx)
           Good == {m \in Nat : \E f : f = [k \in 0..m |-> Body(f, k)]}
<1> HIDE DEF Begin
<1>1. 0 \in Good
  <2> DEFINE f == [k \in 0..0 |-> Begin]
  <2>1. f = [k \in 0..0 |-> Body(f, k)]
    OBVIOUS
  <2> QED BY <2>1
<1>2. ASSUME NEW m \in Nat, m \in Good PROVE m + 1 \in Good
  <2>1. PICK f : f = [k \in 0..m |-> Body(f, k)]
    BY <1>2
  <2> DEFINE g == [k \in 0..(m + 1) |-> IF k \in 0..m THEN f[k] ELSE Body(f, k)]
  <2>2. ASSUME NEW k \in 0..(m + 1) PROVE g[k] = Body(g, k)
    <3>1. CASE k \in 0..m
      <4>1. f[k] = Body(f, k)
        BY <2>1, <3>1
      <4>2. k # 0 => k - 1 \in 0..m
        BY <3>1
      <4>3. k # 0 => g[k - 1] = f[k - 1]
        BY <4>2
      <4> QED BY <3>1, <4>1, <4>3
    <3>2. CASE k = m + 1
      <4>1. g[k - 1] = f[k - 1] /\ k \notin 0..m
        BY <3>2
      <4> QED BY <3>2, <4>1
    <3> QED BY <3>1, <3>2
  <2>3. g = [k \in 0..(m + 1) |-> Body(g, k)]
    <3> HIDE DEF Body
    <3> QED BY <2>2
  <2> HIDE DEF Body, g
  <2> QED BY <2>3
<1>3. \A m \in Nat : m \in Good
  <2> HIDE DEF Good
  <2> QED BY <1>1, <1>2, NaturalInduction
<1>4. \E f : f = [k \in 0..Len(program) |-> Body(f, k)]
  BY <1>3, LenProperties
<1> QED BY <1>4 DEF Capture!LiveTo, Begin

LEMMA LiveToSteps ==
    ASSUME NEW T, NEW program \in Seq(T), NEW tx
    PROVE  /\ Capture!LiveTo(program, tx)[0] = [server |-> Capture!Fresh, names |-> [s \in Hosts |-> Capture!Called],
                      observed |-> <<>>, renamed |-> FALSE]
           /\ \A k \in 1..Len(program) :
                Capture!LiveTo(program, tx)[k] = Capture!Performed(Capture!LiveTo(program, tx)[k - 1], program[k], tx)
<1> DEFINE f == Capture!LiveTo(program, tx)
           Begin == [server |-> Capture!Fresh, names |-> [s \in Hosts |-> Capture!Called],
                      observed |-> <<>>, renamed |-> FALSE]
<1> HIDE DEF Begin
<1>1. f = [k \in 0..Len(program) |-> IF k = 0 THEN Begin ELSE Capture!Performed(f[k - 1], program[k], tx)]
  BY LiveToExists DEF Begin
<1> HIDE DEF f
<1>2. 0 \in 0..Len(program) /\ \A k \in 1..Len(program) : k \in 0..Len(program) /\ k # 0
  BY LenProperties
<1>3. f[0] = Begin /\ \A k \in 1..Len(program) : f[k] = Capture!Performed(f[k - 1], program[k], tx)
  BY <1>1, <1>2
<1> QED BY <1>3 DEF f, Begin

\* NamesTo is a recursive function, and there is one.
LEMMA NamesToExists ==
    ASSUME NEW T, NEW program \in Seq(T)
    PROVE  Capture!NamesTo(program) =
             [k \in 0..Len(program) |->
                IF k = 0 THEN [s \in Hosts |-> Capture!Called]
                ELSE Capture!setIfApplied(TRUE, Capture!NamesTo(program)[k - 1], program[k])]
<1> DEFINE Begin == [s \in Hosts |-> Capture!Called]
           Body(f, k) == IF k = 0 THEN Begin ELSE Capture!setIfApplied(TRUE, f[k - 1], program[k])
           Good == {m \in Nat : \E f : f = [k \in 0..m |-> Body(f, k)]}
<1> HIDE DEF Begin
<1>1. 0 \in Good
  <2> DEFINE f == [k \in 0..0 |-> Begin]
  <2>1. f = [k \in 0..0 |-> Body(f, k)]
    OBVIOUS
  <2> QED BY <2>1
<1>2. ASSUME NEW m \in Nat, m \in Good PROVE m + 1 \in Good
  <2>1. PICK f : f = [k \in 0..m |-> Body(f, k)]
    BY <1>2
  <2> DEFINE g == [k \in 0..(m + 1) |-> IF k \in 0..m THEN f[k] ELSE Body(f, k)]
  <2>2. ASSUME NEW k \in 0..(m + 1) PROVE g[k] = Body(g, k)
    <3>1. CASE k \in 0..m
      <4>1. f[k] = Body(f, k)
        BY <2>1, <3>1
      <4>2. k # 0 => k - 1 \in 0..m
        BY <3>1
      <4>3. k # 0 => g[k - 1] = f[k - 1]
        BY <4>2
      <4> QED BY <3>1, <4>1, <4>3
    <3>2. CASE k = m + 1
      <4>1. g[k - 1] = f[k - 1] /\ k \notin 0..m
        BY <3>2
      <4> QED BY <3>2, <4>1
    <3> QED BY <3>1, <3>2
  <2>3. g = [k \in 0..(m + 1) |-> Body(g, k)]
    <3> HIDE DEF Body
    <3> QED BY <2>2
  <2> HIDE DEF Body, g
  <2> QED BY <2>3
<1>3. \A m \in Nat : m \in Good
  <2> HIDE DEF Good
  <2> QED BY <1>1, <1>2, NaturalInduction
<1>4. \E f : f = [k \in 0..Len(program) |-> Body(f, k)]
  BY <1>3, LenProperties
<1> QED BY <1>4 DEF Capture!NamesTo, Begin

LEMMA NamesToSteps ==
    ASSUME NEW T, NEW program \in Seq(T)
    PROVE  /\ Capture!NamesTo(program)[0] = [s \in Hosts |-> Capture!Called]
           /\ \A k \in 1..Len(program) :
                Capture!NamesTo(program)[k] = Capture!setIfApplied(TRUE, Capture!NamesTo(program)[k - 1], program[k])
<1> DEFINE f == Capture!NamesTo(program)
           Begin == [s \in Hosts |-> Capture!Called]
<1> HIDE DEF Begin
<1>1. f = [k \in 0..Len(program) |-> IF k = 0 THEN Begin ELSE Capture!setIfApplied(TRUE, f[k - 1], program[k])]
  BY NamesToExists DEF Begin
<1> HIDE DEF f
<1>2. 0 \in 0..Len(program) /\ \A k \in 1..Len(program) : k \in 0..Len(program) /\ k # 0
  BY LenProperties
<1>3. f[0] = Begin /\ \A k \in 1..Len(program) : f[k] = Capture!setIfApplied(TRUE, f[k - 1], program[k])
  BY <1>1, <1>2
<1> QED BY <1>3 DEF f, Begin

\* What a script comes to.
Played(script, on) == Capture!ReplayTo(script, on)[Len(script)]

LEMMA PlayedNothing ==
    ASSUME NEW on
    PROVE  Played(<<>>, on) = [server |-> Capture!Fresh, on |-> on, at |-> 0]
<1> DEFINE none == <<>>
<1>1. none \in Seq({}) /\ Len(none) = 0
  OBVIOUS
<1> HIDE DEF none
<1>2. Played(none, on) = [server |-> Capture!Fresh, on |-> on, at |-> 0]
  BY <1>1, ReplayToSteps DEF Played
<1> QED BY <1>2 DEF none

\* A batch more is played on what those before it left.
LEMMA PlayedAppend ==
    ASSUME NEW on, NEW T, NEW s \in Seq(T), NEW b \in T
    PROVE  Played(Append(s, b), on) = Capture!Play(Played(s, on), b)
<1> DEFINE t == Append(s, b)
           N == Len(s)
           Good == {n \in Nat : n > N \/ Capture!ReplayTo(t, on)[n] = Capture!ReplayTo(s, on)[n]}
<1>0. /\ t \in Seq(T) /\ Len(t) = N + 1 /\ N \in Nat
      /\ \A n \in 1..N : t[n] = s[n]
      /\ t[N + 1] = b
  BY AppendProperties, LenProperties
<1> HIDE DEF t
<1>9. \A k \in 1..Len(t) :
        Capture!ReplayTo(t, on)[k] = Capture!Play(Capture!ReplayTo(t, on)[k - 1], t[k])
  <2>1. t \in Seq(T)
    BY <1>0
  <2> QED BY <2>1, ReplayToSteps
<1>1. 0 \in Good
  BY <1>0, ReplayToSteps
<1>2. ASSUME NEW n \in Nat, n \in Good PROVE n + 1 \in Good
  <2>1. CASE n + 1 \in 1..N
    <3>1. n + 1 \in 1..Len(t) /\ (n + 1) - 1 = n
      BY <1>0, <2>1
    <3>2. Capture!ReplayTo(t, on)[n] = Capture!ReplayTo(s, on)[n]
      BY <1>0, <1>2, <2>1
    <3>3. Capture!ReplayTo(t, on)[n + 1] = Capture!Play(Capture!ReplayTo(t, on)[n], t[n + 1])
      BY <1>9, <3>1
    <3>4. Capture!ReplayTo(s, on)[n + 1] = Capture!Play(Capture!ReplayTo(s, on)[n], s[n + 1])
      BY <3>1, <2>1, ReplayToSteps, ZenonT(40)
    <3> QED BY <1>0, <2>1, <3>2, <3>3, <3>4
  <2>2. CASE n + 1 \notin 1..N
    BY <1>0, <2>2
  <2> QED BY <2>1, <2>2
<1>3. \A n \in Nat : n \in Good
  <2> HIDE DEF Good
  <2> QED BY <1>1, <1>2, NaturalInduction
<1>4. Capture!ReplayTo(t, on)[N] = Capture!ReplayTo(s, on)[N]
  BY <1>0, <1>3
<1>5. Capture!ReplayTo(t, on)[N + 1] = Capture!Play(Capture!ReplayTo(t, on)[N], t[N + 1])
  <2>1. N + 1 \in 1..Len(t) /\ (N + 1) - 1 = N
    BY <1>0
  <2> QED BY <1>9, <2>1
<1>6. Played(t, on) = Capture!Play(Played(s, on), b)
  BY <1>0, <1>4, <1>5 DEF Played
<1> QED BY <1>6 DEF t

\* The calls of a program, the entries of a collector, the batches of its String,
\* and the servers there are.
CallKinds == {"configure", "alter", "replace", "drop", "rename"}
CallsOf ==
    {c \in [server : Hosts, does : CallKinds, handle : Handles, to : BaseNames \cup {NoBase}] :
        c.does = "rename" => c.to \in BaseNames}
EntriesOf ==
    {e \in [Server : Hosts, Database : BaseNames \cup {NoBase}, does : CallKinds,
            names : BaseNames \cup {NoBase}, to : BaseNames \cup {NoBase}, inTx : BOOLEAN] :
        /\ e.does \in {"drop", "rename"} => e.names \in BaseNames /\ e.Database = NoBase
        /\ e.does = "rename" => e.to \in BaseNames}
BatchesOf ==
    {Capture!On(s) : s \in Hosts} \cup {Capture!Use(b) : b \in BaseNames \cup {NoBase}}
    \cup {Capture!Run(e) : e \in EntriesOf}
Ids == Handles \cup {0}
Done == [on : Hosts, in : Ids, does : CallKinds, base : Ids, to : BaseNames \cup {NoBase}]
ServersOf ==
    [bases : [Hosts -> [BaseNames -> Ids]], effects : Seq(Done), stopped : BOOLEAN]

LEMMA CalledType == Capture!Called \in [Handles -> BaseNames]
  BY CaptureAssumption DEF Capture!Called

LEMMA FreshType == Capture!Fresh \in ServersOf /\ ~Capture!Fresh.stopped
<1>1. ASSUME NEW n \in BaseNames
      PROVE  (IF \E h \in Handles : Capture!Called[h] = n
              THEN CHOOSE h \in Handles : Capture!Called[h] = n ELSE 0) \in Ids
  BY DEF Ids
<1>2. <<>> \in Seq(Done)
  OBVIOUS
<1> QED BY <1>1, <1>2 DEF Capture!Fresh, ServersOf

LEMMA EntryType ==
    ASSUME NEW call \in CallsOf, NEW names \in [Handles -> BaseNames], NEW tx \in BOOLEAN
    PROVE  Capture!EntryOf(call, names, tx) \in EntriesOf
<1> DEFINE e == Capture!EntryOf(call, names, tx)
<1>0. /\ call.server \in Hosts /\ call.does \in CallKinds /\ call.handle \in Handles
      /\ call.to \in BaseNames \cup {NoBase} /\ (call.does = "rename" => call.to \in BaseNames)
      /\ names[call.handle] \in BaseNames
  BY DEF CallsOf
<1>1. (call.does = "replace" /\ tx) \in BOOLEAN
  OBVIOUS
<1>2. e \in [Server : Hosts, Database : BaseNames \cup {NoBase}, does : CallKinds,
             names : BaseNames \cup {NoBase}, to : BaseNames \cup {NoBase}, inTx : BOOLEAN]
  BY <1>0, <1>1 DEF Capture!EntryOf
<1>3. /\ e.does \in {"drop", "rename"} => e.names \in BaseNames /\ e.Database = NoBase
      /\ e.does = "rename" => e.to \in BaseNames
  BY <1>0 DEF Capture!EntryOf
<1> QED BY <1>2, <1>3 DEF EntriesOf

\* A statement leaves servers; it stops only one that goes on, and what is neither a
\* drop nor a rename leaves every name what it is, and is never refused.
LEMMA DoesType ==
    ASSUME NEW server \in ServersOf, NEW on \in Hosts, NEW entry \in EntriesOf, NEW at \in Ids
    PROVE  LET after == Capture!Does(server, on, entry, at)
           IN  /\ after \in ServersOf
               /\ entry.does \notin {"drop", "rename"} =>
                    after.bases = server.bases /\ after.stopped = server.stopped
<1> DEFINE after == Capture!Does(server, on, entry, at)
           is == server.bases[on][entry.names]
           naming == entry.does \in {"drop", "rename"}
           done == [on |-> on, in |-> at, does |-> entry.does,
                    base |-> IF naming THEN is ELSE 0, to |-> entry.to]
           names == server.bases[on]
           bases == IF entry.does = "drop"
                    THEN [server.bases EXCEPT ![on] = [names EXCEPT ![entry.names] = 0]]
                    ELSE IF entry.does = "rename"
                    THEN [server.bases EXCEPT
                            ![on] = [names EXCEPT ![entry.names] = 0, ![entry.to] = is]]
                    ELSE server.bases
<1>1. /\ server.bases \in [Hosts -> [BaseNames -> Ids]] /\ server.effects \in Seq(Done)
      /\ server.stopped \in BOOLEAN
      /\ server = [bases |-> server.bases, effects |-> server.effects, stopped |-> server.stopped]
  BY DEF ServersOf
<1>2. /\ entry.does \in CallKinds /\ entry.to \in BaseNames \cup {NoBase}
      /\ naming => entry.names \in BaseNames
      /\ entry.does = "rename" => entry.to \in BaseNames
  BY DEF EntriesOf
<1>3. naming => is \in Ids
  BY <1>1, <1>2
<1>4. done \in Done
  BY <1>2, <1>3 DEF Done, Ids
<1>5. bases \in [Hosts -> [BaseNames -> Ids]]
  <2>1. names \in [BaseNames -> Ids] /\ 0 \in Ids
    BY <1>1 DEF Ids
  <2> QED BY <1>1, <1>2, <1>3, <2>1
<1>6. Append(server.effects, done) \in Seq(Done)
  BY <1>1, <1>4, AppendProperties
<1>7. CASE naming /\ Capture!Refuses(server.bases[on], entry, at)
  <2>1. after = [server EXCEPT !.stopped = TRUE]
    BY <1>7 DEF Capture!Does
  <2> QED BY <1>1, <1>7, <2>1 DEF ServersOf
<1>8. CASE ~(naming /\ Capture!Refuses(server.bases[on], entry, at))
  <2>1. after = [server EXCEPT !.effects = Append(@, done), !.bases = bases]
    BY <1>8, Zenon DEF Capture!Does
  <2> HIDE DEF after, done, bases
  <2>2. after = [bases |-> bases, effects |-> Append(server.effects, done),
                 stopped |-> server.stopped]
    BY <1>1, <2>1
  <2>3. after \in ServersOf
    BY <1>1, <1>5, <1>6, <2>2 DEF ServersOf
  <2>4. ~naming => bases = server.bases
    BY DEF bases
  <2> QED BY <2>2, <2>3, <2>4 DEF after
<1> QED BY <1>7, <1>8

\* What the session of a script is in, and what it takes to send an entry's batch.
SessionAt(server, on, name) == IF name = NoBase THEN 0 ELSE server.bases[on][name]
Sent(server, entry) ==
    LET at == SessionAt(server, entry.Server, entry.Database)
    IN  IF entry.Database # NoBase /\ at = 0 THEN [server EXCEPT !.stopped = TRUE]
        ELSE Capture!Does(server, entry.Server, entry, at)

LEMMA AtType ==
    ASSUME NEW server \in ServersOf, NEW on \in Hosts, NEW name \in BaseNames \cup {NoBase}
    PROVE  SessionAt(server, on, name) \in Ids
<1>1. server.bases \in [Hosts -> [BaseNames -> Ids]]
  BY DEF ServersOf
<1>2. CASE name = NoBase
  BY <1>2 DEF SessionAt, Ids
<1>3. CASE name # NoBase
  BY <1>1, <1>3 DEF SessionAt
<1> QED BY <1>2, <1>3

LEMMA SentType ==
    ASSUME NEW server \in ServersOf, NEW entry \in EntriesOf
    PROVE  /\ Sent(server, entry) \in ServersOf
           /\ ~Sent(server, entry).stopped =>
                /\ SessionAt(Sent(server, entry), entry.Server, entry.Database)
                     = SessionAt(server, entry.Server, entry.Database)
                /\ entry.Database # NoBase => SessionAt(server, entry.Server, entry.Database) # 0
<1> DEFINE at == SessionAt(server, entry.Server, entry.Database)
<1>1. /\ entry.Server \in Hosts /\ entry.Database \in BaseNames \cup {NoBase}
      /\ entry.Database # NoBase => entry.does \notin {"drop", "rename"}
  BY DEF EntriesOf
<1>2. at \in Ids
  BY <1>1, AtType
<1>3. CASE entry.Database # NoBase /\ at = 0
  <2>1. Sent(server, entry) = [server EXCEPT !.stopped = TRUE]
    BY <1>3 DEF Sent
  <2>2. Sent(server, entry) \in ServersOf /\ Sent(server, entry).stopped
    BY <2>1 DEF ServersOf
  <2> QED BY <2>2
<1>4. CASE ~(entry.Database # NoBase /\ at = 0)
  <2>1. Sent(server, entry) = Capture!Does(server, entry.Server, entry, at)
    BY <1>4 DEF Sent
  <2> HIDE DEF at
  <2>2. /\ Sent(server, entry) \in ServersOf
        /\ entry.does \notin {"drop", "rename"} => Sent(server, entry).bases = server.bases
    BY <1>1, <1>2, <2>1, DoesType
  <2>3. SessionAt(Sent(server, entry), entry.Server, entry.Database)
          = SessionAt(server, entry.Server, entry.Database)
    BY <1>1, <2>2 DEF SessionAt
  <2> QED BY <1>4, <2>2, <2>3 DEF at
<1> QED BY <1>3, <1>4

\* The session of a script, of which one batch is played after another.
ReplaysOf == [server : ServersOf, on : Hosts, at : Ids]

LEMMA PlayStopped ==
    ASSUME NEW r, NEW b, r.server.stopped
    PROVE  Capture!Play(r, b) = r
  BY DEF Capture!Play

LEMMA PlayOn ==
    ASSUME NEW r \in ReplaysOf, ~r.server.stopped, NEW s \in Hosts
    PROVE  Capture!Play(r, Capture!On(s)) = [server |-> r.server, on |-> s, at |-> 0]
<1> DEFINE b == Capture!On(s)
<1>1. b.is = "on" /\ b.what = s
  BY DEF Capture!On
<1>2. r = [server |-> r.server, on |-> r.on, at |-> r.at]
  BY DEF ReplaysOf
<1> HIDE DEF b
<1>3. Capture!Play(r, b) = [r EXCEPT !.on = s, !.at = 0]
  BY <1>1 DEF Capture!Play
<1>4. Capture!Play(r, b) = [server |-> r.server, on |-> s, at |-> 0]
  BY <1>2, <1>3
<1> QED BY <1>4 DEF b

LEMMA PlayUse ==
    ASSUME NEW r \in ReplaysOf, ~r.server.stopped, NEW name \in BaseNames \cup {NoBase}
    PROVE  LET at == SessionAt(r.server, r.on, name)
           IN  Capture!Play(r, Capture!Use(name)) =
                 IF name # NoBase /\ at = 0
                 THEN [server |-> [r.server EXCEPT !.stopped = TRUE], on |-> r.on, at |-> r.at]
                 ELSE [server |-> r.server, on |-> r.on, at |-> at]
<1> DEFINE b == Capture!Use(name)
           at == SessionAt(r.server, r.on, name)
           after == Capture!Play(r, b)
<1>1. b.is = "use" /\ b.what = name
  BY DEF Capture!Use
<1>2. r = [server |-> r.server, on |-> r.on, at |-> r.at]
  BY DEF ReplaysOf
<1> HIDE DEF b
<1>3. CASE name = NoBase
  <2>1. after = [r EXCEPT !.at = 0] /\ at = 0
    BY <1>1, <1>3 DEF Capture!Play, SessionAt
  <2>2. after = [server |-> r.server, on |-> r.on, at |-> at]
    BY <1>2, <2>1
  <2> QED BY <1>3, <2>2 DEF b
<1>4. CASE name # NoBase /\ at = 0
  <2>1. after = [r EXCEPT !.server = [r.server EXCEPT !.stopped = TRUE]]
    BY <1>1, <1>4 DEF Capture!Play, SessionAt
  <2>2. after = [server |-> [r.server EXCEPT !.stopped = TRUE], on |-> r.on, at |-> r.at]
    BY <1>2, <2>1
  <2> QED BY <1>4, <2>2 DEF b
<1>5. CASE name # NoBase /\ at # 0
  <2>1. after = [r EXCEPT !.at = at]
    BY <1>1, <1>5 DEF Capture!Play, SessionAt
  <2>2. after = [server |-> r.server, on |-> r.on, at |-> at]
    BY <1>2, <2>1
  <2> QED BY <1>5, <2>2 DEF b
<1> QED BY <1>3, <1>4, <1>5

LEMMA PlayRun ==
    ASSUME NEW r \in ReplaysOf, ~r.server.stopped, NEW entry \in EntriesOf
    PROVE  LET in == IF Capture!fromMaster(entry) THEN 0 ELSE r.at
           IN  Capture!Play(r, Capture!Run(entry)) =
                 [server |-> Capture!Does(r.server, r.on, entry, in), on |-> r.on, at |-> in]
<1> DEFINE b == Capture!Run(entry)
           in == IF Capture!fromMaster(entry) THEN 0 ELSE r.at
           after == Capture!Play(r, b)
<1>1. b.is = "run" /\ b.what = entry
  BY DEF Capture!Run
<1>2. r = [server |-> r.server, on |-> r.on, at |-> r.at]
  BY DEF ReplaysOf
<1> HIDE DEF b
<1>3. after = [r EXCEPT !.at = in, !.server = Capture!Does(r.server, r.on, entry, in)]
  BY <1>1 DEF Capture!Play
<1> HIDE DEF in, after
<1>4. after = [server |-> Capture!Does(r.server, r.on, entry, in), on |-> r.on, at |-> in]
  BY <1>2, <1>3
<1> QED BY <1>4 DEF b, in, after

\* A turn of String's loop: the batches it appends send the entry's, on its server and
\* in its database, from a session that is where the loop has it.
Ready(r, o) ==
    /\ r.at = SessionAt(r.server, r.on, o.cur)
    /\ o.cur # NoBase => r.at # 0

LEMMA RenderedIs ==
    ASSUME NEW o, o.script \in Seq(BatchesOf), o.cur \in BaseNames \cup {NoBase},
           NEW entry \in EntriesOf, NEW opens \in BOOLEAN
    PROVE  LET cur == IF opens THEN NoBase ELSE o.cur
               uses == entry.Database # cur
                         /\ ~(entry.Database = NoBase /\ Capture!fromMaster(entry))
               on == Capture!On(entry.Server)
               use == Capture!Use(entry.Database)
               one == IF opens THEN Append(o.script, on) ELSE o.script
               two == IF uses THEN Append(one, use) ELSE one
           IN  /\ Capture!Rendered(o, entry, opens) =
                    [script |-> Append(two, Capture!Run(entry)), cur |-> entry.Database]
               /\ {on, use, Capture!Run(entry)} \subseteq BatchesOf
               /\ one \in Seq(BatchesOf) /\ two \in Seq(BatchesOf)
<1> DEFINE cur == IF opens THEN NoBase ELSE o.cur
           uses == entry.Database # cur
                     /\ ~(entry.Database = NoBase /\ Capture!fromMaster(entry))
           on == Capture!On(entry.Server)
           use == Capture!Use(entry.Database)
           run == Capture!Run(entry)
           s == o.script
           one == IF opens THEN Append(s, on) ELSE s
           two == IF uses THEN Append(one, use) ELSE one
           said == IF opens THEN <<on>> ELSE <<>>
           told == IF uses THEN <<use>> ELSE <<>>
<1>0. entry.Server \in Hosts /\ entry.Database \in BaseNames \cup {NoBase}
  BY DEF EntriesOf
<1>1. on \in BatchesOf /\ use \in BatchesOf /\ run \in BatchesOf
  <2>1. on \in {Capture!On(x) : x \in Hosts}
    BY <1>0
  <2>2. use \in {Capture!Use(x) : x \in BaseNames \cup {NoBase}}
    BY <1>0
  <2>3. run \in {Capture!Run(x) : x \in EntriesOf}
    OBVIOUS
  <2> QED BY <2>1, <2>2, <2>3, Zenon DEF BatchesOf
<1>2. Capture!Rendered(o, entry, opens) =
        [script |-> s \o said \o told \o <<run>>, cur |-> entry.Database]
  BY Zenon DEF Capture!Rendered
<1> HIDE DEF on, use, run, s, uses
<1>3. \A q \in Seq(BatchesOf), b \in BatchesOf :
         q \o <<b>> = Append(q, b) /\ Append(q, b) \in Seq(BatchesOf) /\ q \o <<>> = q
  <2> TAKE q \in Seq(BatchesOf), b \in BatchesOf
  <2>1. Append(q, b) = q \o <<b>>
    BY AppendIsConcat
  <2>2. Append(q, b) \in Seq(BatchesOf)
    BY AppendProperties
  <2>3. q \o <<>> = q
    BY ConcatEmptySeq
  <2> QED BY <2>1, <2>2, <2>3
<1>4. s \in Seq(BatchesOf)
  BY DEF s
<1>5. s \o said = one /\ one \in Seq(BatchesOf)
  BY <1>1, <1>3, <1>4
<1> HIDE DEF one, said
<1>6. one \o told = two /\ two \in Seq(BatchesOf)
  BY <1>1, <1>3, <1>5
<1> HIDE DEF two, told
<1>7. two \o <<run>> = Append(two, run)
  BY <1>1, <1>3, <1>6
<1>8. Capture!Rendered(o, entry, opens) = [script |-> Append(two, run), cur |-> entry.Database]
  BY <1>2, <1>5, <1>6, <1>7
<1> QED BY <1>1, <1>5, <1>6, <1>8 DEF on, use, run, s, uses, one, two

Turned(r, entry, t, after) ==
    /\ t.script \in Seq(BatchesOf) /\ t.cur = entry.Database
    /\ after \in ReplaysOf
    /\ r.server.stopped => after = r
    /\ ~r.server.stopped =>
         /\ after.server = Sent(r.server, entry)
         /\ ~after.server.stopped => Ready(after, t) /\ after.on = entry.Server

LEMMA TurnPlayed ==
    ASSUME NEW o, o.script \in Seq(BatchesOf), o.cur \in BaseNames \cup {NoBase},
           NEW entry \in EntriesOf, NEW opens \in BOOLEAN,
           NEW begin, NEW r, r = Played(o.script, begin), r \in ReplaysOf,
           r.server.stopped \/ (Ready(r, o) /\ (opens \/ r.on = entry.Server))
    PROVE  LET t == Capture!Rendered(o, entry, opens)
           IN  Turned(r, entry, t, Played(t.script, begin))
<1> DEFINE cur == IF opens THEN NoBase ELSE o.cur
           uses == entry.Database # cur
                     /\ ~(entry.Database = NoBase /\ Capture!fromMaster(entry))
           on == Capture!On(entry.Server)
           use == Capture!Use(entry.Database)
           run == Capture!Run(entry)
           one == IF opens THEN Append(o.script, on) ELSE o.script
           two == IF uses THEN Append(one, use) ELSE one
           three == Append(two, run)
           t == Capture!Rendered(o, entry, opens)
           after == Played(t.script, begin)
<1>0. /\ entry.Server \in Hosts /\ entry.Database \in BaseNames \cup {NoBase}
      /\ entry.Database # NoBase => entry.does \notin {"drop", "rename"}
      /\ r.server \in ServersOf /\ r.on \in Hosts /\ r.at \in Ids
  BY DEF EntriesOf, ReplaysOf
<1>1. /\ t = [script |-> three, cur |-> entry.Database]
      /\ on \in BatchesOf /\ use \in BatchesOf /\ run \in BatchesOf
      /\ one \in Seq(BatchesOf) /\ two \in Seq(BatchesOf)
  BY RenderedIs
<1>2. t.script = three /\ t.cur = entry.Database
  <2> HIDE DEF t, three, on, use, run, one, two
  <2> QED BY <1>1
<1> DEFINE r1 == IF opens THEN Capture!Play(r, on) ELSE r
           r2 == IF uses THEN Capture!Play(r1, use) ELSE r1
           r3 == Capture!Play(r2, run)
<1>3. Played(one, begin) = r1
  BY <1>1, PlayedAppend
<1>4. Played(two, begin) = r2
  <2> HIDE DEF one, r1, use
  <2>1. Played(Append(one, use), begin) = Capture!Play(Played(one, begin), use)
    BY <1>1, PlayedAppend
  <2> QED BY <1>3, <2>1
<1>5. after = r3 /\ t.script \in Seq(BatchesOf)
  <2> HIDE DEF two, r2, run
  <2>1. Played(three, begin) = Capture!Play(Played(two, begin), run)
    BY <1>1, PlayedAppend
  <2>2. three \in Seq(BatchesOf)
    BY <1>1, AppendProperties
  <2> QED BY <1>2, <1>4, <2>1, <2>2
<1>6. CASE r.server.stopped
  <2>1. r1 = r
    BY <1>6, PlayStopped
  <2> HIDE DEF r1
  <2>2. r2 = r
    BY <1>6, <2>1, PlayStopped
  <2> HIDE DEF r2
  <2>3. r3 = r
    BY <1>6, <2>2, PlayStopped
  <2> QED BY <1>2, <1>5, <1>6, <2>3 DEF Turned
<1>7. CASE ~r.server.stopped
  <2> DEFINE at == SessionAt(r.server, entry.Server, entry.Database)
             missing == entry.Database # NoBase /\ at = 0
  <2>0. at \in Ids
    BY <1>0, AtType
  <2>1. /\ r1 \in ReplaysOf /\ r1.server = r.server /\ r1.on = entry.Server
        /\ r1.at = SessionAt(r.server, entry.Server, cur) /\ (cur # NoBase => r1.at # 0)
        /\ cur \in BaseNames \cup {NoBase}
    <3>1. CASE opens
      <4>1. r1 = [server |-> r.server, on |-> entry.Server, at |-> 0] /\ cur = NoBase
        BY <1>0, <1>7, <3>1, PlayOn
      <4> HIDE DEF r1, cur
      <4> QED BY <1>0, <4>1 DEF SessionAt, ReplaysOf, Ids
    <3>2. CASE ~opens
      BY <1>0, <1>7, <3>2 DEF Ready
    <3> QED BY <3>1, <3>2
  <2> HIDE DEF r1, cur, use, run
  <2>2. /\ r2 \in ReplaysOf
        /\ r2.server = IF missing THEN [r.server EXCEPT !.stopped = TRUE] ELSE r.server
        /\ ~missing => r2.on = entry.Server /\ (r2.at = at \/ Capture!fromMaster(entry))
    <3>1. CASE uses
      <4>1. r2 = IF missing
                 THEN [server |-> [r.server EXCEPT !.stopped = TRUE], on |-> entry.Server,
                       at |-> r1.at]
                 ELSE [server |-> r.server, on |-> entry.Server, at |-> at]
        BY <1>0, <1>7, <2>1, <3>1, PlayUse DEF use
      <4>2. [r.server EXCEPT !.stopped = TRUE] \in ServersOf
        BY <1>0 DEF ServersOf
      <4>3. r1.at \in Ids
        BY <2>1 DEF ReplaysOf
      <4> HIDE DEF r2, missing, at
      <4> QED BY <1>0, <2>0, <4>1, <4>2, <4>3 DEF ReplaysOf
    <3>2. CASE ~uses
      <4>1. r2 = r1
        BY <3>2
      <4>2. CASE entry.Database = cur
        BY <2>1, <4>1, <4>2
      <4>3. CASE entry.Database = NoBase /\ Capture!fromMaster(entry)
        BY <2>1, <4>1, <4>3
      <4> QED BY <3>2, <4>2, <4>3
    <3> QED BY <3>1, <3>2
  <2> HIDE DEF r2, uses
  <2>3. CASE missing
    <3>1. r2.server = [r.server EXCEPT !.stopped = TRUE]
      BY <2>2, <2>3
    <3>2. r2.server.stopped
      BY <1>0, <3>1 DEF ServersOf
    <3>3. r3 = r2
      BY <3>2, PlayStopped
    <3>4. Sent(r.server, entry) = r2.server
      BY <2>3, <3>1 DEF Sent
    <3> QED BY <1>2, <1>5, <1>7, <2>2, <3>2, <3>3, <3>4 DEF Turned
  <2>4. CASE ~missing
    <3> DEFINE in == IF Capture!fromMaster(entry) THEN 0 ELSE r2.at
    <3>1. r2.server = r.server /\ r2.on = entry.Server
      BY <2>2, <2>4
    <3>2. r3 = [server |-> Capture!Does(r.server, entry.Server, entry, in),
                on |-> entry.Server, at |-> in]
      BY <1>7, <2>2, <3>1, PlayRun DEF run
    <3>3. in = at
      <4>1. CASE Capture!fromMaster(entry)
        <5>1. entry.Database = NoBase
          BY <1>0, <4>1 DEF Capture!fromMaster
        <5> QED BY <4>1, <5>1 DEF SessionAt
      <4>2. CASE ~Capture!fromMaster(entry)
        BY <2>2, <2>4, <4>2
      <4> QED BY <4>1, <4>2
    <3> HIDE DEF in
    <3>4. Sent(r.server, entry) = Capture!Does(r.server, entry.Server, entry, in)
      BY <2>4, <3>3 DEF Sent
    <3>5. r3 = [server |-> Sent(r.server, entry), on |-> entry.Server, at |-> at]
      BY <3>2, <3>3, <3>4
    <3> HIDE DEF r3, at
    <3>6. r3 \in ReplaysOf
      BY <1>0, <2>0, <3>5, SentType DEF ReplaysOf
    <3>7. ~r3.server.stopped => Ready(r3, t)
      <4>1. SUFFICES ASSUME ~Sent(r.server, entry).stopped
                     PROVE  Ready(r3, t)
        BY <3>5
      <4>2. /\ SessionAt(Sent(r.server, entry), entry.Server, entry.Database) = at
            /\ entry.Database # NoBase => at # 0
        BY <1>0, <4>1, SentType DEF at
      <4> QED BY <1>2, <3>5, <4>2 DEF Ready
    <3> QED BY <1>2, <1>5, <1>7, <3>5, <3>6, <3>7 DEF Turned
  <2> QED BY <2>3, <2>4
<1> QED BY <1>6, <1>7

\* The calls for real: what there is of them at each call.
LivesOf ==
    [server : ServersOf, names : [Hosts -> [Handles -> BaseNames]], observed : Seq(EntriesOf),
     renamed : BOOLEAN]

\* Whether a call goes through a handle that was renamed.
Renamed(live, call) ==
    live.renamed \/ (/\ call.does # "configure"
        /\ live.names[call.server][call.handle] # Capture!Called[call.handle])

\* An entry says what it does whether or not it is in a transaction.
LEMMA SentAlike ==
    ASSUME NEW server, NEW call, NEW names, NEW tx, NEW other
    PROVE  Sent(server, Capture!EntryOf(call, names, tx)) =
             Sent(server, Capture!EntryOf(call, names, other))
<1> DEFINE a == Capture!EntryOf(call, names, tx)
           b == Capture!EntryOf(call, names, other)
<1>1. /\ a.Server = b.Server /\ a.Database = b.Database /\ a.does = b.does
      /\ a.names = b.names /\ a.to = b.to
  BY DEF Capture!EntryOf
<1> HIDE DEF a, b
<1>2. \A bases, at : Capture!Refuses(bases, a, at) = Capture!Refuses(bases, b, at)
  BY <1>1 DEF Capture!Refuses
<1>3. \A on, at : Capture!Does(server, on, a, at) = Capture!Does(server, on, b, at)
  BY <1>1, <1>2, Zenon DEF Capture!Does
<1>4. Sent(server, a) = Sent(server, b)
  BY <1>1, <1>3, Zenon DEF Sent
<1> QED BY <1>4 DEF a, b

LEMMA PerformedIs ==
    ASSUME NEW live \in LivesOf, NEW call \in CallsOf, NEW tx \in BOOLEAN
    PROVE  LET entry == Capture!EntryOf(call, live.names[call.server], tx)
               sent == Sent(live.server, entry)
               after == Capture!Performed(live, call, tx)
           IN  /\ after \in LivesOf /\ entry \in EntriesOf
               /\ live.server.stopped => after = live
               /\ ~live.server.stopped =>
                    /\ after.server = sent /\ after.renamed = Renamed(live, call)
                    /\ after.observed = IF sent.stopped THEN live.observed
                                        ELSE Append(live.observed, entry)
                    /\ after.names = IF sent.stopped THEN live.names
                                     ELSE Capture!setIfApplied(FALSE, live.names, call)
<1> DEFINE names == live.names[call.server]
           entry == Capture!EntryOf(call, names, tx)
           sent == Sent(live.server, entry)
           after == Capture!Performed(live, call, tx)
           renamed == Renamed(live, call)
           called == Capture!setIfApplied(FALSE, live.names, call)
<1>0. /\ live.server \in ServersOf /\ live.names \in [Hosts -> [Handles -> BaseNames]]
      /\ live.observed \in Seq(EntriesOf) /\ live.renamed \in BOOLEAN
      /\ live = [server |-> live.server, names |-> live.names, observed |-> live.observed,
                 renamed |-> live.renamed]
      /\ call.server \in Hosts /\ call.handle \in Handles
      /\ call.does = "rename" => call.to \in BaseNames
  BY DEF LivesOf, CallsOf
<1>1. entry \in EntriesOf /\ sent \in ServersOf
  <2>1. names \in [Handles -> BaseNames]
    BY <1>0
  <2>2. entry \in EntriesOf
    BY <2>1, EntryType
  <2> QED BY <1>0, <2>2, SentType
<1>2. entry.Server = call.server
  BY DEF Capture!EntryOf
<1>3. called \in [Hosts -> [Handles -> BaseNames]]
  BY <1>0 DEF Capture!setIfApplied
<1>4. CASE live.server.stopped
  <2>1. after = live
    BY <1>4 DEF Capture!Performed
  <2> QED BY <1>1, <1>4, <2>1
<1>5. CASE ~live.server.stopped
  <2>1. after = [server |-> sent,
                 names |-> IF sent.stopped THEN live.names ELSE called,
                 observed |-> IF sent.stopped THEN live.observed
                              ELSE Append(live.observed, entry),
                 renamed |-> renamed]
    BY <1>2, <1>5, Zenon DEF Capture!Performed, Sent, SessionAt, Renamed
  <2>2. renamed \in BOOLEAN
    BY <1>0 DEF Renamed
  <2>3. Append(live.observed, entry) \in Seq(EntriesOf)
    BY <1>0, <1>1, AppendProperties
  <2> HIDE DEF after, sent, renamed, called, entry
  <2>5. after \in LivesOf
    BY <1>0, <1>1, <1>3, <2>1, <2>2, <2>3 DEF LivesOf
  <2>6. /\ after.server = sent /\ after.renamed = renamed
        /\ after.observed = IF sent.stopped THEN live.observed ELSE Append(live.observed, entry)
        /\ after.names = IF sent.stopped THEN live.names ELSE called
    BY <2>1
  <2> QED BY <1>1, <1>5, <2>5, <2>6, Zenon DEF after, sent, renamed, called, entry
<1> QED BY <1>4, <1>5

\* Up to a call through a renamed handle, the entries are those of the handles' names
\* when the program began.
LEMMA CalledAsBefore ==
    ASSUME NEW live \in LivesOf, NEW call \in CallsOf, NEW tx, ~Renamed(live, call)
    PROVE  Capture!EntryOf(call, live.names[call.server], tx)
             = Capture!EntryOf(call, Capture!Called, tx)
<1>1. CASE call.does = "configure"
  BY <1>1 DEF Capture!EntryOf
<1>2. CASE call.does # "configure"
  <2>1. live.names[call.server][call.handle] = Capture!Called[call.handle]
    BY <1>2 DEF Renamed
  <2> QED BY <2>1, Zenon DEF Capture!EntryOf
<1> QED BY <1>1, <1>2

LEMMA LiveBegins ==
    ASSUME NEW program \in Seq(CallsOf), NEW tx
    PROVE  LET live == Capture!LiveTo(program, tx)[0]
           IN  /\ live \in LivesOf /\ live.server = Capture!Fresh /\ ~live.renamed
               /\ live.observed = <<>> /\ live.names = [s \in Hosts |-> Capture!Called]
<1> DEFINE live == Capture!LiveTo(program, tx)[0]
<1>1. live = [server |-> Capture!Fresh, names |-> [s \in Hosts |-> Capture!Called],
              observed |-> <<>>, renamed |-> FALSE]
  BY LiveToSteps
<1> HIDE DEF live
<1>2. [s \in Hosts |-> Capture!Called] \in [Hosts -> [Handles -> BaseNames]]
  BY CalledType
<1>3. <<>> \in Seq(EntriesOf)
  OBVIOUS
<1>4. live \in LivesOf
  BY <1>1, <1>2, <1>3, FreshType DEF LivesOf
<1> QED BY <1>1, <1>4 DEF live

LEMMA LiveType ==
    ASSUME NEW program \in Seq(CallsOf), NEW tx \in BOOLEAN
    PROVE  \A k \in 0..Len(program) : Capture!LiveTo(program, tx)[k] \in LivesOf
<1> DEFINE Good == {k \in Nat : k > Len(program) \/ Capture!LiveTo(program, tx)[k] \in LivesOf}
<1>1. 0 \in Good
  BY LiveBegins
<1>2. ASSUME NEW n \in Nat, n \in Good PROVE n + 1 \in Good
  <2>1. CASE n + 1 \in 1..Len(program)
    <3>1. program[n + 1] \in CallsOf /\ (n + 1) - 1 = n
      BY <2>1, ElementOfSeq
    <3>2. Capture!LiveTo(program, tx)[n] \in LivesOf
      BY <1>2, <2>1, LenProperties
    <3>3. Capture!LiveTo(program, tx)[n + 1] =
            Capture!Performed(Capture!LiveTo(program, tx)[n], program[n + 1], tx)
      BY <2>1, <3>1, LiveToSteps
    <3>4. Capture!LiveTo(program, tx)[n + 1] \in LivesOf
      BY <3>1, <3>2, <3>3, PerformedIs
    <3> QED BY <3>4
  <2>2. CASE n + 1 \notin 1..Len(program)
    BY <2>2, LenProperties
  <2> QED BY <2>1, <2>2
<1>3. \A k \in Nat : k \in Good
  <2> HIDE DEF Good
  <2> QED BY <1>1, <1>2, NaturalInduction
<1> QED BY <1>3, LenProperties

\* In a transaction or not, the calls do the same.
DoneAlike(a, b) ==
    /\ a.server = b.server /\ a.names = b.names /\ a.renamed = b.renamed
    /\ Len(a.observed) = Len(b.observed)

LEMMA PerformedAlike ==
    ASSUME NEW a \in LivesOf, NEW b \in LivesOf, DoneAlike(a, b), NEW call \in CallsOf,
           NEW tx \in BOOLEAN, NEW other \in BOOLEAN
    PROVE  DoneAlike(Capture!Performed(a, call, tx), Capture!Performed(b, call, other))
<1> DEFINE e == Capture!EntryOf(call, a.names[call.server], tx)
           f == Capture!EntryOf(call, b.names[call.server], other)
           sent == Sent(a.server, e)
           called == Capture!setIfApplied(FALSE, a.names, call)
           x == Capture!Performed(a, call, tx)
           y == Capture!Performed(b, call, other)
<1>1. /\ a.server = b.server /\ a.names = b.names /\ a.renamed = b.renamed
      /\ Len(a.observed) = Len(b.observed)
  BY DEF DoneAlike
<1>2. CASE a.server.stopped
  <2>1. x = a
    BY <1>2, PerformedIs
  <2>2. b.server.stopped
    BY <1>1, <1>2
  <2>3. y = b
    BY <2>2, PerformedIs
  <2> QED BY <2>1, <2>3
<1>3. CASE ~a.server.stopped
  <2>1. Sent(b.server, f) = sent
    BY <1>1, SentAlike
  <2>2. /\ e \in EntriesOf /\ x.server = sent /\ x.renamed = Renamed(a, call)
        /\ x.observed = IF sent.stopped THEN a.observed ELSE Append(a.observed, e)
        /\ x.names = IF sent.stopped THEN a.names ELSE called
    BY <1>3, PerformedIs
  <2>3. /\ f \in EntriesOf /\ y.server = Sent(b.server, f) /\ y.renamed = Renamed(b, call)
        /\ y.observed = IF Sent(b.server, f).stopped THEN b.observed ELSE Append(b.observed, f)
        /\ y.names = IF Sent(b.server, f).stopped THEN b.names
                     ELSE Capture!setIfApplied(FALSE, b.names, call)
    <3>1. ~b.server.stopped
      BY <1>1, <1>3
    <3> QED BY <3>1, PerformedIs
  <2>4. Renamed(a, call) = Renamed(b, call)
    BY <1>1 DEF Renamed
  <2>5. a.observed \in Seq(EntriesOf) /\ b.observed \in Seq(EntriesOf)
    BY DEF LivesOf
  <2>6. /\ Len(Append(a.observed, e)) = Len(a.observed) + 1
        /\ Len(Append(b.observed, f)) = Len(b.observed) + 1
    BY <2>2, <2>3, <2>5, AppendProperties
  <2>7. x.names = y.names
    BY <1>1, <2>1, <2>2, <2>3, Zenon
  <2> HIDE DEF e, f, sent, called, x, y
  <2>8. x.server = y.server /\ x.renamed = y.renamed
    BY <2>1, <2>2, <2>3, <2>4, Zenon
  <2>9. Len(x.observed) = Len(y.observed)
    BY <1>1, <2>1, <2>2, <2>3, <2>6
  <2> QED BY <2>7, <2>8, <2>9 DEF DoneAlike, x, y
<1> QED BY <1>2, <1>3

LEMMA LiveAlike ==
    ASSUME NEW program \in Seq(CallsOf), NEW tx \in BOOLEAN, NEW other \in BOOLEAN
    PROVE  \A k \in 0..Len(program) :
             DoneAlike(Capture!LiveTo(program, tx)[k], Capture!LiveTo(program, other)[k])
<1> DEFINE A == Capture!LiveTo(program, tx)
           B == Capture!LiveTo(program, other)
           Good == {k \in Nat : k > Len(program) \/ DoneAlike(A[k], B[k])}
<1>0. /\ A[0] = B[0]
      /\ \A k \in 1..Len(program) : /\ A[k] = Capture!Performed(A[k - 1], program[k], tx)
                                    /\ B[k] = Capture!Performed(B[k - 1], program[k], other)
      /\ \A k \in 0..Len(program) : A[k] \in LivesOf /\ B[k] \in LivesOf
  BY LiveToSteps, LiveType
<1> HIDE DEF A, B
<1>1. 0 \in Good
  BY <1>0 DEF DoneAlike
<1>2. ASSUME NEW n \in Nat, n \in Good PROVE n + 1 \in Good
  <2>1. CASE n + 1 \in 1..Len(program)
    <3>1. program[n + 1] \in CallsOf /\ (n + 1) - 1 = n /\ n \in 0..Len(program)
      BY <2>1, ElementOfSeq, LenProperties
    <3>2. DoneAlike(A[n], B[n]) /\ A[n] \in LivesOf /\ B[n] \in LivesOf
      BY <1>0, <1>2, <3>1
    <3>3. DoneAlike(A[n + 1], B[n + 1])
      <4>1. /\ A[n + 1] = Capture!Performed(A[n], program[n + 1], tx)
            /\ B[n + 1] = Capture!Performed(B[n], program[n + 1], other)
        BY <1>0, <2>1, <3>1
      <4> QED BY <3>1, <3>2, <4>1, PerformedAlike
    <3> QED BY <3>3
  <2>2. CASE n + 1 \notin 1..Len(program)
    BY <2>2, LenProperties
  <2> QED BY <2>1, <2>2
<1>3. \A k \in Nat : k \in Good
  <2> HIDE DEF Good
  <2> QED BY <1>1, <1>2, NaturalInduction
<1> QED BY <1>3, LenProperties DEF A, B

\* What an observer hears: the entries of the calls so far, but for one that failed.
Heard(program, tx, live, k) ==
    LET heard == Len(live.observed)
    IN  /\ heard <= k /\ (~live.server.stopped => heard = k)
        /\ \A j \in 1..heard :
             live.observed[j] = Capture!EntryOf(program[j], Capture!Called, tx)

LEMMA LiveHears ==
    ASSUME NEW program \in Seq(CallsOf), NEW tx \in BOOLEAN
    PROVE  \A k \in 0..Len(program) :
             LET live == Capture!LiveTo(program, tx)[k]
             IN  ~live.renamed => Heard(program, tx, live, k)
<1> DEFINE L(k) == Capture!LiveTo(program, tx)[k]
           Holds(k) == ~L(k).renamed => Heard(program, tx, L(k), k)
           Good == {k \in Nat : k > Len(program) \/ Holds(k)}
<1>1. 0 \in Good
  <2>1. L(0).observed = <<>>
    BY LiveBegins
  <2>2. Heard(program, tx, L(0), 0)
    BY <2>1 DEF Heard
  <2> QED BY <2>2
<1>2. ASSUME NEW n \in Nat, n \in Good PROVE n + 1 \in Good
  <2>1. CASE n + 1 \in 1..Len(program)
    <3> DEFINE call == program[n + 1]
               live == L(n)
               after == L(n + 1)
               entry == Capture!EntryOf(call, live.names[call.server], tx)
    <3>1. call \in CallsOf /\ (n + 1) - 1 = n /\ n \in 0..Len(program)
      BY <2>1, ElementOfSeq, LenProperties
    <3>2. live \in LivesOf /\ Holds(n)
      BY <1>2, <3>1, LiveType
    <3>3. after = Capture!Performed(live, call, tx)
      BY <2>1, <3>1, LiveToSteps
    <3>4. ASSUME ~after.renamed PROVE Heard(program, tx, after, n + 1)
      <4> HIDE DEF call
      <4>1. CASE live.server.stopped
        <5> HIDE DEF live, after
        <5>1. after = live
          BY <3>1, <3>2, <3>3, <4>1, PerformedIs
        <5>2. Heard(program, tx, live, n)
          BY <3>2, <3>4, <5>1 DEF live
        <5>3. Len(live.observed) \in Nat
          BY <3>2, LenProperties DEF LivesOf
        <5> QED BY <4>1, <5>1, <5>2, <5>3 DEF Heard
      <4>2. CASE ~live.server.stopped
        <5> DEFINE was == live.observed
        <5> HIDE DEF live, after, entry, was
        <5>1. /\ entry \in EntriesOf /\ after.renamed = Renamed(live, call)
              /\ after.observed = IF after.server.stopped THEN was ELSE Append(was, entry)
          BY <3>1, <3>2, <3>3, <4>2, PerformedIs DEF entry, was
        <5>2. ~Renamed(live, call)
          BY <3>4, <5>1
        <5>3. entry = Capture!EntryOf(call, Capture!Called, tx)
          BY <3>1, <3>2, <5>2, CalledAsBefore DEF entry
        <5>4. ~live.renamed
          BY <5>2 DEF Renamed
        <5>5. Heard(program, tx, live, n)
          BY <3>2, <5>4 DEF live
        <5>6. /\ Len(was) = n /\ was \in Seq(EntriesOf)
              /\ \A j \in 1..n : was[j] = Capture!EntryOf(program[j], Capture!Called, tx)
          BY <3>2, <4>2, <5>5 DEF Heard, LivesOf, was
        <5>7. CASE after.server.stopped
          BY <5>1, <5>6, <5>7 DEF Heard
        <5>8. CASE ~after.server.stopped
          <6> DEFINE later == Append(was, entry)
          <6>1. Len(later) = n + 1 /\ (\A j \in 1..n : later[j] = was[j]) /\ later[n + 1] = entry
            BY <5>1, <5>6, AppendProperties
          <6> HIDE DEF later
          <6>2. after.observed = later
            BY <5>1, <5>8 DEF later
          <6>3. \A j \in 1..(n + 1) :
                  later[j] = Capture!EntryOf(program[j], Capture!Called, tx)
            BY <5>3, <5>6, <6>1 DEF call
          <6> QED BY <6>1, <6>2, <6>3 DEF Heard
        <5> QED BY <5>7, <5>8
      <4> QED BY <4>1, <4>2
    <3>5. Holds(n + 1)
      BY <3>4
    <3> QED BY <3>5
  <2>2. CASE n + 1 \notin 1..Len(program)
    BY <2>2, LenProperties
  <2> QED BY <2>1, <2>2
<1>3. \A k \in Nat : k \in Good
  <2> HIDE DEF Good
  <2> QED BY <1>1, <1>2, NaturalInduction
<1> QED BY <1>3, LenProperties


\* Under WithScript no handle is renamed, and an entry is what its call would send.
LEMMA CapturedIs ==
    ASSUME NEW program \in Seq(CallsOf)
    PROVE  LET captured == Capture!Captured(program)
           IN  /\ captured \in Seq(EntriesOf) /\ Len(captured) = Len(program)
               /\ \A k \in 1..Len(program) :
                    captured[k] = Capture!EntryOf(program[k], Capture!Called, FALSE)
<1> DEFINE N == Capture!NamesTo(program)
           called == [s \in Hosts |-> Capture!Called]
           captured == Capture!Captured(program)
           Good == {k \in Nat : k > Len(program) \/ N[k] = called}
<1>0. /\ N[0] = called
      /\ \A k \in 1..Len(program) : N[k] = N[k - 1]
  BY NamesToSteps DEF Capture!setIfApplied
<1>9. Len(program) \in Nat /\ DOMAIN program = 1..Len(program)
  BY LenProperties
<1> HIDE DEF N, called
<1>1. 0 \in Good
  BY <1>0
<1>2. ASSUME NEW n \in Nat, n \in Good PROVE n + 1 \in Good
  BY <1>0, <1>2, <1>9
<1>3. \A k \in Nat : k \in Good
  <2> HIDE DEF Good
  <2> QED BY <1>1, <1>2, NaturalInduction
<1>4. \A k \in 1..Len(program) : N[k - 1] = called
  BY <1>3, <1>9
<1>5. \A k \in 1..Len(program) : called[program[k].server] = Capture!Called
  <2> TAKE k \in 1..Len(program)
  <2>1. program[k].server \in Hosts
    BY ElementOfSeq DEF CallsOf
  <2> QED BY <2>1 DEF called
<1>6. captured = [k \in 1..Len(program) |->
                    Capture!EntryOf(program[k], N[k - 1][program[k].server], FALSE)]
  BY <1>9, Zenon DEF Capture!Captured, N
<1> HIDE DEF captured
<1>7. \A k \in 1..Len(program) :
        /\ captured[k] = Capture!EntryOf(program[k], Capture!Called, FALSE)
        /\ captured[k] \in EntriesOf
  <2> TAKE k \in 1..Len(program)
  <2>1. captured[k] = Capture!EntryOf(program[k], Capture!Called, FALSE)
    BY <1>4, <1>5, <1>6
  <2>2. program[k] \in CallsOf
    BY ElementOfSeq
  <2> QED BY <2>1, <2>2, CalledType, EntryType
<1>8. captured \in Seq(EntriesOf) /\ Len(captured) = Len(program)
  <2>1. DOMAIN captured = 1..Len(program) /\ captured \in [1..Len(program) -> EntriesOf]
    BY <1>6, <1>7
  <2>2. captured \in Seq(EntriesOf)
    BY <1>9, <2>1, IsASeq
  <2> QED BY <1>9, <2>1, <2>2, LenProperties
<1> QED BY <1>7, <1>8 DEF captured

\* After every turn of String's loop, its script does what the calls do so far, and is
\* where the loop has it.
Abreast(live, o, r, on) ==
    /\ o.script \in Seq(BatchesOf) /\ o.cur \in BaseNames \cup {NoBase}
    /\ r \in ReplaysOf /\ r.server = live.server
    /\ ~live.server.stopped => Ready(r, o) /\ r.on = on

LEMMA CallFollowed ==
    ASSUME NEW live \in LivesOf, NEW call \in CallsOf, ~Renamed(live, call),
           NEW o, NEW begin, NEW on, NEW opens \in BOOLEAN,
           Abreast(live, o, Played(o.script, begin), on), opens \/ on = call.server
    PROVE  LET after == Capture!Performed(live, call, FALSE)
               t == Capture!Rendered(o, Capture!EntryOf(call, Capture!Called, FALSE), opens)
           IN  Abreast(after, t, Played(t.script, begin), call.server)
<1> DEFINE entry == Capture!EntryOf(call, Capture!Called, FALSE)
           after == Capture!Performed(live, call, FALSE)
           t == Capture!Rendered(o, entry, opens)
           r == Played(o.script, begin)
           later == Played(t.script, begin)
<1>1. /\ o.script \in Seq(BatchesOf) /\ o.cur \in BaseNames \cup {NoBase}
      /\ r \in ReplaysOf /\ r.server = live.server
      /\ ~live.server.stopped => Ready(r, o) /\ r.on = on
  BY DEF Abreast
<1>2. entry \in EntriesOf /\ entry.Server = call.server
  <2>1. entry.Server = call.server
    BY DEF Capture!EntryOf
  <2> QED BY <2>1, CalledType, EntryType
<1>3. r.server.stopped \/ (Ready(r, o) /\ (opens \/ r.on = entry.Server))
  BY <1>1, <1>2
<1>4. Turned(r, entry, t, later)
  <2>1. r = Played(o.script, begin)
    OBVIOUS
  <2>2. o.script \in Seq(BatchesOf) /\ o.cur \in BaseNames \cup {NoBase}
    BY <1>1
  <2>3. r \in ReplaysOf
    BY <1>1
  <2>4. entry \in EntriesOf
    BY <1>2
  <2> HIDE DEF r, entry
  <2> QED BY <1>3, <2>1, <2>2, <2>3, <2>4, TurnPlayed
<1>5. t.cur \in BaseNames \cup {NoBase}
  BY <1>2, <1>4 DEF EntriesOf, Turned
<1> HIDE DEF r, t, later, after
<1>6. CASE live.server.stopped
  <2>1. after = live
    BY <1>6, PerformedIs DEF after
  <2>2. r.server.stopped
    BY <1>1, <1>6
  <2>3. later = r
    BY <1>4, <2>2 DEF Turned
  <2>4. Abreast(after, t, later, call.server)
    BY <1>1, <1>4, <1>5, <1>6, <2>1, <2>3 DEF Abreast, Turned
  <2> QED BY <2>4 DEF after, t, later
<1>7. CASE ~live.server.stopped
  <2>1. after.server = Sent(live.server, Capture!EntryOf(call, live.names[call.server], FALSE))
    BY <1>7, PerformedIs DEF after
  <2>2. after.server = Sent(live.server, entry)
    BY <2>1, CalledAsBefore
  <2>3. ~r.server.stopped
    BY <1>1, <1>7
  <2> HIDE DEF entry
  <2>4. /\ later.server = after.server
        /\ ~later.server.stopped => Ready(later, t) /\ later.on = call.server
    BY <1>1, <1>2, <1>4, <2>2, <2>3 DEF Turned
  <2>5. ~after.server.stopped => Ready(later, t) /\ later.on = call.server
    BY <2>4
  <2>6. Abreast(after, t, later, call.server)
    BY <1>4, <1>5, <2>4, <2>5 DEF Abreast, Turned
  <2> QED BY <2>6 DEF after, t, later, entry
<1> QED BY <1>6, <1>7

\* The loop says which server a batch is for whenever the session is on another.
LEMMA OpensInTime ==
    ASSUME NEW entries \in Seq(EntriesOf), NEW k \in 1..Len(entries), ~Capture!Opens(entries, k)
    PROVE  entries[k].Server = entries[IF k = 1 THEN 1 ELSE k - 1].Server
<1>1. DOMAIN entries = 1..Len(entries) /\ Len(entries) \in Nat
  BY LenProperties
<1>2. CASE \E i \in DOMAIN entries : entries[i].Server # entries[1].Server
  <2>1. k # 1 /\ entries[k].Server = entries[k - 1].Server
    BY <1>2 DEF Capture!Opens
  <2> QED BY <2>1
<1>3. CASE ~\E i \in DOMAIN entries : entries[i].Server # entries[1].Server
  <2>1. \A i \in 1..Len(entries) : entries[i].Server = entries[1].Server
    BY <1>1, <1>3
  <2>2. k \in 1..Len(entries) /\ (k # 1 => k - 1 \in 1..Len(entries))
    BY <1>1
  <2> QED BY <2>1, <2>2
<1> QED BY <1>2, <1>3

\* The server a program is on after k calls.
ServerAt(program, k) == program[IF k = 0 THEN 1 ELSE k].server

LEMMA ScriptFollows ==
    ASSUME NEW program \in Seq(CallsOf), Len(program) > 0
    PROVE  \A k \in 0..Len(program) :
             LET live == Capture!LiveTo(program, FALSE)[k]
                 o == Capture!StringTo(Capture!Captured(program))[k]
             IN  ~live.renamed =>
                   Abreast(live, o, Played(o.script, program[1].server), ServerAt(program, k))
<1> DEFINE C == Capture!Captured(program)
           L == Capture!LiveTo(program, FALSE)
           S == Capture!StringTo(C)
           begin == program[1].server
           Holds(k) == ~L[k].renamed =>
                         Abreast(L[k], S[k], Played(S[k].script, begin), ServerAt(program, k))
           Good == {k \in Nat : k > Len(program) \/ Holds(k)}
<1>1. /\ C \in Seq(EntriesOf) /\ Len(C) = Len(program)
      /\ \A k \in 1..Len(program) :
           C[k] = Capture!EntryOf(program[k], Capture!Called, FALSE)
  BY CapturedIs
<1>2. /\ L[0].server = Capture!Fresh
      /\ \A k \in 1..Len(program) : L[k] = Capture!Performed(L[k - 1], program[k], FALSE)
      /\ \A k \in 0..Len(program) : L[k] \in LivesOf
  BY LiveToSteps, LiveBegins, LiveType
<1> HIDE DEF C
<1>3. /\ S[0] = [script |-> <<>>, cur |-> NoBase]
      /\ \A k \in 1..Len(program) :
           S[k] = Capture!Rendered(S[k - 1], C[k], Capture!Opens(C, k))
  <2>1. /\ S[0] = [script |-> <<>>, cur |-> NoBase]
        /\ \A k \in 1..Len(C) : S[k] = Capture!Rendered(S[k - 1], C[k], Capture!Opens(C, k))
    BY <1>1, StringToSteps
  <2> QED BY <1>1, <2>1
<1>4. Len(program) \in Nat /\ \A k \in 1..Len(program) : program[k] \in CallsOf
  BY LenProperties, ElementOfSeq
<1> HIDE DEF L, S
<1>5. 0 \in Good
  <2>1. S[0].script = <<>> /\ S[0].cur = NoBase
    BY <1>3
  <2>2. Played(S[0].script, begin) = [server |-> Capture!Fresh, on |-> begin, at |-> 0]
    BY <2>1, PlayedNothing
  <2>3. begin \in Hosts /\ 0 \in Ids
    BY <1>4 DEF CallsOf, Ids
  <2>4. S[0].script \in Seq(BatchesOf)
    BY <2>1
  <2>5. Played(S[0].script, begin) \in ReplaysOf
    BY <2>2, <2>3, FreshType DEF ReplaysOf
  <2>6. Abreast(L[0], S[0], Played(S[0].script, begin), begin)
    BY <1>2, <2>1, <2>2, <2>4, <2>5 DEF Abreast, Ready, SessionAt
  <2>7. ServerAt(program, 0) = begin
    BY DEF ServerAt
  <2> QED BY <2>6, <2>7
<1>6. ASSUME NEW n \in Nat, n \in Good PROVE n + 1 \in Good
  <2>1. CASE n + 1 \in 1..Len(program)
    <3> DEFINE call == program[n + 1]
               opens == Capture!Opens(C, n + 1)
    <3>1. /\ (n + 1) - 1 = n /\ n \in 0..Len(program) /\ call \in CallsOf /\ L[n] \in LivesOf
          /\ ~(n > Len(program))
      BY <1>2, <1>4, <2>1
    <3>2. Holds(n)
      BY <1>6, <3>1
    <3>3. /\ L[n + 1] = Capture!Performed(L[n], call, FALSE)
          /\ C[n + 1] = Capture!EntryOf(call, Capture!Called, FALSE)
          /\ S[n + 1] = Capture!Rendered(S[n], C[n + 1], opens)
      BY <1>1, <1>2, <1>3, <2>1, <3>1
    <3>4. opens \in BOOLEAN
      BY DEF Capture!Opens
    <3>5. \A k \in 1..Len(program) : C[k].Server = program[k].server
      <4>1. \A c : Capture!EntryOf(c, Capture!Called, FALSE).Server = c.server
        <5> TAKE c
        <5> QED BY DEF Capture!EntryOf
      <4> QED BY <1>1, <4>1
    <3>6. opens \/ ServerAt(program, n) = call.server
      <4>1. SUFFICES ASSUME ~opens PROVE ServerAt(program, n) = call.server
        OBVIOUS
      <4>2. C[n + 1].Server = C[IF n + 1 = 1 THEN 1 ELSE (n + 1) - 1].Server
        BY <1>1, <2>1, <4>1, OpensInTime
      <4>3. (IF n + 1 = 1 THEN 1 ELSE (n + 1) - 1) = (IF n = 0 THEN 1 ELSE n)
        OBVIOUS
      <4>4. (IF n = 0 THEN 1 ELSE n) \in 1..Len(program)
        BY <1>4, <2>1
      <4> QED BY <2>1, <3>5, <4>2, <4>3, <4>4 DEF ServerAt
    <3>7. Holds(n + 1)
      <4>1. SUFFICES ASSUME ~L[n + 1].renamed
                     PROVE  Abreast(L[n + 1], S[n + 1], Played(S[n + 1].script, begin),
                                    ServerAt(program, n + 1))
        OBVIOUS
      <4>2. ServerAt(program, n + 1) = call.server
        BY DEF ServerAt
      <4> HIDE DEF call, opens, begin
      <4>3. CASE L[n].server.stopped
        <5>1. L[n + 1] = L[n]
          BY <3>1, <3>3, <4>3, PerformedIs
        <5>2. Abreast(L[n], S[n], Played(S[n].script, begin), ServerAt(program, n))
          BY <3>2, <4>1, <5>1
        <5> DEFINE r == Played(S[n].script, begin)
                   later == Played(S[n + 1].script, begin)
        <5>3. /\ S[n].script \in Seq(BatchesOf) /\ S[n].cur \in BaseNames \cup {NoBase}
              /\ r \in ReplaysOf /\ r.server = L[n].server
          BY <5>2 DEF Abreast
        <5>4. C[n + 1] \in EntriesOf
          BY <1>1, <2>1, ElementOfSeq
        <5>5. r.server.stopped
          BY <4>3, <5>3
        <5>6. Turned(r, C[n + 1], S[n + 1], later)
          <6>1. Turned(r, C[n + 1], Capture!Rendered(S[n], C[n + 1], opens),
                       Played(Capture!Rendered(S[n], C[n + 1], opens).script, begin))
            <7>1. r = Played(S[n].script, begin)
              OBVIOUS
            <7> HIDE DEF r
            <7> QED BY <3>4, <5>3, <5>4, <5>5, <7>1, TurnPlayed
          <6> QED BY <3>3, <6>1
        <5> HIDE DEF r, later
        <5>7. S[n + 1].cur \in BaseNames \cup {NoBase}
          BY <5>4, <5>6 DEF Turned, EntriesOf
        <5>8. Abreast(L[n + 1], S[n + 1], later, ServerAt(program, n + 1))
          BY <4>3, <5>1, <5>3, <5>5, <5>6, <5>7 DEF Turned, Abreast
        <5> QED BY <5>8 DEF later
      <4>4. CASE ~L[n].server.stopped
        <5>1. L[n + 1].renamed = Renamed(L[n], call)
          BY <3>1, <3>3, <4>4, PerformedIs
        <5>2. ~Renamed(L[n], call) /\ ~L[n].renamed
          BY <4>1, <5>1 DEF Renamed
        <5>3. Abreast(L[n], S[n], Played(S[n].script, begin), ServerAt(program, n))
          BY <3>2, <5>2
        <5>4. LET t == Capture!Rendered(S[n], Capture!EntryOf(call, Capture!Called, FALSE), opens)
              IN  Abreast(Capture!Performed(L[n], call, FALSE), t,
                          Played(t.script, begin), call.server)
          BY <3>1, <3>4, <3>6, <5>2, <5>3, CallFollowed
        <5> QED BY <3>3, <4>2, <5>4
      <4> QED BY <4>3, <4>4
    <3> QED BY <3>7
  <2>2. CASE n + 1 \notin 1..Len(program)
    BY <1>4, <2>2
  <2> QED BY <2>1, <2>2
<1>7. \A k \in Nat : k \in Good
  <2> HIDE DEF Good
  <2> QED BY <1>5, <1>6, NaturalInduction
<1>8. \A k \in 0..Len(program) : Holds(k)
  BY <1>4, <1>7
<1> QED BY <1>8, Zenon DEF C, L, S

\* What an observer hears of the calls that succeeded is what was captured of them.
LEMMA HeardAsCaptured ==
    ASSUME NEW program \in Seq(CallsOf), ~Capture!Live(program, FALSE).renamed
    PROVE  LET captured == Capture!Captured(program)
               outside == Capture!Live(program, FALSE)
               inside == Capture!Live(program, TRUE)
               heard == Len(outside.observed)
           IN  /\ outside.observed = SubSeq(captured, 1, heard)
               /\ \A k \in 1..heard :
                    inside.observed[k] = [captured[k] EXCEPT !.inTx = program[k].does = "replace"]
<1> DEFINE N == Len(program)
           captured == Capture!Captured(program)
           outside == Capture!Live(program, FALSE)
           inside == Capture!Live(program, TRUE)
           heard == Len(outside.observed)
<1>1. /\ captured \in Seq(EntriesOf) /\ Len(captured) = N
      /\ \A k \in 1..N : captured[k] = Capture!EntryOf(program[k], Capture!Called, FALSE)
  BY CapturedIs
<1>2. N \in Nat /\ N \in 0..N
  BY LenProperties
<1>3. outside \in LivesOf /\ inside \in LivesOf /\ DoneAlike(outside, inside)
  BY <1>2, LiveType, LiveAlike DEF Capture!Live
<1>4. Heard(program, FALSE, outside, N)
  BY <1>2, LiveHears DEF Capture!Live
<1>5. ~inside.renamed
  BY <1>3 DEF DoneAlike
<1>6. Heard(program, TRUE, inside, N)
  BY <1>2, <1>5, LiveHears DEF Capture!Live
<1> HIDE DEF outside, inside, captured, N
<1>7. /\ heard \in Nat /\ heard <= N /\ outside.observed \in Seq(EntriesOf)
      /\ \A k \in 1..heard :
           outside.observed[k] = Capture!EntryOf(program[k], Capture!Called, FALSE)
  <2>1. outside.observed \in Seq(EntriesOf)
    BY <1>3 DEF LivesOf
  <2> QED BY <1>4, <2>1, LenProperties DEF Heard
<1>8. \A k \in 1..heard : inside.observed[k] = Capture!EntryOf(program[k], Capture!Called, TRUE)
  BY <1>3, <1>6 DEF Heard, DoneAlike
<1>9. \A k \in 1..heard : captured[k] = Capture!EntryOf(program[k], Capture!Called, FALSE)
  <2> TAKE k \in 1..heard
  <2> HIDE DEF heard
  <2>1. k \in 1..N
    BY <1>2, <1>7
  <2> QED BY <1>1, <2>1
<1>10. outside.observed = SubSeq(captured, 1, heard)
  <2> DEFINE first == SubSeq(captured, 1, heard)
             all == outside.observed
  <2>1. first = [k \in 1..heard |-> captured[k]]
    BY <1>1, <1>2, <1>7
  <2>2. all = [k \in 1..heard |-> all[k]]
    BY <1>7, LenProperties
  <2> HIDE DEF first, all
  <2>3. \A k \in 1..heard : all[k] = captured[k]
    BY <1>7, <1>9 DEF all
  <2>4. all = first
    BY <2>1, <2>2, <2>3
  <2> QED BY <2>4 DEF all, first
<1>11. ASSUME NEW k \in 1..heard
       PROVE  inside.observed[k] = [captured[k] EXCEPT !.inTx = program[k].does = "replace"]
  <2> DEFINE is == program[k].does = "replace"
             sent == Capture!EntryOf(program[k], Capture!Called, TRUE)
             shown == Capture!EntryOf(program[k], Capture!Called, FALSE)
  <2>1. sent = [shown EXCEPT !.inTx = is]
    BY DEF Capture!EntryOf
  <2> QED BY <1>8, <1>9, <2>1, Zenon
<1> QED BY <1>10, <1>11 DEF outside, inside, captured

\* String: the script of a program of any length, on any number of servers, with any
\* databases and handles.
LEMMA ScriptRuns ==
    ASSUME NEW program \in Seq(CallsOf), Len(program) > 0
    PROVE  Capture!RunsAsCalled(program)
<1> SUFFICES ASSUME ~Capture!Live(program, FALSE).renamed
             PROVE  Capture!Replay(Capture!String(Capture!Captured(program)),
                                   program[1].server) = Capture!Live(program, FALSE).server
  BY HeardAsCaptured, Zenon DEF Capture!RunsAsCalled
<1> DEFINE C == Capture!Captured(program)
           N == Len(program)
           live == Capture!LiveTo(program, FALSE)[N]
           o == Capture!StringTo(C)[N]
           r == Played(o.script, program[1].server)
<1>1. N \in 0..N
  BY LenProperties
<1>2. Abreast(live, o, r, ServerAt(program, N))
  BY <1>1, ScriptFollows DEF Capture!Live
<1>3. Len(C) = N
  BY CapturedIs
<1>4. Capture!Replay(Capture!String(C), program[1].server) = r.server
  BY <1>3, Zenon DEF Capture!Replay, Capture!String, Played
<1>5. r.server = live.server
  BY <1>2 DEF Abreast
<1> QED BY <1>4, <1>5 DEF Capture!Live

\* ScriptCollector.String, in the words of the runs: the script of any program of calls
\* does what they do, up to the same failure, and is what an observer hears of them.
THEOREM EveryScriptRuns ==
    ASSUME input.of = "program" =>
             input.program \in Seq(CallsOf) /\ Len(input.program) > 0
    PROVE  ScriptRunsAsCalled
BY ScriptRuns DEF ScriptRunsAsCalled

-----------------------------------------------------------------------------
(* TableScript: the script of a table.                                         *)

\* What a script has left: a table, and the statements refused.
After(target, refused) == [target |-> target, refused |-> refused]

\* ExecutedTo is a recursive function, and there is one.
LEMMA ExecutedToExists ==
    ASSUME NEW table, NEW options, NEW blocks, NEW before, NEW T, NEW script \in Seq(T)
    PROVE  ExecutedTo(table, options, blocks, before, script) =
             [k \in 0..Len(script) |->
                IF k = 0 THEN before
                ELSE Executes(table, options, blocks, ExecutedTo(table, options, blocks, before, script)[k - 1], script[k])]
<1> DEFINE Begin == before
           Body(f, k) == IF k = 0 THEN Begin ELSE Executes(table, options, blocks, f[k - 1], script[k])
           Good == {m \in Nat : \E f : f = [k \in 0..m |-> Body(f, k)]}
<1> HIDE DEF Begin
<1>1. 0 \in Good
  <2> DEFINE f == [k \in 0..0 |-> Begin]
  <2>1. f = [k \in 0..0 |-> Body(f, k)]
    OBVIOUS
  <2> QED BY <2>1
<1>2. ASSUME NEW m \in Nat, m \in Good PROVE m + 1 \in Good
  <2>1. PICK f : f = [k \in 0..m |-> Body(f, k)]
    BY <1>2
  <2> DEFINE g == [k \in 0..(m + 1) |-> IF k \in 0..m THEN f[k] ELSE Body(f, k)]
  <2>2. ASSUME NEW k \in 0..(m + 1) PROVE g[k] = Body(g, k)
    <3>1. CASE k \in 0..m
      <4>1. f[k] = Body(f, k)
        BY <2>1, <3>1
      <4>2. k # 0 => k - 1 \in 0..m
        BY <3>1
      <4>3. k # 0 => g[k - 1] = f[k - 1]
        BY <4>2
      <4> QED BY <3>1, <4>1, <4>3
    <3>2. CASE k = m + 1
      <4>1. g[k - 1] = f[k - 1] /\ k \notin 0..m
        BY <3>2
      <4> QED BY <3>2, <4>1
    <3> QED BY <3>1, <3>2
  <2>3. g = [k \in 0..(m + 1) |-> Body(g, k)]
    <3> HIDE DEF Body
    <3> QED BY <2>2
  <2> HIDE DEF Body, g
  <2> QED BY <2>3
<1>3. \A m \in Nat : m \in Good
  <2> HIDE DEF Good
  <2> QED BY <1>1, <1>2, NaturalInduction
<1>4. \E f : f = [k \in 0..Len(script) |-> Body(f, k)]
  BY <1>3, LenProperties
<1> QED BY <1>4 DEF ExecutedTo, Begin

LEMMA ExecutedToSteps ==
    ASSUME NEW table, NEW options, NEW blocks, NEW before, NEW T, NEW script \in Seq(T)
    PROVE  /\ ExecutedTo(table, options, blocks, before, script)[0] = before
           /\ \A k \in 1..Len(script) :
                ExecutedTo(table, options, blocks, before, script)[k] = Executes(table, options, blocks, ExecutedTo(table, options, blocks, before, script)[k - 1], script[k])
<1> DEFINE f == ExecutedTo(table, options, blocks, before, script)
           Begin == before
<1> HIDE DEF Begin
<1>1. f = [k \in 0..Len(script) |-> IF k = 0 THEN Begin ELSE Executes(table, options, blocks, f[k - 1], script[k])]
  BY ExecutedToExists DEF Begin
<1> HIDE DEF f
<1>2. 0 \in 0..Len(script) /\ \A k \in 1..Len(script) : k \in 0..Len(script) /\ k # 0
  BY LenProperties
<1>3. f[0] = Begin /\ \A k \in 1..Len(script) : f[k] = Executes(table, options, blocks, f[k - 1], script[k])
  BY <1>1, <1>2, SMTT(30)
<1> QED BY <1>3 DEF f, Begin

\* AddsTo is a recursive function, and there is one.
LEMMA AddsToExists ==
    ASSUME NEW of, NEW T, NEW states \in Seq(T)
    PROVE  AddsTo(of, states) =
             [k \in 0..Len(states) |->
                IF k = 0 THEN <<>>
                ELSE AddsTo(of, states)[k - 1] \o AddsOne(of, k, states[k])]
<1> DEFINE Begin == <<>>
           Body(f, k) == IF k = 0 THEN Begin ELSE f[k - 1] \o AddsOne(of, k, states[k])
           Good == {m \in Nat : \E f : f = [k \in 0..m |-> Body(f, k)]}
<1> HIDE DEF Begin
<1>1. 0 \in Good
  <2> DEFINE f == [k \in 0..0 |-> Begin]
  <2>1. f = [k \in 0..0 |-> Body(f, k)]
    OBVIOUS
  <2> QED BY <2>1
<1>2. ASSUME NEW m \in Nat, m \in Good PROVE m + 1 \in Good
  <2>1. PICK f : f = [k \in 0..m |-> Body(f, k)]
    BY <1>2
  <2> DEFINE g == [k \in 0..(m + 1) |-> IF k \in 0..m THEN f[k] ELSE Body(f, k)]
  <2>2. ASSUME NEW k \in 0..(m + 1) PROVE g[k] = Body(g, k)
    <3>1. CASE k \in 0..m
      <4>1. f[k] = Body(f, k)
        BY <2>1, <3>1
      <4>2. k # 0 => k - 1 \in 0..m
        BY <3>1
      <4>3. k # 0 => g[k - 1] = f[k - 1]
        BY <4>2
      <4> QED BY <3>1, <4>1, <4>3
    <3>2. CASE k = m + 1
      <4>1. g[k - 1] = f[k - 1] /\ k \notin 0..m
        BY <3>2
      <4> QED BY <3>2, <4>1
    <3> QED BY <3>1, <3>2
  <2>3. g = [k \in 0..(m + 1) |-> Body(g, k)]
    <3> HIDE DEF Body
    <3> QED BY <2>2
  <2> HIDE DEF Body, g
  <2> QED BY <2>3
<1>3. \A m \in Nat : m \in Good
  <2> HIDE DEF Good
  <2> QED BY <1>1, <1>2, NaturalInduction
<1>4. \E f : f = [k \in 0..Len(states) |-> Body(f, k)]
  BY <1>3, LenProperties
<1> QED BY <1>4 DEF AddsTo, Begin

LEMMA AddsToSteps ==
    ASSUME NEW of, NEW T, NEW states \in Seq(T)
    PROVE  /\ AddsTo(of, states)[0] = <<>>
           /\ \A k \in 1..Len(states) :
                AddsTo(of, states)[k] = AddsTo(of, states)[k - 1] \o AddsOne(of, k, states[k])
<1> DEFINE f == AddsTo(of, states)
           Begin == <<>>
<1> HIDE DEF Begin
<1>1. f = [k \in 0..Len(states) |-> IF k = 0 THEN Begin ELSE f[k - 1] \o AddsOne(of, k, states[k])]
  BY AddsToExists, ZenonT(40) DEF Begin
<1> HIDE DEF f
<1>2. 0 \in 0..Len(states) /\ \A k \in 1..Len(states) : k \in 0..Len(states) /\ k # 0
  BY LenProperties
<1>3. f[0] = Begin /\ \A k \in 1..Len(states) : f[k] = f[k - 1] \o AddsOne(of, k, states[k])
  BY <1>1, <1>2
<1> QED BY <1>3 DEF f, Begin

\* A script of no statements leaves everything as it was.
LEMMA ExecutedNothing ==
    ASSUME NEW table, NEW options, NEW blocks, NEW before
    PROVE  Executed(table, options, blocks, before, <<>>) = before
<1> DEFINE none == <<>>
           any == {}
<1>1. none \in Seq(any)
  OBVIOUS
<1>3. Len(none) = 0
  OBVIOUS
<1> HIDE DEF none, any
<1>2. Executed(table, options, blocks, before, none) = before
  <2>1. ExecutedTo(table, options, blocks, before, none)[0] = before
    BY <1>1, ExecutedToSteps
  <2> QED BY <1>3, <2>1 DEF Executed
<1> QED BY <1>2 DEF none

\* A statement more is executed on what those before it left.
LEMMA ExecutedAppend ==
    ASSUME NEW table, NEW options, NEW blocks, NEW before,
           NEW T, NEW script \in Seq(T), NEW s \in T
    PROVE  Executed(table, options, blocks, before, Append(script, s)) =
             Executes(table, options, blocks,
                      Executed(table, options, blocks, before, script), s)
<1> DEFINE t == Append(script, s)
           N == Len(script)
           f == ExecutedTo(table, options, blocks, before, t)
           g == ExecutedTo(table, options, blocks, before, script)
           Good == {n \in Nat : n > N \/ f[n] = g[n]}
<1>0. /\ t \in Seq(T) /\ Len(t) = N + 1 /\ N \in Nat
      /\ \A n \in 1..N : t[n] = script[n]
      /\ t[N + 1] = s
  BY AppendProperties, LenProperties
<1> HIDE DEF t
<1>8. f[0] = before /\ \A k \in 1..Len(t) : f[k] = Executes(table, options, blocks, f[k - 1], t[k])
  BY <1>0, ExecutedToSteps
<1>9. g[0] = before /\ \A k \in 1..N : g[k] = Executes(table, options, blocks, g[k - 1], script[k])
  BY ExecutedToSteps
<1> HIDE DEF f, g
<1>1. 0 \in Good
  BY <1>8, <1>9
<1>2. ASSUME NEW n \in Nat, n \in Good PROVE n + 1 \in Good
  <2>1. CASE n + 1 \in 1..N
    <3>1. n + 1 \in 1..Len(t) /\ (n + 1) - 1 = n
      BY <1>0, <2>1
    <3>2. f[n] = g[n] /\ t[n + 1] = script[n + 1]
      BY <1>0, <1>2, <2>1
    <3>3. f[n + 1] = Executes(table, options, blocks, f[n], t[n + 1])
      BY <1>8, <3>1
    <3>4. g[n + 1] = Executes(table, options, blocks, g[n], script[n + 1])
      BY <1>9, <3>1, <2>1
    <3> QED BY <3>2, <3>3, <3>4
  <2>2. CASE n + 1 \notin 1..N
    BY <1>0, <2>2
  <2> QED BY <2>1, <2>2
<1>3. \A n \in Nat : n \in Good
  <2> HIDE DEF Good
  <2> QED BY <1>1, <1>2, NaturalInduction
<1>4. f[N] = g[N]
  BY <1>0, <1>3
<1>5. f[N + 1] = Executes(table, options, blocks, f[N], t[N + 1])
  <2>1. N + 1 \in 1..Len(t) /\ (N + 1) - 1 = N
    BY <1>0
  <2> QED BY <1>8, <2>1
<1>6. f[N + 1] = Executes(table, options, blocks, g[N], s)
  BY <1>0, <1>4, <1>5
<1> QED BY <1>0, <1>6 DEF Executed, f, g, t

\* And so are those of a second part of a script on what the first left.
LEMMA ExecutedJoined ==
    ASSUME NEW table, NEW options, NEW blocks, NEW before,
           NEW T, NEW p \in Seq(T), NEW q \in Seq(T)
    PROVE  Executed(table, options, blocks, before, p \o q) =
             Executed(table, options, blocks, Executed(table, options, blocks, before, p), q)
<1> DEFINE after == Executed(table, options, blocks, before, p)
           Good == {r \in Seq(T) : Executed(table, options, blocks, before, p \o r) =
                                     Executed(table, options, blocks, after, r)}
<1>1. <<>> \in Good
  <2>1. p \o <<>> = p /\ <<>> \in Seq(T)
    BY ConcatEmptySeq, EmptySeq
  <2>2. Executed(table, options, blocks, after, <<>>) = after
    BY ExecutedNothing
  <2> QED BY <2>1, <2>2
<1>2. ASSUME NEW r \in Seq(T), NEW s \in T, r \in Good PROVE Append(r, s) \in Good
  <2>1. p \o Append(r, s) = Append(p \o r, s) /\ p \o r \in Seq(T) /\ Append(r, s) \in Seq(T)
    OBVIOUS
  <2> DEFINE pr == p \o r
  <2>4. pr \in Seq(T) /\ s \in T
    OBVIOUS
  <2> HIDE DEF pr
  <2>5. Executed(table, options, blocks, before, Append(pr, s)) =
          Executes(table, options, blocks, Executed(table, options, blocks, before, pr), s)
    BY <2>4, ExecutedAppend
  <2>2. Executed(table, options, blocks, before, Append(p \o r, s)) =
          Executes(table, options, blocks, Executed(table, options, blocks, before, p \o r), s)
    BY <2>5 DEF pr
  <2>3. Executed(table, options, blocks, after, Append(r, s)) =
          Executes(table, options, blocks, Executed(table, options, blocks, after, r), s)
    BY ExecutedAppend
  <2> HIDE DEF after
  <2> QED BY <1>2, <2>1, <2>2, <2>3
<1>3. q \in Good
  <2> HIDE DEF Good
  <2> QED BY <1>1, <1>2, SequenceInduction
<1> QED BY <1>3

\* A script of one statement does what the statement does.
LEMMA ExecutedOne ==
    ASSUME NEW table, NEW options, NEW blocks, NEW before, NEW s
    PROVE  Executed(table, options, blocks, before, <<s>>) =
             Executes(table, options, blocks, before, s)
<1> DEFINE none == <<>>
           only == {s}
<1>1. none \in Seq(only) /\ s \in only
  OBVIOUS
<1>4. Append(none, s) = <<s>>
  OBVIOUS
<1>3. Executed(table, options, blocks, before, none) = before
  BY ExecutedNothing
<1> HIDE DEF none, only
<1>2. Executed(table, options, blocks, before, Append(none, s)) =
        Executes(table, options, blocks, Executed(table, options, blocks, before, none), s)
  BY <1>1, ExecutedAppend
<1> QED BY <1>2, <1>3, <1>4

\* A script of statements that each leave the target alone leaves it alone.
LEMMA ExecutedKeeps ==
    ASSUME NEW table, NEW options, NEW blocks, NEW target, NEW refused,
           NEW H,
           \A s \in H : \A r : \E also : Executes(table, options, blocks, After(target, r), s)
                                       = After(target, also),
           NEW script \in Seq(H)
    PROVE  \E also : Executed(table, options, blocks, After(target, refused), script)
                       = After(target, also)
<1> DEFINE Good == {q \in Seq(H) :
                      \E also : Executed(table, options, blocks, After(target, refused), q)
                                  = After(target, also)}
<1>1. <<>> \in Good
  <2>1. <<>> \in Seq(H)
    OBVIOUS
  <2> QED BY <2>1, ExecutedNothing
<1>2. ASSUME NEW q \in Seq(H), NEW s \in H, q \in Good PROVE Append(q, s) \in Good
  <2>1. PICK r : Executed(table, options, blocks, After(target, refused), q) = After(target, r)
    BY <1>2
  <2>2. Executed(table, options, blocks, After(target, refused), Append(q, s)) =
          Executes(table, options, blocks, After(target, r), s)
    BY <2>1, ExecutedAppend
  <2>3. Append(q, s) \in Seq(H)
    OBVIOUS
  <2> QED BY <2>2, <2>3
<1>3. script \in Good
  <2> HIDE DEF Good
  <2> QED BY <1>1, <1>2, SequenceInduction
<1> QED BY <1>3

-----------------------------------------------------------------------------
(* The parts of a table's script.                                              *)

EachOf(does, S) == {Step(does, n) : n \in S}

\* The statements of a longer list of indexes are one more.
LEMMA EachAppend ==
    ASSUME NEW does, NEW S, NEW q \in Seq(S), NEW n \in S
    PROVE  /\ Each(does, q) \in Seq(EachOf(does, S))
           /\ Each(does, Append(q, n)) = Append(Each(does, q), Step(does, n))
<1>1. /\ Len(q) \in Nat /\ DOMAIN q = 1..Len(q) /\ \A i \in 1..Len(q) : q[i] \in S
  BY LenProperties, ElementOfSeq
<1>2. Each(does, q) = [i \in 1..Len(q) |-> Step(does, q[i])]
  BY <1>1 DEF Each
<1>3. Each(does, q) \in Seq(EachOf(does, S)) /\ Len(Each(does, q)) = Len(q)
  BY <1>1, <1>2 DEF EachOf
<1> DEFINE t == Append(q, n)
<1>4. /\ t \in Seq(S) /\ Len(t) = Len(q) + 1 /\ DOMAIN t = 1..(Len(q) + 1)
      /\ \A i \in 1..Len(q) : t[i] = q[i]
      /\ t[Len(q) + 1] = n
  BY AppendProperties, LenProperties
<1> HIDE DEF t
<1>5. Each(does, t) = [i \in 1..(Len(q) + 1) |-> Step(does, t[i])]
  BY <1>4 DEF Each
<1> DEFINE e == Each(does, q)
           s == Step(does, n)
           H == {Step(does, m) : m \in S}
<1>6. e \in Seq(H) /\ Len(e) = Len(q) /\ s \in H
  BY <1>3 DEF EachOf
<1>7. \A i \in 1..Len(q) : e[i] = Step(does, t[i])
  BY <1>2, <1>4
<1>8. s = Step(does, t[Len(q) + 1])
  BY <1>4
<1> HIDE DEF e, s, H
<1>9. /\ Append(e, s) \in Seq(H) /\ Len(Append(e, s)) = Len(q) + 1
      /\ \A i \in 1..Len(q) : Append(e, s)[i] = e[i]
      /\ Append(e, s)[Len(q) + 1] = s
  BY <1>6, AppendProperties
<1>10. Append(e, s) = [i \in 1..(Len(q) + 1) |-> Append(e, s)[i]]
  <2> DEFINE x == Append(e, s)
  <2>1. x \in Seq(H) /\ Len(x) = Len(q) + 1
    BY <1>9
  <2> HIDE DEF x
  <2>2. x = [i \in 1..(Len(q) + 1) |-> x[i]]
    BY <2>1
  <2> QED BY <2>2 DEF x
<1>11. \A i \in 1..(Len(q) + 1) : Append(e, s)[i] = Step(does, t[i])
  BY <1>1, <1>7, <1>8, <1>9
<1>12. Each(does, t) = Append(e, s)
  BY <1>5, <1>10, <1>11
<1> QED BY <1>3, <1>12 DEF t, e, s

LEMMA EachNothing ==
    ASSUME NEW does
    PROVE  Each(does, <<>>) = <<>>
BY DEF Each

\* Where lists the numbers of the set.
LEMMA WhereType ==
    ASSUME NEW T, NEW indexes \in Seq(T), NEW S
    PROVE  Where(indexes, S) \in Seq(1..Len(indexes) \cap S)
<1> DEFINE ids == [i \in DOMAIN indexes |-> i]
<1>1. DOMAIN indexes = 1..Len(indexes) /\ Len(indexes) \in Nat
  BY LenProperties
<1>2. ids \in Seq(1..Len(indexes))
  BY <1>1
<1> HIDE DEF ids
<1>3. Only(ids, S) \in Seq(1..Len(indexes) \cap S)
  BY <1>2, OnlyType
<1> QED BY <1>3 DEF Where, ids

LEMMA EachType ==
    ASSUME NEW does, NEW T, NEW indexes \in Seq(T), NEW S
    PROVE  Each(does, Where(indexes, S)) \in Seq(EachOf(does, 1..Len(indexes) \cap S))
<1> DEFINE D == 1..Len(indexes) \cap S
           q == Where(indexes, S)
<1>1. q \in Seq(D)
  BY WhereType
<1> HIDE DEF D, q
<1>2. Len(q) \in Nat /\ DOMAIN q = 1..Len(q) /\ \A i \in 1..Len(q) : q[i] \in D
  BY <1>1, LenProperties, ElementOfSeq
<1>3. Each(does, q) = [i \in 1..Len(q) |-> Step(does, q[i])]
  BY <1>2 DEF Each
<1>4. Each(does, q) \in Seq(EachOf(does, D))
  BY <1>2, <1>3 DEF EachOf
<1> QED BY <1>4 DEF D, q

\* The states a script goes through that executes the numbers of a set in their order.
EachRun(table, options, blocks, does, N, S, st) ==
    \A n \in 1..N :
      st[n] = IF n \in S THEN Executes(table, options, blocks, st[n - 1], Step(does, n))
              ELSE st[n - 1]

\* A script that does the same to each of some indexes, in the order of their ids.
LEMMA EachExecuted ==
    ASSUME NEW table, NEW options, NEW blocks, NEW does,
           NEW T, NEW indexes \in Seq(T), NEW S, NEW st,
           EachRun(table, options, blocks, does, Len(indexes), S, st)
    PROVE  Executed(table, options, blocks, st[0], Each(does, Where(indexes, S)))
             = st[Len(indexes)]
<1> DEFINE ids == [i \in DOMAIN indexes |-> i]
           N == Len(indexes)
           only == OnlyTo(ids, S)
           Good == {n \in Nat : n > N \/
                      /\ only[n] \in Seq(Nat)
                      /\ Executed(table, options, blocks, st[0], Each(does, only[n])) = st[n]}
<1>0. DOMAIN indexes = 1..N /\ N \in Nat
  BY LenProperties
<1>1. ids \in Seq(Nat) /\ Len(ids) = N /\ \A i \in 1..N : ids[i] = i
  BY <1>0
<1> HIDE DEF ids
<1>2. only[0] = <<>> /\ \A n \in 1..N : only[n] = IF n \in S THEN Append(only[n - 1], n) ELSE only[n - 1]
  BY <1>1, OnlyToSteps
<1> HIDE DEF only
<1>3. 0 \in Good
  <2>1. only[0] \in Seq(Nat)
    BY <1>2
  <2>2. Executed(table, options, blocks, st[0], Each(does, only[0])) = st[0]
    BY <1>2, EachNothing, ExecutedNothing
  <2> QED BY <2>1, <2>2
<1>4. ASSUME NEW n \in Nat, n \in Good PROVE n + 1 \in Good
  <2>1. CASE n + 1 \in 1..N
    <3>1. /\ only[n] \in Seq(Nat) /\ (n + 1) - 1 = n
          /\ Executed(table, options, blocks, st[0], Each(does, only[n])) = st[n]
      BY <1>0, <1>4, <2>1
    <3>2. only[n + 1] = IF n + 1 \in S THEN Append(only[n], n + 1) ELSE only[n]
      BY <1>2, <2>1, <3>1
    <3>3. st[n + 1] = IF n + 1 \in S THEN Executes(table, options, blocks, st[n], Step(does, n + 1))
                      ELSE st[n]
      BY <2>1, <3>1 DEF EachRun
    <3>4. CASE n + 1 \in S
      <4>1. /\ Each(does, only[n]) \in Seq(EachOf(does, Nat))
            /\ Each(does, only[n + 1]) = Append(Each(does, only[n]), Step(does, n + 1))
        <5> DEFINE q == only[n]
                   m == n + 1
        <5>1. q \in Seq(Nat) /\ m \in Nat
          BY <3>1
        <5>2. only[n + 1] = Append(q, m)
          BY <3>2, <3>4
        <5> HIDE DEF q, m
        <5>3. /\ Each(does, q) \in Seq(EachOf(does, Nat))
              /\ Each(does, Append(q, m)) = Append(Each(does, q), Step(does, m))
          BY <5>1, EachAppend
        <5> QED BY <5>2, <5>3 DEF q, m
      <4>2. Step(does, n + 1) \in EachOf(does, Nat)
        BY DEF EachOf
      <4>3. Executed(table, options, blocks, st[0], Each(does, only[n + 1]))
              = Executes(table, options, blocks, st[n], Step(does, n + 1))
        BY <3>1, <4>1, <4>2, ExecutedAppend
      <4>4. only[n + 1] \in Seq(Nat)
        BY <3>1, <3>2
      <4> QED BY <3>3, <3>4, <4>3, <4>4
    <3>5. CASE n + 1 \notin S
      BY <3>1, <3>2, <3>3, <3>5
    <3> QED BY <3>4, <3>5
  <2>2. CASE n + 1 \notin 1..N
    BY <1>0, <2>2
  <2> QED BY <2>1, <2>2
<1>5. \A n \in Nat : n \in Good
  <2> HIDE DEF Good
  <2> QED BY <1>3, <1>4, NaturalInduction
<1>6. Executed(table, options, blocks, st[0], Each(does, only[N])) = st[N]
  BY <1>0, <1>5
<1> QED BY <1>1, <1>6 DEF Where, Only, only, ids

Off(states) == {n \in 1..Len(states) : states[n] = "disabled"}
AddsOf(of, D, off) ==
    {OfConstraint("add", of, n, "trusted") : n \in D}
    \cup {OfConstraint("add", of, n, "not trusted") : n \in D}
    \cup {OfConstraint("nocheck", of, n, "") : n \in off}

\* What adds one constraint adds it, and may disable it.
LEMMA AddsOneType ==
    ASSUME NEW of, NEW D, NEW off, NEW n \in D, NEW state, state = "disabled" => n \in off
    PROVE  AddsOne(of, n, state) \in Seq(AddsOf(of, D, off))
<1> DEFINE with == IF state = "trusted" THEN "trusted" ELSE "not trusted"
           add == OfConstraint("add", of, n, with)
           nocheck == OfConstraint("nocheck", of, n, "")
           rest == IF state = "disabled" THEN <<nocheck>> ELSE <<>>
           H == AddsOf(of, D, off)
<1>1. add \in H
  <2>1. with = "trusted" \/ with = "not trusted"
    OBVIOUS
  <2> HIDE DEF with
  <2> QED BY <2>1 DEF AddsOf
<1>2. state = "disabled" => nocheck \in H
  BY DEF AddsOf
<1> HIDE DEF H, add, nocheck
<1>3. <<add>> \in Seq(H)
  BY <1>1
<1>4. rest \in Seq(H)
  BY <1>2
<1> HIDE DEF rest
<1>5. <<add>> \o rest \in Seq(H)
  BY <1>3, <1>4
<1> QED BY <1>5 DEF AddsOne, H, rest, nocheck, add

\* And one that adds the constraints in theirs.
AddsRun(table, options, blocks, of, states, st) ==
    \A n \in 1..Len(states) :
      st[n] = Executed(table, options, blocks, st[n - 1], AddsOne(of, n, states[n]))

LEMMA AddsExecuted ==
    ASSUME NEW table, NEW options, NEW blocks, NEW of,
           NEW T, NEW states \in Seq(T), NEW st,
           AddsRun(table, options, blocks, of, states, st)
    PROVE  /\ Add(of, states) \in Seq(AddsOf(of, 1..Len(states), Off(states)))
           /\ Executed(table, options, blocks, st[0], Add(of, states)) = st[Len(states)]
<1> DEFINE N == Len(states)
           H == AddsOf(of, 1..Len(states), Off(states))
           adds == AddsTo(of, states)
           Good == {n \in Nat : n > N \/
                      /\ adds[n] \in Seq(H)
                      /\ Executed(table, options, blocks, st[0], adds[n]) = st[n]}
<1>0. N \in Nat
  BY LenProperties
<1>1. adds[0] = <<>> /\ \A n \in 1..N : adds[n] = adds[n - 1] \o AddsOne(of, n, states[n])
  BY AddsToSteps
<1>2. \A n \in 1..N : AddsOne(of, n, states[n]) \in Seq(H)
  <2> SUFFICES ASSUME NEW n \in 1..N PROVE AddsOne(of, n, states[n]) \in Seq(H)
    OBVIOUS
  <2>1. states[n] = "disabled" => n \in Off(states)
    BY DEF Off
  <2> QED BY <2>1, AddsOneType
<1> HIDE DEF adds, H
<1>3. 0 \in Good
  <2>1. Executed(table, options, blocks, st[0], <<>>) = st[0]
    BY ExecutedNothing
  <2>2. adds[0] \in Seq(H)
    BY <1>1
  <2> QED BY <1>1, <2>1, <2>2
<1>4. ASSUME NEW n \in Nat, n \in Good PROVE n + 1 \in Good
  <2>1. CASE n + 1 \in 1..N
    <3>1. /\ adds[n] \in Seq(H) /\ (n + 1) - 1 = n
          /\ Executed(table, options, blocks, st[0], adds[n]) = st[n]
      BY <1>0, <1>4, <2>1
    <3> DEFINE one == AddsOne(of, n + 1, states[n + 1])
    <3>2. adds[n + 1] = adds[n] \o one /\ one \in Seq(H)
      BY <1>1, <1>2, <2>1, <3>1
    <3>3. st[n + 1] = Executed(table, options, blocks, st[n], one)
      BY <2>1, <3>1 DEF AddsRun
    <3> HIDE DEF one
    <3>4. Executed(table, options, blocks, st[0], adds[n] \o one)
            = Executed(table, options, blocks, st[n], one)
      BY <3>1, <3>2, ExecutedJoined
    <3>5. adds[n + 1] \in Seq(H)
      BY <3>1, <3>2
    <3>6. Executed(table, options, blocks, st[0], adds[n + 1]) = st[n + 1]
      BY <3>2, <3>3, <3>4
    <3> QED BY <3>5, <3>6
  <2>2. CASE n + 1 \notin 1..N
    BY <1>0, <2>2
  <2> QED BY <2>1, <2>2
<1>5. \A n \in Nat : n \in Good
  <2> HIDE DEF Good
  <2> QED BY <1>3, <1>4, NaturalInduction
<1> QED BY <1>0, <1>5 DEF Add, adds, H

-----------------------------------------------------------------------------
(* A statement on a table as it is built.                                      *)

\* A table there may be: an XML index has a primary one, and what a disabled index
\* takes down with it is disabled too.
ConstraintStates == {"trusted", "not trusted", "disabled"}
Nonhypothetical(table) == DOMAIN table.indexes \ Kinds(table, {"hypothetical"})
TableAsRead(table) ==
    /\ table \in [indexes : Seq([kind : STRING, clustered : BOOLEAN, disabled : BOOLEAN]),
                  keys : Seq(ConstraintStates), checks : Seq(ConstraintStates),
                  filestream : BOOLEAN, versioned : BOOLEAN, settings : BOOLEAN]
    /\ Kinds(table, {"over xml"}) # {} => Kinds(table, {"xml"}) # {}
    /\ Disabled(table) \cap Clustered(table) # {} => Disabled(table) = Nonhypothetical(table)
    /\ Disabled(table) \cap Kinds(table, {"xml"}) # {} =>
         Kinds(table, {"over xml"}) \subseteq Disabled(table)

\* Truth values under a name, as a table holds them.
Yes == TRUE
No == FALSE

Standing(versioned, set, has, off, held) ==
    [there |-> TRUE, versioned |-> versioned, set |-> set, has |-> has, off |-> off, held |-> held]
Member(of, n, state) == [of |-> of, n |-> n, state |-> state]

\* A table there is, field by field.
LEMMA StandingIs ==
    ASSUME NEW versioned, NEW set, NEW has, NEW off, NEW held
    PROVE  /\ Standing(versioned, set, has, off, held).there
           /\ Standing(versioned, set, has, off, held).versioned = versioned
           /\ Standing(versioned, set, has, off, held).set = set
           /\ Standing(versioned, set, has, off, held).has = has
           /\ Standing(versioned, set, has, off, held).off = off
           /\ Standing(versioned, set, has, off, held).held = held
BY DEF Standing

\* And with one field changed.
LEMMA StandingHas ==
    ASSUME NEW versioned, NEW set, NEW has, NEW off, NEW held, NEW x
    PROVE  [Standing(versioned, set, has, off, held) EXCEPT !.has = x] = Standing(versioned, set, x, off, held)
<1> DEFINE there == TRUE
           t == [there |-> there, versioned |-> versioned, set |-> set,
                 has |-> has, off |-> off, held |-> held]
<1> HIDE DEF there
<1>1. [t EXCEPT !.has = x] = [there |-> there, versioned |-> versioned, set |-> set,
                           has |-> x, off |-> off, held |-> held]
  OBVIOUS
<1> QED BY <1>1 DEF Standing, there

LEMMA StandingOff ==
    ASSUME NEW versioned, NEW set, NEW has, NEW off, NEW held, NEW x
    PROVE  [Standing(versioned, set, has, off, held) EXCEPT !.off = x] = Standing(versioned, set, has, x, held)
<1> DEFINE there == TRUE
           t == [there |-> there, versioned |-> versioned, set |-> set,
                 has |-> has, off |-> off, held |-> held]
<1> HIDE DEF there
<1>1. [t EXCEPT !.off = x] = [there |-> there, versioned |-> versioned, set |-> set,
                           has |-> has, off |-> x, held |-> held]
  OBVIOUS
<1> QED BY <1>1 DEF Standing, there

LEMMA StandingHeld ==
    ASSUME NEW versioned, NEW set, NEW has, NEW off, NEW held, NEW x
    PROVE  [Standing(versioned, set, has, off, held) EXCEPT !.held = x] = Standing(versioned, set, has, off, x)
<1> DEFINE there == TRUE
           t == [there |-> there, versioned |-> versioned, set |-> set,
                 has |-> has, off |-> off, held |-> held]
<1> HIDE DEF there
<1>1. [t EXCEPT !.held = x] = [there |-> there, versioned |-> versioned, set |-> set,
                           has |-> has, off |-> off, held |-> x]
  OBVIOUS
<1> QED BY <1>1 DEF Standing, there

LEMMA StandingSet ==
    ASSUME NEW versioned, NEW set, NEW has, NEW off, NEW held, NEW x
    PROVE  [Standing(versioned, set, has, off, held) EXCEPT !.set = x] = Standing(versioned, x, has, off, held)
<1> DEFINE there == TRUE
           t == [there |-> there, versioned |-> versioned, set |-> set,
                 has |-> has, off |-> off, held |-> held]
<1> HIDE DEF there
<1>1. [t EXCEPT !.set = x] = [there |-> there, versioned |-> versioned, set |-> x,
                           has |-> has, off |-> off, held |-> held]
  OBVIOUS
<1> QED BY <1>1 DEF Standing, there

LEMMA StandingVersioned ==
    ASSUME NEW versioned, NEW set, NEW has, NEW off, NEW held, NEW x
    PROVE  [Standing(versioned, set, has, off, held) EXCEPT !.versioned = x] = Standing(x, set, has, off, held)
<1> DEFINE there == TRUE
           t == [there |-> there, versioned |-> versioned, set |-> set,
                 has |-> has, off |-> off, held |-> held]
<1> HIDE DEF there
<1>1. [t EXCEPT !.versioned = x] = [there |-> there, versioned |-> x, set |-> set,
                           has |-> has, off |-> off, held |-> held]
  OBVIOUS
<1> QED BY <1>1 DEF Standing, there

LEMMA AfterIs ==
    ASSUME NEW target, NEW refused
    PROVE  After(target, refused).target = target /\ After(target, refused).refused = refused
BY DEF After

\* A statement is left out where it is guarded and finds nothing to do, and done or
\* refused otherwise.
LEMMA ExecutesIs ==
    ASSUME NEW table, NEW options, NEW blocks, NEW target, NEW refused, NEW s
    PROVE  Executes(table, options, blocks, After(target, refused), s) =
             IF options.guarded /\ Skips(target, s) THEN After(target, refused)
             ELSE IF Allows(table, target, blocks, s) THEN After(Does(table, target, s), refused)
                  ELSE After(target, refused \cup {s.does})
<1> DEFINE b == After(target, refused)
<1>1. b.target = target /\ b.refused = refused
  BY AfterIs
<1> HIDE DEF b
<1>2. Executes(table, options, blocks, b, s) =
        IF options.guarded /\ Skips(target, s) THEN b
        ELSE IF Allows(table, target, blocks, s) THEN After(Does(table, target, s), refused)
             ELSE After(target, refused \cup {s.does})
  BY <1>1, Zenon DEF Executes, After
<1> QED BY <1>2 DEF b

\* The three things that can become of a statement.
LEMMA ExecutesDone ==
    ASSUME NEW table, NEW options, NEW blocks, NEW target, NEW refused, NEW s
    PROVE  ~Skips(target, s) /\ Allows(table, target, blocks, s) =>
             Executes(table, options, blocks, After(target, refused), s)
               = After(Does(table, target, s), refused)
<1> DEFINE e == Executes(table, options, blocks, After(target, refused), s)
           done == After(Does(table, target, s), refused)
           kept == After(target, refused)
           more == After(target, refused \cup {s.does})
<1>1. e = IF options.guarded /\ Skips(target, s) THEN kept
          ELSE IF Allows(table, target, blocks, s) THEN done ELSE more
  BY ExecutesIs
<1> HIDE DEF e, done, kept, more
<1>2. ~Skips(target, s) /\ Allows(table, target, blocks, s) => e = done
  BY <1>1, Zenon
<1> QED BY <1>2 DEF e, done, kept, more

LEMMA ExecutesRefused ==
    ASSUME NEW table, NEW options, NEW blocks, NEW target, NEW refused, NEW s
    PROVE  ~Allows(table, target, blocks, s) =>
             \/ Executes(table, options, blocks, After(target, refused), s)
                  = After(target, refused)
             \/ Executes(table, options, blocks, After(target, refused), s)
                  = After(target, refused \cup {s.does})
<1> DEFINE e == Executes(table, options, blocks, After(target, refused), s)
           done == After(Does(table, target, s), refused)
           kept == After(target, refused)
           more == After(target, refused \cup {s.does})
<1>1. e = IF options.guarded /\ Skips(target, s) THEN kept
          ELSE IF Allows(table, target, blocks, s) THEN done ELSE more
  BY ExecutesIs
<1> HIDE DEF e, done, kept, more
<1>2. ~Allows(table, target, blocks, s) => e = kept \/ e = more
  BY <1>1, Zenon
<1> QED BY <1>2 DEF e, done, kept, more

LEMMA ExecutesSkipped ==
    ASSUME NEW table, NEW options, NEW blocks, NEW target, NEW refused, NEW s
    PROVE  options.guarded /\ Skips(target, s) =>
             Executes(table, options, blocks, After(target, refused), s)
               = After(target, refused)
<1> DEFINE e == Executes(table, options, blocks, After(target, refused), s)
           done == After(Does(table, target, s), refused)
           kept == After(target, refused)
           more == After(target, refused \cup {s.does})
<1>1. e = IF options.guarded /\ Skips(target, s) THEN kept
          ELSE IF Allows(table, target, blocks, s) THEN done ELSE more
  BY ExecutesIs
<1> HIDE DEF e, done, kept, more
<1>2. options.guarded /\ Skips(target, s) => e = kept
  BY <1>1, Zenon
<1> QED BY <1>2 DEF e, done, kept, more

\* What a statement is of.
LEMMA StepIs ==
    ASSUME NEW does, NEW n
    PROVE  Step(does, n).does = does /\ Step(does, n).n = n
BY DEF Step

LEMMA OfConstraintIs ==
    ASSUME NEW does, NEW of, NEW n, NEW with
    PROVE  LET s == OfConstraint(does, of, n, with)
           IN  s.does = does /\ s.of = of /\ s.n = n /\ s.with = with
BY DEF OfConstraint

\* The numbers of indexes that the table has not, but has what they need.
Missing(table, has, S) ==
    /\ S \subseteq 1..Len(table.indexes) /\ S \cap has = {}
    /\ \A n \in S : table.indexes[n].kind = "over xml" => Kinds(table, {"xml"}) \cap has # {}

\* CREATE INDEX, of a table that is online and has not that one.
MissingOne(table, has, n) == Missing(table, has, {n})

\* An index the table has not, but has what it needs, is created.
LEMMA IndexDone ==
    ASSUME NEW table, NEW options, NEW blocks, NEW refused,
           NEW v, NEW set, NEW has, NEW held,
           NEW n, MissingOne(table, has, n)
    PROVE  Executes(table, options, blocks,
                    After(Standing(v, set, has, {}, held), refused), Step("index", n))
             = After(Standing(v, set, has \cup {n}, {}, held), refused)
<1> DEFINE none == {}
           t == Standing(v, set, has, none, held)
           s == Step("index", n)
           more == has \cup {n}
<1> HIDE DEF none, more
<1>1. t.there /\ t.has = has /\ t.off = none
  BY StandingIs
<1>2. [t EXCEPT !.has = more] = Standing(v, set, more, none, held)
  BY StandingHas
<1>3. s.does = "index" /\ s.n = n
  BY StepIs
<1> HIDE DEF t, s
<1>4. ~Skips(t, s)
  BY <1>1, <1>3 DEF Skips, Missing, MissingOne
<1>5. Allows(table, t, blocks, s)
  BY <1>1, <1>3, <1>4 DEF Allows, none, Missing, MissingOne
<1>6. Does(table, t, s) = [t EXCEPT !.has = more]
  BY <1>1, <1>3 DEF Does, more
<1>7. Executes(table, options, blocks, After(t, refused), s) = After(Does(table, t, s), refused)
  BY <1>4, <1>5, ExecutesDone
<1> QED BY <1>2, <1>6, <1>7 DEF t, s, none, more

\* ADD CONSTRAINT, likewise.
LEMMA AddDone ==
    ASSUME NEW table, NEW options, NEW blocks, NEW refused,
           NEW v, NEW set, NEW has, NEW held,
           NEW of, NEW n, NEW with, \A c \in held : ~(c.of = of /\ c.n = n)
    PROVE  Executes(table, options, blocks,
                    After(Standing(v, set, has, {}, held), refused),
                    OfConstraint("add", of, n, with))
             = After(Standing(v, set, has, {}, held \cup {Member(of, n, with)}), refused)
<1> DEFINE none == {}
           t == Standing(v, set, has, none, held)
           s == OfConstraint("add", of, n, with)
           more == held \cup {Member(of, n, with)}
<1> HIDE DEF none, more
<1>1. t.there /\ t.held = held /\ t.off = none
  BY StandingIs
<1>2. [t EXCEPT !.held = more] = Standing(v, set, has, none, more)
  BY StandingHeld
<1>3. s.does = "add" /\ s.n = n /\ s.of = of /\ s.with = with
  BY OfConstraintIs
<1> HIDE DEF t, s
<1>4. ~Skips(t, s)
  BY <1>1, <1>3 DEF Skips
<1>5. Allows(table, t, blocks, s)
  BY <1>1, <1>3, <1>4 DEF Allows, none
<1>6. Does(table, t, s) = [t EXCEPT !.held = more]
  BY <1>1, <1>3 DEF Does, Member, more
<1>7. Executes(table, options, blocks, After(t, refused), s) = After(Does(table, t, s), refused)
  BY <1>4, <1>5, ExecutesDone
<1> QED BY <1>2, <1>6, <1>7 DEF t, s, none, more

\* NOCHECK CONSTRAINT, of one.
Unchecked(of, n, held) ==
    {IF c.of = of /\ c.n = n THEN [c EXCEPT !.state = "disabled"] ELSE c : c \in held}

\* A constraint is disabled.
LEMMA NocheckDone ==
    ASSUME NEW table, NEW options, NEW blocks, NEW refused,
           NEW v, NEW set, NEW has, NEW off, NEW held, NEW of, NEW n, NEW with
    PROVE  Executes(table, options, blocks,
                    After(Standing(v, set, has, off, held), refused),
                    OfConstraint("nocheck", of, n, with))
             = After(Standing(v, set, has, off, Unchecked(of, n, held)), refused)
<1> DEFINE t == Standing(v, set, has, off, held)
           s == OfConstraint("nocheck", of, n, with)
           other == Unchecked(of, n, held)
<1>1. t.there /\ t.held = held
  BY StandingIs
<1>2. [t EXCEPT !.held = other] = Standing(v, set, has, off, other)
  BY StandingHeld
<1>3. s.does = "nocheck" /\ s.n = n /\ s.of = of
  BY OfConstraintIs
<1> HIDE DEF t, s
<1>4. ~Skips(t, s)
  BY <1>3 DEF Skips
<1>5. Allows(table, t, blocks, s)
  BY <1>1, <1>3 DEF Allows
<1>6. Does(table, t, s) = [t EXCEPT !.held = other]
  BY <1>1, <1>3 DEF Does, Unchecked
<1>7. Executes(table, options, blocks, After(t, refused), s) = After(Does(table, t, s), refused)
  BY <1>4, <1>5, ExecutesDone
<1> QED BY <1>2, <1>6, <1>7 DEF t, s

\* ALTER INDEX DISABLE, and SET.
LEMMA DisableDone ==
    ASSUME NEW table, NEW options, NEW blocks, NEW refused,
           NEW v, NEW set, NEW has, NEW off, NEW held, NEW n
    PROVE  Executes(table, options, blocks,
                    After(Standing(v, set, has, off, held), refused), Step("disable", n))
             = After(Standing(v, set, has, off \cup (TakesDown(table, n) \cap has), held), refused)
<1> DEFINE t == Standing(v, set, has, off, held)
           s == Step("disable", n)
           more == off \cup (TakesDown(table, n) \cap has)
<1>1. t.there /\ t.has = has /\ t.off = off
  BY StandingIs
<1>2. [t EXCEPT !.off = more] = Standing(v, set, has, more, held)
  BY StandingOff
<1>3. s.does = "disable" /\ s.n = n
  BY StepIs
<1> HIDE DEF t, s
<1>4. ~Skips(t, s)
  BY <1>3 DEF Skips
<1>5. Allows(table, t, blocks, s)
  BY <1>1, <1>3 DEF Allows
<1>6. Does(table, t, s) = [t EXCEPT !.off = more]
  BY <1>1, <1>3 DEF Does
<1>7. Executes(table, options, blocks, After(t, refused), s) = After(Does(table, t, s), refused)
  BY <1>4, <1>5, ExecutesDone
<1> QED BY <1>2, <1>6, <1>7 DEF t, s

\* What is set of a table is set.
LEMMA SetDone ==
    ASSUME NEW table, NEW options, NEW blocks, NEW refused,
           NEW v, NEW set, NEW has, NEW off, NEW held
    PROVE  Executes(table, options, blocks,
                    After(Standing(v, set, has, off, held), refused), Step("set", 0))
             = After(Standing(v, Yes, has, off, held), refused)
<1> DEFINE t == Standing(v, set, has, off, held)
           s == Step("set", 0)
<1>1. t.there
  BY StandingIs
<1>2. [t EXCEPT !.set = Yes] = Standing(v, Yes, has, off, held)
  BY StandingSet
<1>3. s.does = "set"
  BY StepIs
<1> HIDE DEF t, s
<1>4. ~Skips(t, s)
  BY <1>3 DEF Skips
<1>5. Allows(table, t, blocks, s)
  BY <1>1, <1>3 DEF Allows
<1>6. Does(table, t, s) = [t EXCEPT !.set = Yes]
  BY <1>3 DEF Does, Yes
<1>7. Executes(table, options, blocks, After(t, refused), s) = After(Does(table, t, s), refused)
  BY <1>4, <1>5, ExecutesDone
<1> QED BY <1>2, <1>6, <1>7 DEF t, s

-----------------------------------------------------------------------------
(* What the parts of the script leave of a table as it is built.               *)

\* The indexes of a list, none of which the table has yet, are all created.
LEMMA IndexesDone ==
    ASSUME NEW table, TableAsRead(table), NEW options, NEW blocks, NEW refused,
           NEW v, NEW set, NEW has, NEW held, NEW S, Missing(table, has, S)
    PROVE  Executed(table, options, blocks, After(Standing(v, set, has, {}, held), refused),
                    Each("index", Where(table.indexes, S)))
             = After(Standing(v, set, has \cup S, {}, held), refused)
<1> DEFINE N == Len(table.indexes)
           Has(n) == has \cup (S \cap 1..n)
           st == [n \in 0..N |-> After(Standing(v, set, Has(n), {}, held), refused)]
           T == [kind : STRING, clustered : BOOLEAN, disabled : BOOLEAN]
<1>0. table.indexes \in Seq(T) /\ N \in Nat
  BY LenProperties DEF TableAsRead
<1>7. N \in Nat
  BY <1>0
<1>9. S \subseteq 1..N
  BY DEF Missing
<1> HIDE DEF N, T
<1>1. ASSUME NEW n \in 1..N
      PROVE  st[n] = IF n \in S THEN Executes(table, options, blocks, st[n - 1], Step("index", n))
                     ELSE st[n - 1]
  <2> DEFINE had == Has(n - 1)
             now1 == Has(n)
  <2>1. 1..n = 1..(n - 1) \cup {n} /\ n \notin 1..(n - 1)
    BY <1>0
  <2>2. ASSUME n \in S
        PROVE  /\ now1 = had \cup {n}
               /\ n \notin had
               /\ table.indexes[n].kind = "over xml" => Kinds(table, {"xml"}) \cap had # {}
    BY <2>1, <2>2 DEF Missing
  <2>3. n \notin S => now1 = had
    BY <2>1
  <2>4. /\ st[n] = After(Standing(v, set, now1, {}, held), refused)
        /\ st[n - 1] = After(Standing(v, set, had, {}, held), refused)
    BY <1>0
  <2> HIDE DEF st, had, now1
  <2>5. ASSUME n \in S
        PROVE  Executes(table, options, blocks, After(Standing(v, set, had, {}, held), refused),
                        Step("index", n))
                 = After(Standing(v, set, had \cup {n}, {}, held), refused)
    <3>1. MissingOne(table, had, n)
      BY <1>9, <2>2, <2>5 DEF MissingOne, Missing, N
    <3> QED BY <3>1, IndexDone
  <2> QED BY <2>2, <2>3, <2>4, <2>5
<1>2. st[0] = After(Standing(v, set, has, {}, held), refused)
  <2>1. Has(0) = has /\ 0 \in 0..N
    BY <1>0
  <2> QED BY <2>1
<1>3. st[N] = After(Standing(v, set, has \cup S, {}, held), refused)
  <2>1. S \cap 1..N = S
    BY <1>9
  <2>2. N \in 0..N
    BY <1>7
  <2> QED BY <2>1, <2>2
<1> HIDE DEF st
<1>4. Executed(table, options, blocks, st[0], Each("index", Where(table.indexes, S))) = st[N]
  <2>1. EachRun(table, options, blocks, "index", N, S, st)
    BY <1>1 DEF EachRun
  <2> QED BY <1>0, <2>1, EachExecuted DEF N
<1> QED BY <1>2, <1>3, <1>4

\* Disabling the constraint that was just added disables that one only.
LEMMA UncheckedIs ==
    ASSUME NEW of, NEW n, NEW state, NEW held, \A c \in held : ~(c.of = of /\ c.n = n)
    PROVE  Unchecked(of, n, held \cup {Member(of, n, state)}) = held \cup {Member(of, n, "disabled")}
<1> DEFINE m == Member(of, n, state)
           f(c) == IF c.of = of /\ c.n = n THEN [c EXCEPT !.state = "disabled"] ELSE c
<1>1. f(m) = Member(of, n, "disabled")
  BY DEF Member
<1>2. \A c \in held : f(c) = c
  OBVIOUS
<1>3. Unchecked(of, n, held \cup {m}) = {f(c) : c \in held \cup {m}}
  BY DEF Unchecked
<1> HIDE DEF f, m
<1>4. {f(c) : c \in held \cup {m}} = held \cup {f(m)}
  BY <1>2
<1> QED BY <1>1, <1>3, <1>4 DEF m

\* One constraint is added, and is as it was.
LEMMA ConstraintDone ==
    ASSUME NEW table, NEW options, NEW blocks, NEW refused, NEW v, NEW set, NEW has, NEW held,
           NEW of, NEW n, NEW state \in ConstraintStates, \A c \in held : ~(c.of = of /\ c.n = n)
    PROVE  Executed(table, options, blocks, After(Standing(v, set, has, {}, held), refused),
                    AddsOne(of, n, state))
             = After(Standing(v, set, has, {}, held \cup {Member(of, n, state)}), refused)
<1> DEFINE with == IF state = "trusted" THEN "trusted" ELSE "not trusted"
           add == OfConstraint("add", of, n, with)
           none == ""
           nocheck == OfConstraint("nocheck", of, n, none)
           rest == IF state = "disabled" THEN <<nocheck>> ELSE <<>>
           T == {add, nocheck}
           before == After(Standing(v, set, has, {}, held), refused)
           added == held \cup {Member(of, n, with)}
           between == After(Standing(v, set, has, {}, added), refused)
<1>1. Executes(table, options, blocks, before, add) = between
  <2> HIDE DEF with
  <2> QED BY AddDone
<1>2. Executes(table, options, blocks, between, nocheck)
        = After(Standing(v, set, has, {}, Unchecked(of, n, added)), refused)
  <2> DEFINE off == {}
  <2> HIDE DEF with, added, none, off
  <2>1. Executes(table, options, blocks, After(Standing(v, set, has, off, added), refused), nocheck)
          = After(Standing(v, set, has, off, Unchecked(of, n, added)), refused)
    BY NocheckDone
  <2> QED BY <2>1 DEF off
<1>3. Unchecked(of, n, added) = held \cup {Member(of, n, "disabled")}
  <2> HIDE DEF with
  <2> QED BY UncheckedIs
<1>4. AddsOne(of, n, state) = <<add>> \o rest
  BY DEF AddsOne
<1>5. state # "disabled" => with = state
  BY DEF ConstraintStates
<1> HIDE DEF with, add, nocheck, before, between
<1>10. add \in T /\ nocheck \in T
  OBVIOUS
<1> HIDE DEF T
<1>6. <<add>> \in Seq(T) /\ rest \in Seq(T)
  BY <1>10
<1>7. Executed(table, options, blocks, before, <<add>>) = between
  BY <1>1, ExecutedOne
<1>8. CASE state = "disabled"
  <2>1. rest = <<nocheck>>
    BY <1>8
  <2> HIDE DEF rest
  <2>2. Executed(table, options, blocks, before, <<add>> \o rest)
          = Executed(table, options, blocks, between, rest)
    <3> DEFINE p == <<add>>
    <3>1. p \in Seq(T) /\ rest \in Seq(T) /\ Executed(table, options, blocks, before, p) = between
      BY <1>6, <1>7
    <3> HIDE DEF p
    <3>2. Executed(table, options, blocks, before, p \o rest)
            = Executed(table, options, blocks, between, rest)
      BY <3>1, ExecutedJoined
    <3> QED BY <3>2 DEF p
  <2>3. Executed(table, options, blocks, between, <<nocheck>>)
          = Executes(table, options, blocks, between, nocheck)
    BY ExecutedOne
  <2>4. Executed(table, options, blocks, before, <<add>> \o rest)
          = After(Standing(v, set, has, {}, Unchecked(of, n, added)), refused)
    BY <1>2, <2>1, <2>2, <2>3
  <2> HIDE DEF added
  <2> QED BY <1>3, <1>4, <1>8, <2>4 DEF before
<1>9. CASE state # "disabled"
  <2>1. rest = <<>> /\ <<add>> \o rest = <<add>>
    BY <1>9
  <2>2. Executed(table, options, blocks, before, AddsOne(of, n, state)) = between
    BY <1>4, <1>7, <2>1
  <2>3. between = After(Standing(v, set, has, {}, held \cup {Member(of, n, state)}), refused)
    BY <1>5, <1>9 DEF between
  <2> QED BY <2>2, <2>3 DEF before
<1> QED BY <1>8, <1>9

\* All the constraints of one kind are added, each as it was.
LEMMA ConstraintsDone ==
    ASSUME NEW table, NEW options, NEW blocks, NEW refused, NEW v, NEW set, NEW has, NEW held,
           NEW of, NEW states \in Seq(ConstraintStates), \A c \in held : c.of # of
    PROVE  /\ Add(of, states) \in Seq(AddsOf(of, 1..Len(states), Off(states)))
           /\ Executed(table, options, blocks, After(Standing(v, set, has, {}, held), refused),
                       Add(of, states))
                = After(Standing(v, set, has, {}, held \cup Constraints(of, states)), refused)
<1> DEFINE N == Len(states)
           Held(n) == held \cup {Member(of, m, states[m]) : m \in 1..n}
           st == [n \in 0..N |-> After(Standing(v, set, has, {}, Held(n)), refused)]
<1>0. N \in Nat /\ DOMAIN states = 1..N /\ \A n \in 1..N : states[n] \in ConstraintStates
  BY LenProperties, ElementOfSeq
<1>1. ASSUME NEW n \in 1..N
      PROVE  st[n] = Executed(table, options, blocks, st[n - 1], AddsOne(of, n, states[n]))
  <2> DEFINE had == Held(n - 1)
             now1 == Held(n)
  <2>1. ASSUME NEW c \in had PROVE ~(c.of = of /\ c.n = n)
    <3>1. ASSUME NEW m \in 1..(n - 1) PROVE Member(of, m, states[m]).n # n
      BY <1>0 DEF Member
    <3> QED BY <3>1
  <2>2. now1 = had \cup {Member(of, n, states[n])}
    <3>1. 1..n = 1..(n - 1) \cup {n}
      BY <1>0
    <3> QED BY <3>1
  <2>3. /\ st[n] = After(Standing(v, set, has, {}, now1), refused)
        /\ st[n - 1] = After(Standing(v, set, has, {}, had), refused)
    BY <1>0
  <2>4. states[n] \in ConstraintStates
    BY <1>0
  <2> HIDE DEF st, had, now1
  <2>5. Executed(table, options, blocks, After(Standing(v, set, has, {}, had), refused),
                 AddsOne(of, n, states[n]))
          = After(Standing(v, set, has, {}, had \cup {Member(of, n, states[n])}), refused)
    <3> DEFINE state == states[n]
    <3>1. state \in ConstraintStates
      BY <2>4
    <3> HIDE DEF state
    <3>2. Executed(table, options, blocks, After(Standing(v, set, has, {}, had), refused),
                   AddsOne(of, n, state))
            = After(Standing(v, set, has, {}, had \cup {Member(of, n, state)}), refused)
      BY <2>1, <3>1, ConstraintDone
    <3> QED BY <3>2 DEF state
  <2> QED BY <2>2, <2>3, <2>5
<1>2. st[0] = After(Standing(v, set, has, {}, held), refused)
  <2>1. Held(0) = held /\ 0 \in 0..N
    BY <1>0
  <2> QED BY <2>1
<1>3. st[N] = After(Standing(v, set, has, {}, held \cup Constraints(of, states)), refused)
  <2>1. Held(N) = held \cup Constraints(of, states) /\ N \in 0..N
    BY <1>0 DEF Constraints, Member
  <2> QED BY <2>1
<1> HIDE DEF st
<1>4. /\ Add(of, states) \in Seq(AddsOf(of, 1..Len(states), Off(states)))
      /\ Executed(table, options, blocks, st[0], Add(of, states)) = st[N]
  <2>1. AddsRun(table, options, blocks, of, states, st)
    BY <1>1 DEF AddsRun
  <2> QED BY <2>1, AddsExecuted
<1> QED BY <1>2, <1>3, <1>4

\* What takes an index down takes down only what is disabled.
LEMMA TakenDown ==
    ASSUME NEW table, TableAsRead(table), NEW n \in Disabled(table)
    PROVE  /\ n \in TakesDown(table, n)
           /\ TakesDown(table, n) \cap Nonhypothetical(table) \subseteq Disabled(table)
<1>1. n \in DOMAIN table.indexes /\ Disabled(table) \subseteq Nonhypothetical(table)
  BY DEF Disabled, Nonhypothetical
<1>2. CASE n \in Clustered(table)
  <2>1. Disabled(table) = Nonhypothetical(table)
    BY <1>2 DEF TableAsRead
  <2> QED BY <2>1 DEF TakesDown
<1>3. CASE n \notin Clustered(table) /\ table.indexes[n].kind = "xml"
  <2>1. n \in Kinds(table, {"xml"})
    BY <1>1, <1>3 DEF Kinds
  <2>2. Kinds(table, {"over xml"}) \subseteq Disabled(table)
    BY <2>1 DEF TableAsRead
  <2> QED BY <1>3, <2>2 DEF TakesDown
<1>4. CASE n \notin Clustered(table) /\ table.indexes[n].kind # "xml"
  BY <1>4 DEF TakesDown
<1> QED BY <1>2, <1>3, <1>4

\* All the disabled indexes are disabled, and no other, whatever each takes down.
LEMMA DisablesDone ==
    ASSUME NEW table, TableAsRead(table), NEW options, NEW blocks, NEW refused,
           NEW v, NEW set, NEW held
    PROVE  Executed(table, options, blocks,
                    After(Standing(v, set, Nonhypothetical(table), {}, held), refused),
                    Each("disable", Where(table.indexes, Disabled(table))))
             = After(Standing(v, set, Nonhypothetical(table), Disabled(table), held), refused)
<1> DEFINE N == Len(table.indexes)
           S == Disabled(table)
           has == Nonhypothetical(table)
           Down(n) == UNION {TakesDown(table, m) \cap has : m \in S \cap 1..n}
           st == [n \in 0..N |-> After(Standing(v, set, has, Down(n), held), refused)]
           T == [kind : STRING, clustered : BOOLEAN, disabled : BOOLEAN]
<1>0. table.indexes \in Seq(T) /\ N \in Nat /\ DOMAIN table.indexes = 1..N
  BY LenProperties DEF TableAsRead
<1>9. S \subseteq 1..N /\ S \subseteq has
  BY <1>0 DEF Disabled, Nonhypothetical
<1>8. \A m \in S : m \in TakesDown(table, m) /\ TakesDown(table, m) \cap has \subseteq S
  BY TakenDown
<1> HIDE DEF T, has, S
<1>1. ASSUME NEW n \in 1..N
      PROVE  st[n] = IF n \in S THEN Executes(table, options, blocks, st[n - 1], Step("disable", n))
                     ELSE st[n - 1]
  <2> DEFINE had == Down(n - 1)
             now1 == Down(n)
  <2>1. 1..n = 1..(n - 1) \cup {n}
    BY <1>0
  <2>2. n \in S => now1 = had \cup (TakesDown(table, n) \cap has)
    BY <2>1
  <2>3. n \notin S => now1 = had
    <3>1. n \notin S => S \cap 1..n = S \cap 1..(n - 1)
      BY <2>1
    <3> QED BY <3>1
  <2>4. /\ st[n] = After(Standing(v, set, has, now1, held), refused)
        /\ st[n - 1] = After(Standing(v, set, has, had, held), refused)
    BY <1>0
  <2> HIDE DEF st, had, now1
  <2>5. Executes(table, options, blocks, After(Standing(v, set, has, had, held), refused),
                 Step("disable", n))
          = After(Standing(v, set, has, had \cup (TakesDown(table, n) \cap has), held), refused)
    BY DisableDone
  <2> QED BY <2>2, <2>3, <2>4, <2>5
<1>2. st[0] = After(Standing(v, set, has, {}, held), refused)
  <2>1. Down(0) = {} /\ 0 \in 0..N
    BY <1>0
  <2> QED BY <2>1
<1>3. st[N] = After(Standing(v, set, has, S, held), refused)
  <2>1. Down(N) = S /\ N \in 0..N
    <3>1. S \cap 1..N = S
      BY <1>9
    <3>2. UNION {TakesDown(table, m) \cap has : m \in S} = S
      BY <1>8, <1>9
    <3> QED BY <1>0, <3>1, <3>2
  <2> QED BY <2>1
<1> HIDE DEF st
<1>4. Executed(table, options, blocks, st[0], Each("disable", Where(table.indexes, S))) = st[N]
  <2>1. EachRun(table, options, blocks, "disable", N, S, st)
    BY <1>1 DEF EachRun
  <2> QED BY <1>0, <2>1, EachExecuted
<1> QED BY <1>2, <1>3, <1>4 DEF has, S

-----------------------------------------------------------------------------
(* The script of a table.                                                      *)

\* The statements writeTableDependents makes of a table.
Dependents(table) ==
    EachOf("index", Nonhypothetical(table)) \cup EachOf("disable", Disabled(table))
    \cup AddsOf("key", 1..Len(table.keys), Off(table.keys))
    \cup AddsOf("check", 1..Len(table.checks), Off(table.checks))

LEMMA SeqOfMore ==
    ASSUME NEW A, NEW B, A \subseteq B, NEW s \in Seq(A)
    PROVE  s \in Seq(B)
OBVIOUS

\* Each constraint of a table, and the lists of them.
LEMMA TableParts ==
    ASSUME NEW table, TableAsRead(table)
    PROVE  /\ table.indexes \in Seq([kind : STRING, clustered : BOOLEAN, disabled : BOOLEAN])
           /\ DOMAIN table.indexes = 1..Len(table.indexes)
           /\ table.keys \in Seq(ConstraintStates)
           /\ table.checks \in Seq(ConstraintStates)
           /\ Nonhypothetical(table) \subseteq 1..Len(table.indexes)
           /\ Disabled(table) \subseteq Nonhypothetical(table)
<1>1. table.indexes \in Seq([kind : STRING, clustered : BOOLEAN, disabled : BOOLEAN])
  BY DEF TableAsRead
<1>2. table.keys \in Seq(ConstraintStates) /\ table.checks \in Seq(ConstraintStates)
  BY DEF TableAsRead
<1>3. DOMAIN table.indexes = 1..Len(table.indexes)
  BY <1>1, LenProperties
<1> QED BY <1>1, <1>2, <1>3 DEF Nonhypothetical, Disabled

\* The two lists of indexes that are created, and what is inline.
PlainIndexes(table) ==
    DOMAIN table.indexes \ (Inline(table) \cup Kinds(table, {"hypothetical", "over xml"}))

\* The two lists of indexes and what is inline make up all of them; an index over an
\* XML index comes after it.
LEMMA IndexesSplit ==
    ASSUME NEW table, TableAsRead(table)
    PROVE  /\ Missing(table, Inline(table), PlainIndexes(table))
           /\ Missing(table, Inline(table) \cup PlainIndexes(table), Kinds(table, {"over xml"}))
           /\ Inline(table) \cup PlainIndexes(table) \cup Kinds(table, {"over xml"}) = Nonhypothetical(table)
<1> DEFINE inlineKinds == {"key"} \cup IF table.filestream THEN {"unique"} ELSE {}
           D == DOMAIN table.indexes
<1>1. Inline(table) = {i \in D : table.indexes[i].kind \in inlineKinds}
  BY DEF Inline, Kinds
<1>2. "xml" \notin inlineKinds /\ "over xml" \notin inlineKinds /\ "hypothetical" \notin inlineKinds
  OBVIOUS
<1> HIDE DEF inlineKinds
<1>3. D = 1..Len(table.indexes)
  BY TableParts
<1> HIDE DEF D
<1>4. /\ Kinds(table, {"over xml"}) = {i \in D : table.indexes[i].kind = "over xml"}
      /\ Kinds(table, {"xml"}) = {i \in D : table.indexes[i].kind = "xml"}
      /\ Kinds(table, {"hypothetical"}) = {i \in D : table.indexes[i].kind = "hypothetical"}
      /\ Kinds(table, {"hypothetical", "over xml"})
           = {i \in D : table.indexes[i].kind \in {"hypothetical", "over xml"}}
  BY DEF Kinds, D
<1>5. PlainIndexes(table) = {i \in D : table.indexes[i].kind \notin inlineKinds \cup {"hypothetical", "over xml"}}
  BY <1>1, <1>4 DEF PlainIndexes, D
<1>6. Nonhypothetical(table) = {i \in D : table.indexes[i].kind # "hypothetical"}
  BY <1>4 DEF Nonhypothetical, D
<1>7. Missing(table, Inline(table), PlainIndexes(table))
  BY <1>1, <1>3, <1>5 DEF Missing
<1>8. Kinds(table, {"over xml"}) # {} => Kinds(table, {"xml"}) \cap (Inline(table) \cup PlainIndexes(table)) # {}
  <2>1. Kinds(table, {"xml"}) \subseteq PlainIndexes(table)
    BY <1>2, <1>4, <1>5
  <2>2. Kinds(table, {"over xml"}) # {} => Kinds(table, {"xml"}) # {}
    BY DEF TableAsRead
  <2> QED BY <2>1, <2>2
<1>9. Missing(table, Inline(table) \cup PlainIndexes(table), Kinds(table, {"over xml"}))
  <2> DEFINE over == Kinds(table, {"over xml"})
             has == Inline(table) \cup PlainIndexes(table)
  <2>1. over \subseteq D /\ \A i \in over : table.indexes[i].kind = "over xml"
    BY <1>4
  <2>2. \A i \in has : table.indexes[i].kind # "over xml"
    BY <1>1, <1>2, <1>5
  <2>3. over \cap has = {}
    BY <2>1, <2>2
  <2> HIDE DEF over, has
  <2>4. Missing(table, has, over)
    BY <1>3, <1>8, <2>1, <2>3 DEF Missing, over, has
  <2> QED BY <2>4 DEF over, has
<1>10. Inline(table) \cup PlainIndexes(table) \cup Kinds(table, {"over xml"}) = Nonhypothetical(table)
  BY <1>1, <1>2, <1>4, <1>5, <1>6
<1> QED BY <1>7, <1>9, <1>10

LEMMA EachWhereType ==
    ASSUME NEW does, NEW table, TableAsRead(table), NEW S, NEW more, S \subseteq more
    PROVE  Each(does, Where(table.indexes, S)) \in Seq(EachOf(does, more))
<1> DEFINE T == [kind : STRING, clustered : BOOLEAN, disabled : BOOLEAN]
           A == EachOf(does, 1..Len(table.indexes) \cap S)
           B == EachOf(does, more)
<1>1. table.indexes \in Seq(T)
  BY TableParts
<1> HIDE DEF T
<1>2. Each(does, Where(table.indexes, S)) \in Seq(A)
  BY <1>1, EachType
<1>3. A \subseteq B
  BY DEF EachOf
<1> HIDE DEF A, B
<1>4. Each(does, Where(table.indexes, S)) \in Seq(B)
  BY <1>2, <1>3, SeqOfMore
<1> QED BY <1>4 DEF B

LEMMA ConcatAppend ==
    ASSUME NEW T, NEW p \in Seq(T), NEW q \in Seq(T), NEW e \in T
    PROVE  p \o Append(q, e) = Append(p \o q, e)
OBVIOUS

\* The statements of the two lists of indexes.
LEMMA EachJoined ==
    ASSUME NEW does, NEW T, NEW p \in Seq(T), NEW q \in Seq(T)
    PROVE  Each(does, p \o q) = Each(does, p) \o Each(does, q)
<1> DEFINE Good == {r \in Seq(T) : Each(does, p \o r) = Each(does, p) \o Each(does, r)}
<1>0. Each(does, p) \in Seq(EachOf(does, T))
  <2>1. Len(p) \in Nat /\ DOMAIN p = 1..Len(p) /\ \A i \in 1..Len(p) : p[i] \in T
    BY LenProperties, ElementOfSeq
  <2>2. Each(does, p) = [i \in 1..Len(p) |-> Step(does, p[i])]
    BY <2>1 DEF Each
  <2> QED BY <2>1, <2>2 DEF EachOf
<1>1. <<>> \in Good
  <2>1. p \o <<>> = p /\ <<>> \in Seq(T) /\ Each(does, <<>>) = <<>>
    BY ConcatEmptySeq, EmptySeq, EachNothing
  <2>2. Each(does, p) \o <<>> = Each(does, p)
    BY <1>0, ConcatEmptySeq
  <2> QED BY <2>1, <2>2
<1>2. ASSUME NEW r \in Seq(T), NEW n \in T, r \in Good PROVE Append(r, n) \in Good
  <2> DEFINE pr == p \o r
             H == EachOf(does, T)
             s == Step(does, n)
  <2>1. pr \in Seq(T) /\ p \o Append(r, n) = Append(pr, n) /\ Append(r, n) \in Seq(T)
    OBVIOUS
  <2>2. Each(does, pr) = Each(does, p) \o Each(does, r)
    BY <1>2
  <2> HIDE DEF pr
  <2>3. Each(does, Append(pr, n)) = Append(Each(does, pr), s)
    BY <2>1, EachAppend
  <2>4. Each(does, Append(r, n)) = Append(Each(does, r), s) /\ Each(does, r) \in Seq(H)
    BY EachAppend
  <2>5. s \in H /\ Each(does, p) \in Seq(H)
    BY <1>0 DEF EachOf
  <2> DEFINE ep == Each(does, p)
             er == Each(does, r)
  <2>6. Append(ep \o er, s) = ep \o Append(er, s)
    <3>1. ep \in Seq(H)
      BY <2>5
    <3>2. er \in Seq(H)
      BY <2>4
    <3>3. s \in H
      BY <2>5
    <3> HIDE DEF ep, er, s, H
    <3>4. ep \o Append(er, s) = Append(ep \o er, s)
      BY <3>1, <3>2, <3>3, ConcatAppend
    <3> QED BY <3>4
  <2> HIDE DEF s, H
  <2>7. Each(does, p \o Append(r, n)) = ep \o Each(does, Append(r, n))
    BY <2>1, <2>2, <2>3, <2>4, <2>6
  <2> QED BY <2>1, <2>7
<1>3. q \in Good
  <2> HIDE DEF Good
  <2> QED BY <1>1, <1>2, SequenceInduction
<1> QED BY <1>3

\* writeTableDependents: what follows CREATE TABLE builds the rest of it.
KeysHeld(table, deferred) == IF deferred THEN {} ELSE Constraints("key", table.keys)

\* What follows CREATE TABLE turns a table as it is declared into the whole of it.
LEMMA DependentsDone ==
    ASSUME NEW table, TableAsRead(table), NEW options, NEW blocks, NEW refused,
           NEW v, NEW set, NEW deferred \in BOOLEAN
    PROVE  /\ writeTableDependents(table, deferred) \in Seq(Dependents(table))
           /\ Executed(table, options, blocks,
                       After(Standing(v, set, Inline(table), {}, {}), refused),
                       writeTableDependents(table, deferred))
                = After(Standing(v, set, Nonhypothetical(table), Disabled(table),
                                 KeysHeld(table, deferred) \cup Constraints("check", table.checks)),
                        refused)
<1> DEFINE H == Dependents(table)
           over == Kinds(table, {"over xml"})
           plainly == Each("index", Where(table.indexes, PlainIndexes(table)))
           overly == Each("index", Where(table.indexes, over))
           keys == IF deferred THEN <<>> ELSE Add("key", table.keys)
           checks == Add("check", table.checks)
           disables == Each("disable", Where(table.indexes, Disabled(table)))
           Ran(before, script) == Executed(table, options, blocks, before, script)
           all == Nonhypothetical(table)
           inline == Inline(table)
           plain == PlainIndexes(table)
           keysHeld == KeysHeld(table, deferred)
           checksHeld == Constraints("check", table.checks)
           none == {}
           b0 == After(Standing(v, set, inline, none, none), refused)
           b1 == After(Standing(v, set, inline \cup plain, none, none), refused)
           b2 == After(Standing(v, set, all, none, none), refused)
           b3 == After(Standing(v, set, all, none, keysHeld), refused)
           b4 == After(Standing(v, set, all, none, keysHeld \cup checksHeld), refused)
           b5 == After(Standing(v, set, all, Disabled(table), keysHeld \cup checksHeld), refused)
<1>1. /\ EachOf("index", all) \subseteq H /\ EachOf("disable", Disabled(table)) \subseteq H
      /\ AddsOf("key", 1..Len(table.keys), Off(table.keys)) \subseteq H
      /\ AddsOf("check", 1..Len(table.checks), Off(table.checks)) \subseteq H
  BY DEF Dependents
<1>2. plainly \in Seq(H) /\ overly \in Seq(H)
  <2>1. plain \subseteq all /\ over \subseteq all
    BY IndexesSplit
  <2>2. plainly \in Seq(EachOf("index", all)) /\ overly \in Seq(EachOf("index", all))
    <3> HIDE DEF all
    <3> QED BY <2>1, EachWhereType
  <2> HIDE DEF plainly, overly, H
  <2> QED BY <1>1, <2>2, SeqOfMore
<1>3. disables \in Seq(H)
  <2>1. disables \in Seq(EachOf("disable", Disabled(table)))
    BY EachWhereType
  <2> HIDE DEF disables, H
  <2> QED BY <1>1, <2>1, SeqOfMore
<1>4. Ran(b0, plainly) = b1
  <2>1. Missing(table, inline, plain)
    BY IndexesSplit
  <2> HIDE DEF inline, plain, none
  <2>2. Ran(After(Standing(v, set, inline, none, none), refused), Each("index", Where(table.indexes, plain)))
          = After(Standing(v, set, inline \cup plain, none, none), refused)
    BY <2>1, IndexesDone DEF none
  <2> QED BY <2>2 DEF plain
<1>5. Ran(b1, overly) = b2
  <2> DEFINE has == inline \cup plain
  <2>1. Missing(table, has, over) /\ has \cup over = all
    BY IndexesSplit
  <2> HIDE DEF has, all, over, none
  <2>2. Ran(After(Standing(v, set, has, none, none), refused), Each("index", Where(table.indexes, over)))
          = After(Standing(v, set, has \cup over, none, none), refused)
    BY <2>1, IndexesDone DEF none
  <2> QED BY <2>1, <2>2 DEF has
<1>6. keys \in Seq(H) /\ Ran(b2, keys) = b3
  <2>1. CASE deferred
    <3>1. keys = <<>> /\ keysHeld = none
      BY <2>1 DEF KeysHeld
    <3>2. Ran(b2, <<>>) = b2
      BY ExecutedNothing
    <3>3. <<>> \in Seq(H)
      OBVIOUS
    <3> HIDE DEF H, keysHeld, keys
    <3> QED BY <3>1, <3>2, <3>3
  <2>2. CASE ~deferred
    <3>1. keys = Add("key", table.keys) /\ keysHeld = none \cup Constraints("key", table.keys)
      BY <2>2 DEF KeysHeld
    <3> DEFINE states == table.keys
               of == "key"
    <3>2. states \in Seq(ConstraintStates) /\ \A c \in none : c.of # of
      BY TableParts
    <3> HIDE DEF states, of
    <3>3. /\ Add(of, states) \in Seq(AddsOf(of, 1..Len(states), Off(states)))
          /\ Ran(b2, Add(of, states))
               = After(Standing(v, set, all, {}, none \cup Constraints(of, states)), refused)
      <4> HIDE DEF all
      <4> QED BY <3>2, ConstraintsDone
    <3>4. keys \in Seq(AddsOf("key", 1..Len(table.keys), Off(table.keys)))
      BY <3>1, <3>3 DEF states, of
    <3>5. keys \in Seq(H)
      <4> HIDE DEF H, keys
      <4> QED BY <1>1, <3>4, SeqOfMore
    <3>6. Ran(b2, keys) = b3
      <4> HIDE DEF keys, keysHeld, all
      <4> QED BY <3>1, <3>3 DEF states, of
    <3> QED BY <3>5, <3>6
  <2> QED BY <2>1, <2>2
<1>7. checks \in Seq(H) /\ Ran(b3, checks) = b4
  <2> DEFINE states == table.checks
             of == "check"
  <2>1. states \in Seq(ConstraintStates)
    BY TableParts
  <2>2. \A c \in keysHeld : c.of # of
    BY DEF KeysHeld, Constraints
  <2> HIDE DEF states, of, keysHeld, all
  <2>3. /\ Add(of, states) \in Seq(AddsOf(of, 1..Len(states), Off(states)))
        /\ Ran(b3, Add(of, states))
             = After(Standing(v, set, all, {}, keysHeld \cup Constraints(of, states)), refused)
    BY <2>1, <2>2, ConstraintsDone
  <2>4. checks \in Seq(AddsOf("check", 1..Len(table.checks), Off(table.checks)))
    BY <2>3 DEF states, of
  <2>5. checks \in Seq(H)
    <3> HIDE DEF H, checks
    <3> QED BY <1>1, <2>4, SeqOfMore
  <2> QED BY <2>3, <2>5 DEF states, of
<1>8. Ran(b4, disables) = b5
  <2> DEFINE held == keysHeld \cup checksHeld
  <2> HIDE DEF held
  <2>1. Ran(After(Standing(v, set, Nonhypothetical(table), {}, held), refused),
            Each("disable", Where(table.indexes, Disabled(table))))
          = After(Standing(v, set, Nonhypothetical(table), Disabled(table), held), refused)
    BY DisablesDone
  <2> QED BY <2>1 DEF held
<1>9. writeTableDependents(table, deferred) = (((plainly \o overly) \o keys) \o checks) \o disables
  <2>1. Each("index", IndexesCreated(table)) = plainly \o overly
    <3> DEFINE T == [kind : STRING, clustered : BOOLEAN, disabled : BOOLEAN]
               N == 1..Len(table.indexes)
               p == Where(table.indexes, plain)
               q == Where(table.indexes, over)
    <3>1. table.indexes \in Seq(T)
      BY TableParts
    <3> HIDE DEF T
    <3>2. p \in Seq(N \cap plain) /\ q \in Seq(N \cap over)
      BY <3>1, WhereType
    <3>3. IndexesCreated(table) = p \o q
      BY DEF IndexesCreated, PlainIndexes
    <3> HIDE DEF p, q
    <3>4. p \in Seq(N) /\ q \in Seq(N)
      <4> DEFINE A == N \cap plain
                 B == N \cap over
      <4>1. A \subseteq N /\ B \subseteq N
        OBVIOUS
      <4>2. p \in Seq(A) /\ q \in Seq(B)
        BY <3>2
      <4> HIDE DEF A, B, N
      <4>3. p \in Seq(N)
        BY <4>1, <4>2, SeqOfMore
      <4>4. q \in Seq(N)
        BY <4>1, <4>2, SeqOfMore
      <4> QED BY <4>3, <4>4
    <3> HIDE DEF N
    <3>5. Each("index", p \o q) = Each("index", p) \o Each("index", q)
      BY <3>4, EachJoined
    <3> QED BY <3>3, <3>5 DEF p, q
  <2> QED BY <2>1 DEF writeTableDependents
<1> HIDE DEF H, plainly, overly, keys, checks, disables, b0, b1, b2, b3, b4, b5
<1>10. LET p1 == plainly \o overly
           p2 == p1 \o keys
           p3 == p2 \o checks
       IN  p1 \in Seq(H) /\ p2 \in Seq(H) /\ p3 \in Seq(H) /\ p3 \o disables \in Seq(H)
  BY <1>2, <1>3, <1>6, <1>7
<1> DEFINE p1 == plainly \o overly
           p2 == p1 \o keys
           p3 == p2 \o checks
<1>11. p1 \in Seq(H) /\ p2 \in Seq(H) /\ p3 \in Seq(H) /\ p3 \o disables \in Seq(H)
  BY <1>10
<1>12. Ran(b0, p1) = b2
  BY <1>2, <1>4, <1>5, ExecutedJoined
<1> HIDE DEF p1
<1>13. Ran(b0, p2) = b3
  BY <1>6, <1>11, <1>12, ExecutedJoined
<1> HIDE DEF p2
<1>14. Ran(b0, p3) = b4
  BY <1>7, <1>11, <1>13, ExecutedJoined
<1> HIDE DEF p3
<1>15. Ran(b0, p3 \o disables) = b5
  BY <1>3, <1>8, <1>11, <1>14, ExecutedJoined
<1>16. writeTableDependents(table, deferred) = p3 \o disables
  BY <1>9 DEF p1, p2, p3
<1> QED BY <1>11, <1>15, <1>16 DEF b0, b5, H

-----------------------------------------------------------------------------
(* The whole script, on a database that lacks the table and on one that has it. *)

\* A table as it was read.
LEMMA AsIs ==
    ASSUME NEW table, NEW deferred
    PROVE  As(table, deferred) =
             Standing(table.versioned, table.settings, Nonhypothetical(table), Disabled(table),
                      KeysHeld(table, deferred) \cup Constraints("check", table.checks))
<1>1. Constraints("check", table.checks) \cup (IF deferred THEN {} ELSE Constraints("key", table.keys))
        = KeysHeld(table, deferred) \cup Constraints("check", table.checks)
  BY DEF KeysHeld
<1> QED BY <1>1 DEF As, Standing, Nonhypothetical

\* CREATE TABLE, where there is none.
LEMMA CreateDone ==
    ASSUME NEW table, NEW options, NEW blocks, NEW refused
    PROVE  Executes(table, options, blocks, After(Absent, refused), Step("create", 0))
             = After(Standing(table.versioned, No, Inline(table), {}, {}), refused)
<1> DEFINE s == Step("create", 0)
<1>1. s.does = "create"
  BY StepIs
<1>2. ~Absent.there
  BY DEF Absent
<1> HIDE DEF s
<1>3. ~Skips(Absent, s)
  BY <1>1, <1>2 DEF Skips
<1>4. Allows(table, Absent, blocks, s)
  BY <1>1, <1>2 DEF Allows
<1>5. Does(table, Absent, s) = Standing(table.versioned, No, Inline(table), {}, {})
  BY <1>1 DEF Does, Standing, No
<1>6. Executes(table, options, blocks, After(Absent, refused), s)
        = After(Does(table, Absent, s), refused)
  BY <1>3, <1>4, ExecutesDone
<1> QED BY <1>5, <1>6 DEF s

\* DROP TABLE, and SYSTEM_VERSIONING = OFF, of a table there is.
LEMMA UnversionDone ==
    ASSUME NEW table, NEW options, NEW blocks, blocks # "bound", NEW refused,
           NEW v, NEW set, NEW has, NEW off, NEW held
    PROVE  Executes(table, options, blocks,
                    After(Standing(v, set, has, off, held), refused), Step("unversion", 0))
             = After(Standing(No, set, has, off, held), refused)
<1> DEFINE t == Standing(v, set, has, off, held)
           s == Step("unversion", 0)
<1>1. t.there
  BY StandingIs
<1>2. [t EXCEPT !.versioned = No] = Standing(No, set, has, off, held)
  BY StandingVersioned
<1>3. s.does = "unversion"
  BY StepIs
<1> HIDE DEF t, s
<1>4. ~Skips(t, s)
  BY <1>1, <1>3 DEF Skips
<1>5. Allows(table, t, blocks, s)
  BY <1>1, <1>3 DEF Allows
<1>6. Does(table, t, s) = [t EXCEPT !.versioned = No]
  BY <1>3 DEF Does, No
<1>7. Executes(table, options, blocks, After(t, refused), s) = After(Does(table, t, s), refused)
  BY <1>4, <1>5, ExecutesDone
<1> QED BY <1>2, <1>6, <1>7 DEF t, s

\* DROP TABLE, of one that is not versioned.
LEMMA DropDone ==
    ASSUME NEW table, NEW options, NEW blocks, blocks = "no", NEW refused,
           NEW set, NEW has, NEW off, NEW held
    PROVE  Executes(table, options, blocks,
                    After(Standing(No, set, has, off, held), refused), Step("drop", 0))
             = After(Absent, refused)
<1> DEFINE t == Standing(No, set, has, off, held)
           s == Step("drop", 0)
<1>1. t.there /\ ~t.versioned
  BY DEF Standing, No
<1>3. s.does = "drop"
  BY StepIs
<1> HIDE DEF t, s
<1>4. ~Skips(t, s)
  BY <1>1, <1>3 DEF Skips
<1>5. Allows(table, t, blocks, s)
  BY <1>1, <1>3 DEF Allows
<1>6. Does(table, t, s) = Absent
  BY <1>3 DEF Does
<1>7. Executes(table, options, blocks, After(t, refused), s) = After(Does(table, t, s), refused)
  BY <1>4, <1>5, ExecutesDone
<1> QED BY <1>6, <1>7 DEF t, s

\* What there is not is neither dropped nor unversioned: that is left out, or refused.
Refusable(options) == IF options.guarded THEN {} ELSE {"unversion", "drop"}

LEMMA AbsentKept ==
    ASSUME NEW table, NEW options, NEW blocks, NEW refused, refused \subseteq Refusable(options),
           NEW does, does = "unversion" \/ does = "drop"
    PROVE  \E also : /\ Executes(table, options, blocks, After(Absent, refused), Step(does, 0))
                          = After(Absent, also)
                     /\ also \subseteq Refusable(options)
<1> DEFINE s == Step(does, 0)
<1>1. s.does = does
  BY StepIs
<1>2. ~Absent.there
  BY DEF Absent
<1> HIDE DEF s
<1>3. Skips(Absent, s)
  BY <1>1, <1>2 DEF Skips
<1>4. ~Allows(table, Absent, blocks, s)
  BY <1>1, <1>2 DEF Allows
<1>5. CASE options.guarded
  <2>1. Executes(table, options, blocks, After(Absent, refused), s) = After(Absent, refused)
    BY <1>3, <1>5, ExecutesSkipped
  <2> QED BY <2>1 DEF s
<1>6. CASE ~options.guarded
  <2>1. \/ Executes(table, options, blocks, After(Absent, refused), s) = After(Absent, refused)
        \/ Executes(table, options, blocks, After(Absent, refused), s)
             = After(Absent, refused \cup {does})
    BY <1>1, <1>4, ExecutesRefused
  <2>2. refused \cup {does} \subseteq Refusable(options)
    BY <1>6 DEF Refusable
  <2> QED BY <2>1, <2>2 DEF s
<1> QED BY <1>5, <1>6

\* The parts of buildTableScript.
Unversions(table, options) ==
    IF options.verb = "drop and create" /\ table.versioned THEN <<Step("unversion", 0)>> ELSE <<>>
Drops(options) == IF options.verb = "drop and create" THEN <<Step("drop", 0)>> ELSE <<>>
Sets(table) == IF table.settings THEN <<Step("set", 0)>> ELSE <<>>

\* A script is five parts, one after another.
LEMMA ScriptParts ==
    ASSUME NEW table, NEW options
    PROVE  buildTableScript(table, options) =
             (((Unversions(table, options) \o Drops(options)) \o <<Step("create", 0)>>)
                \o Sets(table)) \o writeTableDependents(table, options.deferred)
BY DEF buildTableScript, Unversions, Drops, Sets

Statements(table) ==
    Dependents(table)
    \cup {Step("unversion", 0), Step("drop", 0), Step("create", 0), Step("set", 0)}

\* The statements of the parts.
LEMMA PartsType ==
    ASSUME NEW table, TableAsRead(table), NEW options
    PROVE  /\ Unversions(table, options) \in Seq(Statements(table))
           /\ Drops(options) \in Seq(Statements(table))
           /\ <<Step("create", 0)>> \in Seq(Statements(table))
           /\ Sets(table) \in Seq(Statements(table))
           /\ \A s \in Seq(Dependents(table)) : s \in Seq(Statements(table))
<1> DEFINE H == Statements(table)
           u == Step("unversion", 0)
           d == Step("drop", 0)
           c == Step("create", 0)
           t == Step("set", 0)
<1>1. u \in H /\ d \in H /\ c \in H /\ t \in H /\ Dependents(table) \subseteq H
  BY DEF Statements
<1> HIDE DEF H, u, d, c, t
<1>2. <<u>> \in Seq(H) /\ <<d>> \in Seq(H) /\ <<c>> \in Seq(H) /\ <<t>> \in Seq(H) /\ <<>> \in Seq(H)
  BY <1>1
<1>3. \A s \in Seq(Dependents(table)) : s \in Seq(H)
  BY <1>1
<1>4. Unversions(table, options) \in Seq(H)
  BY <1>2 DEF Unversions, u
<1>5. Drops(options) \in Seq(H)
  BY <1>2 DEF Drops, d
<1>6. Sets(table) \in Seq(H)
  BY <1>2 DEF Sets, t
<1> QED BY <1>2, <1>3, <1>4, <1>5, <1>6 DEF H, c

\* A script of five parts is executed part by part.
LEMMA ExecutedParts ==
    ASSUME NEW table, NEW options, NEW blocks, NEW before, NEW T,
           NEW p \in Seq(T), NEW q \in Seq(T), NEW r \in Seq(T), NEW s \in Seq(T), NEW t \in Seq(T),
           NEW b1, NEW b2, NEW b3, NEW b4, NEW b5,
           Executed(table, options, blocks, before, p) = b1,
           Executed(table, options, blocks, b1, q) = b2,
           Executed(table, options, blocks, b2, r) = b3,
           Executed(table, options, blocks, b3, s) = b4,
           Executed(table, options, blocks, b4, t) = b5
    PROVE  Executed(table, options, blocks, before, (((p \o q) \o r) \o s) \o t) = b5
<1> DEFINE pq == p \o q
           pqr == pq \o r
           pqrs == pqr \o s
<1>1. pq \in Seq(T)
  OBVIOUS
<1>2. Executed(table, options, blocks, before, pq) = b2
  BY ExecutedJoined
<1> HIDE DEF pq
<1>3. pqr \in Seq(T)
  BY <1>1
<1>4. Executed(table, options, blocks, before, pqr) = b3
  BY <1>1, <1>2, ExecutedJoined
<1> HIDE DEF pqr
<1>5. pqrs \in Seq(T)
  BY <1>3
<1>6. Executed(table, options, blocks, before, pqrs) = b4
  BY <1>3, <1>4, ExecutedJoined
<1> HIDE DEF pqrs
<1>7. Executed(table, options, blocks, before, pqrs \o t) = b5
  BY <1>5, <1>6, ExecutedJoined
<1> QED BY <1>7 DEF pqrs, pqr, pq

\* What is set of a table that was just created.
LEMMA SetsDone ==
    ASSUME NEW table, NEW options, NEW blocks, NEW refused, NEW v, NEW has, NEW off, NEW held
    PROVE  table.settings \in BOOLEAN =>
             Executed(table, options, blocks, After(Standing(v, No, has, off, held), refused),
                      Sets(table))
               = After(Standing(v, table.settings, has, off, held), refused)
<1> DEFINE set == table.settings
           b3 == After(Standing(v, No, has, off, held), refused)
           b4 == After(Standing(v, set, has, off, held), refused)
           s == Step("set", 0)
<1>1. set = Yes => Executes(table, options, blocks, b3, s) = b4
  <2> HIDE DEF set
  <2> QED BY SetDone
<1>2. set = Yes => Sets(table) = <<s>>
  BY DEF Sets, Yes
<1>3. set = No => Sets(table) = <<>>
  BY DEF Sets, No
<1>4. set = No => b3 = b4
  OBVIOUS
<1>5. Executed(table, options, blocks, b3, <<s>>) = Executes(table, options, blocks, b3, s)
  BY ExecutedOne
<1>6. Executed(table, options, blocks, b3, <<>>) = b3
  BY ExecutedNothing
<1>7. set = Yes => Executed(table, options, blocks, b3, Sets(table)) = b4
  <2> HIDE DEF b3, b4, s, set
  <2> QED BY <1>1, <1>2, <1>5
<1>8. set = No => Executed(table, options, blocks, b3, Sets(table)) = b4
  <2> HIDE DEF b3, b4, s, set
  <2> QED BY <1>3, <1>4, <1>6
<1>9. set \in BOOLEAN => Executed(table, options, blocks, b3, Sets(table)) = b4
  <2>1. set \in BOOLEAN => set = Yes \/ set = No
    BY DEF Yes, No
  <2> HIDE DEF b3, b4, set
  <2> QED BY <1>7, <1>8, <2>1
<1> QED BY <1>9

\* Where there is no table, or none any more, the rest of the script builds it.
LEMMA BuiltFrom ==
    ASSUME NEW table, TableAsRead(table), NEW options, options.deferred \in BOOLEAN, NEW blocks,
           NEW refused
    PROVE  LET b3 == Executed(table, options, blocks, After(Absent, refused), <<Step("create", 0)>>)
               b4 == Executed(table, options, blocks, b3, Sets(table))
           IN  Executed(table, options, blocks, b4, writeTableDependents(table, options.deferred))
                 = After(As(table, options.deferred), refused)
<1> DEFINE v == table.versioned
           set == table.settings
           inline == Inline(table)
           none == {}
           deferred == options.deferred
           b3 == After(Standing(v, No, inline, none, none), refused)
           b4 == After(Standing(v, set, inline, none, none), refused)
<1>1. Executed(table, options, blocks, After(Absent, refused), <<Step("create", 0)>>) = b3
  <2> DEFINE c == Step("create", 0)
  <2>1. Executes(table, options, blocks, After(Absent, refused), c) = b3
    BY CreateDone
  <2> HIDE DEF c, b3
  <2> QED BY <2>1, ExecutedOne DEF c
<1>2. Executed(table, options, blocks, b3, Sets(table)) = b4
  <2>1. set \in BOOLEAN
    BY DEF TableAsRead
  <2>2. set \in BOOLEAN =>
          Executed(table, options, blocks, After(Standing(v, No, inline, none, none), refused),
                   Sets(table))
            = After(Standing(v, set, inline, none, none), refused)
    <3> HIDE DEF v, inline, none
    <3> QED BY SetsDone
  <2> QED BY <2>1, <2>2
<1>3. Executed(table, options, blocks, b4, writeTableDependents(table, deferred))
        = After(Standing(v, set, Nonhypothetical(table), Disabled(table),
                         KeysHeld(table, deferred) \cup Constraints("check", table.checks)), refused)
  <2>1. deferred \in BOOLEAN
    OBVIOUS
  <2> HIDE DEF v, set, deferred
  <2> QED BY <2>1, DependentsDone
<1> HIDE DEF b3, b4
<1> QED BY <1>1, <1>2, <1>3, AsIs
-----------------------------------------------------------------------------
(* A table the script may not drop, or is not to.                              *)

Kept(table, v) ==
    Standing(v, table.settings, Nonhypothetical(table), Disabled(table),
             KeysHeld(table, FALSE) \cup Constraints("check", table.checks))

\* A table left in place, field by field.
LEMMA KeptIs ==
    ASSUME NEW table, NEW v
    PROVE  /\ Kept(table, v).there
           /\ Kept(table, v).has = Nonhypothetical(table)
           /\ Kept(table, v).held = Constraints("key", table.keys) \cup Constraints("check", table.checks)
<1> DEFINE held == KeysHeld(table, FALSE) \cup Constraints("check", table.checks)
           set == table.settings
           has == Nonhypothetical(table)
           off == Disabled(table)
<1>1. held = Constraints("key", table.keys) \cup Constraints("check", table.checks)
  BY DEF KeysHeld
<1>2. Kept(table, v) = Standing(v, set, has, off, held)
  BY DEF Kept
<1> HIDE DEF held, set, has, off
<1>3. /\ Standing(v, set, has, off, held).there
      /\ Standing(v, set, has, off, held).has = has
      /\ Standing(v, set, has, off, held).held = held
  BY StandingIs
<1> QED BY <1>1, <1>2, <1>3 DEF has

\* What may not be done, or was done already, changes nothing.
LEMMA KeptRefused ==
    ASSUME NEW table, NEW options, NEW blocks, NEW v, NEW r, NEW s
    PROVE  ~Allows(table, Kept(table, v), blocks, s) =>
             \E also : Executes(table, options, blocks, After(Kept(table, v), r), s)
                         = After(Kept(table, v), also)
<1> DEFINE t == Kept(table, v)
           allowed == Allows(table, t, blocks, s)
           result == Executes(table, options, blocks, After(t, r), s)
           same == After(t, r)
           more == r \cup {s.does}
<1>1. ~allowed => result = same \/ result = After(t, more)
  <2> HIDE DEF t
  <2> QED BY ExecutesRefused
<1> HIDE DEF allowed, result, t
<1>2. ~allowed => \E also : result = After(t, also)
  BY <1>1
<1> QED BY <1>2 DEF allowed, result, t

\* What keeps it from being dropped, and that it need not be created.
LEMMA KeptUndropped ==
    ASSUME NEW table, NEW blocks, NEW v
    PROVE  /\ blocks # "no" => ~Allows(table, Kept(table, v), blocks, Step("drop", 0))
           /\ blocks = "bound" => ~Allows(table, Kept(table, v), blocks, Step("unversion", 0))
           /\ ~Allows(table, Kept(table, v), blocks, Step("create", 0))
<1> DEFINE t == Kept(table, v)
<1>1. t.there
  BY KeptIs
<1> HIDE DEF t
<1>2. ASSUME NEW does, does = "drop" \/ does = "unversion" \/ does = "create"
      PROVE  Step(does, 0).does = does
  BY StepIs
<1>3. blocks # "no" => ~Allows(table, t, blocks, Step("drop", 0))
  BY <1>2 DEF Allows
<1>4. blocks = "bound" => ~Allows(table, t, blocks, Step("unversion", 0))
  BY <1>2 DEF Allows
<1>5. ~Allows(table, t, blocks, Step("create", 0))
  BY <1>1, <1>2 DEF Allows
<1> QED BY <1>3, <1>4, <1>5 DEF t

\* It has its indexes and constraints already; what is set or disabled already is
\* so again.
LEMMA KeptIndex ==
    ASSUME NEW table, NEW blocks, NEW v, NEW n \in Nonhypothetical(table)
    PROVE  ~Allows(table, Kept(table, v), blocks, Step("index", n))
<1> DEFINE t == Kept(table, v)
           s == Step("index", n)
<1>1. n \in t.has
  BY KeptIs
<1>2. s.does = "index" /\ s.n = n
  BY StepIs
<1> HIDE DEF t, s
<1>3. Skips(t, s)
  BY <1>1, <1>2 DEF Skips
<1>4. ~Allows(table, t, blocks, s)
  BY <1>2, <1>3 DEF Allows
<1> QED BY <1>4 DEF t, s

\* A constraint of the table.
Owns(table, of, n) ==
    \/ of = "key" /\ n \in DOMAIN table.keys
    \/ of = "check" /\ n \in DOMAIN table.checks

LEMMA KeptAdd ==
    ASSUME NEW table, NEW blocks, NEW v, NEW of, NEW n, Owns(table, of, n), NEW with
    PROVE  ~Allows(table, Kept(table, v), blocks, OfConstraint("add", of, n, with))
<1> DEFINE t == Kept(table, v)
           s == OfConstraint("add", of, n, with)
<1>1. \E c \in t.held : c.of = of /\ c.n = n
  <2>1. CASE of = "key" /\ n \in DOMAIN table.keys
    <3>1. [of |-> "key", n |-> n, state |-> table.keys[n]] \in Constraints("key", table.keys)
      BY <2>1 DEF Constraints
    <3>2. [of |-> "key", n |-> n, state |-> table.keys[n]] \in t.held
      BY <3>1, KeptIs
    <3> HIDE DEF t
    <3> QED BY <2>1, <3>2
  <2>2. CASE of = "check" /\ n \in DOMAIN table.checks
    <3>1. [of |-> "check", n |-> n, state |-> table.checks[n]] \in Constraints("check", table.checks)
      BY <2>2 DEF Constraints
    <3>2. [of |-> "check", n |-> n, state |-> table.checks[n]] \in t.held
      BY <3>1, KeptIs
    <3> HIDE DEF t
    <3> QED BY <2>2, <3>2
  <2> QED BY <2>1, <2>2 DEF Owns
<1>2. s.does = "add" /\ s.of = of /\ s.n = n
  BY OfConstraintIs
<1> HIDE DEF t, s
<1>3. Skips(t, s)
  BY <1>1, <1>2 DEF Skips
<1>4. ~Allows(table, t, blocks, s)
  BY <1>2, <1>3 DEF Allows
<1> QED BY <1>4 DEF t, s

\* Only a disabled constraint is disabled, which it is.
OwnsDisabled(table, of, n) ==
    \/ of = "key" /\ n \in DOMAIN table.keys /\ table.keys[n] = "disabled"
    \/ of = "check" /\ n \in DOMAIN table.checks /\ table.checks[n] = "disabled"

LEMMA KeptNocheck ==
    ASSUME NEW table, NEW options, NEW blocks, NEW v, NEW r,
           NEW of, NEW n, OwnsDisabled(table, of, n), NEW with
    PROVE  \E also : Executes(table, options, blocks, After(Kept(table, v), r),
                              OfConstraint("nocheck", of, n, with))
                       = After(Kept(table, v), also)
<1> DEFINE held == KeysHeld(table, FALSE) \cup Constraints("check", table.checks)
           set == table.settings
           has == Nonhypothetical(table)
           off == Disabled(table)
           of1 == of
<1>1. Unchecked(of, n, held) = held
  <2> DEFINE f(c) == IF c.of = of /\ c.n = n THEN [c EXCEPT !.state = "disabled"] ELSE c
  <2>1. ASSUME NEW c \in held PROVE f(c) = c
    <3>1. held = Constraints("key", table.keys) \cup Constraints("check", table.checks)
      BY DEF KeysHeld
    <3>2. CASE c \in Constraints("key", table.keys)
      <4>1. PICK m \in DOMAIN table.keys : c = [of |-> "key", n |-> m, state |-> table.keys[m]]
        BY <3>2 DEF Constraints
      <4>2. c.of = of /\ c.n = n => table.keys[m] = "disabled"
        BY <4>1 DEF OwnsDisabled
      <4> QED BY <4>1, <4>2
    <3>3. CASE c \in Constraints("check", table.checks)
      <4>1. PICK m \in DOMAIN table.checks : c = [of |-> "check", n |-> m, state |-> table.checks[m]]
        BY <3>3 DEF Constraints
      <4>2. c.of = of /\ c.n = n => table.checks[m] = "disabled"
        BY <4>1 DEF OwnsDisabled
      <4> QED BY <4>1, <4>2
    <3> QED BY <2>1, <3>1, <3>2, <3>3
  <2>2. Unchecked(of, n, held) = {f(c) : c \in held}
    BY DEF Unchecked
  <2> HIDE DEF f, held
  <2>3. {f(c) : c \in held} = held
    BY <2>1
  <2> QED BY <2>2, <2>3
<1>2. Kept(table, v) = Standing(v, set, has, off, held)
  BY DEF Kept
<1> HIDE DEF held, set, has, off
<1>3. Executes(table, options, blocks, After(Standing(v, set, has, off, held), r),
               OfConstraint("nocheck", of, n, with))
        = After(Standing(v, set, has, off, Unchecked(of, n, held)), r)
  BY NocheckDone
<1> QED BY <1>1, <1>2, <1>3

LEMMA KeptDisable ==
    ASSUME NEW table, TableAsRead(table), NEW options, NEW blocks, NEW v, NEW r,
           NEW n \in Disabled(table)
    PROVE  \E also : Executes(table, options, blocks, After(Kept(table, v), r), Step("disable", n))
                       = After(Kept(table, v), also)
<1> DEFINE held == KeysHeld(table, FALSE) \cup Constraints("check", table.checks)
           set == table.settings
           has == Nonhypothetical(table)
           off == Disabled(table)
           down == TakesDown(table, n) \cap has
<1>1. off \cup down = off
  BY TakenDown
<1>2. Kept(table, v) = Standing(v, set, has, off, held)
  BY DEF Kept
<1> HIDE DEF held, set, has, off
<1>3. Executes(table, options, blocks, After(Standing(v, set, has, off, held), r), Step("disable", n))
        = After(Standing(v, set, has, off \cup down, held), r)
  BY DisableDone
<1> QED BY <1>1, <1>2, <1>3

LEMMA KeptSet ==
    ASSUME NEW table, NEW options, NEW blocks, NEW v, NEW r
    PROVE  table.settings = Yes =>
             \E also : Executes(table, options, blocks, After(Kept(table, v), r), Step("set", 0))
                         = After(Kept(table, v), also)
<1> DEFINE held == KeysHeld(table, FALSE) \cup Constraints("check", table.checks)
           set == table.settings
           has == Nonhypothetical(table)
           off == Disabled(table)
<1>1. Kept(table, v) = Standing(v, set, has, off, held)
  BY DEF Kept
<1> HIDE DEF held, set, has, off
<1>2. Executes(table, options, blocks, After(Standing(v, set, has, off, held), r), Step("set", 0))
        = After(Standing(v, Yes, has, off, held), r)
  BY SetDone
<1>3. set = Yes => \E also : Executes(table, options, blocks, After(Kept(table, v), r), Step("set", 0))
                               = After(Kept(table, v), also)
  BY <1>1, <1>2
<1> QED BY <1>3 DEF set

\* What the script does to a table it leaves in place, and what of it stays so.
KeptStatements(table, blocks) ==
    Dependents(table) \cup {Step("create", 0)}
    \cup (IF blocks = "no" THEN {} ELSE {Step("drop", 0)})
    \cup (IF table.settings THEN {Step("set", 0)} ELSE {})
Staying(table, options, blocks, v) ==
    {s \in KeptStatements(table, blocks) :
       \A r : \E also : Executes(table, options, blocks, After(Kept(table, v), r), s)
                          = After(Kept(table, v), also)}

\* What is refused stays so.
LEMMA StayingRefused ==
    ASSUME NEW table, NEW options, NEW blocks, NEW v, NEW s
    PROVE  s \in KeptStatements(table, blocks) /\ ~Allows(table, Kept(table, v), blocks, s)
             => s \in Staying(table, options, blocks, v)
<1> DEFINE H == KeptStatements(table, blocks)
           allowed == Allows(table, Kept(table, v), blocks, s)
           Same(r) == \E also : Executes(table, options, blocks, After(Kept(table, v), r), s)
                                  = After(Kept(table, v), also)
<1>1. ASSUME NEW r PROVE ~allowed => Same(r)
  BY KeptRefused
<1>2. (\A r : Same(r)) /\ s \in H => s \in Staying(table, options, blocks, v)
  BY DEF Staying
<1> HIDE DEF allowed, Same, H
<1>3. s \in H /\ ~allowed => s \in Staying(table, options, blocks, v)
  BY <1>1, <1>2, Zenon
<1> QED BY <1>3 DEF allowed, H

\* What the statements of a script are.
LEMMA StayingStatements ==
    ASSUME NEW table, NEW blocks
    PROVE  /\ EachOf("index", Nonhypothetical(table)) \subseteq KeptStatements(table, blocks)
           /\ EachOf("disable", Disabled(table)) \subseteq KeptStatements(table, blocks)
           /\ AddsOf("key", 1..Len(table.keys), Off(table.keys)) \subseteq KeptStatements(table, blocks)
           /\ AddsOf("check", 1..Len(table.checks), Off(table.checks))
                \subseteq KeptStatements(table, blocks)
           /\ Step("create", 0) \in KeptStatements(table, blocks)
           /\ blocks # "no" => Step("drop", 0) \in KeptStatements(table, blocks)
           /\ table.settings = Yes => Step("set", 0) \in KeptStatements(table, blocks)
<1>1. Dependents(table) \subseteq KeptStatements(table, blocks)
  BY DEF KeptStatements
<1>2. /\ EachOf("index", Nonhypothetical(table)) \subseteq Dependents(table)
      /\ EachOf("disable", Disabled(table)) \subseteq Dependents(table)
      /\ AddsOf("key", 1..Len(table.keys), Off(table.keys)) \subseteq Dependents(table)
      /\ AddsOf("check", 1..Len(table.checks), Off(table.checks)) \subseteq Dependents(table)
  BY DEF Dependents
<1>3. Step("create", 0) \in KeptStatements(table, blocks)
  BY DEF KeptStatements
<1>4. blocks # "no" => Step("drop", 0) \in KeptStatements(table, blocks)
  BY DEF KeptStatements
<1>5. table.settings = Yes => Step("set", 0) \in KeptStatements(table, blocks)
  BY DEF KeptStatements, Yes
<1> QED BY <1>1, <1>2, <1>3, <1>4, <1>5

LEMMA StayingSteps ==
    ASSUME NEW table, NEW options, NEW blocks, NEW v
    PROVE  /\ Step("create", 0) \in Staying(table, options, blocks, v)
           /\ blocks # "no" => Step("drop", 0) \in Staying(table, options, blocks, v)
           /\ table.settings = Yes => Step("set", 0) \in Staying(table, options, blocks, v)
           /\ EachOf("index", Nonhypothetical(table)) \subseteq Staying(table, options, blocks, v)
<1>1. Step("create", 0) \in Staying(table, options, blocks, v)
  BY StayingStatements, StayingRefused, KeptUndropped
<1>2. blocks # "no" => Step("drop", 0) \in Staying(table, options, blocks, v)
  BY StayingStatements, StayingRefused, KeptUndropped
<1>3. table.settings = Yes => Step("set", 0) \in Staying(table, options, blocks, v)
  <2> DEFINE set == table.settings
             s == Step("set", 0)
             Same(r) == \E also : Executes(table, options, blocks, After(Kept(table, v), r), s)
                                    = After(Kept(table, v), also)
  <2>1. set = Yes => s \in KeptStatements(table, blocks)
    BY StayingStatements
  <2>2. ASSUME NEW r PROVE set = Yes => Same(r)
    BY KeptSet
  <2>3. (\A r : Same(r)) /\ s \in KeptStatements(table, blocks) => s \in Staying(table, options, blocks, v)
    BY DEF Staying
  <2> HIDE DEF set, s, Same
  <2>4. set = Yes => s \in Staying(table, options, blocks, v)
    BY <2>1, <2>2, <2>3, Zenon
  <2> QED BY <2>4 DEF set, s
<1>4. ASSUME NEW s \in EachOf("index", Nonhypothetical(table))
      PROVE  s \in Staying(table, options, blocks, v)
  <2>1. PICK n \in Nonhypothetical(table) : s = Step("index", n)
    BY DEF EachOf
  <2>2. s \in KeptStatements(table, blocks)
    BY StayingStatements
  <2>3. ~Allows(table, Kept(table, v), blocks, Step("index", n))
    BY KeptIndex
  <2>4. Step("index", n) \in Staying(table, options, blocks, v)
    BY <2>1, <2>2, <2>3, StayingRefused, Zenon
  <2> QED BY <2>1, <2>4
<1> QED BY <1>1, <1>2, <1>3, <1>4

LEMMA StayingDisables ==
    ASSUME NEW table, TableAsRead(table), NEW options, NEW blocks, NEW v
    PROVE  EachOf("disable", Disabled(table)) \subseteq Staying(table, options, blocks, v)
<1> SUFFICES ASSUME NEW s \in EachOf("disable", Disabled(table))
             PROVE  s \in Staying(table, options, blocks, v)
  OBVIOUS
<1>1. PICK n \in Disabled(table) : s = Step("disable", n)
  BY DEF EachOf
<1>2. s \in KeptStatements(table, blocks)
  BY StayingStatements
<1>3. \A r : \E also : Executes(table, options, blocks, After(Kept(table, v), r), Step("disable", n))
                         = After(Kept(table, v), also)
  BY KeptDisable
<1> QED BY <1>1, <1>2, <1>3 DEF Staying

\* The constraints of one kind that are added.
LEMMA StayingAdds ==
    ASSUME NEW table, NEW options, NEW blocks, NEW v, NEW of, NEW D, NEW off,
           AddsOf(of, D, off) \subseteq KeptStatements(table, blocks),
           \A n \in D : Owns(table, of, n),
           \A n \in off : OwnsDisabled(table, of, n)
    PROVE  AddsOf(of, D, off) \subseteq Staying(table, options, blocks, v)
<1> SUFFICES ASSUME NEW s \in AddsOf(of, D, off)
             PROVE  s \in Staying(table, options, blocks, v)
  OBVIOUS
<1>1. s \in KeptStatements(table, blocks)
  OBVIOUS
<1>2. ASSUME NEW n \in D, NEW with, s = OfConstraint("add", of, n, with)
      PROVE  s \in Staying(table, options, blocks, v)
  <2>1. ~Allows(table, Kept(table, v), blocks, OfConstraint("add", of, n, with))
    BY KeptAdd
  <2>2. ~Allows(table, Kept(table, v), blocks, s)
    BY <1>2, <2>1, Zenon
  <2> QED BY <1>1, <2>2, StayingRefused, Zenon
<1> DEFINE without == ""
<1> HIDE DEF without
<1>3. ASSUME NEW n \in off, s = OfConstraint("nocheck", of, n, without)
      PROVE  s \in Staying(table, options, blocks, v)
  <2>1. OwnsDisabled(table, of, n)
    OBVIOUS
  <2>2. ASSUME NEW r
        PROVE  \E also : Executes(table, options, blocks, After(Kept(table, v), r),
                                  OfConstraint("nocheck", of, n, without))
                           = After(Kept(table, v), also)
    BY <2>1, KeptNocheck
  <2> QED BY <1>1, <1>3, <2>2 DEF Staying
<1>4. \/ \E n \in D : s = OfConstraint("add", of, n, "trusted")
      \/ \E n \in D : s = OfConstraint("add", of, n, "not trusted")
      \/ \E n \in off : s = OfConstraint("nocheck", of, n, without)
  BY DEF AddsOf, without
<1> QED BY <1>2, <1>3, <1>4, Zenon

LEMMA StayingConstraints ==
    ASSUME NEW table, TableAsRead(table), NEW options, NEW blocks, NEW v
    PROVE  /\ AddsOf("key", 1..Len(table.keys), Off(table.keys)) \subseteq Staying(table, options, blocks, v)
           /\ AddsOf("check", 1..Len(table.checks), Off(table.checks))
                \subseteq Staying(table, options, blocks, v)
<1>1. DOMAIN table.keys = 1..Len(table.keys) /\ DOMAIN table.checks = 1..Len(table.checks)
  <2>1. table.keys \in Seq(ConstraintStates) /\ table.checks \in Seq(ConstraintStates)
    BY TableParts
  <2> QED BY <2>1
<1>2. AddsOf("key", 1..Len(table.keys), Off(table.keys)) \subseteq Staying(table, options, blocks, v)
  <2> DEFINE of == "key"
             D == 1..Len(table.keys)
             off == Off(table.keys)
  <2>1. \A n \in D : Owns(table, of, n)
    BY <1>1 DEF Owns
  <2>2. \A n \in off : OwnsDisabled(table, of, n)
    BY <1>1 DEF OwnsDisabled, Off
  <2>3. AddsOf(of, D, off) \subseteq KeptStatements(table, blocks)
    BY StayingStatements
  <2> HIDE DEF of, D, off
  <2>4. AddsOf(of, D, off) \subseteq Staying(table, options, blocks, v)
    BY <2>1, <2>2, <2>3, StayingAdds, Zenon
  <2> QED BY <2>4 DEF of, D, off
<1>3. AddsOf("check", 1..Len(table.checks), Off(table.checks)) \subseteq Staying(table, options, blocks, v)
  <2> DEFINE of == "check"
             D == 1..Len(table.checks)
             off == Off(table.checks)
  <2>1. \A n \in D : Owns(table, of, n)
    BY <1>1 DEF Owns
  <2>2. \A n \in off : OwnsDisabled(table, of, n)
    BY <1>1 DEF OwnsDisabled, Off
  <2>3. AddsOf(of, D, off) \subseteq KeptStatements(table, blocks)
    BY StayingStatements
  <2> HIDE DEF of, D, off
  <2>4. AddsOf(of, D, off) \subseteq Staying(table, options, blocks, v)
    BY <2>1, <2>2, <2>3, StayingAdds, Zenon
  <2> QED BY <2>4 DEF of, D, off
<1> QED BY <1>2, <1>3

\* All of them leave the table as it is.
LEMMA StayingAll ==
    ASSUME NEW table, TableAsRead(table), NEW options, NEW blocks, NEW v
    PROVE  KeptStatements(table, blocks) \subseteq Staying(table, options, blocks, v)
<1> DEFINE S == Staying(table, options, blocks, v)
           set == table.settings
<1>1. Dependents(table) \subseteq S
  BY StayingSteps, StayingDisables, StayingConstraints DEF Dependents
<1>2. Step("create", 0) \in S /\ (blocks # "no" => Step("drop", 0) \in S)
  BY StayingSteps
<1>3. (IF blocks = "no" THEN {} ELSE {Step("drop", 0)}) \subseteq S
  <2> HIDE DEF S
  <2> QED BY <1>2
<1>4. (IF set THEN {Step("set", 0)} ELSE {}) \subseteq S
  <2>1. set \in BOOLEAN
    BY DEF TableAsRead
  <2>2. set = Yes => Step("set", 0) \in S
    BY StayingSteps
  <2> HIDE DEF S, set
  <2> QED BY <2>1, <2>2 DEF Yes
<1> HIDE DEF S, set
<1> QED BY <1>1, <1>2, <1>3, <1>4 DEF KeptStatements, set, S

\* And so does any script of them.
LEMMA StayingRun ==
    ASSUME NEW table, NEW options, NEW blocks, NEW v, NEW r,
           NEW script \in Seq(Staying(table, options, blocks, v))
    PROVE  \E also : Executed(table, options, blocks, After(Kept(table, v), r), script)
                       = After(Kept(table, v), also)
<1> DEFINE t == Kept(table, v)
           S == Staying(table, options, blocks, v)
<1>1. \A s \in S : \A also1 : \E also2 :
        Executes(table, options, blocks, After(t, also1), s) = After(t, also2)
  BY DEF Staying
<1> HIDE DEF t, S
<1>2. script \in Seq(S)
  BY DEF S
<1>3. PICK left : left = Executed(table, options, blocks, After(t, r), script)
  OBVIOUS
<1>4. \E also : left = After(t, also)
  BY <1>1, <1>2, <1>3, ExecutedKeeps
<1> QED BY <1>3, <1>4 DEF t

Verbs == {"create", "drop and create"}

\* The first statement of a script that is to drop a table but may not.
VersionedAfter(table, options, blocks) ==
    IF options.verb = "drop and create" /\ blocks = "keys" THEN No ELSE table.versioned

\* Only SYSTEM_VERSIONING = OFF may change it: where foreign keys of other tables, and
\* no module bound to it, keep it from being dropped.
LEMMA KeptUnversioned ==
    ASSUME NEW table, TableAsRead(table), NEW options, options.verb \in Verbs,
           NEW blocks \in {"no", "keys", "bound"}, options.verb = "create" \/ blocks # "no"
    PROVE  \E r : Executed(table, options, blocks, After(Kept(table, table.versioned), {}),
                           Unversions(table, options))
                    = After(Kept(table, VersionedAfter(table, options, blocks)), r)
<1> DEFINE v == table.versioned
           set == table.settings
           has == Nonhypothetical(table)
           off == Disabled(table)
           held == KeysHeld(table, FALSE) \cup Constraints("check", table.checks)
           none == {}
           u == Step("unversion", 0)
           Ran(script) == Executed(table, options, blocks, After(Kept(table, v), none), script)
           w == VersionedAfter(table, options, blocks)
           us == Unversions(table, options)
<1>1. v = Yes \/ v = No
  BY DEF TableAsRead, Yes, No
<1>2. Ran(<<>>) = After(Kept(table, v), none)
  BY ExecutedNothing
<1>3. Ran(<<u>>) = Executes(table, options, blocks, After(Kept(table, v), none), u)
  BY ExecutedOne
<1>4. us = <<u>> \/ us = <<>>
  BY DEF Unversions
<1>5. options.verb = "create" \/ v = No => us = <<>>
  BY DEF Unversions, No
<1>6. options.verb = "drop and create" /\ v = Yes => us = <<u>>
  BY DEF Unversions, Yes
<1>7. options.verb = "create" \/ v = No \/ blocks = "bound" => w = v
  BY <1>1 DEF VersionedAfter
<1>8. options.verb = "drop and create" /\ blocks = "keys" => w = No
  BY DEF VersionedAfter
<1>9. blocks # "bound" => Executes(table, options, blocks, After(Kept(table, v), none), u)
                            = After(Kept(table, No), none)
  <2>1. Kept(table, v) = Standing(v, set, has, off, held) /\ Kept(table, No) = Standing(No, set, has, off, held)
    BY DEF Kept
  <2> HIDE DEF v, set, has, off, held, none
  <2>2. blocks # "bound" =>
          Executes(table, options, blocks, After(Standing(v, set, has, off, held), none), u)
            = After(Standing(No, set, has, off, held), none)
    BY UnversionDone
  <2> QED BY <2>1, <2>2
<1>10. blocks = "bound" => \E r : Executes(table, options, blocks, After(Kept(table, v), none), u)
                                    = After(Kept(table, v), r)
  <2> DEFINE allowed == Allows(table, Kept(table, v), blocks, u)
             Some == \E r : Executes(table, options, blocks, After(Kept(table, v), none), u)
                              = After(Kept(table, v), r)
  <2>1. blocks = "bound" => ~allowed
    BY KeptUndropped, Zenon
  <2>2. ~allowed => Some
    <3> HIDE DEF v, none, u
    <3> QED BY KeptRefused
  <2> HIDE DEF allowed, Some
  <2>3. blocks = "bound" => Some
    BY <2>1, <2>2, Zenon
  <2> QED BY <2>3, Zenon DEF Some
<1> HIDE DEF v, none, u, w, us
<1>11. CASE options.verb = "create" \/ v = No
  BY <1>2, <1>5, <1>7, <1>11 DEF none, v, w, us
<1>12. CASE options.verb = "drop and create" /\ v = Yes /\ blocks = "keys"
  <2>1. Ran(us) = After(Kept(table, No), none)
    BY <1>3, <1>6, <1>9, <1>12
  <2>2. Ran(us) = After(Kept(table, w), none)
    BY <1>8, <1>12, <2>1
  <2> QED BY <2>2 DEF none, v, w, us
<1>13. CASE options.verb = "drop and create" /\ v = Yes /\ blocks = "bound"
  <2>1. PICK r : Executes(table, options, blocks, After(Kept(table, v), none), u)
                   = After(Kept(table, v), r)
    BY <1>10, <1>13
  <2>2. Ran(us) = After(Kept(table, v), r)
    BY <1>3, <1>6, <1>13, <2>1
  <2>3. Ran(us) = After(Kept(table, w), r)
    BY <1>7, <1>13, <2>2
  <2> QED BY <2>3 DEF none, v, w, us
<1> QED BY <1>1, <1>11, <1>12, <1>13 DEF Verbs

\* A table the script may not drop is left as it was, but for its versioning.
LEMMA TableKept ==
    ASSUME NEW table, TableAsRead(table),
           NEW options, options.verb \in Verbs, options.deferred \in BOOLEAN,
           NEW blocks \in {"no", "keys", "bound"}, options.verb = "create" \/ blocks # "no"
    PROVE  \E r : Executed(table, options, blocks, After(Kept(table, table.versioned), {}),
                           buildTableScript(table, options))
                    = After(Kept(table, VersionedAfter(table, options, blocks)), r)
<1> DEFINE H == KeptStatements(table, blocks)
           all == Statements(table)
           p == Unversions(table, options)
           q == Drops(options)
           c == <<Step("create", 0)>>
           s == Sets(table)
           d == writeTableDependents(table, options.deferred)
           b0 == After(Kept(table, table.versioned), {})
           w == VersionedAfter(table, options, blocks)
           Ran(b, script) == Executed(table, options, blocks, b, script)
<1>1. q \in Seq(H) /\ c \in Seq(H) /\ s \in Seq(H) /\ d \in Seq(H)
  <2>1. q \in Seq(H)
    <3>1. CASE options.verb = "create"
      <4>1. q = <<>>
        BY <3>1 DEF Drops
      <4> QED BY <4>1
    <3>2. CASE options.verb = "drop and create"
      <4>1. q = <<Step("drop", 0)>>
        BY <3>2 DEF Drops
      <4>2. Step("drop", 0) \in H
        BY <3>2, StayingStatements
      <4> HIDE DEF H, q
      <4> QED BY <4>1, <4>2
    <3> QED BY <3>1, <3>2 DEF Verbs
  <2>2. c \in Seq(H)
    <3>1. Step("create", 0) \in H
      BY StayingStatements
    <3> HIDE DEF H
    <3> QED BY <3>1
  <2>3. s \in Seq(H)
    <3>1. CASE table.settings
      <4>1. Step("set", 0) \in H
        BY <3>1 DEF KeptStatements
      <4>2. s = <<Step("set", 0)>>
        BY <3>1 DEF Sets
      <4> HIDE DEF H, s
      <4> QED BY <4>1, <4>2
    <3>2. CASE ~table.settings
      <4>1. s = <<>>
        BY <3>2 DEF Sets
      <4> QED BY <4>1
    <3> QED BY <3>1, <3>2
  <2>4. d \in Seq(H)
    <3>1. d \in Seq(Dependents(table))
      BY DependentsDone
    <3>2. Dependents(table) \subseteq H
      BY DEF KeptStatements
    <3> HIDE DEF d, H
    <3> QED BY <3>1, <3>2, SeqOfMore
  <2> QED BY <2>1, <2>2, <2>3, <2>4
<1>2. p \in Seq(all) /\ q \in Seq(all) /\ c \in Seq(all) /\ s \in Seq(all) /\ d \in Seq(all)
  <2>1. d \in Seq(Dependents(table))
    BY DependentsDone
  <2> QED BY <2>1, PartsType
<1>3. buildTableScript(table, options) = (((p \o q) \o c) \o s) \o d
  BY ScriptParts
<1>4. PICK r1 : Ran(b0, p) = After(Kept(table, w), r1)
  BY KeptUnversioned
<1> DEFINE S == Staying(table, options, blocks, w)
<1>10. q \in Seq(S) /\ c \in Seq(S) /\ s \in Seq(S) /\ d \in Seq(S)
  <2>1. H \subseteq S
    BY StayingAll
  <2> HIDE DEF H, S, q, c, s, d
  <2> QED BY <1>1, <2>1, SeqOfMore
<1>11. ASSUME NEW script \in Seq(S), NEW r
       PROVE  \E also : Ran(After(Kept(table, w), r), script) = After(Kept(table, w), also)
  <2> HIDE DEF w
  <2>1. PICK left : left = Ran(After(Kept(table, w), r), script)
    OBVIOUS
  <2>2. \E also : left = After(Kept(table, w), also)
    BY <2>1, StayingRun
  <2> QED BY <2>1, <2>2
<1> HIDE DEF H, S, all, p, q, c, s, d, b0, w
<1>5. PICK r2 : Ran(After(Kept(table, w), r1), q) = After(Kept(table, w), r2)
  BY <1>10, <1>11
<1>6. PICK r3 : Ran(After(Kept(table, w), r2), c) = After(Kept(table, w), r3)
  BY <1>10, <1>11
<1>7. PICK r4 : Ran(After(Kept(table, w), r3), s) = After(Kept(table, w), r4)
  BY <1>10, <1>11
<1>8. PICK r5 : Ran(After(Kept(table, w), r4), d) = After(Kept(table, w), r5)
  BY <1>10, <1>11
<1>9. Ran(b0, (((p \o q) \o c) \o s) \o d) = After(Kept(table, w), r5)
  BY <1>2, <1>4, <1>5, <1>6, <1>7, <1>8, ExecutedParts
<1> QED BY <1>3, <1>9 DEF b0, w

\* What comes before CREATE TABLE leaves no table, where there is none or it may go.
LEMMA AbsentCleared ==
    ASSUME NEW table, NEW options, NEW blocks
    PROVE  \E r : /\ r \subseteq Refusable(options)
                  /\ \E b : /\ Executed(table, options, blocks, After(Absent, {}), Unversions(table, options))
                                 = b
                            /\ Executed(table, options, blocks, b, Drops(options)) = After(Absent, r)
<1> DEFINE us == Unversions(table, options)
           ds == Drops(options)
           u == Step("unversion", 0)
           d == Step("drop", 0)
           none == {}
           Ran(b, script) == Executed(table, options, blocks, b, script)
<1>1. us = <<u>> \/ us = <<>>
  BY DEF Unversions
<1>2. ds = <<d>> \/ ds = <<>>
  BY DEF Drops
<1>3. ASSUME NEW r, r \subseteq Refusable(options)
      PROVE  \E also : /\ Executes(table, options, blocks, After(Absent, r), u) = After(Absent, also)
                       /\ also \subseteq Refusable(options)
  <2> DEFINE does == "unversion"
  <2>1. does = "unversion" \/ does = "drop"
    OBVIOUS
  <2> HIDE DEF does
  <2>2. \E also : /\ Executes(table, options, blocks, After(Absent, r), Step(does, 0)) = After(Absent, also)
                  /\ also \subseteq Refusable(options)
    BY <1>3, <2>1, AbsentKept
  <2> QED BY <2>2 DEF does
<1>4. ASSUME NEW r, r \subseteq Refusable(options)
      PROVE  \E also : /\ Executes(table, options, blocks, After(Absent, r), d) = After(Absent, also)
                       /\ also \subseteq Refusable(options)
  <2> DEFINE does == "drop"
  <2>1. does = "unversion" \/ does = "drop"
    OBVIOUS
  <2> HIDE DEF does
  <2>2. \E also : /\ Executes(table, options, blocks, After(Absent, r), Step(does, 0)) = After(Absent, also)
                  /\ also \subseteq Refusable(options)
    BY <1>4, <2>1, AbsentKept
  <2> QED BY <2>2 DEF does
<1>5. none \subseteq Refusable(options)
  OBVIOUS
<1>6. ASSUME NEW b PROVE Ran(b, <<>>) = b
  BY ExecutedNothing
<1>7. ASSUME NEW b, NEW s PROVE Ran(b, <<s>>) = Executes(table, options, blocks, b, s)
  BY ExecutedOne
<1> HIDE DEF us, ds, u, d, none
<1>8. PICK r1 : Ran(After(Absent, none), us) = After(Absent, r1) /\ r1 \subseteq Refusable(options)
  <2>1. CASE us = <<>>
    BY <1>5, <1>6, <2>1
  <2>2. CASE us = <<u>>
    BY <1>3, <1>5, <1>7, <2>2
  <2> QED BY <1>1, <2>1, <2>2
<1>9. PICK r2 : Ran(After(Absent, r1), ds) = After(Absent, r2) /\ r2 \subseteq Refusable(options)
  <2>1. CASE ds = <<>>
    BY <1>6, <1>8, <2>1
  <2>2. CASE ds = <<d>>
    BY <1>4, <1>7, <1>8, <2>2
  <2> QED BY <1>2, <2>1, <2>2
<1> QED BY <1>8, <1>9 DEF us, ds, none

\* A table that may be dropped is, its versioning first.
LEMMA TableCleared ==
    ASSUME NEW table, NEW options, NEW blocks, NEW v, v = table.versioned, v = Yes \/ v = No
    PROVE  options.verb = "drop and create" /\ blocks = "no" =>
             \E b : /\ Executed(table, options, blocks, After(Kept(table, v), {}), Unversions(table, options))
                         = b
                    /\ Executed(table, options, blocks, b, Drops(options)) = After(Absent, {})
<1> DEFINE us == Unversions(table, options)
           ds == Drops(options)
           u == Step("unversion", 0)
           d == Step("drop", 0)
           none == {}
           set == table.settings
           has == Nonhypothetical(table)
           off == Disabled(table)
           held == KeysHeld(table, FALSE) \cup Constraints("check", table.checks)
           Ran(b, script) == Executed(table, options, blocks, b, script)
<1>1. options.verb = "drop and create" => ds = <<d>>
  BY DEF Drops
<1>2. options.verb = "drop and create" /\ v = Yes => us = <<u>>
  BY DEF Unversions, Yes
<1>3. v = No => us = <<>>
  BY DEF Unversions, No
<1>4. ASSUME NEW w PROVE Kept(table, w) = Standing(w, set, has, off, held)
  BY DEF Kept
<1> HIDE DEF set, has, off, held, none
<1>5. blocks = "no" => blocks # "bound"
  OBVIOUS
<1>6. ASSUME blocks # "bound" PROVE Executes(table, options, blocks, After(Standing(v, set, has, off, held), none), u)
        = After(Standing(No, set, has, off, held), none)
  BY <1>6, UnversionDone
<1>7. ASSUME blocks = "no" PROVE Executes(table, options, blocks, After(Standing(No, set, has, off, held), none), d)
        = After(Absent, none)
  BY <1>7, DropDone
<1>8. ASSUME NEW b PROVE Ran(b, <<>>) = b
  BY ExecutedNothing
<1>9. ASSUME NEW b, NEW s PROVE Ran(b, <<s>>) = Executes(table, options, blocks, b, s)
  BY ExecutedOne
<1> HIDE DEF us, ds, u, d
<1>10. options.verb = "drop and create" /\ blocks = "no" =>
         Ran(After(Kept(table, v), none), us) = After(Kept(table, No), none)
  BY <1>2, <1>3, <1>4, <1>5, <1>6, <1>8, <1>9
<1>11. options.verb = "drop and create" /\ blocks = "no" =>
         Ran(After(Kept(table, No), none), ds) = After(Absent, none)
  BY <1>1, <1>4, <1>7, <1>9
<1>12. options.verb = "drop and create" /\ blocks = "no" =>
         \E b : Ran(After(Kept(table, v), none), us) = b /\ Ran(b, ds) = After(Absent, none)
  BY <1>10, <1>11
<1> QED BY <1>12 DEF us, ds, none

\* Where what comes before CREATE TABLE leaves no table, the script ends with the
\* table it was made from.
LEMMA TableReplaced ==
    ASSUME NEW table, TableAsRead(table), NEW options, options.deferred \in BOOLEAN, NEW blocks,
           NEW before, NEW r
    PROVE  Executed(table, options, blocks,
                    Executed(table, options, blocks, before, Unversions(table, options)), Drops(options))
             = After(Absent, r)
           => Executed(table, options, blocks, before, buildTableScript(table, options))
                = After(As(table, options.deferred), r)
<1> DEFINE all == Statements(table)
           p == Unversions(table, options)
           q == Drops(options)
           c == <<Step("create", 0)>>
           s == Sets(table)
           d == writeTableDependents(table, options.deferred)
           Ran(f, script) == Executed(table, options, blocks, f, script)
           b == Ran(before, p)
           b2 == After(Absent, r)
           b3 == Ran(b2, c)
           b4 == Ran(b3, s)
           end == After(As(table, options.deferred), r)
<1>1. p \in Seq(all) /\ q \in Seq(all) /\ c \in Seq(all) /\ s \in Seq(all) /\ d \in Seq(all)
  <2>1. d \in Seq(Dependents(table))
    BY DependentsDone
  <2> QED BY <2>1, PartsType
<1>2. buildTableScript(table, options) = (((p \o q) \o c) \o s) \o d
  BY ScriptParts
<1>3. Ran(before, p) = b
  OBVIOUS
<1>4. Ran(b4, d) = end
  BY BuiltFrom
<1>5. Ran(b2, c) = b3 /\ Ran(b3, s) = b4
  OBVIOUS
<1> HIDE DEF all, p, q, c, s, d, b, b2, b3, b4, end
<1>6. ASSUME Ran(b, q) = b2 PROVE Ran(before, (((p \o q) \o c) \o s) \o d) = end
  BY <1>1, <1>3, <1>4, <1>5, <1>6, ExecutedParts
<1>7. Ran(b, q) = b2 => Ran(before, buildTableScript(table, options)) = end
  BY <1>2, <1>6
<1> QED BY <1>7 DEF b, p, q, b2, end

\* What a script leaves, as the property has it.
LEMMA ReplayIs ==
    ASSUME NEW table, NEW options, NEW was, NEW blocks
    PROVE  ReplayTable(table, options, was, blocks)
             = Executed(table, options, blocks, After(was, {}), buildTableScript(table, options))
BY DEF ReplayTable, After

LEMMA AsKept ==
    ASSUME NEW table
    PROVE  As(table, FALSE) = Kept(table, table.versioned)
BY AsIs DEF Kept

\* The three databases a script meets: one with a table it leaves in place, one
\* without the table, and one whose table may be dropped.
LEMMA RebuildsKept ==
    ASSUME NEW table, TableAsRead(table),
           NEW options, options.verb \in Verbs, options.deferred \in BOOLEAN,
           NEW blocks \in {"no", "keys", "bound"}, options.verb = "create" \/ blocks # "no"
    PROVE  Rebuilds(table, options, Yes, blocks)
<1> DEFINE was == As(table, FALSE)
           replay == ReplayTable(table, options, was, blocks)
           v == table.versioned
           w == VersionedAfter(table, options, blocks)
           x == was.versioned /\ ~(options.verb = "drop and create" /\ blocks = "keys")
           set == table.settings
           has == Nonhypothetical(table)
           off == Disabled(table)
           held == KeysHeld(table, FALSE) \cup Constraints("check", table.checks)
<1>1. was = Kept(table, v)
  BY AsKept
<1>2. replay = Executed(table, options, blocks, After(Kept(table, v), {}), buildTableScript(table, options))
  BY <1>1, ReplayIs
<1>3. PICK r : Executed(table, options, blocks, After(Kept(table, v), {}), buildTableScript(table, options))
                 = After(Kept(table, w), r)
  BY TableKept
<1>4. replay.target = Kept(table, w)
  <2> HIDE DEF replay, w, v
  <2> QED BY <1>2, <1>3, AfterIs
<1>5. Kept(table, v) = Standing(v, set, has, off, held) /\ Kept(table, w) = Standing(w, set, has, off, held)
  BY DEF Kept
<1>6. x = w
  <2>1. was.versioned = v
    BY DEF As
  <2>2. v \in BOOLEAN
    BY DEF TableAsRead
  <2> QED BY <2>1, <2>2 DEF VersionedAfter, No
<1> HIDE DEF was, replay, v, w, x, set, has, off, held
<1>7. [was EXCEPT !.versioned = x] = Kept(table, w)
  <2>1. [Standing(v, set, has, off, held) EXCEPT !.versioned = w] = Standing(w, set, has, off, held)
    BY StandingVersioned
  <2> QED BY <1>1, <1>5, <1>6, <2>1
<1>8. replay.target = [was EXCEPT !.versioned = x]
  BY <1>4, <1>7
<1>9. blocks # "no" \/ options.verb # "drop and create"
  OBVIOUS
<1> QED BY <1>8, <1>9, Zenon DEF Rebuilds, was, replay, x, Yes

LEMMA RebuildsAbsent ==
    ASSUME NEW table, TableAsRead(table), NEW options, options.deferred \in BOOLEAN, NEW blocks
    PROVE  Rebuilds(table, options, No, blocks)
<1> DEFINE replay == ReplayTable(table, options, Absent, blocks)
           none == {}
<1>1. PICK r : /\ r \subseteq Refusable(options)
               /\ \E b : /\ Executed(table, options, blocks, After(Absent, none), Unversions(table, options))
                              = b
                         /\ Executed(table, options, blocks, b, Drops(options)) = After(Absent, r)
  BY AbsentCleared
<1>2. PICK b : /\ Executed(table, options, blocks, After(Absent, none), Unversions(table, options)) = b
               /\ Executed(table, options, blocks, b, Drops(options)) = After(Absent, r)
  BY <1>1
<1>3. replay = Executed(table, options, blocks, After(Absent, none), buildTableScript(table, options))
  BY ReplayIs
<1> HIDE DEF none
<1>4. Executed(table, options, blocks, After(Absent, none), buildTableScript(table, options))
        = After(As(table, options.deferred), r)
  <2>1. Executed(table, options, blocks,
                 Executed(table, options, blocks, After(Absent, none), Unversions(table, options)),
                 Drops(options)) = After(Absent, r)
    BY <1>2
  <2>2. options.deferred \in BOOLEAN
    OBVIOUS
  <2> QED BY <2>1, <2>2, TableReplaced
<1> HIDE DEF replay
<1>5. replay.target = As(table, options.deferred) /\ replay.refused = r
  BY <1>3, <1>4, AfterIs
<1>6. r \subseteq IF options.guarded THEN {} ELSE {"unversion", "drop"}
  BY <1>1 DEF Refusable
<1> QED BY <1>5, <1>6, Zenon DEF Rebuilds, replay, No

Replaceable(options, blocks) == options.verb = "drop and create" /\ blocks = "no"

LEMMA RebuildsReplaced ==
    ASSUME NEW table, TableAsRead(table), NEW options, options.deferred \in BOOLEAN, NEW blocks
    PROVE  Replaceable(options, blocks) => Rebuilds(table, options, Yes, blocks)
<1> DEFINE was == As(table, FALSE)
           replay == ReplayTable(table, options, was, blocks)
           v == table.versioned
           none == {}
           before == After(Kept(table, v), none)
           may == options.verb = "drop and create" /\ blocks = "no"
<1>1. was = Kept(table, v)
  BY AsKept
<1>2. v = Yes \/ v = No
  BY DEF TableAsRead, Yes, No
<1>3. may => \E b : /\ Executed(table, options, blocks, before, Unversions(table, options)) = b
                    /\ Executed(table, options, blocks, b, Drops(options)) = After(Absent, none)
  BY <1>2, TableCleared
<1>4. replay = Executed(table, options, blocks, before, buildTableScript(table, options))
  BY <1>1, ReplayIs
<1> HIDE DEF before, v, was, may
<1>5. may => replay = After(As(table, options.deferred), none)
  <2> HIDE DEF none, replay
  <2>1. may => Executed(table, options, blocks,
                        Executed(table, options, blocks, before, Unversions(table, options)),
                        Drops(options)) = After(Absent, none)
    BY <1>3
  <2>2. Executed(table, options, blocks, Executed(table, options, blocks, before, Unversions(table, options)),
                 Drops(options)) = After(Absent, none)
        => Executed(table, options, blocks, before, buildTableScript(table, options))
             = After(As(table, options.deferred), none)
    BY TableReplaced
  <2> QED BY <1>4, <2>1, <2>2
<1>6. may => replay.target = As(table, options.deferred) /\ replay.refused = {}
  <2> HIDE DEF replay, none
  <2>1. After(As(table, options.deferred), none).target = As(table, options.deferred)
    BY AfterIs
  <2>2. After(As(table, options.deferred), none).refused = {}
    BY AfterIs DEF none
  <2> QED BY <1>5, <2>1, <2>2
<1> HIDE DEF replay
<1>7. may => replay.refused \subseteq {}
  BY <1>6
<1>8. may => options.verb = "drop and create" /\ blocks = "no"
  BY DEF may
<1>9. may => Rebuilds(table, options, Yes, blocks)
  BY <1>6, <1>7, <1>8, Zenon DEF Rebuilds, replay, was, Yes
<1> QED BY <1>9 DEF may, Replaceable

\* buildTableScript, for every table, options and database.
LEMMA TableBuilt ==
    ASSUME NEW table, TableAsRead(table),
           NEW options \in [verb : Verbs, guarded : BOOLEAN, deferred : BOOLEAN],
           NEW there \in BOOLEAN, NEW blocks \in {"no", "keys", "bound"}
    PROVE  Rebuilds(table, options, there, blocks)
<1>1. options.verb \in Verbs /\ options.deferred \in BOOLEAN
  OBVIOUS
<1>2. Rebuilds(table, options, No, blocks)
  BY <1>1, RebuildsAbsent
<1>3. options.verb = "create" \/ blocks # "no" => Rebuilds(table, options, Yes, blocks)
  BY <1>1, RebuildsKept
<1>4. options.deferred \in BOOLEAN
  BY <1>1
<1>7. Replaceable(options, blocks) => Rebuilds(table, options, Yes, blocks)
  BY <1>4, RebuildsReplaced
<1>5. there = Yes \/ there = No
  BY DEF Yes, No
<1>6. options.verb = "create" \/ options.verb = "drop and create"
  BY <1>1 DEF Verbs
<1> QED BY <1>2, <1>3, <1>5, <1>6, <1>7, Zenon DEF Replaceable

\* buildTableScript, in the words of the runs: of any table, with any number of
\* indexes and constraints, the script builds it where there is none or one that may be
\* dropped, and leaves one that may not be as it was, but for its versioning.
THEOREM EveryTableRebuilt ==
    ASSUME input.of = "table" =>
             /\ TableAsRead(input.table)
             /\ input.options \in [verb : Verbs, guarded : BOOLEAN, deferred : BOOLEAN]
             /\ input.there \in BOOLEAN /\ input.blocks \in {"no", "keys", "bound"}
    PROVE  TableRebuilt
BY TableBuilt DEF TableRebuilt
=============================================================================
