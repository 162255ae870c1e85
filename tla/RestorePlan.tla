----------------------------- MODULE RestorePlan -----------------------------
(***************************************************************************)
(* PlanRestore (restore_plan.go): which backup sets restore a database to  *)
(* a point in time.  The state is a database's life as its backups record  *)
(* it: it is written to, backed up, and put into and out of the simple     *)
(* recovery model, and any of its backups may be one a RESTORE cannot      *)
(* name.  The plan is a function of the history so far.                    *)
(*                                                                         *)
(* A log record is the number it was written as; an LSN is how many        *)
(* records were written before.                                            *)
(***************************************************************************)
EXTENDS Selection, FiniteSets
LOCAL INSTANCE SequencesExt

CONSTANTS
    MaxRecords,     \* log records a life writes
    MaxSets,        \* backups it takes
    MaxOdd,         \* of these, the copy-only ones and those no RESTORE can name
    MaxTime,        \* seconds it lasts
    End             \* no StopAt: the end of the log chain

ASSUME RestoreAssumption ==
    /\ {MaxRecords, MaxSets, MaxOdd, MaxTime} \subseteq Nat
    /\ End \notin Nat

VARIABLES
    history,        \* msdb's backup history, oldest first
    written,        \* per log record, when it was written
    now,            \* the server's clock
    chain,          \* where the next log backup starts; End if it would be refused
    base,           \* the full backup the next differential is taken against
    simple          \* the recovery model is SIMPLE

life == <<history, written, now, chain, base, simple>>

\* A file, filegroup or partial backup is no set of a plan; it is left out.
Backup == [id : 1..MaxSets, kind : {"full", "diff", "log"}, copyOnly : BOOLEAN,
           first : 0..MaxRecords, last : 0..MaxRecords, base : 0..MaxSets,
           finish : 0..MaxTime, Restorable : BOOLEAN]

lsn == Len(written)

-----------------------------------------------------------------------------
(* The database's life.                                                    *)

RestoreInit ==
    /\ history = <<>> /\ written = <<>> /\ now = 0
    /\ chain = End /\ base = 0 /\ simple = FALSE

Work ==
    /\ lsn < MaxRecords
    /\ written' = Append(written, now)
    /\ UNCHANGED <<history, now, chain, base, simple>>

Tick ==
    /\ now < MaxTime
    /\ now' = now + 1
    /\ UNCHANGED <<history, written, chain, base, simple>>

Odd(b) == b.copyOnly \/ ~b.Restorable

Taken(kind, copyOnly, first, against) ==
    /\ Len(history) < MaxSets
    /\ \E r \in BOOLEAN :
         history' = Append(history,
            [id |-> Len(history) + 1, kind |-> kind, copyOnly |-> copyOnly,
             first |-> first, last |-> lsn, base |-> against,
             finish |-> now, Restorable |-> r])
    /\ Cardinality({b \in ToSet(history') : Odd(b)}) <= MaxOdd
    /\ UNCHANGED <<written, now, simple>>

\* A full backup, and a differential, starts a log chain where none is running.
Started == IF chain = End /\ ~simple THEN lsn ELSE chain

Full ==
    \E copyOnly \in BOOLEAN :
        /\ Taken("full", copyOnly, lsn, 0)
        /\ IF copyOnly THEN UNCHANGED <<chain, base>>
           ELSE chain' = Started /\ base' = Len(history) + 1

Diff ==
    /\ base # 0
    /\ Taken("diff", FALSE, lsn, base)
    /\ chain' = Started
    /\ UNCHANGED base

\* A log backup starts where the one before it ended.  Every backup writes log of
\* its own, so a log backup ends beyond the sets before it.
Log ==
    /\ chain # End
    /\ lsn > chain
    /\ \A b \in ToSet(history) : b.last < lsn
    /\ \E copyOnly \in BOOLEAN :
        /\ Taken("log", copyOnly, chain, 0)
        /\ chain' = IF copyOnly THEN chain ELSE lsn
    /\ UNCHANGED base

\* SIMPLE truncates the log; the chain that was is not taken up again.
SetRecovery ==
    /\ simple' = ~simple
    /\ chain' = End
    /\ UNCHANGED <<history, written, now, base>>

RestoreNext == Work \/ Tick \/ Full \/ Diff \/ Log \/ SetRecovery

RestoreSpec == RestoreInit /\ [][RestoreNext]_life

-----------------------------------------------------------------------------
(* The code.                                                               *)

\* by: finished by StopAt.
by(b, stop) == stop = End \/ b.finish <= stop

\* newest, among sets of one kind.
newest(sets) ==
    CHOOSE b \in sets : \A a \in sets :
        a.finish < b.finish \/ (a.finish = b.finish /\ a.id <= b.id)

Fulls(stop) ==
    {b \in ToSet(history) : b.Restorable /\ b.kind = "full" /\ by(b, stop)}

\* Fault: any differential will do.
DiffsOfAny(full, stop) ==
    {b \in ToSet(history) : b.Restorable /\ b.kind = "diff" /\ by(b, stop)}
Diffs(full, stop) ==
    {b \in ToSet(history) : /\ b.Restorable /\ b.kind = "diff" /\ by(b, stop)
                            /\ ~full.copyOnly /\ b.base = full.id}

Logs == {b \in ToSet(history) : b.Restorable /\ b.kind = "log" /\ ~b.copyOnly}

\* The log holds the LSN the sets before it end at.
Continues(log, end) == log.first <= end /\ end < log.last

\* The sort of the logs puts the one that starts first, then the newest by, first.
Earliest(logs) ==
    CHOOSE l \in logs : \A m \in logs :
        \/ l.first < m.first
        \/ l.first = m.first /\ (l.finish < m.finish \/ (l.finish = m.finish /\ l.id <= m.id))

HoldsStop(sets, stop) == stop # End /\ Last(sets).kind = "log" /\ Last(sets).finish > stop

\* The chain of logs from sets on, up to the first that finished after stop; and
\* what there is of it after each turn of the loop.
Lengthened(so, stop) ==
    LET next == {l \in Logs : Continues(l, Last(so).last)}
    IN  IF HoldsStop(so, stop) \/ next = {} THEN so ELSE Append(so, Earliest(next))
Chains(sets, stop) ==
    LET chained[k \in 0..Cardinality(Logs)] ==
          IF k = 0 THEN sets ELSE Lengthened(chained[k - 1], stop)
    IN  chained
ChainFrom(sets, stop) == Chains(sets, stop)[Cardinality(Logs)]

\* Fault: nobody looks for logs beyond the gap.
AtEndAlways(sets) == TRUE
AtEnd(sets) == \A l \in Logs : l.last <= Last(sets).last

Refused == [sets |-> <<>>, TailLog |-> FALSE]
Plan(sets, stop, tail) ==
    IF HoldsStop(sets, stop) \/ (stop = End /\ ~tail) THEN [sets |-> sets, TailLog |-> FALSE]
    ELSE IF tail /\ AtEnd(sets) THEN [sets |-> sets, TailLog |-> TRUE]
    ELSE Refused

PlanRestore(stop, tail) ==
    LET full == newest(Fulls(stop))
        placed == IF Diffs(full, stop) = {} THEN <<full>>
                  ELSE <<full, newest(Diffs(full, stop))>>
    IN  IF Fulls(stop) = {} THEN Refused ELSE Plan(ChainFrom(placed, stop), stop, tail)

-----------------------------------------------------------------------------
(* What a RESTORE accepts, and what is asked of a plan.                    *)

Stops == 0..MaxTime

\* The server restores a full backup, then a differential of it, then logs, each
\* of which holds the LSN the restore has got to.
Accepted(sets) ==
    /\ sets # <<>> /\ sets[1].kind = "full"
    /\ \A i \in DOMAIN sets : sets[i].Restorable
    /\ \A i \in DOMAIN sets \ {1} :
        \/ /\ sets[i].kind = "diff" /\ i = 2 /\ sets[i].base = sets[1].id
        \/ sets[i].kind = "log" /\ sets[i].first <= sets[i - 1].last

\* The records a restore of sets brings back, STOPAT being given with its logs.
Restored(sets, stop) ==
    UNION {{k \in 1..sets[i].last : sets[i].kind # "log" \/ stop = End \/ written[k] <= stop}
             : i \in DOMAIN sets}
WrittenBy(stop) == {k \in 1..lsn : stop = End \/ written[k] <= stop}

\* The server recovers the database at a STOPAT that the log it is given goes
\* beyond; until then it leaves it RESTORING ("too early to apply").
Recovered(sets, stop) == \E k \in 1..Last(sets).last : written[k] > stop

\* The tail: a log backup taken now.
TailNow ==
    IF chain = End THEN {}
    ELSE {[id |-> Len(history) + 1, kind |-> "log", copyOnly |-> FALSE,
           first |-> chain, last |-> lsn, base |-> 0, finish |-> now, Restorable |-> TRUE]}

\* sets leave the database as it was at stop, and recovered.
RecoversAt(sets, stop) ==
    Accepted(sets) /\ Restored(sets, stop) = WrittenBy(stop) /\ Recovered(sets, stop)

\* Every plan is a sequence of sets the server accepts; without a tail, it
\* brings back what was written by StopAt, and nothing else.  That recovers the
\* database, unless the plan's last log has no record later than StopAt, for all
\* that it finished later: the database is left RESTORING then, and "the next log,
\* or the tail, recovers it", as it was at StopAt.  And a tail-log backup
\* taken now continues a plan that counts on one ("the chain must then reach the
\* newest log backup in history"), when the newest log backup of the database's
\* chain is one a RESTORE can name.
ReachesStop ==
    \A stop \in Stops \cup {End}, tail \in BOOLEAN :
        LET plan == PlanRestore(stop, tail)
        IN  plan # Refused =>
            /\ Accepted(plan.sets)
            /\ stop # End /\ ~plan.TailLog =>
                 /\ Restored(plan.sets, stop) = WrittenBy(stop)
                 /\ \/ Recovered(plan.sets, stop)
                    \/ \A l \in Logs \cup TailNow :
                         Continues(l, Last(plan.sets).last) => RecoversAt(Append(plan.sets, l), stop)
            /\ plan.TailLog /\ (\E l \in Logs : l.last = chain)
                 => chain <= Last(plan.sets).last

\* The sequences of the history's sets the server accepts.  A COPY_ONLY log is in
\* no chain, although it may hold what a chain lacks.
Chained == {b \in ToSet(history) : b.kind = "log" => ~b.copyOnly}
Acceptable ==
    {sets \in {Only(history, S) : S \in SUBSET Chained} : Accepted(sets)}

\* No plan to a time is refused that some accepted sequence reaches, and a plan
\* to the end goes as far as any from its full backup: unless the newest full
\* backup is a copy-only one, from which no differential leads over a gap.
RefusedOnlyInNeed ==
    /\ \A stop \in Stops :
        PlanRestore(stop, FALSE) = Refused /\ Fulls(stop) # {} /\ ~newest(Fulls(stop)).copyOnly
          => \A sets \in Acceptable :
               HoldsStop(sets, stop) => \E b \in ToSet(sets) : b.kind # "log" /\ ~by(b, stop)
    /\ Fulls(End) # {} =>
        LET plan == PlanRestore(End, FALSE)
        IN  \A sets \in Acceptable :
              sets[1] = plan.sets[1] => Last(sets).last <= Last(plan.sets).last

\* PlanRestore: the plan it returns is one that works, with the next log or the tail
\* where its last log ends before StopAt, and as far as one goes; its refusals are
\* deserved.
PlanRestores == ReachesStop /\ RefusedOnlyInNeed
=============================================================================
