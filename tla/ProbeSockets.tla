---------------------------- MODULE ProbeSockets -----------------------------
(***************************************************************************)
(* fanOutConn (dialer.go): one Browser probe on several sockets.  A reader  *)
(* per socket pumps datagrams and, at the end, one error into two buffered  *)
(* channels; the prober writes, reads any number of times and closes.       *)
(***************************************************************************)
EXTENDS Naturals, FiniteSets

CONSTANTS
    Sockets,
    MaxDatagrams    \* datagrams one socket receives

ASSUME ProbeAssumption == IsFiniteSet(Sockets) /\ MaxDatagrams \in Nat

VARIABLES
    received,       \* per socket, the datagrams that arrived so far
    inbox,          \* those of them not read off it
    late,           \* the deadline has passed
    closed,
    reader,         \* per socket, its readLoop: "reads", "holds" a datagram,
                    \* "errs" (about to send its error) or "gone"
    replies, errs,  \* what the channels hold
    failed,         \* Read's latched count of errors
    prober,         \* "rest", or "reads" inside Read
    outcome,        \* what the last Read returned: "none", "reply" or "error"
    answered        \* a Read has returned a datagram

probe == <<received, inbox, late, closed, reader, replies, errs, failed, prober, outcome, answered>>

Capacity == Cardinality(Sockets)

ProbeTypeOK ==
    /\ received \in [Sockets -> 0..MaxDatagrams]
    /\ inbox \in [Sockets -> 0..MaxDatagrams]
    /\ late \in BOOLEAN /\ closed \in BOOLEAN
    /\ reader \in [Sockets -> {"reads", "holds", "errs", "gone"}]
    /\ {replies, errs, failed} \subseteq 0..Capacity
    /\ prober \in {"rest", "reads"}
    /\ outcome \in {"none", "reply", "error"}
    /\ answered \in BOOLEAN

ProbeInit ==
    /\ received = [s \in Sockets |-> 0]
    /\ inbox = received
    /\ late = FALSE /\ closed = FALSE
    /\ reader = [s \in Sockets |-> "reads"]
    /\ replies = 0 /\ errs = 0 /\ failed = 0
    /\ prober = "rest"
    /\ outcome = "none" /\ answered = FALSE

-----------------------------------------------------------------------------
(* The network.                                                            *)

Arrives(s) ==
    /\ received[s] < MaxDatagrams
    /\ received' = [received EXCEPT ![s] = @ + 1]
    /\ inbox' = [inbox EXCEPT ![s] = @ + 1]
    /\ UNCHANGED <<late, closed, reader, replies, errs, failed, prober, outcome, answered>>

DeadlinePasses ==
    /\ ~late
    /\ late' = TRUE
    /\ UNCHANGED <<received, inbox, closed, reader, replies, errs, failed, prober, outcome, answered>>

-----------------------------------------------------------------------------
(* readLoop.                                                               *)

Takes(s) ==
    /\ reader[s] = "reads"
    /\ inbox[s] > 0
    /\ ~closed /\ ~late
    /\ inbox' = [inbox EXCEPT ![s] = @ - 1]
    /\ reader' = [reader EXCEPT ![s] = "holds"]
    /\ UNCHANGED <<received, late, closed, replies, errs, failed, prober, outcome, answered>>

\* Fault: the send of a datagram waits for room.
PassesOnBlocking(s) ==
    /\ reader[s] = "holds"
    /\ replies < Capacity
    /\ replies' = replies + 1
    /\ reader' = [reader EXCEPT ![s] = "reads"]
    /\ UNCHANGED <<received, inbox, late, closed, errs, failed, prober, outcome, answered>>

\* The surplus is dropped.
PassesOn(s) ==
    /\ reader[s] = "holds"
    /\ replies' = IF replies < Capacity THEN replies + 1 ELSE replies
    /\ reader' = [reader EXCEPT ![s] = "reads"]
    /\ UNCHANGED <<received, inbox, late, closed, errs, failed, prober, outcome, answered>>

\* The socket's Read fails: closed, too late, or refused by the network.
SocketFails(s) ==
    /\ reader[s] = "reads"
    /\ reader' = [reader EXCEPT ![s] = "errs"]
    /\ UNCHANGED <<received, inbox, late, closed, replies, errs, failed, prober, outcome, answered>>

\* Fault: the reader goes on after an error.
ReportsAndReads(s) ==
    /\ reader[s] = "errs"
    /\ errs < Capacity
    /\ errs' = errs + 1
    /\ reader' = [reader EXCEPT ![s] = "reads"]
    /\ UNCHANGED <<received, inbox, late, closed, replies, failed, prober, outcome, answered>>

Reports(s) ==
    /\ reader[s] = "errs"
    /\ errs < Capacity
    /\ errs' = errs + 1
    /\ reader' = [reader EXCEPT ![s] = "gone"]
    /\ UNCHANGED <<received, inbox, late, closed, replies, failed, prober, outcome, answered>>

-----------------------------------------------------------------------------
(* The prober.                                                             *)

\* Fault: the errors are counted from zero in every Read.
ReadCountsAnew ==
    /\ prober = "rest" /\ ~closed
    /\ prober' = "reads"
    /\ failed' = 0
    /\ UNCHANGED <<received, inbox, late, closed, reader, replies, errs, outcome, answered>>

ReadBegins ==
    /\ prober = "rest" /\ ~closed
    /\ prober' = "reads"
    /\ UNCHANGED <<received, inbox, late, closed, reader, replies, errs, failed, outcome, answered>>

Returns(result) ==
    /\ prober' = "rest"
    /\ outcome' = result
    /\ answered' = (answered \/ result = "reply")

GetsReply ==
    /\ prober = "reads" /\ failed < Capacity
    /\ replies > 0
    /\ replies' = replies - 1
    /\ Returns("reply")
    /\ UNCHANGED <<received, inbox, late, closed, reader, errs, failed>>

GetsError ==
    /\ prober = "reads" /\ failed < Capacity
    /\ errs > 0
    /\ errs' = errs - 1
    /\ failed' = failed + 1
    /\ UNCHANGED <<received, inbox, late, closed, reader, replies, prober, outcome, answered>>

\* Fault: once every socket has failed, nobody looks for a late datagram.
FailsAtOnce ==
    /\ prober = "reads" /\ failed = Capacity
    /\ Returns("error")
    /\ UNCHANGED <<received, inbox, late, closed, reader, replies, errs, failed>>

\* Every socket has failed: a datagram that landed meanwhile, or the error.
AllFailed ==
    /\ prober = "reads" /\ failed = Capacity
    /\ IF replies > 0 THEN replies' = replies - 1 /\ Returns("reply")
       ELSE UNCHANGED replies /\ Returns("error")
    /\ UNCHANGED <<received, inbox, late, closed, reader, errs, failed>>

Close ==
    /\ prober = "rest" /\ ~closed
    /\ closed' = TRUE
    /\ UNCHANGED <<received, inbox, late, reader, replies, errs, failed, prober, outcome, answered>>

\* The exchange is over, and nobody waits for anything.
Over ==
    /\ closed /\ \A s \in Sockets : reader[s] = "gone"
    /\ UNCHANGED probe

Pumps(s) == Takes(s) \/ PassesOn(s) \/ Reports(s) \/ SocketFails(s)
Reads == GetsReply \/ GetsError \/ AllFailed

ProbeNext ==
    \/ \E s \in Sockets : Arrives(s) \/ Pumps(s)
    \/ DeadlinePasses
    \/ ReadBegins \/ Reads \/ Close \/ Over

ProbeSpec == ProbeInit /\ [][ProbeNext]_probe

\* The runtime runs the readers and the prober; a socket past its deadline, or
\* closed, fails its Read.  go-mssqldb sets a deadline, which passes while it reads.
ReaderGoesOn(s) ==
    PassesOn(s) \/ Reports(s) \/ ((late \/ closed) /\ SocketFails(s))
ProbeFairness ==
    /\ WF_probe(prober = "reads" /\ DeadlinePasses)
    /\ WF_probe(Reads)
    /\ \A s \in Sockets : WF_probe(ReaderGoesOn(s))

-----------------------------------------------------------------------------
(* Properties.                                                             *)

\* "A reader goroutine never blocks on a caller that has moved on": there is
\* always room for the error it is to send.
NeverParks == \A s \in Sockets : reader[s] = "errs" => errs < Capacity

\* Read "fails only once every socket has failed": with every reader gone, and
\* nothing left to return; and the first Read to fail does so only if no datagram
\* was ever read.
FailsOnlySilent ==
    [][prober = "reads" /\ prober' = "rest" /\ outcome' = "error" =>
         /\ replies = 0
         /\ \A s \in Sockets : reader[s] = "gone"
         /\ ~answered => inbox = received]_probe

\* Every Read ends, one after all sockets have failed included ("rather than
\* waiting on sockets whose reader goroutines have already exited"), and Close ends
\* the readers, whatever they were about to do.
ReadEnds ==
    /\ prober = "reads" ~> prober = "rest"
    /\ closed ~> \A s \in Sockets : reader[s] = "gone"
=============================================================================
