---------------------------- MODULE BrowserCache -----------------------------
(***************************************************************************)
(* The SQL Server Browser replies a process shares (dialer.go).  Goroutines *)
(* open connections to the instances of one host: each asks which ports     *)
(* they listen on, from the cache or by a datagram, then dials one, and a   *)
(* connection that fails evicts what is cached, while the instances restart *)
(* on other ports.  All of them ask the same question, so the cache holds   *)
(* one reply.                                                               *)
(***************************************************************************)
EXTENDS Naturals, FiniteSets

CONSTANTS
    Dials,          \* goroutines opening connections
    Instances,
    Ports,
    NoReply,        \* no reply, and no instance
    browserReplyTTL,\* in ticks of the clock
    MaxRestarts

ASSUME BrowserAssumption ==
    /\ IsFiniteSet(Dials)
    /\ Cardinality(Instances) < Cardinality(Ports)
    /\ NoReply \notin Instances \cup [Instances -> Ports]
    /\ {browserReplyTTL, MaxRestarts} \subseteq Nat

VARIABLES
    port,           \* where each instance listens
    restarts,
    entry,          \* the cached reply and the ticks it has left
    at,             \* per goroutine: where its Connect is
    aim,            \* the instance it is to reach; NoReply at rest
    answer,         \* Browser's answer to it, on its way
    told,           \* the reply it goes by
    missed,         \* per instance, its dials since the last restart that found
                    \* a port closed where the instance had been
    early           \* per instance, whose answers were on their way as it restarted

browser == <<port, restarts, entry, at, aim, answer, told, missed, early>>

Replies == {r \in [Instances -> Ports] : \A i, j \in Instances : r[i] = r[j] => i = j}
NoEntry == [reply |-> NoReply, left |-> 0]

BrowserTypeOK ==
    /\ port \in Replies
    /\ restarts \in 0..MaxRestarts
    /\ entry \in [reply : Replies \cup {NoReply}, left : 0..browserReplyTTL]
    /\ at \in [Dials -> {"rest", "asked", "dialling", "failed"}]
    /\ aim \in [Dials -> Instances \cup {NoReply}]
    /\ answer \in [Dials -> Replies \cup {NoReply}]
    /\ told \in [Dials -> Replies \cup {NoReply}]
    /\ missed \in [Dials -> [Instances -> Nat]]
    /\ early \in [Instances -> SUBSET Dials]

BrowserInit ==
    /\ port \in Replies
    /\ restarts = 0
    /\ entry = NoEntry
    /\ at = [d \in Dials |-> "rest"]
    /\ aim = [d \in Dials |-> NoReply]
    /\ answer = [d \in Dials |-> NoReply]
    /\ told = [d \in Dials |-> NoReply]
    /\ missed = [d \in Dials |-> [i \in Instances |-> 0]]
    /\ early = [i \in Instances |-> {}]

-----------------------------------------------------------------------------
(* The cache.                                                              *)

\* Fault: an entry is good for as long as it is there.
getAnyAge == entry.reply # NoReply
get == entry.reply # NoReply /\ entry.left > 0

put(reply) == entry' = [reply |-> reply, left |-> browserReplyTTL]

evictHost == entry' = NoEntry

-----------------------------------------------------------------------------
(* A connection being opened.                                              *)

Move(d, label) == at' = [at EXCEPT ![d] = label]
Rests(d) == Move(d, "rest") /\ aim' = [aim EXCEPT ![d] = NoReply]

\* Write: the reply is cached, ...
AskCache(d) ==
    /\ at[d] = "rest"
    /\ get
    /\ \E i \in Instances : aim' = [aim EXCEPT ![d] = i]
    /\ told' = [told EXCEPT ![d] = entry.reply]
    /\ Move(d, "dialling")
    /\ UNCHANGED <<port, restarts, entry, answer, missed, early>>

\* ... or a datagram is sent.
AskBrowser(d) ==
    /\ at[d] = "rest"
    /\ ~get
    /\ \E i \in Instances : aim' = [aim EXCEPT ![d] = i]
    /\ Move(d, "asked")
    /\ UNCHANGED <<port, restarts, entry, answer, told, missed, early>>

\* Browser answers with the ports of that moment.
Answer(d) ==
    /\ at[d] = "asked"
    /\ answer[d] = NoReply
    /\ answer' = [answer EXCEPT ![d] = port]
    /\ UNCHANGED <<port, restarts, entry, at, aim, told, missed, early>>

\* Read: the reply arrives and is cached.
ReadReply(d) ==
    /\ at[d] = "asked"
    /\ answer[d] # NoReply
    /\ put(answer[d])
    /\ told' = [told EXCEPT ![d] = answer[d]]
    /\ answer' = [answer EXCEPT ![d] = NoReply]
    /\ Move(d, "dialling")
    /\ UNCHANGED <<port, restarts, aim, missed, early>>

\* The datagram cannot be sent, or no answer comes in time.
Unanswered(d) ==
    /\ at[d] = "asked"
    /\ answer' = [answer EXCEPT ![d] = NoReply]
    /\ Move(d, "failed")
    /\ UNCHANGED <<port, restarts, entry, aim, told, missed, early>>

\* The port is that of an instance, which lets the login in.
Connected(d) ==
    /\ at[d] = "dialling"
    /\ \E i \in Instances : port[i] = told[d][aim[d]]
    /\ told' = [told EXCEPT ![d] = NoReply]
    /\ Rests(d)
    /\ UNCHANGED <<port, restarts, entry, answer, missed, early>>

\* The network or the login fails: an instance listens there, or nothing does.
NotConnected(d) ==
    LET i == aim[d]
        shut == \A j \in Instances : port[j] # told[d][i]
    IN  /\ at[d] = "dialling"
        /\ told' = [told EXCEPT ![d] = NoReply]
        /\ missed' = IF shut THEN [missed EXCEPT ![d][i] = @ + 1] ELSE missed
        /\ Move(d, "failed")
        /\ UNCHANGED <<port, restarts, entry, aim, answer, early>>

\* Fault: the eviction is of a host by another name.
EvictAnother(d) ==
    /\ at[d] = "failed"
    /\ Rests(d)
    /\ UNCHANGED <<port, restarts, entry, answer, told, missed, early>>

\* evictingConnector.Connect: whatever failed.
Evict(d) ==
    /\ at[d] = "failed"
    /\ evictHost
    /\ Rests(d)
    /\ UNCHANGED <<port, restarts, answer, told, missed, early>>

-----------------------------------------------------------------------------
(* The host and its clock.                                                 *)

\* An instance comes back on a port that is free.
Restart(i) ==
    /\ restarts < MaxRestarts
    /\ restarts' = restarts + 1
    /\ \E p \in Ports \ {port[j] : j \in Instances} : port' = [port EXCEPT ![i] = p]
    /\ missed' = [d \in Dials |-> [missed[d] EXCEPT ![i] = 0]]
    /\ early' = [early EXCEPT ![i] = {d \in Dials : answer[d] # NoReply}]
    /\ UNCHANGED <<entry, at, aim, answer, told>>

Passes ==
    /\ entry.left > 0
    /\ entry' = [entry EXCEPT !.left = @ - 1]
    /\ UNCHANGED <<port, restarts, at, aim, answer, told, missed, early>>

Opening(d) == ReadReply(d) \/ Unanswered(d) \/ Connected(d) \/ NotConnected(d) \/ Evict(d)

BrowserNext ==
    \/ \E d \in Dials : AskCache(d) \/ AskBrowser(d) \/ Answer(d) \/ Opening(d)
    \/ \E i \in Instances : Restart(i)
    \/ Passes

BrowserSpec == BrowserInit /\ [][BrowserNext]_browser

\* The clock ticks, and a connection being opened is opened or fails in time.
BrowserFairness == WF_browser(Passes) /\ \A d \in Dials : WF_browser(Opening(d))

-----------------------------------------------------------------------------
(* What makes caching the reply safe (evictingConnector).                  *)

\* "The attempt dialling it fails, the entry goes, and the retry learns the new
\* port": once, and once more for each other goroutine whose answer was on its
\* way when the instance restarted, for that may be cached after the eviction.
MissesBounded ==
    \A d \in Dials, i \in Instances :
        missed[d][i] <= 1 + Cardinality(early[i] \ {d})

\* "The TTL only bounds how long an entry nobody has failed on is trusted": once
\* no instance restarts, the cache comes to tell only what is so, whether or not
\* anybody connects.
Misleading == get /\ entry.reply # port
StaleDiesOut == <>[]~Misleading
=============================================================================
