----------------------------- MODULE ConnectProofs -----------------------------
(***************************************************************************)
(* Proofs about what opening a connection is made of: BrowserCache, for    *)
(* any number of goroutines, instances, ports and restarts, and any TTL;   *)
(* ProbeSockets, for any number of sockets and datagrams; EntraToken, for  *)
(* any number of requests and credentials, any life of a token and any     *)
(* margin; LoginRetarget, for any goroutines, databases and connections.   *)
(***************************************************************************)
EXTENDS LoginRetarget, BrowserCache, ProbeSockets, EntraToken, FiniteSetTheorems, TLAPS

-----------------------------------------------------------------------------
(* The cache of Browser replies.                                               *)

BrowserLabels == {"rest", "asked", "dialling", "failed"}

LEMMA Constants ==
    /\ browserReplyTTL \in Nat /\ MaxRestarts \in Nat
    /\ NoReply \notin Instances /\ NoReply \notin Replies
    /\ IsFiniteSet(Dials)
  BY BrowserAssumption DEF Replies

\* A goroutine has a reply in hand only while it is to use it.
InHand ==
    \A d \in Dials :
        /\ told[d] # NoReply <=> at[d] = "dialling"
        /\ answer[d] # NoReply => at[d] = "asked"
        /\ aim[d] = NoReply <=> at[d] = "rest"

LEMMA InitBrowser == BrowserInit => BrowserTypeOK /\ InHand
<1> SUFFICES ASSUME BrowserInit PROVE BrowserTypeOK /\ InHand
  OBVIOUS
<1> USE Constants
<1>1. BrowserTypeOK
  <2>1. entry \in [reply : Replies \cup {NoReply}, left : 0..browserReplyTTL]
    BY DEF BrowserInit, NoEntry
  <2>2. missed \in [Dials -> [Instances -> Nat]]
    BY DEF BrowserInit
  <2>3. early \in [Instances -> SUBSET Dials]
    BY DEF BrowserInit
  <2>4. /\ at \in [Dials -> BrowserLabels] /\ aim \in [Dials -> Instances \cup {NoReply}]
        /\ answer \in [Dials -> Replies \cup {NoReply}]
        /\ told \in [Dials -> Replies \cup {NoReply}]
    BY DEF BrowserInit, BrowserLabels
  <2>5. port \in Replies /\ restarts \in 0..MaxRestarts
    BY DEF BrowserInit
  <2> QED BY <2>1, <2>2, <2>3, <2>4, <2>5 DEF BrowserTypeOK, BrowserLabels
<1>2. InHand
  BY DEF BrowserInit, InHand
<1> QED BY <1>1, <1>2

LEMMA StepBrowser ==
    BrowserTypeOK /\ InHand /\ [BrowserNext]_browser => BrowserTypeOK' /\ InHand'
<1> SUFFICES ASSUME BrowserTypeOK, InHand, [BrowserNext]_browser
             PROVE  BrowserTypeOK' /\ InHand'
  OBVIOUS
<1> USE Constants
<1>0. entry.reply \in Replies \cup {NoReply} /\ entry.left \in 0..browserReplyTTL
  BY DEF BrowserTypeOK
<1>1. ASSUME NEW d \in Dials, AskCache(d) PROVE BrowserTypeOK' /\ InHand'
  BY <1>0, <1>1 DEF AskCache, Move, get, BrowserTypeOK, InHand
<1>2. ASSUME NEW d \in Dials, AskBrowser(d) PROVE BrowserTypeOK' /\ InHand'
  BY <1>2 DEF AskBrowser, Move, BrowserTypeOK, InHand
<1>3. ASSUME NEW d \in Dials, Answer(d) PROVE BrowserTypeOK' /\ InHand'
  BY <1>3 DEF Answer, BrowserTypeOK, InHand
<1>4. ASSUME NEW d \in Dials, ReadReply(d) PROVE BrowserTypeOK' /\ InHand'
  <2>1. answer[d] \in Replies
    BY <1>4 DEF ReadReply, BrowserTypeOK
  <2>2. entry' \in [reply : Replies \cup {NoReply}, left : 0..browserReplyTTL]
    BY <1>4, <2>1 DEF ReadReply, put
  <2> QED BY <1>4, <2>1, <2>2 DEF ReadReply, Move, BrowserTypeOK, InHand
<1>5. ASSUME NEW d \in Dials, Unanswered(d) PROVE BrowserTypeOK' /\ InHand'
  BY <1>5 DEF Unanswered, Move, BrowserTypeOK, InHand
<1>6. ASSUME NEW d \in Dials, Connected(d) PROVE BrowserTypeOK' /\ InHand'
  BY <1>6 DEF Connected, Rests, Move, BrowserTypeOK, InHand
<1>7. ASSUME NEW d \in Dials, NotConnected(d) PROVE BrowserTypeOK' /\ InHand'
  <2>1. missed' \in [Dials -> [Instances -> Nat]]
    <3>1. aim[d] \in Instances /\ missed[d] \in [Instances -> Nat]
      BY <1>7 DEF NotConnected, BrowserTypeOK, InHand
    <3>2. [missed[d] EXCEPT ![aim[d]] = missed[d][aim[d]] + 1] \in [Instances -> Nat]
      BY <3>1
    <3>3. \/ missed' = [missed EXCEPT ![d] = [missed[d] EXCEPT ![aim[d]] = missed[d][aim[d]] + 1]]
          \/ missed' = missed
      BY <1>7 DEF NotConnected
    <3> QED BY <3>2, <3>3 DEF BrowserTypeOK
  <2> QED BY <1>7, <2>1 DEF NotConnected, Move, BrowserTypeOK, InHand
<1>8. ASSUME NEW d \in Dials, Evict(d) PROVE BrowserTypeOK' /\ InHand'
  <2>1. entry' \in [reply : Replies \cup {NoReply}, left : 0..browserReplyTTL]
    BY <1>8 DEF Evict, evictHost, NoEntry
  <2> QED BY <1>8, <2>1 DEF Evict, Rests, Move, BrowserTypeOK, InHand
<1>9. ASSUME NEW i \in Instances, Restart(i) PROVE BrowserTypeOK' /\ InHand'
  <2>1. PICK p \in Ports \ {port[j] : j \in Instances} : port' = [port EXCEPT ![i] = p]
    BY <1>9 DEF Restart
  <2>2. port' \in Replies
    BY <2>1 DEF BrowserTypeOK, Replies
  <2>3. missed' \in [Dials -> [Instances -> Nat]]
    BY <1>9 DEF Restart, BrowserTypeOK
  <2>4. early' \in [Instances -> SUBSET Dials] /\ restarts' \in 0..MaxRestarts
    BY <1>9 DEF Restart, BrowserTypeOK
  <2> QED BY <1>9, <2>2, <2>3, <2>4 DEF Restart, BrowserTypeOK, InHand
<1>10. CASE Passes
  <2>1. entry' \in [reply : Replies \cup {NoReply}, left : 0..browserReplyTTL]
    BY <1>10 DEF Passes, BrowserTypeOK
  <2> QED BY <1>10, <2>1 DEF Passes, BrowserTypeOK, InHand
<1>11. CASE UNCHANGED browser
  BY <1>11 DEF browser, BrowserTypeOK, InHand
<1> QED
  BY <1>1, <1>2, <1>3, <1>4, <1>5, <1>6, <1>7, <1>8, <1>9, <1>10, <1>11
  DEF BrowserNext, Opening

\* Every variable keeps its type: an entry is never trusted longer than
\* browserReplyTTL, and two instances never share a port.
THEOREM BrowserTypeCorrect == BrowserSpec => []BrowserTypeOK
  BY InitBrowser, StepBrowser, PTL DEF BrowserSpec

-----------------------------------------------------------------------------
(* How often a goroutine may miss an instance that has restarted.          *)

Outdated(reply, i) == reply # NoReply /\ reply[i] # port[i]

\* The others whose outdated answers are on their way.
Coming(d, i) == {q \in Dials \ {d} : Outdated(answer[q], i)}

\* The miss d is in for, unless it is about to evict what it would miss by.
Due(d, i) ==
    IF /\ at[d] # "failed"
       /\ Outdated(entry.reply, i) \/ Outdated(told[d], i) \/ Outdated(answer[d], i)
    THEN 1 ELSE 0

\* What d has missed, is to miss, and may yet be made to miss.
Paid(d, i) ==
    missed[d][i] + Due(d, i) + Cardinality(Coming(d, i)) <= 1 + Cardinality(early[i] \ {d})
AllPaid == \A d \in Dials, i \in Instances : Paid(d, i)

\* Every term of Paid is a number.
LEMMA Numbers ==
    ASSUME BrowserTypeOK, NEW d \in Dials, NEW i \in Instances
    PROVE  /\ missed[d][i] \in Nat /\ Due(d, i) \in {0, 1}
           /\ IsFiniteSet(Coming(d, i)) /\ Cardinality(Coming(d, i)) \in Nat
           /\ Cardinality(early[i] \ {d}) \in Nat
<1>1. missed[d][i] \in Nat
  BY DEF BrowserTypeOK
<1>2. Due(d, i) \in {0, 1}
  BY DEF Due
<1>3. Coming(d, i) \in SUBSET Dials /\ early[i] \ {d} \in SUBSET Dials
  BY DEF Coming, BrowserTypeOK
<1>4. IsFiniteSet(Coming(d, i)) /\ IsFiniteSet(early[i] \ {d})
  BY <1>3, Constants, FS_Subset
<1> QED BY <1>1, <1>2, <1>4, FS_CardinalityType

\* A step that brings nothing outdated nearer.
LEMMA Eased ==
    ASSUME BrowserTypeOK, NEW d \in Dials, NEW i \in Instances, Paid(d, i),
           missed'[d][i] = missed[d][i], early'[i] = early[i],
           Due(d, i)' <= Due(d, i),
           Coming(d, i)' \subseteq Coming(d, i)
    PROVE  Paid(d, i)'
<1>1. /\ Cardinality(Coming(d, i)') \in Nat
      /\ Cardinality(Coming(d, i)') <= Cardinality(Coming(d, i))
  <2>1. IsFiniteSet(Coming(d, i)')
    BY Numbers, FS_Subset
  <2> QED BY <2>1, Numbers, FS_Subset, FS_CardinalityType
<1>2. Due(d, i)' \in {0, 1}
  BY DEF Due
<1>3. Cardinality(early'[i] \ {d}) = Cardinality(early[i] \ {d})
  OBVIOUS
<1> QED BY <1>1, <1>2, <1>3, Numbers DEF Paid

LEMMA StepPaid ==
    ASSUME BrowserTypeOK, InHand, BrowserTypeOK', InHand', [BrowserNext]_browser,
           NEW d \in Dials, NEW i \in Instances, Paid(d, i)
    PROVE  Paid(d, i)'
<1> USE Constants
<1>1. ASSUME NEW q \in Dials, AskCache(q) \/ AskBrowser(q) \/ Answer(q) PROVE Paid(d, i)'
  <2>1. /\ missed' = missed /\ early' = early /\ port' = port /\ entry' = entry
        /\ \A r \in Dials : at[r] = "failed" => at'[r] = "failed"
    BY <1>1 DEF AskCache, AskBrowser, Answer, Move, BrowserTypeOK
  <2>2. \A r \in Dials : Outdated(answer[r], i)' => Outdated(answer[r], i)
    BY <1>1 DEF AskCache, AskBrowser, Answer, BrowserTypeOK, Outdated
  <2>3. \A r \in Dials : Outdated(told[r], i)' => Outdated(told[r], i) \/ Outdated(entry.reply, i)
    BY <1>1 DEF AskCache, AskBrowser, Answer, BrowserTypeOK, Outdated
  <2>4. Due(d, i)' <= Due(d, i)
    BY <2>1, <2>2, <2>3 DEF Due, Outdated
  <2>5. Coming(d, i)' \subseteq Coming(d, i)
    BY <2>2 DEF Coming
  <2> QED BY <2>1, <2>4, <2>5, Eased
<1>2. ASSUME NEW q \in Dials, ReadReply(q) PROVE Paid(d, i)'
  <2>1. /\ missed' = missed /\ early' = early /\ port' = port
        /\ entry'.reply = answer[q] /\ answer[q] # NoReply /\ at[q] = "asked"
        /\ told' = [told EXCEPT ![q] = answer[q]]
        /\ answer' = [answer EXCEPT ![q] = NoReply]
        /\ at' = [at EXCEPT ![q] = "dialling"]
    BY <1>2 DEF ReadReply, put, Move
  <2>2. \A r \in Dials : Outdated(answer[r], i)' => r # q /\ Outdated(answer[r], i)
    BY <2>1 DEF Outdated, BrowserTypeOK
  <2>3. Coming(d, i)' \subseteq Coming(d, i)
    BY <2>2 DEF Coming
  <2>4. CASE q # d /\ Outdated(answer[q], i)
    <3>1. q \in Coming(d, i) /\ Coming(d, i)' \subseteq Coming(d, i) \ {q}
      BY <2>2, <2>4 DEF Coming
    <3>2. /\ IsFiniteSet(Coming(d, i) \ {q})
          /\ Cardinality(Coming(d, i) \ {q}) = Cardinality(Coming(d, i)) - 1
      BY <3>1, Numbers, FS_RemoveElement
    <3>3. /\ IsFiniteSet(Coming(d, i)')
          /\ Cardinality(Coming(d, i)') <= Cardinality(Coming(d, i)) - 1
      BY <3>1, <3>2, FS_Subset
    <3>4. Cardinality(Coming(d, i)') \in Nat
      BY <3>3, FS_CardinalityType
    <3>5. Due(d, i)' \in {0, 1}
      BY DEF Due
    <3>6. missed'[d][i] = missed[d][i]
          /\ Cardinality(early'[i] \ {d}) = Cardinality(early[i] \ {d})
      BY <2>1
    <3> QED BY <3>3, <3>4, <3>5, <3>6, Numbers DEF Paid
  <2>5. CASE q = d
    <3>1. Outdated(told[d], i)' \/ Outdated(entry.reply, i)' => Outdated(answer[d], i)
      BY <2>1, <2>5 DEF Outdated, BrowserTypeOK
    <3>2. Due(d, i)' <= Due(d, i)
      BY <2>1, <2>2, <2>5, <3>1 DEF Due, Outdated
    <3> QED BY <2>1, <2>3, <3>2, Eased
  <2>6. CASE q # d /\ ~Outdated(answer[q], i)
    <3>1. /\ told'[d] = told[d] /\ answer'[d] = answer[d] /\ at'[d] = at[d]
          /\ ~Outdated(entry.reply, i)'
      BY <2>1, <2>6 DEF Outdated, BrowserTypeOK
    <3>2. Due(d, i)' <= Due(d, i)
      BY <2>1, <3>1 DEF Due, Outdated
    <3> QED BY <2>1, <2>3, <3>2, Eased
  <2> QED BY <2>4, <2>5, <2>6
<1>3. ASSUME NEW q \in Dials, Unanswered(q) \/ Connected(q) \/ Evict(q) PROVE Paid(d, i)'
  <2>1. /\ missed' = missed /\ early' = early /\ port' = port
        /\ entry' = entry \/ entry' = NoEntry
        /\ \A r \in Dials : /\ answer'[r] \in {answer[r], NoReply}
                             /\ told'[r] \in {told[r], NoReply}
    BY <1>3 DEF Unanswered, Connected, Evict, evictHost, BrowserTypeOK
  <2>2. Coming(d, i)' \subseteq Coming(d, i)
    BY <2>1 DEF Coming, Outdated
  <2>3. Outdated(entry.reply, i)' => Outdated(entry.reply, i)
    BY <2>1 DEF Outdated, NoEntry
  <2>4. at[d] = "failed" => at'[d] = "failed" \/ entry' = NoEntry
    BY <1>3 DEF Unanswered, Connected, Evict, evictHost, Move, Rests, BrowserTypeOK
  <2>5. at[d] = "failed" => told[d] = NoReply /\ answer[d] = NoReply
    BY DEF InHand
  <2>6. Due(d, i)' <= Due(d, i)
    <3>1. CASE at[d] = "failed"
      <4>1. ~Outdated(told[d], i)' /\ ~Outdated(answer[d], i)'
        BY <2>1, <2>5, <3>1 DEF Outdated
      <4>2. at'[d] = "failed" \/ ~Outdated(entry.reply, i)'
        BY <2>4, <3>1 DEF Outdated, NoEntry
      <4> QED BY <4>1, <4>2 DEF Due
    <3>2. CASE at[d] # "failed"
      <4>1. /\ Outdated(told[d], i)' => Outdated(told[d], i)
            /\ Outdated(answer[d], i)' => Outdated(answer[d], i)
        BY <2>1 DEF Outdated
      <4> QED BY <2>3, <3>2, <4>1 DEF Due
    <3> QED BY <3>1, <3>2
  <2> QED BY <2>1, <2>2, <2>6, Eased
<1>4. ASSUME NEW q \in Dials, NotConnected(q) PROVE Paid(d, i)'
  <2>1. /\ early' = early /\ port' = port /\ entry' = entry /\ answer' = answer
        /\ told' = [told EXCEPT ![q] = NoReply]
        /\ at' = [at EXCEPT ![q] = "failed"]
        /\ at[q] = "dialling"
    BY <1>4 DEF NotConnected, Move
  <2>2. Coming(d, i)' = Coming(d, i)
    BY <2>1 DEF Coming, Outdated
  <2>3. Due(d, i)' <= Due(d, i)
    BY <2>1 DEF Due, Outdated, BrowserTypeOK
  <2>4. CASE q # d \/ missed' = missed \/ i # aim[q]
    <3>1. missed'[d][i] = missed[d][i]
      BY <1>4, <2>4 DEF NotConnected, BrowserTypeOK
    <3> QED BY <2>1, <2>2, <2>3, <3>1, Eased
  <2>5. CASE q = d /\ missed' # missed /\ i = aim[d]
    <3>1. \A j \in Instances : port[j] # told[d][i]
      BY <1>4, <2>5 DEF NotConnected
    <3>2. Outdated(told[d], i)
      BY <2>1, <2>5, <3>1 DEF Outdated, InHand
    <3>3. Due(d, i) = 1
      BY <2>1, <2>5, <3>2 DEF Due
    <3>4. Due(d, i)' = 0
      BY <2>1, <2>5 DEF Due, BrowserTypeOK
    <3>5. missed'[d][i] = missed[d][i] + 1
      BY <1>4, <2>5 DEF NotConnected, BrowserTypeOK
    <3>6. /\ Cardinality(Coming(d, i)') = Cardinality(Coming(d, i))
          /\ Cardinality(early'[i] \ {d}) = Cardinality(early[i] \ {d})
      BY <2>1, <2>2
    <3> QED BY <3>3, <3>4, <3>5, <3>6, Numbers DEF Paid
  <2> QED BY <2>4, <2>5
<1>5. ASSUME NEW j \in Instances, Restart(j) PROVE Paid(d, i)'
  <2>1. /\ UNCHANGED <<entry, at, aim, answer, told>>
        /\ missed' = [r \in Dials |-> [missed[r] EXCEPT ![j] = 0]]
        /\ early' = [early EXCEPT ![j] = {r \in Dials : answer[r] # NoReply}]
        /\ \E p \in Ports : port' = [port EXCEPT ![j] = p]
    BY <1>5 DEF Restart
  <2>2. CASE i = j
    <3>1. missed'[d][i] = 0
      BY <2>1, <2>2 DEF BrowserTypeOK
    <3>2. early'[i] = {r \in Dials : answer[r] # NoReply}
      BY <2>1, <2>2 DEF BrowserTypeOK
    <3>3. Coming(d, i)' \subseteq early'[i] \ {d}
      BY <2>1, <3>2 DEF Coming, Outdated
    <3>4. IsFiniteSet(early'[i] \ {d})
      <4>1. early'[i] \ {d} \in SUBSET Dials
        BY <3>2
      <4> QED BY <4>1, FS_Subset
    <3>5. /\ IsFiniteSet(Coming(d, i)')
          /\ Cardinality(Coming(d, i)') <= Cardinality(early'[i] \ {d})
      BY <3>3, <3>4, FS_Subset
    <3>6. /\ Cardinality(Coming(d, i)') \in Nat
          /\ Cardinality(early'[i] \ {d}) \in Nat
      BY <3>4, <3>5, FS_CardinalityType
    <3>7. Due(d, i)' \in {0, 1}
      BY DEF Due
    <3> QED BY <3>1, <3>5, <3>6, <3>7 DEF Paid
  <2>3. CASE i # j
    <3>1. /\ port'[i] = port[i] /\ missed'[d][i] = missed[d][i] /\ early'[i] = early[i]
      BY <2>1, <2>3 DEF BrowserTypeOK, Replies
    <3>2. Due(d, i)' <= Due(d, i) /\ Coming(d, i)' \subseteq Coming(d, i)
      BY <2>1, <3>1 DEF Due, Coming, Outdated
    <3> QED BY <3>1, <3>2, Eased
  <2> QED BY <2>2, <2>3
<1>6. CASE Passes
  <2>1. /\ UNCHANGED <<port, at, told, answer, missed, early>>
        /\ entry'.reply = entry.reply
    BY <1>6 DEF Passes, BrowserTypeOK
  <2>2. Due(d, i)' <= Due(d, i) /\ Coming(d, i)' \subseteq Coming(d, i)
    BY <2>1 DEF Due, Coming, Outdated
  <2> QED BY <2>1, <2>2, Eased
<1>7. CASE UNCHANGED browser
  <2>1. Due(d, i)' <= Due(d, i) /\ Coming(d, i)' \subseteq Coming(d, i)
    BY <1>7 DEF browser, Due, Coming, Outdated
  <2> QED BY <1>7, <2>1, Eased DEF browser
<1> QED
  BY <1>1, <1>2, <1>3, <1>4, <1>5, <1>6, <1>7 DEF BrowserNext, Opening

\* evictingConnector: after an instance has moved, each goroutine dials its old
\* port at most once, and once more for each other goroutine that Browser had
\* answered before the move.
THEOREM MissesAreFew == BrowserSpec => []MissesBounded
<1> DEFINE BrowserInv == BrowserTypeOK /\ InHand /\ AllPaid
<1>1. BrowserInit => BrowserInv
  <2> SUFFICES ASSUME BrowserInit, NEW d \in Dials, NEW i \in Instances PROVE Paid(d, i)
    BY InitBrowser DEF AllPaid
  <2>1. BrowserTypeOK
    BY InitBrowser
  <2>2. Coming(d, i) = {} /\ early[i] \ {d} = {} /\ missed[d][i] = 0
    BY DEF BrowserInit, Coming, Outdated
  <2>3. Cardinality(Coming(d, i)) = 0 /\ Cardinality(early[i] \ {d}) = 0
    BY <2>2, FS_EmptySet
  <2> QED BY <2>1, <2>2, <2>3, Numbers DEF Paid
<1>2. BrowserInv /\ [BrowserNext]_browser => BrowserInv'
  BY StepBrowser, StepPaid DEF AllPaid
<1>3. BrowserInv => MissesBounded
  <2> SUFFICES ASSUME BrowserTypeOK, AllPaid, NEW d \in Dials, NEW i \in Instances
               PROVE  missed[d][i] <= 1 + Cardinality(early[i] \ {d})
    BY DEF MissesBounded
  <2> QED BY Numbers DEF AllPaid, Paid
<1> QED BY <1>1, <1>2, <1>3, PTL DEF BrowserSpec

-----------------------------------------------------------------------------
(* The sockets of a Browser probe.                                             *)

Gone == {s \in Sockets : reader[s] = "gone"}

\* An error for each reader that is gone, in the channel or counted by Read.
Counted == errs + failed = Cardinality(Gone)

\* A datagram that was taken is on its way, unless one was returned.
Accounted ==
    ~answered => \/ inbox = received
                 \/ replies > 0
                 \/ \E s \in Sockets : reader[s] = "holds"

ProbeInv ==
    /\ ProbeTypeOK
    /\ \A s \in Sockets : inbox[s] <= received[s]
    /\ Counted
    /\ Accounted

LEMMA CapacityNat == Capacity \in Nat
  BY ProbeAssumption, FS_CardinalityType DEF Capacity

LEMMA GoneFinite == IsFiniteSet(Gone) /\ Cardinality(Gone) \in Nat
<1>1. Gone \in SUBSET Sockets
  BY DEF Gone
<1>2. IsFiniteSet(Gone)
  BY <1>1, ProbeAssumption, FS_Subset
<1> QED BY <1>2, FS_CardinalityType

\* With a reader left, there are fewer gone than the channel has room for.
LEMMA RoomWhileOneReads ==
    ASSUME NEW s \in Sockets, reader[s] # "gone"
    PROVE  Cardinality(Gone) < Capacity
<1>1. Gone \in SUBSET (Sockets \ {s})
  BY DEF Gone
<1>2. IsFiniteSet(Sockets \ {s}) /\ Cardinality(Sockets \ {s}) = Capacity - 1
  BY ProbeAssumption, FS_RemoveElement DEF Capacity
<1>3. Cardinality(Gone) <= Capacity - 1
  BY <1>1, <1>2, FS_Subset
<1> QED BY <1>3, CapacityNat, GoneFinite

LEMMA InitCounted == ProbeInit => ProbeInv
<1> SUFFICES ASSUME ProbeInit PROVE ProbeInv
  OBVIOUS
<1>1. Gone = {}
  BY DEF ProbeInit, Gone
<1>2. Counted
  BY <1>1, FS_EmptySet DEF ProbeInit, Counted
<1>3. received \in [Sockets -> 0..MaxDatagrams]
  BY ProbeAssumption DEF ProbeInit
<1>4. reader \in [Sockets -> {"reads", "holds", "errs", "gone"}]
  BY DEF ProbeInit
<1>5. {replies, errs, failed} \subseteq 0..Capacity
  BY CapacityNat DEF ProbeInit
<1>6. ProbeTypeOK
  BY <1>3, <1>4, <1>5 DEF ProbeInit, ProbeTypeOK
<1> QED BY <1>2, <1>6, ProbeAssumption DEF ProbeInit, ProbeInv, Accounted

\* What a step of one reader that neither reports nor was gone leaves.
LEMMA GoneKept ==
    ASSUME reader \in [Sockets -> {"reads", "holds", "errs", "gone"}],
           NEW s \in Sockets, reader[s] # "gone",
           NEW label \in {"reads", "holds", "errs"},
           reader' = [reader EXCEPT ![s] = label]
    PROVE  Gone' = Gone
<1>1. ASSUME NEW t \in Sockets PROVE reader'[t] = "gone" <=> reader[t] = "gone"
  <2>1. CASE t = s
    BY <2>1
  <2>2. CASE t # s
    BY <2>2
  <2> QED BY <2>1, <2>2
<1> QED BY <1>1 DEF Gone

LEMMA StepCounted == ProbeInv /\ [ProbeNext]_probe => ProbeInv'
<1> SUFFICES ASSUME ProbeInv, [ProbeNext]_probe PROVE ProbeInv'
  OBVIOUS
<1> USE CapacityNat, ProbeAssumption
<1>1. ASSUME NEW s \in Sockets, Arrives(s) PROVE ProbeInv'
  <2>1. Gone' = Gone
    BY <1>1 DEF Arrives, Gone
  <2>2. Counted'
    BY <1>1, <2>1 DEF ProbeInv, Counted, Arrives
  <2>3. ProbeTypeOK' /\ \A r \in Sockets : inbox'[r] <= received'[r]
    BY <1>1 DEF ProbeInv, ProbeTypeOK, Arrives
  <2>4. inbox = received => inbox' = received'
    BY <1>1 DEF ProbeInv, ProbeTypeOK, Arrives
  <2> QED BY <1>1, <2>2, <2>3, <2>4 DEF ProbeInv, Accounted, Arrives
<1>2. CASE DeadlinePasses
  BY <1>2 DEF ProbeInv, ProbeTypeOK, Counted, Accounted, Gone, DeadlinePasses
<1>3. ASSUME NEW s \in Sockets, Takes(s) PROVE ProbeInv'
  <2>1. Gone' = Gone
    BY <1>3, GoneKept DEF ProbeInv, ProbeTypeOK, Takes
  <2>2. Counted'
    BY <1>3, <2>1 DEF ProbeInv, Counted, Takes
  <2>3. ProbeTypeOK' /\ \A r \in Sockets : inbox'[r] <= received'[r]
    BY <1>3 DEF ProbeInv, ProbeTypeOK, Takes
  <2>4. reader'[s] = "holds"
    BY <1>3 DEF ProbeInv, ProbeTypeOK, Takes
  <2> QED BY <1>3, <2>2, <2>3, <2>4 DEF ProbeInv, Accounted
<1>4. ASSUME NEW s \in Sockets, PassesOn(s) PROVE ProbeInv'
  <2>1. Gone' = Gone
    BY <1>4, GoneKept DEF ProbeInv, ProbeTypeOK, PassesOn
  <2>2. Counted'
    BY <1>4, <2>1 DEF ProbeInv, Counted, PassesOn
  <2>3. ProbeTypeOK' /\ \A r \in Sockets : inbox'[r] <= received'[r]
    BY <1>4 DEF ProbeInv, ProbeTypeOK, PassesOn
  <2>4. replies' > 0
    <3>1. 0 <= Cardinality(Gone) /\ Cardinality(Gone) < Capacity
      BY <1>4, RoomWhileOneReads, GoneFinite DEF PassesOn
    <3> QED BY <1>4, <3>1, GoneFinite DEF ProbeInv, ProbeTypeOK, PassesOn
  <2> QED BY <2>2, <2>3, <2>4 DEF ProbeInv, Accounted
<1>5. ASSUME NEW s \in Sockets, SocketFails(s) PROVE ProbeInv'
  <2>1. Gone' = Gone
    BY <1>5, GoneKept DEF ProbeInv, ProbeTypeOK, SocketFails
  <2>2. Counted'
    BY <1>5, <2>1 DEF ProbeInv, Counted, SocketFails
  <2>3. ProbeTypeOK' /\ \A r \in Sockets : inbox'[r] <= received'[r]
    BY <1>5 DEF ProbeInv, ProbeTypeOK, SocketFails
  <2>4. \A r \in Sockets : reader[r] = "holds" => reader'[r] = "holds"
    BY <1>5 DEF ProbeInv, ProbeTypeOK, SocketFails
  <2> QED BY <1>5, <2>2, <2>3, <2>4 DEF ProbeInv, Accounted, SocketFails
<1>6. ASSUME NEW s \in Sockets, Reports(s) PROVE ProbeInv'
  <2>1. Gone' = Gone \cup {s} /\ s \notin Gone
    BY <1>6 DEF ProbeInv, ProbeTypeOK, Reports, Gone
  <2>2. Cardinality(Gone') = Cardinality(Gone) + 1
    BY <2>1, GoneFinite, FS_AddElement
  <2>3. Counted'
    BY <1>6, <2>2, GoneFinite DEF ProbeInv, ProbeTypeOK, Counted, Reports
  <2>4. ProbeTypeOK' /\ \A r \in Sockets : inbox'[r] <= received'[r]
    BY <1>6 DEF ProbeInv, ProbeTypeOK, Reports
  <2>5. \A r \in Sockets : reader[r] = "holds" => reader'[r] = "holds"
    BY <1>6 DEF ProbeInv, ProbeTypeOK, Reports
  <2> QED BY <1>6, <2>3, <2>4, <2>5 DEF ProbeInv, Accounted, Reports
<1>7. CASE ReadBegins
  BY <1>7 DEF ProbeInv, ProbeTypeOK, Counted, Accounted, Gone, ReadBegins
<1>8. CASE GetsReply
  <2>1. Counted'
    BY <1>8 DEF ProbeInv, Counted, Gone, GetsReply
  <2>2. answered' = (answered \/ TRUE)
    BY <1>8, Zenon DEF GetsReply, Returns
  <2>3. answered' = TRUE
    BY <2>2
  <2>4. ProbeTypeOK'
    BY <1>8, <2>3 DEF ProbeInv, ProbeTypeOK, GetsReply, Returns
  <2> QED BY <1>8, <2>1, <2>3, <2>4 DEF ProbeInv, Accounted, GetsReply
<1>9. CASE GetsError
  <2>1. Counted'
    BY <1>9 DEF ProbeInv, ProbeTypeOK, Counted, Gone, GetsError
  <2>2. ProbeTypeOK'
    BY <1>9 DEF ProbeInv, ProbeTypeOK, GetsError
  <2> QED BY <1>9, <2>1, <2>2 DEF ProbeInv, Accounted, GetsError
<1>10. CASE AllFailed
  <2>1. Counted'
    BY <1>10 DEF ProbeInv, Counted, Gone, AllFailed
  <2>2. CASE replies > 0
    <3>1. answered' = (answered \/ TRUE)
      BY <1>10, <2>2, Zenon DEF AllFailed, Returns
    <3>2. answered' = TRUE
      BY <3>1
    <3>3. ProbeTypeOK'
      BY <1>10, <2>2, <3>2 DEF ProbeInv, ProbeTypeOK, AllFailed, Returns
    <3> QED BY <1>10, <2>1, <3>2, <3>3 DEF ProbeInv, Accounted, AllFailed
  <2>3. CASE ~(replies > 0)
    <3>1. ProbeTypeOK' /\ answered' = answered /\ replies' = replies
      BY <1>10, <2>3 DEF ProbeInv, ProbeTypeOK, AllFailed, Returns
    <3> QED BY <1>10, <2>1, <3>1 DEF ProbeInv, Accounted, AllFailed
  <2> QED BY <2>2, <2>3
<1>11. CASE Close
  BY <1>11 DEF ProbeInv, ProbeTypeOK, Counted, Accounted, Gone, Close
<1>12. CASE UNCHANGED probe
  BY <1>12 DEF ProbeInv, ProbeTypeOK, Counted, Accounted, Gone, probe
<1> QED
  BY <1>1, <1>2, <1>3, <1>4, <1>5, <1>6, <1>7, <1>8, <1>9, <1>10, <1>11, <1>12
  DEF ProbeNext, Pumps, Reads, Over

\* Every variable keeps its type; the channels never hold more than a datagram
\* and an error per socket, whatever the sockets answer (newFanOutConn).
THEOREM ProbeTypeCorrect == ProbeSpec => []ProbeTypeOK
<1>1. ProbeInv => ProbeTypeOK
  BY DEF ProbeInv
<1> QED BY <1>1, InitCounted, StepCounted, PTL DEF ProbeSpec

LEMMA CountLeavesRoom == ProbeInv => NeverParks
<1> SUFFICES ASSUME ProbeInv, NEW s \in Sockets, reader[s] = "errs" PROVE errs < Capacity
  BY DEF NeverParks
<1>1. Cardinality(Gone) < Capacity
  BY RoomWhileOneReads
<1> QED BY <1>1, CapacityNat, GoneFinite DEF ProbeInv, ProbeTypeOK, Counted

\* readLoop never blocks on its one error, for any number of sockets, whether or
\* not anybody reads (the buffer of errs is exact).
THEOREM ReadersNeverPark == ProbeSpec => []NeverParks
  BY InitCounted, StepCounted, CountLeavesRoom, PTL DEF ProbeSpec

LEMMA FailureIsOfAll == ProbeInv /\ failed = Capacity => \A s \in Sockets : reader[s] = "gone"
<1> SUFFICES ASSUME ProbeInv, failed = Capacity, NEW s \in Sockets, reader[s] # "gone" PROVE FALSE
  OBVIOUS
<1>1. Cardinality(Gone) < Capacity
  BY RoomWhileOneReads
<1> QED BY <1>1, CapacityNat, GoneFinite DEF ProbeInv, ProbeTypeOK, Counted

\* fanOutConn.Read returns an error only with every reader gone and nothing left
\* to return, and not before some datagram that was read off a socket has been
\* returned, if one was.
THEOREM ReadFailsOnlySilent == ProbeSpec => FailsOnlySilent
<1> DEFINE Silent == prober = "reads" /\ prober' = "rest" /\ outcome' = "error" =>
                       /\ replies = 0
                       /\ \A s \in Sockets : reader[s] = "gone"
                       /\ ~answered => inbox = received
<1>1. ProbeInv /\ [ProbeNext]_probe => [Silent]_probe
  <2> SUFFICES ASSUME ProbeInv, ProbeNext, prober = "reads", prober' = "rest",
                      outcome' = "error"
               PROVE  /\ replies = 0
                      /\ \A s \in Sockets : reader[s] = "gone"
                      /\ ~answered => inbox = received
    OBVIOUS
  <2>1. AllFailed
    BY DEF ProbeNext, Pumps, Reads, Over, Arrives, Takes, PassesOn, Reports, SocketFails,
           DeadlinePasses, ReadBegins, GetsReply, GetsError, Close, Returns, probe
  <2>2. failed = Capacity
    BY <2>1 DEF AllFailed
  <2>3. replies = 0
    BY <2>1 DEF AllFailed, Returns, ProbeInv, ProbeTypeOK
  <2>4. \A s \in Sockets : reader[s] = "gone"
    BY <2>2, FailureIsOfAll
  <2> QED BY <2>3, <2>4 DEF ProbeInv, Accounted
<1> QED BY <1>1, InitCounted, StepCounted, PTL DEF ProbeSpec, FailsOnlySilent

-----------------------------------------------------------------------------
(* The Entra token of a login.                                                 *)

\* Who looks at a credential's token, or signs in for one, holds its semaphore;
\* nobody has a credential in hand before it was given one.
Holding ==
    \A r \in Requests :
        /\ stage[r] \in {"looks", "signsIn"} => sem[using[r]] = r
        /\ stage[r] \in {"rest", "asks", "credential"} => using[r] = 0

\* A token that was not good stays so until the semaphore's holder replaces it.
Stale == \A r \in Requests : stage[r] = "signsIn" => ~tokenFresh(tokens[using[r]])

\* What is left of a reused token is more than what is left of the margin.
Margin ==
    \A r \in Requests :
        stage[r] = "login" /\ ~hand[r].new => hand[r].left + hand[r].took > entraTokenMargin

\* The cached credential is younger than the last Clear, and no request wants a
\* younger one than the next.
Younger ==
    /\ creds # 0 => cleared < creds /\ creds <= created
    /\ cleared <= created
    /\ \A r \in Requests : since[r] <= cleared + 1

Bounds == /\ MaxCredentials \in Nat /\ MaxLife \in Nat /\ entraTokenMargin \in Nat
          /\ NoRequest \notin Requests /\ Warmers \subseteq Requests

LEMMA BoundsHold == Bounds
  BY EntraAssumption DEF Bounds

LEMMA InitToken == EntraInit => EntraTypeOK
<1> SUFFICES ASSUME EntraInit PROVE EntraTypeOK
  OBVIOUS
<1> USE BoundsHold DEF Bounds
<1>1. NoToken \in Token
  BY DEF NoToken, Token
<1>2. NoHand \in Hand
  BY DEF NoHand, Hand
<1>3. tokens \in [Credentials -> Token] /\ hand \in [Requests -> Hand]
  BY <1>1, <1>2 DEF EntraInit
<1>4. sem \in [Credentials -> Requests \cup {NoRequest}]
  BY DEF EntraInit
<1>5. /\ using \in [Requests -> {0} \cup Credentials]
      /\ since \in [Requests -> 0..(MaxCredentials + 1)]
      /\ over \in [Requests -> BOOLEAN]
  BY DEF EntraInit
<1>6. stage \in [Requests -> {"rest", "asks", "credential", "waits", "looks",
                            "signsIn", "login"}]
  BY DEF EntraInit
<1> QED BY <1>3, <1>4, <1>5, <1>6 DEF EntraInit, EntraTypeOK

LEMMA DoneTyped ==
    ASSUME EntraTypeOK, NEW r \in Requests, Done(r)
    PROVE  /\ stage' \in [Requests -> {"rest", "asks", "credential", "waits", "looks",
                                       "signsIn", "login"}]
           /\ over' \in [Requests -> BOOLEAN]
           /\ using' \in [Requests -> {0} \cup Credentials]
           /\ \A q \in Requests : using'[q] = 0 => stage'[q] \in {"rest", "asks", "credential"}
           /\ since' \in [Requests -> 0..(MaxCredentials + 1)]
           /\ hand' \in [Requests -> Hand]
<1> USE BoundsHold DEF Bounds
<1>1. NoHand \in Hand
  BY DEF NoHand, Hand
<1> QED BY <1>1 DEF Done, To, EntraTypeOK

\* A reused token has more life left than the margin, and a new one any.
LEMMA LogsInTyped ==
    ASSUME EntraTypeOK, NEW r \in Requests, NEW tk \in Token, NEW new \in BOOLEAN,
           LogsIn(r, tk, new)
    PROVE  /\ hand' \in [Requests -> Hand]
           /\ hand'[r] = [left |-> tk.left, took |-> 0, new |-> new]
           /\ \A q \in Requests \ {r} : hand'[q] = hand[q]
<1> USE BoundsHold DEF Bounds
<1>1. [left |-> tk.left, took |-> 0, new |-> new] \in Hand
  BY DEF Token, Hand
<1> QED BY <1>1 DEF LogsIn, EntraTypeOK

LEMMA PassesTyped ==
    ASSUME EntraTypeOK, EntraPasses
    PROVE  tokens' \in [Credentials -> Token] /\ hand' \in [Requests -> Hand]
<1> USE BoundsHold DEF Bounds
<1>1. \A n \in 0..MaxLife : Less(n) \in 0..MaxLife
  BY DEF Less
<1>2. tokens' \in [Credentials -> Token]
  <2>1. ASSUME NEW c \in Credentials
        PROVE  [left |-> Less(tokens[c].left), renew |-> Less(tokens[c].renew)] \in Token
    <3>1. tokens[c] \in Token
      BY DEF EntraTypeOK
    <3> QED BY <1>1, <3>1 DEF Token
  <2> QED BY <2>1 DEF EntraPasses
<1>3. hand' \in [Requests -> Hand]
  <2>1. ASSUME NEW r \in Requests, stage[r] = "login"
        PROVE  [hand[r] EXCEPT !.left = Less(hand[r].left), !.took = hand[r].took + 1] \in Hand
    <3>1. hand[r] \in Hand /\ hand[r].took < entraTokenMargin
      BY <2>1 DEF EntraTypeOK, EntraPasses
    <3>2. Less(hand[r].left) \in 0..MaxLife /\ hand[r].took + 1 \in 0..entraTokenMargin
      BY <1>1, <3>1 DEF Hand
    <3>3. \A h \in Hand, m \in 0..MaxLife, n \in 0..entraTokenMargin :
            [h EXCEPT !.left = m, !.took = n] \in Hand
      BY DEF Hand
    <3> QED BY <3>1, <3>2, <3>3
  <2>2. \A r \in Requests : hand[r] \in Hand
    BY DEF EntraTypeOK
  <2>3. hand' = [r \in Requests |->
                   IF stage[r] # "login" THEN hand[r]
                   ELSE [hand[r] EXCEPT !.left = Less(hand[r].left), !.took = hand[r].took + 1]]
    BY DEF EntraPasses
  <2> HIDE DEF Hand
  <2> QED BY <2>1, <2>2, <2>3
<1> QED BY <1>2, <1>3

LEMMA StepToken == EntraTypeOK /\ [EntraNext]_entra => EntraTypeOK'
<1> SUFFICES ASSUME EntraTypeOK, [EntraNext]_entra PROVE EntraTypeOK'
  OBVIOUS
<1> USE BoundsHold DEF Bounds
<1>1. ASSUME NEW r \in Requests, Asks(r) PROVE EntraTypeOK'
  <2>1. stage[r] = "rest" /\ using' = using
    BY <1>1 DEF Asks
  <2>2. \E label \in {"asks", "credential"} : stage' = [stage EXCEPT ![r] = label]
    BY <1>1 DEF Asks, To
  <2>3. stage' \in [Requests -> {"rest", "asks", "credential", "waits", "looks",
                                "signsIn", "login"}]
    BY <2>2 DEF EntraTypeOK
  <2>4. \A q \in Requests : using'[q] = 0 => stage'[q] \in {"rest", "asks", "credential"}
    BY <2>1, <2>2 DEF EntraTypeOK
  <2>5. since' \in [Requests -> 0..(MaxCredentials + 1)]
    <3>1. cleared + 1 \in 0..(MaxCredentials + 1)
      BY DEF EntraTypeOK, Credentials
    <3> QED BY <1>1, <3>1 DEF Asks, EntraTypeOK
  <2> QED BY <1>1, <2>3, <2>4, <2>5 DEF Asks, EntraTypeOK
<1>2. ASSUME NEW r \in Requests, AsksServer(r) PROVE EntraTypeOK'
  BY <1>2 DEF AsksServer, To, EntraTypeOK, Credentials
<1>3. ASSUME NEW r \in Requests, ServerSilent(r) PROVE EntraTypeOK'
  BY <1>3, DoneTyped DEF ServerSilent, EntraTypeOK
<1>4. ASSUME NEW r \in Requests, Credential(r) PROVE EntraTypeOK'
  <2>1. creds' \in Credentials /\ created' \in {0} \cup Credentials
    BY <1>4 DEF Credential, EntraTypeOK, Credentials
  <2>2. \A q \in Requests : using'[q] = 0 => stage'[q] \in {"rest", "asks", "credential"}
    BY <1>4, <2>1 DEF Credential, To, EntraTypeOK, Credentials
  <2> QED BY <1>4, <2>1, <2>2 DEF Credential, To, EntraTypeOK
<1>5. ASSUME NEW r \in Requests, NoCredential(r) PROVE EntraTypeOK'
  BY <1>5, DoneTyped DEF NoCredential, EntraTypeOK
<1>6. ASSUME NEW r \in Requests, Enters(r) PROVE EntraTypeOK'
  BY <1>6 DEF Enters, To, EntraTypeOK
<1>7. ASSUME NEW r \in Requests, GivesUp(r) PROVE EntraTypeOK'
  BY <1>7, DoneTyped DEF GivesUp, EntraTypeOK
<1>8. ASSUME NEW r \in Requests, Looks(r) PROVE EntraTypeOK'
  <2>1. using[r] \in Credentials /\ tokens[using[r]] \in Token
    BY <1>8 DEF Looks, EntraTypeOK
  <2>2. hand' \in [Requests -> Hand]
    BY <1>8, <2>1, LogsInTyped DEF Looks, EntraTypeOK
  <2>3. /\ sem' \in [Credentials -> Requests \cup {NoRequest}]
        /\ stage' \in [Requests -> {"rest", "asks", "credential", "waits", "looks",
                                    "signsIn", "login"}]
        /\ \A q \in Requests : using'[q] = 0 => stage'[q] \in {"rest", "asks", "credential"}
    BY <1>8, <2>1 DEF Looks, Leaves, LogsIn, To, EntraTypeOK, Credentials
  <2> QED BY <1>8, <2>2, <2>3 DEF Looks, EntraTypeOK
<1>9. ASSUME NEW r \in Requests, SignedIn(r) PROVE EntraTypeOK'
  <2>1. PICK tk \in Issued : /\ tokens' = [tokens EXCEPT ![using[r]] = tk]
                             /\ LogsIn(r, tk, TRUE)
    BY <1>9 DEF SignedIn
  <2>2. tk \in Token /\ using[r] \in Credentials
    BY <1>9 DEF Issued, SignedIn, EntraTypeOK
  <2>3. hand' \in [Requests -> Hand] /\ tokens' \in [Credentials -> Token]
    BY <2>1, <2>2, LogsInTyped DEF EntraTypeOK
  <2>4. /\ sem' \in [Credentials -> Requests \cup {NoRequest}]
        /\ stage' \in [Requests -> {"rest", "asks", "credential", "waits", "looks",
                                    "signsIn", "login"}]
        /\ \A q \in Requests : using'[q] = 0 => stage'[q] \in {"rest", "asks", "credential"}
    BY <1>9, <2>1, <2>2 DEF SignedIn, Leaves, LogsIn, To, EntraTypeOK, Credentials
  <2> QED BY <1>9, <2>3, <2>4 DEF SignedIn, EntraTypeOK
<1>10. ASSUME NEW r \in Requests, NotSignedIn(r) PROVE EntraTypeOK'
  <2>1. sem' \in [Credentials -> Requests \cup {NoRequest}]
    BY <1>10 DEF NotSignedIn, Leaves, EntraTypeOK
  <2> QED BY <1>10, <2>1, DoneTyped DEF NotSignedIn, EntraTypeOK
<1>11. ASSUME NEW r \in Requests, LoggedIn(r) PROVE EntraTypeOK'
  BY <1>11, DoneTyped DEF LoggedIn, EntraTypeOK
<1>12. ASSUME NEW r \in Requests, ContextOver(r) PROVE EntraTypeOK'
  BY <1>12 DEF ContextOver, EntraTypeOK
<1>13. CASE Clear
  BY <1>13 DEF Clear, EntraTypeOK
<1>14. CASE EntraPasses
  BY <1>14, PassesTyped DEF EntraPasses, EntraTypeOK
<1>15. CASE UNCHANGED entra
  BY <1>15 DEF entra, EntraTypeOK
<1> QED
  BY <1>1, <1>2, <1>3, <1>4, <1>5, <1>6, <1>7, <1>8, <1>9, <1>10, <1>11, <1>12, <1>13,
     <1>14, <1>15 DEF EntraNext, Proceeds

\* Every variable keeps its type, and no request goes on without a credential:
\* a login takes no longer than entraTokenMargin, and who could not build a
\* credential has ended.
THEOREM EntraTypeCorrect == EntraSpec => []EntraTypeOK
  BY InitToken, StepToken, PTL DEF EntraSpec

-----------------------------------------------------------------------------
(* One sign-in at a time.                                                  *)

Served == Holding /\ Stale

LEMMA StepServed == EntraTypeOK /\ Served /\ [EntraNext]_entra => Served'
<1> SUFFICES ASSUME EntraTypeOK, Served, [EntraNext]_entra PROVE Served'
  OBVIOUS
<1> USE BoundsHold DEF Bounds
<1> DEFINE Rest(r) == \A q \in Requests \ {r} : stage'[q] = stage[q] /\ using'[q] = using[q]
\* Steps that leave semaphores and tokens alone, of a request that is none of theirs.
<1>1. ASSUME NEW r \in Requests, Asks(r) \/ AsksServer(r) \/ ContextOver(r)
      PROVE  Served'
  BY <1>1 DEF Asks, AsksServer, ContextOver, To, EntraTypeOK, Served, Holding, Stale
<1>2. ASSUME NEW r \in Requests, Credential(r) PROVE Served'
  BY <1>2 DEF Credential, To, EntraTypeOK, Served, Holding, Stale
<1>3. ASSUME NEW r \in Requests, Enters(r) PROVE Served'
  <2>1. Rest(r) /\ stage'[r] = "looks" /\ using' = using /\ using[r] \in Credentials
    BY <1>3 DEF Enters, To, EntraTypeOK
  <2>2. ASSUME NEW q \in Requests \ {r}, stage[q] \in {"looks", "signsIn"}
        PROVE  sem'[using[q]] = q
    BY <1>3, <2>2 DEF Enters, Served, Holding, EntraTypeOK
  <2>3. sem'[using[r]] = r
    BY <1>3, <2>1 DEF Enters, EntraTypeOK
  <2> QED BY <1>3, <2>1, <2>2, <2>3 DEF Enters, Served, Holding, Stale
<1>4. ASSUME NEW r \in Requests, Looks(r) PROVE Served'
  <2>1. Rest(r) /\ using' = using /\ tokens' = tokens
    BY <1>4 DEF Looks, LogsIn, To, EntraTypeOK
  <2>2. CASE tokenFresh(tokens[using[r]])
    <3>1. Leaves(r) /\ stage'[r] = "login"
      BY <1>4, <2>2 DEF Looks, LogsIn, To, EntraTypeOK
    <3>2. ASSUME NEW q \in Requests \ {r}, stage[q] \in {"looks", "signsIn"}
          PROVE  sem'[using[q]] = q
      BY <1>4, <3>1, <3>2 DEF Looks, Leaves, Served, Holding, EntraTypeOK
    <3> QED BY <1>4, <2>1, <3>1, <3>2 DEF Looks, Served, Holding, Stale
  <2>3. CASE ~tokenFresh(tokens[using[r]])
    <3>1. sem' = sem /\ stage'[r] = "signsIn"
      BY <1>4, <2>3 DEF Looks, To, EntraTypeOK
    <3> QED BY <1>4, <2>1, <2>3, <3>1 DEF Looks, Served, Holding, Stale
  <2> QED BY <2>2, <2>3
<1>5. ASSUME NEW r \in Requests, SignedIn(r) PROVE Served'
  <2>1. Rest(r) /\ stage'[r] = "login" /\ using' = using
    BY <1>5 DEF SignedIn, LogsIn, To, EntraTypeOK
  <2>2. ASSUME NEW q \in Requests \ {r}, stage[q] \in {"looks", "signsIn"}
        PROVE  sem'[using[q]] = q /\ tokens'[using[q]] = tokens[using[q]]
    BY <1>5, <2>2 DEF SignedIn, Leaves, Served, Holding, EntraTypeOK
  <2> QED BY <1>5, <2>1, <2>2 DEF SignedIn, Served, Holding, Stale
<1>6. CASE EntraPasses
  <2>1. \A c \in Credentials : ~tokenFresh(tokens[c]) => ~tokenFresh(tokens'[c])
    <3>1. ASSUME NEW c \in Credentials PROVE tokens[c] \in Token
      BY DEF EntraTypeOK
    <3>2. ASSUME NEW c \in Credentials, tokenFresh(tokens'[c]) PROVE tokenFresh(tokens[c])
      <4>1. /\ tokens[c].left \in 0..MaxLife /\ tokens[c].renew \in 0..MaxLife
            /\ tokens'[c].left = Less(tokens[c].left)
            /\ tokens'[c].renew = Less(tokens[c].renew)
        BY <1>6, <3>1 DEF EntraPasses, Token
      <4> QED BY <3>2, <4>1 DEF tokenFresh, Less
    <3> QED BY <3>2
  <2>2. \A r \in Requests : stage[r] = "signsIn" => using[r] \in Credentials
    BY DEF EntraTypeOK
  <2> QED BY <1>6, <2>1, <2>2 DEF EntraPasses, Served, Holding, Stale
<1>7. CASE Clear \/ UNCHANGED entra
  BY <1>7 DEF Clear, entra, Served, Holding, Stale
<1>8. ASSUME NEW r \in Requests,
             ServerSilent(r) \/ NoCredential(r) \/ GivesUp(r) \/ NotSignedIn(r) \/ LoggedIn(r)
      PROVE  Served'
  <2>1. CASE ~NotSignedIn(r)
    <3>1. /\ Done(r) /\ sem' = sem /\ tokens' = tokens
          /\ stage[r] \in {"asks", "credential", "waits", "login"}
      BY <1>8, <2>1 DEF ServerSilent, NoCredential, GivesUp, LoggedIn
    <3>2. Rest(r) /\ stage'[r] = "rest" /\ using'[r] = 0
      BY <3>1 DEF Done, To, EntraTypeOK
    <3> QED BY <3>1, <3>2 DEF Served, Holding, Stale
  <2>2. CASE NotSignedIn(r)
    <3>1. Done(r) /\ Leaves(r) /\ tokens' = tokens /\ stage[r] = "signsIn"
      BY <2>2 DEF NotSignedIn
    <3>2. Rest(r) /\ stage'[r] = "rest" /\ using'[r] = 0
      BY <3>1 DEF Done, To, EntraTypeOK
    <3>3. ASSUME NEW q \in Requests \ {r}, stage[q] \in {"looks", "signsIn"}
          PROVE  sem'[using[q]] = q
      BY <3>1, <3>3 DEF Leaves, Served, Holding, EntraTypeOK
    <3> QED BY <3>1, <3>2, <3>3 DEF Served, Holding, Stale
  <2> QED BY <2>1, <2>2
<1> QED BY <1>1, <1>2, <1>3, <1>4, <1>5, <1>6, <1>7, <1>8 DEF EntraNext, Proceeds

\* entraCredential.token: however many ask, one of them signs in with a
\* credential at a time, and only when its cached token is no use to anybody.
THEOREM OneSignsIn == EntraSpec => []SignsInOnce
<1>1. EntraInit => EntraTypeOK /\ Served
  <2> SUFFICES ASSUME EntraInit PROVE Served
    BY InitToken
  <2> QED BY DEF EntraInit, Served, Holding, Stale
<1>2. EntraTypeOK /\ Served => SignsInOnce
  <2> SUFFICES ASSUME EntraTypeOK, Served, NEW r \in Requests, stage[r] = "signsIn"
               PROVE  /\ ~tokenFresh(tokens[using[r]])
                      /\ \A q \in Requests \ {r} : stage[q] = "signsIn" => using[q] # using[r]
    BY DEF SignsInOnce
  <2> QED BY DEF Served, Holding, Stale
<1>3. EntraTypeOK /\ Served /\ [EntraNext]_entra => (EntraTypeOK /\ Served)'
  BY StepToken, StepServed
<1> QED BY <1>1, <1>2, <1>3, PTL DEF EntraSpec

-----------------------------------------------------------------------------
(* The margin.                                                             *)

LEMMA StepMargin == EntraTypeOK /\ Margin /\ [EntraNext]_entra => Margin'
<1> SUFFICES ASSUME EntraTypeOK, Margin, [EntraNext]_entra PROVE Margin'
  OBVIOUS
<1> USE BoundsHold DEF Bounds
<1>1. ASSUME NEW r \in Requests, Done(r) PROVE Margin'
  BY <1>1 DEF Done, To, EntraTypeOK, Margin
<1>2. ASSUME NEW r \in Requests, Looks(r) PROVE Margin'
  <2>1. tokens[using[r]] \in Token
    BY <1>2 DEF Looks, EntraTypeOK
  <2>2. \A q \in Requests \ {r} : stage'[q] = stage[q] /\ hand'[q] = hand[q]
    BY <1>2, <2>1, LogsInTyped DEF Looks, LogsIn, To, EntraTypeOK
  <2>3. CASE tokenFresh(tokens[using[r]])
    <3>1. LogsIn(r, tokens[using[r]], FALSE)
      BY <1>2, <2>3 DEF Looks
    <3>2. hand'[r] = [left |-> tokens[using[r]].left, took |-> 0, new |-> FALSE]
      BY <2>1, <3>1, LogsInTyped
    <3>3. hand'[r].left = tokens[using[r]].left /\ hand'[r].took = 0
      BY <3>2
    <3> QED BY <2>1, <2>2, <2>3, <3>3 DEF tokenFresh, Token, Margin
  <2>4. CASE ~tokenFresh(tokens[using[r]])
    <3>1. stage'[r] = "signsIn"
      BY <1>2, <2>4 DEF Looks, To, EntraTypeOK
    <3> QED BY <2>2, <3>1 DEF Margin
  <2> QED BY <2>3, <2>4
<1>3. ASSUME NEW r \in Requests, SignedIn(r) PROVE Margin'
  <2>1. PICK tk \in Issued : LogsIn(r, tk, TRUE)
    BY <1>3 DEF SignedIn
  <2>2. /\ hand'[r] = [left |-> tk.left, took |-> 0, new |-> TRUE]
        /\ \A q \in Requests \ {r} : hand'[q] = hand[q]
    <3>1. tk \in Token
      BY DEF Issued
    <3> QED BY <2>1, <3>1, LogsInTyped
  <2>3. \A q \in Requests \ {r} : stage'[q] = stage[q]
    BY <2>1 DEF LogsIn, To, EntraTypeOK
  <2>4. hand'[r].new = TRUE
    BY <2>2
  <2> QED BY <2>2, <2>3, <2>4 DEF Margin
<1>4. CASE EntraPasses
  <2> SUFFICES ASSUME NEW r \in Requests, stage[r] = "login", ~hand'[r].new
               PROVE  hand'[r].left + hand'[r].took > entraTokenMargin
    BY <1>4 DEF EntraPasses, Margin
  <2>1. /\ hand[r].left \in 0..MaxLife /\ hand[r].took \in 0..entraTokenMargin
        /\ hand[r].took < entraTokenMargin
    BY <1>4 DEF EntraPasses, EntraTypeOK, Hand
  <2>2. /\ hand'[r].left = Less(hand[r].left) /\ hand'[r].took = hand[r].took + 1
        /\ hand'[r].new = hand[r].new
    <3>1. hand[r] \in Hand
      BY DEF EntraTypeOK
    <3>2. hand'[r] = [hand[r] EXCEPT !.left = Less(hand[r].left), !.took = hand[r].took + 1]
      BY <1>4 DEF EntraPasses
    <3> QED BY <3>1, <3>2 DEF Hand
  <2>3. hand[r].left + hand[r].took > entraTokenMargin
    BY <2>2 DEF Margin
  <2> QED BY <2>1, <2>2, <2>3 DEF Less
<1>5. ASSUME NEW r \in Requests,
             Asks(r) \/ AsksServer(r) \/ Credential(r) \/ Enters(r) \/ ContextOver(r)
      PROVE  Margin'
  BY <1>5 DEF Asks, AsksServer, Credential, Enters, ContextOver, To, EntraTypeOK, Margin
<1>6. CASE Clear \/ UNCHANGED entra
  BY <1>6 DEF Clear, entra, Margin
<1> QED
  BY <1>1, <1>2, <1>3, <1>4, <1>5, <1>6
  DEF EntraNext, Proceeds, ServerSilent, NoCredential, GivesUp, NotSignedIn, LoggedIn

\* tokenFresh: a token that is reused does not run out in a login that takes no
\* longer than entraTokenMargin, whatever its issuer and its age.
THEOREM TokensNeverLapse == EntraSpec => []NeverLapses
<1>1. EntraInit => EntraTypeOK /\ Margin
  <2> SUFFICES ASSUME EntraInit PROVE Margin
    BY InitToken
  <2> QED BY DEF EntraInit, Margin
<1>2. EntraTypeOK /\ Margin => NeverLapses
  <2> SUFFICES ASSUME EntraTypeOK, Margin, NEW r \in Requests, stage[r] = "login",
                      ~hand[r].new
               PROVE  hand[r].left > 0
    BY DEF NeverLapses
  <2>1. hand[r].left \in 0..MaxLife /\ hand[r].took \in 0..entraTokenMargin
    BY BoundsHold DEF EntraTypeOK, Hand
  <2> QED BY <2>1, BoundsHold DEF Margin, Bounds
<1>3. EntraTypeOK /\ Margin /\ [EntraNext]_entra => (EntraTypeOK /\ Margin)'
  BY StepToken, StepMargin
<1> QED BY <1>1, <1>2, <1>3, PTL DEF EntraSpec

-----------------------------------------------------------------------------
(* Clear.                                                                  *)

LEMMA StepYounger ==
    EntraTypeOK /\ Holding /\ Younger /\ ClearForgets /\ [EntraNext]_entra
        => Younger' /\ ClearForgets'
<1> SUFFICES ASSUME EntraTypeOK, Holding, Younger, ClearForgets, [EntraNext]_entra
             PROVE  Younger' /\ ClearForgets'
  OBVIOUS
<1> USE BoundsHold DEF Bounds
<1>0. /\ created \in Nat /\ cleared \in Nat /\ creds \in Nat
      /\ \A q \in Requests : since[q] \in Nat /\ using[q] \in Nat
  BY DEF EntraTypeOK, Credentials
<1>1. ASSUME NEW r \in Requests, Asks(r) PROVE Younger' /\ ClearForgets'
  <2>1. using' = using /\ using[r] = 0 /\ UNCHANGED <<creds, created, cleared>>
    BY <1>1 DEF Asks, Holding
  <2>2. /\ since'[r] = cleared + 1
        /\ \A q \in Requests \ {r} : since'[q] = since[q]
    BY <1>1 DEF Asks, EntraTypeOK
  <2> QED BY <1>0, <2>1, <2>2 DEF Younger, ClearForgets
<1>2. ASSUME NEW r \in Requests, Credential(r) PROVE Younger' /\ ClearForgets'
  <2>1. /\ creds' \in Nat /\ created' \in Nat /\ cleared < creds' /\ creds' <= created'
        /\ cleared' = cleared /\ since' = since
    BY <1>0, <1>2 DEF Credential, Younger
  <2>2. /\ using'[r] = creds'
        /\ \A q \in Requests \ {r} : using'[q] = using[q]
    BY <1>2 DEF Credential, EntraTypeOK
  <2> QED BY <1>0, <2>1, <2>2 DEF Younger, ClearForgets
<1>3. ASSUME NEW r \in Requests, Done(r), UNCHANGED <<creds, created, cleared>>
      PROVE  Younger' /\ ClearForgets'
  <2>1. /\ using'[r] = 0 /\ since'[r] = 0
        /\ \A q \in Requests \ {r} : using'[q] = using[q] /\ since'[q] = since[q]
    BY <1>3 DEF Done, EntraTypeOK
  <2> QED BY <1>0, <1>3, <2>1 DEF Younger, ClearForgets
<1>4. CASE Clear
  BY <1>0, <1>4 DEF Clear, Younger, ClearForgets
<1>5. ASSUME UNCHANGED <<creds, created, cleared, using, since>>
      PROVE  Younger' /\ ClearForgets'
  BY <1>5 DEF Younger, ClearForgets
<1> QED
  BY <1>1, <1>2, <1>3, <1>4, <1>5
  DEF EntraNext, Proceeds, AsksServer, ServerSilent, NoCredential, Enters, GivesUp, Looks,
      SignedIn, NotSignedIn, LoggedIn, ContextOver, EntraPasses, entra

\* EntraCache.Clear: a token asked for after it is never of a credential of before
\* it, however many requests were under way and went on with theirs.
THEOREM ClearIsForGood == EntraSpec => []ClearForgets
<1> DEFINE TokenInv == EntraTypeOK /\ Served /\ Younger /\ ClearForgets
<1>1. EntraInit => TokenInv
  <2> SUFFICES ASSUME EntraInit PROVE Served /\ Younger /\ ClearForgets
    BY InitToken
  <2> QED BY DEF EntraInit, Served, Holding, Stale, Younger, ClearForgets
<1>2. TokenInv /\ [EntraNext]_entra => TokenInv'
  BY StepToken, StepServed, StepYounger DEF Served
<1>3. TokenInv => ClearForgets
  OBVIOUS
<1> QED BY <1>1, <1>2, <1>3, PTL DEF EntraSpec

-----------------------------------------------------------------------------
(* The login database of the pool.                                             *)

\* releaseIdle's bound, the number of idle connections, is a number.
LEMMA IdleCountIsNat ==
    ASSUME idle \subseteq Conns
    PROVE Cardinality(idle) \in Nat
  BY RetargetAssumption, FS_Subset, FS_CardinalityType

\* What a goroutine's place says of what it has: a statement is run on a
\* connection, only a write leaves a database, only a dial that was not to
\* master falls back.
Placed ==
    \A p \in Procs :
       /\ pc[p] = "run" => held[p] \in Conns
       /\ pc[p] \in {"left", "retarget"} => Writes(p)
       /\ pc[p] = "refused" => snap[p].db # Master

LEMMA InitRetarget == Init => TypeOK /\ Placed
<1> SUFFICES ASSUME Init PROVE TypeOK /\ Placed
  OBVIOUS
<1>1. Simple("none") \in Call /\ NoSnap \in Snap
  BY DEF Simple, Call, NoSnap, Snap, Databases
<1>2. TypeOK
  BY <1>1, RetargetAssumption DEF Init, TypeOK, Databases
<1>3. Placed
  BY DEF Init, Placed
<1> QED BY <1>2, <1>3

\* Every step keeps the types.
LEMMA StepRetarget == TypeOK /\ Placed /\ [Next]_vars => TypeOK'
<1> SUFFICES ASSUME TypeOK, Placed, [Next]_vars PROVE TypeOK'
  OBVIOUS
<1> USE RetargetAssumption DEF TypeOK, Databases, server, connector, pool
<1> DEFINE Labels == {"rest", "count", "release", "acquire", "dial", "refused",
                      "moved", "redial", "giveUp", "run", "opened", "left", "retarget"}
<1>c. \A k \in {"none", "ping", "info", "read"} : Simple(k) \in Call
  BY DEF Simple, Call
<1>n. NoSnap \in Snap
  BY DEF NoSnap, Snap
<1>e. ASSUME NEW p \in Procs, End(p)
      PROVE  /\ pc' \in [Procs -> Labels]
             /\ call' \in [Procs -> Call]
             /\ job' \in [Procs -> {"before", "statement", "after"}]
             /\ budget' \in [Procs -> Nat]
             /\ snap' \in [Procs -> Snap]
             /\ was' \in [Procs -> BOOLEAN]
  BY <1>c, <1>n, <1>e DEF End
<1>f. ASSUME NEW p \in Procs, Fails(p) PROVE status' \in {"new", "opening", "open", "failed"}
  BY <1>f DEF Fails
<1>r. ASSUME NEW p \in Procs, Released(p),
             UNCHANGED <<held, login, swapped, idle, server, asked, connector>>
      PROVE  /\ pc' \in [Procs -> Labels]
             /\ call' \in [Procs -> Call]
             /\ job' \in [Procs -> {"before", "statement", "after"}]
             /\ budget' \in [Procs -> Nat]
             /\ snap' \in [Procs -> Snap]
             /\ was' \in [Procs -> BOOLEAN]
  <2>1. CASE job[p] = "before"
    BY <1>r, <2>1, <1>n DEF Released, Goto
  <2>2. CASE job[p] # "before"
    BY <1>r, <2>2, <1>e DEF Released
  <2> QED BY <2>1, <2>2
<1>l. ASSUME NEW p \in Procs, LetIn(p) \/ NotLetIn(p), snap[p].db \in Databases,
             UNCHANGED <<swapped, idle, server, asked, connector>>
      PROVE TypeOK'
  <2>1. CASE LetIn(p)
    <3>1. /\ held' \in [Procs -> Conns \cup {None}]
          /\ login' \in [Conns -> Databases \cup {None}]
      <4>1. CASE job[p] = "statement"
        BY <1>l, <2>1, <4>1 DEF LetIn
      <4>2. CASE job[p] # "statement"
        BY <1>l, <2>1, <4>2 DEF LetIn
      <4> QED BY <4>1, <4>2
    <3>2. pc' \in [Procs -> Labels]
      BY <2>1 DEF LetIn, Goto, Acquired
    <3> QED BY <1>l, <2>1, <3>1, <3>2 DEF LetIn
  <2>2. CASE NotLetIn(p)
    <3>1. CASE job[p] = "statement"
      BY <1>l, <2>2, <3>1, <1>e, <1>f DEF NotLetIn, Fails
    <3>2. CASE job[p] # "statement"
      BY <1>l, <2>2, <3>2, <1>r DEF NotLetIn
    <3> QED BY <3>1, <3>2
  <2> QED BY <1>l, <2>1, <2>2
<1>t. ASSUME NEW from, NEW db \in Databases, retarget(from, db)
      PROVE target' \in Databases /\ swapped' \in [Procs -> BOOLEAN]
  <2>1. CASE target = from
    BY <1>t, <2>1 DEF retarget
  <2>2. CASE target # from
    BY <1>t, <2>2 DEF retarget
  <2> QED BY <2>1, <2>2
<1>s. \A p \in Procs : snap[p].db \in Databases
  BY DEF Snap
<1>1. CASE UNCHANGED vars
  BY <1>1 DEF vars, proc
<1>2. CASE Other
  BY <1>2 DEF Other, proc
<1>3. ASSUME NEW p \in Procs, Begin(p) PROVE TypeOK'
  <2>1. CASE Open(p)
    BY <2>1, <1>c DEF Open, Goto
  <2>2. CASE Read(p)
    BY <2>2, <1>c DEF Read, Goto
  <2>3. CASE Write(p)
    BY <2>3 DEF Write, Goto
  <2> QED BY <1>3, <2>1, <2>2, <2>3 DEF Begin
<1>4. ASSUME NEW p \in Procs, Step(p) PROVE TypeOK'
  <2>1. CASE Count(p)
    BY <2>1, IdleCountIsNat DEF Count, Goto
  <2>2. CASE Release(p)
    <3>1. CASE budget[p] > 0 /\ idle # {}
      BY <2>2, <3>1 DEF Release, Goto
    <3>2. CASE ~(budget[p] > 0 /\ idle # {})
      BY <2>2, <3>2, <1>r DEF Release
    <3> QED BY <3>1, <3>2
  <2>3. CASE Take(p)
    <3>1. CASE job[p] = "statement"
      BY <2>3, <3>1 DEF Take, Goto, Acquired
    <3>2. CASE job[p] # "statement"
      BY <2>3, <3>2 DEF Take, Goto, Acquired, Discards
    <3> QED BY <3>1, <3>2
  <2>4. CASE Snapshot(p)
    BY <2>4 DEF Snapshot, Goto, Snap
  <2>5. CASE Dial(p)
    <3>1. CASE LetIn(p) \/ NotLetIn(p)
      BY <2>5, <3>1, <1>l, <1>s DEF Dial
    <3>2. CASE ~(LetIn(p) \/ NotLetIn(p))
      BY <2>5, <3>2 DEF Dial, Goto
    <3> QED BY <3>1, <3>2
  <2>6. CASE FallsBack(p)
    BY <2>6, <1>t DEF FallsBack, Goto
  <2>7. CASE Current(p)
    <3>1. snap' \in [Procs -> Snap]
      <4>1. [snap[p] EXCEPT !.db = target] \in Snap
        BY DEF Snap
      <4> QED BY <2>7, <4>1 DEF Current
    <3> QED BY <2>7, <3>1 DEF Current, Goto
  <2>8. CASE Redial(p)
    <3>1. CASE LetIn(p) \/ NotLetIn(p)
      BY <2>8, <3>1, <1>l, <1>s DEF Redial
    <3>2. CASE ~(LetIn(p) \/ NotLetIn(p))
      BY <2>8, <3>2 DEF Redial, Goto
    <3> QED BY <3>1, <3>2
  <2>9. CASE GiveUp(p)
    BY <2>9, <1>l, <1>s DEF GiveUp
  <2>10. CASE RunFails(p)
    <3>1. held[p] \in Conns
      BY <2>10 DEF RunFails, Placed
    <3>2. idle' \subseteq Conns /\ login' \in [Conns -> Databases \cup {None}]
      BY <2>10, <3>1 DEF RunFails, HandBack, Breaks, Discards
    <3> QED BY <2>10, <3>2, <1>e, <1>f DEF RunFails, Fails
  <2>11. CASE RunRead(p)
    <3>1. held[p] \in Conns
      BY <2>11 DEF RunRead, Placed
    <3>2. idle' \subseteq Conns /\ UNCHANGED login
      BY <2>11, <3>1 DEF RunRead, HandBack
    <3>3. CASE End(p)
      BY <2>11, <3>2, <3>3, <1>e DEF RunRead
    <3>4. CASE ~End(p)
      BY <2>11, <3>2, <3>4, <1>c DEF RunRead, Goto
    <3> QED BY <3>3, <3>4
  <2>12. CASE RunWrite(p)
    <3>1. held[p] \in Conns /\ call[p] \in Call
      BY <2>12 DEF RunWrite, Placed
    <3>2. idle' \subseteq Conns /\ login' \in [Conns -> Databases \cup {None}]
      BY <2>12, <3>1 DEF RunWrite, HandBack, Breaks, Discards
    <3>3. call[p].db \in Names
      BY <2>12, <3>1 DEF RunWrite, Writes, Call
    <3>4. site' \in [Names -> {"open", "shut", "none"}]
      BY <2>12 DEF RunWrite, Written
    <3>5. CASE Fails(p)
      BY <2>12, <3>2, <3>3, <3>4, <3>5, <1>e, <1>f DEF RunWrite, Fails
    <3>6. CASE ~Fails(p)
      <4>1. was' = [was EXCEPT ![p] = (target = call[p].db)]
        BY <2>12, <3>6 DEF RunWrite
      <4>2. (target = call[p].db) \in BOOLEAN
        OBVIOUS
      <4>3. was' \in [Procs -> BOOLEAN]
        BY <4>1, <4>2, Zenon DEF TypeOK
      <4> QED BY <2>12, <3>2, <3>3, <3>4, <3>6, <4>3 DEF RunWrite, Goto
    <3> QED BY <3>5, <3>6
  <2>13. CASE enableFallBack(p)
    BY <2>13, <1>e DEF enableFallBack
  <2>14. CASE leftLoginDatabase(p)
    BY <2>14, <1>e DEF leftLoginDatabase, Goto
  <2>15. CASE LeavesIt(p)
    <3>1. call[p].to \in Databases
      BY <2>15 DEF LeavesIt, Placed, Writes, Call
    <3> QED BY <2>15, <3>1, <1>t DEF LeavesIt, Goto
  <2> QED BY <1>4, <2>1, <2>2, <2>3, <2>4, <2>5, <2>6, <2>7, <2>8, <2>9, <2>10,
             <2>11, <2>12, <2>13, <2>14, <2>15 DEF Step
<1> QED BY <1>1, <1>2, <1>3, <1>4 DEF Next

\* Every step keeps goroutines and what they have together: the others' places
\* do not move, and the one that steps brings what its new place needs.
LEMMA StepPlaced == TypeOK /\ Placed /\ [Next]_vars => Placed'
<1> SUFFICES ASSUME TypeOK, Placed, [Next]_vars PROVE Placed'
  OBVIOUS
<1> USE RetargetAssumption DEF TypeOK, Placed, Writes
<1>e. ASSUME NEW p \in Procs, End(p) \/ Released(p), UNCHANGED <<held>> \/ pc[p] = "run",
             \A q \in Procs \ {p} : held'[q] = held[q]
      PROVE  Placed'
  BY <1>e DEF End, Released, Goto
<1>l. ASSUME NEW p \in Procs, LetIn(p), pc[p] # "run" PROVE Placed'
  BY <1>l DEF LetIn, Goto, Acquired
<1>n. ASSUME NEW p \in Procs, NotLetIn(p), pc[p] # "run" PROVE Placed'
  BY <1>n, <1>e DEF NotLetIn, Fails
<1>1. CASE UNCHANGED vars
  BY <1>1 DEF vars, proc
<1>2. CASE Other
  BY <1>2 DEF Other, proc
<1>3. ASSUME NEW p \in Procs, Begin(p) PROVE Placed'
  BY <1>3 DEF Begin, Open, Read, Write, Goto, Simple
<1>4. ASSUME NEW p \in Procs, Step(p) PROVE Placed'
  <2>1. CASE Count(p)
    BY <2>1 DEF Count, Goto
  <2>2. CASE Release(p)
    BY <2>2, <1>e DEF Release, Goto
  <2>3. CASE Take(p)
    BY <2>3 DEF Take, Goto, Acquired
  <2>4. CASE Snapshot(p)
    BY <2>4 DEF Snapshot, Goto
  <2>5. CASE Dial(p)
    <3>1. CASE LetIn(p) \/ NotLetIn(p)
      BY <2>5, <3>1, <1>l, <1>n DEF Dial
    <3>2. CASE ~(LetIn(p) \/ NotLetIn(p))
      BY <2>5, <3>2 DEF Dial, Goto, MayFallBack
    <3> QED BY <3>1, <3>2
  <2>6. CASE FallsBack(p)
    BY <2>6 DEF FallsBack, Goto
  <2>7. CASE Current(p)
    BY <2>7 DEF Current, Goto
  <2>8. CASE Redial(p)
    <3>1. CASE LetIn(p) \/ NotLetIn(p)
      BY <2>8, <3>1, <1>l, <1>n DEF Redial
    <3>2. CASE ~(LetIn(p) \/ NotLetIn(p))
      BY <2>8, <3>2 DEF Redial, Goto
    <3> QED BY <3>1, <3>2
  <2>9. CASE GiveUp(p)
    BY <2>9, <1>n DEF GiveUp
  <2>10. CASE RunFails(p)
    BY <2>10, <1>e DEF RunFails, Fails
  <2>11. CASE RunRead(p)
    BY <2>11, <1>e DEF RunRead, Goto, Simple
  <2>12. CASE RunWrite(p)
    BY <2>12, <1>e DEF RunWrite, Goto, Fails
  <2>13. CASE enableFallBack(p)
    BY <2>13, <1>e DEF enableFallBack
  <2>14. CASE leftLoginDatabase(p)
    BY <2>14, <1>e DEF leftLoginDatabase, Goto
  <2>15. CASE LeavesIt(p)
    BY <2>15 DEF LeavesIt, Goto
  <2> QED BY <1>4, <2>1, <2>2, <2>3, <2>4, <2>5, <2>6, <2>7, <2>8, <2>9, <2>10,
             <2>11, <2>12, <2>13, <2>14, <2>15 DEF Step
<1> QED BY <1>1, <1>2, <1>3, <1>4 DEF Next

\* Type correctness, for any number of goroutines and connections.
THEOREM RetargetTypeCorrect == Spec => [](TypeOK /\ Placed)
  BY InitRetarget, StepRetarget, StepPlaced, PTL DEF Spec

-----------------------------------------------------------------------------
\* A step that would take the pool off master would be a retarget from master:
\* no write names master, and a refusal by master is final.
LEMMA StepNeverBack ==
    TypeOK /\ Placed /\ [Next]_vars /\ target = Master => target' = Master
<1> SUFFICES ASSUME TypeOK, Placed, [Next]_vars, target = Master PROVE target' = Master
  OBVIOUS
<1> USE RetargetAssumption DEF connector
<1>1. ASSUME NEW from, NEW db, retarget(from, db), from # Master PROVE target' = Master
  BY <1>1 DEF retarget
<1>2. CASE UNCHANGED vars
  BY <1>2 DEF vars
<1>3. CASE Other
  BY <1>3 DEF Other
<1>4. ASSUME NEW p \in Procs, Begin(p) PROVE target' = Master
  BY <1>4 DEF Begin, Open, Read, Write
<1>5. ASSUME NEW p \in Procs, Step(p) PROVE target' = Master
  <2>1. CASE FallsBack(p)
    BY <2>1, <1>1 DEF FallsBack, Placed
  <2>2. CASE LeavesIt(p)
    <3>1. call[p] \in Call /\ Writes(p)
      BY <2>2 DEF LeavesIt, Placed, TypeOK
    <3>2. call[p].db # Master
      BY <3>1 DEF Writes, Call
    <3> QED BY <2>2, <3>2, <1>1 DEF LeavesIt
  <2> QED BY <1>5, <2>1, <2>2 DEF Step, Count, Release, Take, Snapshot, Dial, Current,
             Redial, GiveUp, RunFails, RunRead, RunWrite, enableFallBack, leftLoginDatabase
<1> QED BY <1>2, <1>3, <1>4, <1>5 DEF Next

-----------------------------------------------------------------------------
\* What the pool may be taken off for.  The databases that were open at some
\* time are those that are, and those that were shut: a dial refused in one of
\* them was refused because somebody had shut it.
Known == {Master} \cup everShut \cup {n \in Names : site[n] = "open"}
Opener(p) == call[p].kind \in {"ping", "info"}

\* Until the Server is open one goroutine uses the pool, where it was asked to,
\* and nothing it meets moves the pool.
Connecting ==
    /\ status # "open" =>
         /\ target = asked /\ ~fallBack
         /\ \A p \in Procs : pc[p] = "rest" \/ Opener(p)
         /\ \A p \in Procs : pc[p] = "dial" => snap[p].db = asked
         /\ \A c \in Conns : login[c] \in {None, asked}
    /\ \A p \in Procs :
         /\ Opener(p) => /\ status = "opening" /\ job[p] = "statement"
                         /\ pc[p] \notin {"count", "release"}
         /\ pc[p] = "opened" => Opener(p)
         /\ pc[p] = "rest" => job[p] = "statement"
         /\ snap[p].fallBack => status = "open"
         /\ pc[p] \in {"refused", "moved", "redial"} => status = "open"
         /\ Writes(p) => status = "open"
    /\ \A p, q \in Procs : Opener(p) /\ Opener(q) => p = q

\* From then on it logs in to a database that was open, and so does every dial
\* that may fall back.
Caused ==
    /\ status = "open" => target \in Known
    /\ \A p \in Procs :
         /\ pc[p] = "opened" => asked \in Known
         /\ pc[p] = "dial" /\ snap[p].fallBack => snap[p].db \in Known
         /\ pc[p] = "refused" => snap[p].db \in everShut
         /\ pc[p] \in {"left", "retarget"} => call[p].db \in everShut /\ call[p].to \in Known

LEMMA InitReasons == Init => Connecting /\ Caused
  BY DEF Init, Connecting, Caused, Opener, Writes, Simple, NoSnap

\* A call that ends takes its part of Connecting and Caused with it; the Connect
\* that ends so has failed.
LEMMA EndReasons ==
    ASSUME TypeOK, Connecting, Caused, NEW p \in Procs, End(p), pc[p] # "rest",
           status' = IF status = "opening" THEN "failed" ELSE status,
           UNCHANGED <<asked, connector>>,
           \A c \in Conns : login'[c] \in {login[c], None},
           Known \subseteq Known', everShut \subseteq everShut'
    PROVE  Connecting' /\ Caused'
<1> USE DEF TypeOK, End, Simple, NoSnap, connector
<1>1. Connecting'
  BY DEF Connecting, Opener, Writes
<1>2. Caused'
  BY DEF Connecting, Caused, Opener
<1> QED BY <1>1, <1>2

LEMMA ReleasedReasons ==
    ASSUME TypeOK, Connecting, Caused, NEW p \in Procs, Released(p), pc[p] # "rest", ~Opener(p),
           UNCHANGED <<server, status, asked, connector, login>>
    PROVE  Connecting' /\ Caused'
<1>1. Known = Known'
  BY DEF Known, server
<1>2. CASE End(p)
  <2>1. status = "open"
    BY DEF Connecting, Opener
  <2> QED BY <1>1, <1>2, <2>1, EndReasons DEF server
<1>3. CASE ~End(p)
  <2> USE <1>1, <1>3 DEF TypeOK, Released, Goto, NoSnap, connector, server
  <2>1. Connecting'
    BY DEF Connecting, Opener, Writes
  <2>2. Caused'
    BY DEF Caused
  <2> QED BY <2>1, <2>2
<1> QED BY <1>2, <1>3

\* What was open stays known, whoever shuts it.
LEMMA KnownGrows ==
    ASSUME TypeOK, Placed, [Next]_vars PROVE Known \subseteq Known' /\ everShut \subseteq everShut'
<1> USE DEF TypeOK, Known, server
<1>1. CASE UNCHANGED vars
  BY <1>1 DEF vars
<1>2. CASE Other
  BY <1>2 DEF Other
<1>3. ASSUME NEW p \in Procs, Begin(p) PROVE UNCHANGED server
  BY <1>3 DEF Begin, Open, Read, Write
<1>4. ASSUME NEW p \in Procs, RunWrite(p)
      PROVE  Known \subseteq Known' /\ everShut \subseteq everShut'
  BY <1>4 DEF RunWrite, Written
<1>5. ASSUME NEW p \in Procs, Step(p), ~RunWrite(p) PROVE UNCHANGED server
  BY <1>5 DEF Step, Count, Release, Take, Snapshot, Dial, FallsBack, Current, Redial,
             GiveUp, RunFails, RunRead, enableFallBack, leftLoginDatabase, LeavesIt
<1> QED BY <1>1, <1>2, <1>3, <1>4, <1>5 DEF Next

LEMMA StepReasons ==
    ASSUME TypeOK, Placed, Connecting, Caused, [Next]_vars PROVE Connecting' /\ Caused'
<1> USE RetargetAssumption DEF TypeOK, Databases, server, connector, pool
<1>g. Known \subseteq Known' /\ everShut \subseteq everShut'
  BY KnownGrows
<1>l. ASSUME NEW p \in Procs, LetIn(p), pc[p] \in {"dial", "redial"}, Openable(snap[p].db),
             UNCHANGED <<server, asked, connector>>
      PROVE  Connecting' /\ Caused'
  <2> USE <1>l DEF LetIn, Goto, Acquired
  <2>1. Connecting'
    BY DEF Connecting, Opener, Writes
  <2>2. Caused'
    BY <1>g DEF Caused, Known
  <2> QED BY <2>1, <2>2
<1>n. ASSUME NEW p \in Procs, NotLetIn(p), pc[p] \in {"dial", "redial", "giveUp"},
             UNCHANGED <<server, asked, connector>>
      PROVE  Connecting' /\ Caused'
  <2>1. CASE job[p] = "statement"
    BY <1>n, <2>1, <1>g, EndReasons DEF NotLetIn, Fails
  <2>2. CASE job[p] # "statement"
    BY <1>n, <2>2, ReleasedReasons DEF NotLetIn, Connecting
  <2> QED BY <2>1, <2>2
<1>1. CASE UNCHANGED vars
  BY <1>1 DEF vars, proc, Connecting, Caused, Opener, Writes, Known
<1>2. CASE Other
  BY <1>2, <1>g DEF Other, proc, Connecting, Caused, Opener, Writes
<1>3. ASSUME NEW p \in Procs, Begin(p) PROVE Connecting' /\ Caused'
  <2> USE <1>g DEF Goto, Simple, Connecting, Caused, Opener, Writes
  <2>1. CASE Open(p)
    BY <2>1 DEF Open
  <2>2. CASE Read(p)
    BY <2>2 DEF Read
  <2>3. CASE Write(p)
    BY <2>3 DEF Write
  <2> QED BY <1>3, <2>1, <2>2, <2>3 DEF Begin
<1>4. ASSUME NEW p \in Procs, Step(p) PROVE Connecting' /\ Caused'
  <2>1. CASE Count(p)
    BY <2>1, <1>g DEF Count, Goto, Connecting, Caused, Opener, Writes
  <2>2. CASE Release(p)
    <3>1. ~Opener(p)
      BY <2>2 DEF Release, Connecting
    <3>2. CASE Released(p)
      BY <2>2, <3>1, <3>2, ReleasedReasons DEF Release
    <3>3. CASE ~Released(p)
      BY <2>2, <3>1, <3>3, <1>g DEF Release, Goto, Connecting, Caused, Opener, Writes
    <3> QED BY <3>2, <3>3
  <2>3. CASE Take(p)
    <3>1. Connecting'
      BY <2>3 DEF Take, Goto, Acquired, Discards, Connecting, Opener, Writes
    <3>2. Caused'
      BY <2>3, <1>g DEF Take, Goto, Acquired, Caused
    <3> QED BY <3>1, <3>2
  <2>4. CASE Snapshot(p)
    <3>1. snap'[p] = [db |-> target, fallBack |-> fallBack]
      BY <2>4 DEF Snapshot
    <3>2. Connecting'
      BY <2>4, <3>1 DEF Snapshot, Goto, Connecting, Opener, Writes
    <3>3. Caused'
      BY <2>4, <3>1, <1>g DEF Snapshot, Goto, Caused, Connecting
    <3> QED BY <3>2, <3>3
  <2>5. CASE Dial(p)
    <3>1. CASE NotLetIn(p)
      BY <2>5, <3>1, <1>n DEF Dial
    <3>2. CASE Openable(snap[p].db) /\ LetIn(p)
      BY <2>5, <3>2, <1>l DEF Dial
    <3>3. CASE ~Openable(snap[p].db) /\ ~NotLetIn(p)
      <4>1. Connecting'
        BY <2>5, <3>3 DEF Dial, Goto, Connecting, Opener, Writes, MayFallBack
      <4>2. MayFallBack(p) => snap[p].db \in everShut
        BY <2>5, <3>3 DEF Dial, MayFallBack, Openable, Caused, Known
      <4>3. Caused'
        BY <2>5, <3>3, <4>2, <1>g DEF Dial, Goto, Caused
      <4> QED BY <4>1, <4>3
    <3> QED BY <2>5, <3>1, <3>2, <3>3 DEF Dial
  <2>6. CASE FallsBack(p)
    <3>1. target' \in {target, Master} /\ status = "open"
      BY <2>6 DEF FallsBack, retarget, Connecting
    <3>2. Connecting'
      BY <2>6, <3>1 DEF FallsBack, Goto, Connecting, Opener, Writes
    <3>3. Caused'
      BY <2>6, <3>1, <1>g DEF FallsBack, Goto, Caused, Known
    <3> QED BY <3>2, <3>3
  <2>7. CASE Current(p)
    <3>1. status = "open" /\ \A q \in Procs : snap'[q].fallBack = snap[q].fallBack
      BY <2>7 DEF Current, Connecting, Snap
    <3>2. Connecting'
      BY <2>7, <3>1 DEF Current, Goto, Connecting, Opener, Writes
    <3>3. Caused'
      BY <2>7, <3>1, <1>g DEF Current, Goto, Caused
    <3> QED BY <3>2, <3>3
  <2>8. CASE Redial(p)
    <3>1. CASE NotLetIn(p)
      BY <2>8, <3>1, <1>n DEF Redial
    <3>2. CASE Openable(snap[p].db) /\ LetIn(p)
      BY <2>8, <3>2, <1>l DEF Redial
    <3>3. CASE ~Openable(snap[p].db) /\ ~NotLetIn(p)
      BY <2>8, <3>3, <1>g DEF Redial, Goto, Connecting, Caused, Opener, Writes
    <3> QED BY <2>8, <3>1, <3>2, <3>3 DEF Redial
  <2>9. CASE GiveUp(p)
    BY <2>9, <1>n DEF GiveUp
  <2>10. CASE RunFails(p)
    <3>1. \A c \in Conns : login'[c] \in {login[c], None}
      BY <2>10 DEF RunFails, HandBack, Breaks, Discards
    <3> QED BY <2>10, <3>1, <1>g, EndReasons DEF RunFails, Fails
  <2>11. CASE RunRead(p)
    <3>1. UNCHANGED login
      BY <2>11 DEF RunRead, HandBack
    <3>2. CASE call[p].kind = "read"
      <4>1. status = "open" /\ End(p)
        BY <2>11, <3>2 DEF RunRead, Connecting, Opener
      <4> QED BY <2>11, <3>1, <4>1, <1>g, EndReasons DEF RunRead
    <3>3. CASE call[p].kind # "read"
      <4>1. status = "opening" /\ Opener(p) /\ target = asked
        BY <2>11, <3>3 DEF RunRead, Opener, Connecting
      <4>2. Connecting'
        <5>1. \A q \in Procs : (Opener(q)' <=> Opener(q)) /\ (Writes(q)' <=> Writes(q))
          BY <2>11, <3>3 DEF RunRead, Simple, Opener, Writes
        <5> QED BY <2>11, <3>1, <3>3, <4>1, <5>1 DEF RunRead, Goto, Connecting
      <4>3. asked \in Known
        <5>1. held[p] \in Conns
          BY <2>11 DEF RunRead, Placed
        <5>2. login[held[p]] \in {None, asked} /\ None \notin Names /\ None # Master
          BY <5>1, <4>1 DEF Connecting
        <5> QED BY <2>11, <5>2 DEF RunRead, Openable, Known
      <4>4. Caused'
        BY <2>11, <3>3, <4>1, <4>3, <1>g DEF RunRead, Goto, Caused
      <4> QED BY <4>2, <4>4
    <3> QED BY <3>2, <3>3
  <2>12. CASE RunWrite(p)
    <3>1. \A c \in Conns : login'[c] \in {login[c], None}
      BY <2>12 DEF RunWrite, HandBack, Breaks, Discards
    <3>2. status = "open"
      BY <2>12 DEF RunWrite, Connecting
    <3>3. CASE Fails(p)
      BY <2>12, <3>1, <3>2, <3>3, <1>g, EndReasons DEF RunWrite, Fails
    <3>4. CASE ~Fails(p)
      <4>1. Connecting'
        BY <2>12, <3>1, <3>2, <3>4 DEF RunWrite, Goto, Connecting, Opener, Writes
      <4>2. call[p].db \in everShut' /\ call[p].to \in Known'
        <5>1. call[p].db \in everShut'
          BY <2>12 DEF RunWrite
        <5>0. call[p] \in Call
          OBVIOUS
        <5>2. CASE call[p].kind = "close"
          <6>1. call[p].to = Master
            BY <5>0, <5>2 DEF Call
          <6>2. Master \in Known'
            BY DEF Known
          <6> QED BY <5>1, <6>1, <6>2
        <5>3. CASE call[p].kind = "rename"
          <6>1. call[p].to \in Names
            BY <5>0, <5>3 DEF Call
          <6>2. site' = [site EXCEPT ![call[p].db] = "none", ![call[p].to] = "open"]
            BY <2>12, <5>3 DEF RunWrite, Written
          <6>3. site'[call[p].to] = "open"
            BY <6>1, <6>2
          <6>4. call[p].to \in Known'
            BY <6>1, <6>3 DEF Known
          <6> QED BY <5>1, <6>4
        <5> QED BY <2>12, <5>1, <5>2, <5>3 DEF RunWrite, Writes
      <4>3. Caused'
        BY <2>12, <3>2, <3>4, <4>2, <1>g DEF RunWrite, Goto, Caused
      <4> QED BY <4>1, <4>3
    <3> QED BY <3>3, <3>4
  <2>13. CASE enableFallBack(p)
    <3> USE <2>13 DEF enableFallBack, End, Simple, NoSnap
    <3>1. target = asked /\ asked \in Known /\ status = "opening" /\ Opener(p)
      BY DEF Connecting, Caused
    <3>2. Connecting'
      BY <3>1 DEF Connecting, Opener, Writes
    <3>3. Caused'
      BY <3>1, <1>g DEF Caused
    <3> QED BY <3>2, <3>3
  <2>14. CASE leftLoginDatabase(p)
    <3>1. status = "open"
      BY <2>14 DEF leftLoginDatabase, Placed, Connecting
    <3>2. CASE End(p)
      BY <2>14, <3>1, <3>2, <1>g, EndReasons DEF leftLoginDatabase
    <3>3. CASE ~End(p)
      BY <2>14, <3>1, <3>3, <1>g DEF leftLoginDatabase, Goto, Connecting, Caused, Opener, Writes
    <3> QED BY <3>2, <3>3
  <2>15. CASE LeavesIt(p)
    <3>1. target' \in {target, call[p].to} /\ status = "open" /\ Writes(p)
      BY <2>15 DEF LeavesIt, retarget, Placed, Connecting
    <3>2. Connecting'
      BY <2>15, <3>1 DEF LeavesIt, Goto, Connecting, Opener, Writes
    <3>3. Caused'
      BY <2>15, <3>1, <1>g DEF LeavesIt, Goto, Caused
    <3> QED BY <3>2, <3>3
  <2> QED BY <1>4, <2>1, <2>2, <2>3, <2>4, <2>5, <2>6, <2>7, <2>8, <2>9, <2>10,
             <2>11, <2>12, <2>13, <2>14, <2>15 DEF Step
<1> QED BY <1>1, <1>2, <1>3, <1>4 DEF Next

\* What moves the pool to master is a refusal of the database it logs in to, or
\* a write that took that database away.
LEMMA StepForCause ==
    ASSUME TypeOK, Placed, Connecting, Caused, [Next]_vars PROVE ForCause
<1> USE DEF ForCause, connector
<1>1. CASE UNCHANGED vars
  BY <1>1 DEF vars
<1>2. CASE Other
  BY <1>2 DEF Other
<1>3. ASSUME NEW p \in Procs, Begin(p) PROVE ForCause
  BY <1>3 DEF Begin, Open, Read, Write
<1>4. ASSUME NEW p \in Procs, Step(p) PROVE ForCause
  <2>1. CASE FallsBack(p)
    BY <2>1 DEF FallsBack, retarget, Caused
  <2>2. CASE LeavesIt(p)
    BY <2>2 DEF LeavesIt, retarget, Caused
  <2> QED BY <1>4, <2>1, <2>2 DEF Step, Count, Release, Take, Snapshot, Dial, Current,
             Redial, GiveUp, RunFails, RunRead, RunWrite, enableFallBack, leftLoginDatabase
<1> QED BY <1>1, <1>2, <1>3, <1>4 DEF Next

LEMMA SpecReasons == Spec => [](TypeOK /\ Placed /\ Connecting /\ Caused)
<1>1. TypeOK /\ Placed /\ Connecting /\ Caused /\ [Next]_vars => (Connecting /\ Caused)'
  BY StepReasons
<1> QED BY <1>1, InitReasons, RetargetTypeCorrect, PTL DEF Spec

\* Until Connect has returned a Server the pool is where the caller asked.
THEOREM PoolStartsWhereAsked == Spec => []StartsWhereAsked
<1>1. Connecting => StartsWhereAsked
  BY DEF Connecting, StartsWhereAsked
<1> QED BY <1>1, SpecReasons, PTL

\* "The pool does not move back" (InitialDatabase), and moves only off a database
\* that could not be opened: whatever renames, dials and refusals overlap.
THEOREM PoolMovesForCause == Spec => MovesForCause
<1>1. TypeOK /\ Placed /\ Connecting /\ Caused /\ [Next]_vars => [NeverBack /\ ForCause]_vars
  BY StepNeverBack, StepForCause DEF NeverBack
<1> QED BY <1>1, SpecReasons, PTL DEF Spec, MovesForCause

-----------------------------------------------------------------------------
\* With one login database: the pool is in it or in master, and every goroutine
\* whose dial was refused finds it in master.  A dial's snapshot that names the
\* login database while the pool is in master has been swapped since.
OneWay ==
    /\ target \in {asked, Master}
    /\ \A p \in Procs :
         /\ snap[p].db \in {asked, Master}
         /\ pc[p] = "moved" => swapped[p] /\ target = Master
         /\ pc[p] = "redial" => snap[p].db = Master
         /\ pc[p] = "giveUp" => ~snap[p].fallBack
         /\ pc[p] \in {"dial", "refused"} /\ snap[p].db # Master /\ target = Master
              => swapped[p]

LEMMA StepOneWay ==
    ASSUME Renames = {}, Builds = {TRUE}, TypeOK, Placed, OneWay, [Next]_vars
    PROVE  OneWay'
<1> USE RetargetAssumption DEF TypeOK, OneWay, connector
<1>e. ASSUME NEW p \in Procs, End(p) \/ Released(p), UNCHANGED <<asked, target, swapped>>
      PROVE  OneWay'
  BY <1>e DEF End, Released, Goto, NoSnap
<1>l. ASSUME NEW p \in Procs, LetIn(p), UNCHANGED <<asked, target, swapped>> PROVE OneWay'
  BY <1>l DEF LetIn, Goto, Acquired
<1>n. ASSUME NEW p \in Procs, NotLetIn(p), UNCHANGED <<asked, target, swapped>> PROVE OneWay'
  BY <1>n, <1>e DEF NotLetIn, Fails
<1>1. CASE UNCHANGED vars
  BY <1>1 DEF vars, proc
<1>2. CASE Other
  BY <1>2 DEF Other, proc
<1>3. ASSUME NEW p \in Procs, Begin(p) PROVE OneWay'
  BY <1>3 DEF Begin, Open, Read, Write, Goto
<1>4. ASSUME NEW p \in Procs, Step(p) PROVE OneWay'
  <2>1. CASE Count(p)
    BY <2>1 DEF Count, Goto
  <2>2. CASE Release(p)
    BY <2>2, <1>e DEF Release, Goto
  <2>3. CASE Take(p)
    BY <2>3 DEF Take, Goto, Acquired
  <2>4. CASE Snapshot(p)
    BY <2>4 DEF Snapshot, Goto
  <2>5. CASE Dial(p)
    <3>1. CASE LetIn(p) \/ NotLetIn(p)
      BY <2>5, <3>1, <1>l, <1>n DEF Dial
    <3>2. CASE ~(LetIn(p) \/ NotLetIn(p))
      BY <2>5, <3>2 DEF Dial, Goto, MayFallBack, Openable
    <3> QED BY <3>1, <3>2
  <2>6. CASE FallsBack(p)
    <3>1. target' = Master /\ \A q \in Procs : swapped[q] \/ target # Master => swapped'[q]
      <4>1. snap[p].db = asked /\ asked # Master
        BY <2>6 DEF FallsBack, Placed
      <4>2. CASE target = asked
        BY <2>6, <4>1, <4>2 DEF FallsBack, retarget
      <4>3. CASE target # asked
        BY <2>6, <4>1, <4>3 DEF FallsBack, retarget
      <4> QED BY <4>2, <4>3
    <3>2. swapped'[p]
      BY <2>6, <3>1 DEF FallsBack, Placed
    <3>3. /\ pc' = [pc EXCEPT ![p] = "moved"]
          /\ UNCHANGED <<asked, snap>>
      BY <2>6 DEF FallsBack, Goto
    <3>4. ASSUME NEW q \in Procs PROVE pc'[q] = "moved" => swapped'[q]
      <4>1. CASE q = p
        BY <4>1, <3>2
      <4>2. CASE q # p
        BY <4>2, <3>1, <3>3
      <4> QED BY <4>1, <4>2
    <3> QED BY <3>1, <3>3, <3>4
  <2>7. CASE Current(p)
    <3>1. swapped[p] /\ target = Master
      BY <2>7 DEF Current
    <3>2. /\ snap' = [snap EXCEPT ![p].db = Master]
          /\ pc' = [pc EXCEPT ![p] = "redial"]
          /\ UNCHANGED <<asked, target, swapped>>
      BY <2>7, <3>1 DEF Current, Goto
    <3>3. /\ snap'[p].db = Master
          /\ \A q \in Procs : q # p => snap'[q] = snap[q]
      BY <3>2 DEF Snap
    <3> QED BY <3>2, <3>3
  <2>8. CASE Redial(p)
    <3>1. CASE LetIn(p) \/ NotLetIn(p)
      BY <2>8, <3>1, <1>l, <1>n DEF Redial
    <3>2. CASE ~(LetIn(p) \/ NotLetIn(p))
      BY <2>8, <3>2 DEF Redial, Openable
    <3> QED BY <3>1, <3>2
  <2>9. CASE GiveUp(p)
    BY <2>9, <1>n DEF GiveUp
  <2>10. CASE RunFails(p)
    BY <2>10, <1>e DEF RunFails, Fails
  <2>11. CASE RunRead(p)
    BY <2>11, <1>e DEF RunRead, Goto
  <2>12. CASE RunWrite(p)
    BY <2>12, <1>e DEF RunWrite, Goto, Fails
  <2>13. CASE enableFallBack(p)
    BY <2>13, <1>e DEF enableFallBack
  <2>14. CASE leftLoginDatabase(p)
    BY <2>14, <1>e DEF leftLoginDatabase, Goto
  <2>15. CASE LeavesIt(p)
    <3>1. call[p] \in Call /\ Writes(p)
      BY <2>15 DEF LeavesIt, Placed
    <3>2. call[p].to = Master
      BY <3>1 DEF Writes, Call
    <3>3. CASE target = call[p].db
      BY <2>15, <3>2, <3>3 DEF LeavesIt, retarget, Goto
    <3>4. CASE target # call[p].db
      BY <2>15, <3>2, <3>4 DEF LeavesIt, retarget, Goto
    <3> QED BY <3>3, <3>4
  <2> QED BY <1>4, <2>1, <2>2, <2>3, <2>4, <2>5, <2>6, <2>7, <2>8, <2>9, <2>10,
             <2>11, <2>12, <2>13, <2>14, <2>15 DEF Step
<1> QED BY <1>1, <1>2, <1>3, <1>4 DEF Next

\* However many goroutines dial while others take the login database away and
\* other sessions open and close it, a Connect that may fall back is never
\* refused for its database: it finds the pool in master.
THEOREM OneDatabaseNeverRefuses ==
    ASSUME Renames = {}, Builds = {TRUE}
    PROVE  Spec => []NeverRefused
<1>1. Init => OneWay
  BY DEF Init, OneWay, NoSnap
<1>2. TypeOK /\ Placed /\ OneWay /\ [Next]_vars => OneWay'
  BY StepOneWay
<1>3. OneWay => NeverRefused
  BY DEF OneWay, NeverRefused
<1> QED BY <1>1, <1>2, <1>3, RetargetTypeCorrect, PTL DEF Spec

=============================================================================
