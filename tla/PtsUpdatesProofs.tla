-------------------------- MODULE PtsUpdatesProofs --------------------------
(***************************************************************************)
(* Theorems about the updates engine: for any bounds, counts and kinds of  *)
(* messages, PtsWaiter and Api::Updates implement the Replica of the log   *)
(* of the server.  The argument is the one the arithmetic of PtsWaiter     *)
(* rests on: the events occupy disjoint ranges of pts, so when the counts  *)
(* of what was received since _good add up to the distance between _good   *)
(* and the largest pts received, nothing in between is missing.            *)
(***************************************************************************)
EXTENDS PtsUpdates, FiniteSetTheorems, TLAPS

(* The values of pts that the events of R take. *)
Positions(R) ==
  {p \in 1 .. MaxPts : \E e \in R : e.pts - e.count < p /\ p <= e.pts}

(* No event takes values on both sides of p. *)
Boundary(p) == \A e \in events : e.pts > p => e.pts - e.count >= p

(* The log of the server: its events are disjoint. *)
LogIsDisjoint ==
  /\ \A e \in events : e.pts <= serverPts /\ e.pts - e.count >= 1
  /\ \A e, f \in events : e = f \/ e.pts <= f.pts - f.count \/ f.pts <= e.pts - e.count

(* Messages carry events of the log, each of them once; only pushes carry  *)
(* a seq; and what is queued is waited for.                                *)
MessagesAreEvents ==
  /\ \A m \in net \cup bySeq \cup queue :
       m.pts <= serverPts /\ (m.count > 0 => EventOf(m) \in events)
  /\ \A m \in queue : m.count > 0
  /\ \A m \in net : m.seq # 0 => m.kind = "push"
  /\ \A m, k \in net \cup bySeq : m.count > 0 /\ EventOf(m) = EventOf(k) => m = k
  /\ \A m \in net \cap bySeq : m.count = 0
  /\ queue # {} => waiting

(* One request at a time, and its answer. *)
OneRequest ==
  /\ requesting => \/ request # "no" /\ answer = {}
                   \/ request = "no" /\ \E a \in answer : answer = {a}
  /\ ~requesting => request = "no" /\ answer = {}
  /\ \A a \in answer : good <= a.pts /\ a.pts <= serverPts /\ Boundary(a.pts)

(* _good is where the log is known without a gap. *)
GoodIsComplete ==
  /\ good <= last /\ last <= serverPts /\ count <= serverPts /\ Boundary(good)
  /\ \A e \in events : e.pts <= good => e \in applied

(* R is what was received, applied or queued, since _good: _count has      *)
(* counted the values of pts it takes, and _last bounds them.              *)
Received(R) ==
  /\ R \subseteq events
  /\ \A e \in R : good < e.pts /\ e.pts <= last
  /\ \A e \in R : e \in applied \/ \E m \in queue : EventOf(m) = e
  /\ \A m \in net \cup bySeq : m.count > 0 => EventOf(m) \notin R
  /\ count = good + Cardinality(Positions(R))

Counted == ~requesting => \E R \in SUBSET events : Received(R)

UpdatesInv ==
  /\ TypeOK /\ LogIsDisjoint /\ MessagesAreEvents /\ OneRequest
  /\ GoodIsComplete /\ Counted

-----------------------------------------------------------------------------
(* Counting the values of pts.                                             *)

LEMMA EventNumbers ==
  ASSUME NEW e \in Event
  PROVE  e.pts \in Nat /\ e.count \in Nat /\ e.count > 0 /\ e.pts <= MaxPts /\ e.pts >= 2
BY BoundsAssumption DEF Event

LEMMA PositionsFinite ==
  ASSUME NEW R
  PROVE  IsFiniteSet(Positions(R)) /\ Cardinality(Positions(R)) \in Nat
<1>1. IsFiniteSet(1 .. MaxPts)
  BY BoundsAssumption, FS_Interval
<1>2. Positions(R) \subseteq 1 .. MaxPts
  BY DEF Positions
<1> QED
  BY <1>1, <1>2, FS_Subset, FS_CardinalityType

LEMMA PositionsOfNone == Cardinality(Positions({})) = 0
<1>1. Positions({}) = {}
  BY DEF Positions
<1> QED
  BY <1>1, FS_EmptySet

(* One more event adds its count. *)
LEMMA CountOneMore ==
  ASSUME events \subseteq Event, LogIsDisjoint,
         NEW R \in SUBSET events, NEW e \in events, e \notin R
  PROVE  Cardinality(Positions(R \cup {e})) = Cardinality(Positions(R)) + e.count
<1> DEFINE own == (e.pts - e.count) + 1 .. e.pts
<1>1. /\ e.pts \in Nat /\ e.count \in Nat /\ e.count > 0 /\ e.pts <= MaxPts
      /\ e.pts - e.count >= 1 /\ MaxPts \in Nat
  BY EventNumbers, BoundsAssumption DEF LogIsDisjoint
<1>2. IsFiniteSet(own) /\ Cardinality(own) = e.count
  <2>1. (e.pts - e.count) + 1 \in Int /\ e.pts \in Int
    BY <1>1
  <2>2. IsFiniteSet(own) /\ Cardinality(own) = IF (e.pts - e.count) + 1 > e.pts THEN 0
                                               ELSE e.pts - ((e.pts - e.count) + 1) + 1
    BY <2>1, FS_Interval
  <2> QED
    BY <1>1, <2>2
<1>3. Positions(R \cup {e}) = Positions(R) \cup own
  BY <1>1 DEF Positions
<1>4. Positions(R) \cap own = {}
  <2> SUFFICES ASSUME NEW p \in Positions(R), p \in own PROVE FALSE
    OBVIOUS
  <2>1. PICK f \in R : f.pts - f.count < p /\ p <= f.pts
    BY DEF Positions
  <2>2. /\ f \in events /\ f # e /\ f.pts \in Nat /\ f.count \in Nat /\ p \in Int
        /\ e.pts - e.count < p /\ p <= e.pts
    BY <1>1, EventNumbers
  <2> QED
    BY <1>1, <2>1, <2>2 DEF LogIsDisjoint
<1>5. Cardinality(Positions(R) \cap own) = 0
  BY <1>4, FS_EmptySet
<1>6. IsFiniteSet(Positions(R)) /\ Cardinality(Positions(R)) \in Nat
  BY PositionsFinite
<1>7. Cardinality(Positions(R) \cup own)
        = Cardinality(Positions(R)) + Cardinality(own) - Cardinality(Positions(R) \cap own)
  BY <1>2, <1>6, FS_Union
<1>8. Cardinality(Positions(R \cup {e})) = Cardinality(Positions(R) \cup own)
  BY <1>3, Zenon
<1> HIDE DEF own
<1>9. Cardinality(Positions(R) \cup own) = Cardinality(Positions(R)) + e.count
  BY <1>1, <1>2, <1>5, <1>6, <1>7
<1> QED
  BY <1>8, <1>9, Zenon

(* What lies between two values of pts fits between them, and if it fills  *)
(* the space, nothing is missing.                                          *)
LEMMA CountBetween ==
  ASSUME events \subseteq Event, LogIsDisjoint, NEW R \in SUBSET events,
         NEW lo \in Nat, NEW hi \in Nat, lo <= hi, hi <= MaxPts, Boundary(lo),
         \A e \in R : lo < e.pts /\ e.pts <= hi
  PROVE  /\ Cardinality(Positions(R)) <= hi - lo
         /\ Cardinality(Positions(R)) = hi - lo =>
              /\ \A e \in events : lo < e.pts /\ e.pts <= hi => e \in R
              /\ Boundary(hi)
<1> DEFINE all == lo + 1 .. hi
<1>1. Positions(R) \subseteq all
  <2> SUFFICES ASSUME NEW p \in Positions(R) PROVE p \in all
    OBVIOUS
  <2>1. PICK e \in R : e.pts - e.count < p /\ p <= e.pts
    BY DEF Positions
  <2>2. p \in Int /\ e.pts \in Nat /\ e.count \in Nat
    BY EventNumbers DEF Positions
  <2>3. lo < e.pts /\ e.pts <= hi /\ e.pts - e.count >= lo
    BY DEF Boundary
  <2> QED
    BY <2>1, <2>2, <2>3
<1>2. IsFiniteSet(all) /\ Cardinality(all) = hi - lo
  <2>1. lo + 1 \in Int /\ hi \in Int
    OBVIOUS
  <2>2. IsFiniteSet(all) /\ Cardinality(all) = IF lo + 1 > hi THEN 0 ELSE hi - (lo + 1) + 1
    BY <2>1, FS_Interval
  <2> QED
    BY <2>2
<1>3. Cardinality(Positions(R)) <= Cardinality(all)
      /\ (Cardinality(Positions(R)) = Cardinality(all) => Positions(R) = all)
  BY <1>1, <1>2, FS_Subset
<1>4. ASSUME Positions(R) = all, NEW e \in events, lo < e.pts, e.pts <= hi
      PROVE  e \in R
  <2>1. e.pts \in Nat /\ e.count \in Nat /\ e.count > 0
    BY EventNumbers
  <2>2. e.pts \in Positions(R)
    BY <1>4, <2>1
  <2>3. PICK f \in R : f.pts - f.count < e.pts /\ e.pts <= f.pts
    BY <2>2 DEF Positions
  <2>4. f.pts \in Nat /\ f.count \in Nat /\ f.count > 0
    BY EventNumbers
  <2> QED
    BY <2>1, <2>3, <2>4 DEF LogIsDisjoint
<1>5. ASSUME Positions(R) = all PROVE Boundary(hi)
  <2> SUFFICES ASSUME NEW e \in events, e.pts > hi PROVE e.pts - e.count >= hi
    BY DEF Boundary
  <2>1. e.pts \in Nat /\ e.count \in Nat /\ e.count > 0
    BY EventNumbers
  <2>2. CASE lo = hi
    BY <2>2 DEF Boundary
  <2>3. CASE lo < hi
    <3>1. hi \in Positions(R)
      BY <1>5, <2>3
    <3>2. PICK f \in R : f.pts - f.count < hi /\ hi <= f.pts
      BY <3>1 DEF Positions
    <3>3. f.pts \in Nat /\ f.count \in Nat /\ f.count > 0 /\ f.pts <= hi
      BY EventNumbers
    <3> QED
      BY <2>1, <3>2, <3>3 DEF LogIsDisjoint
  <2> QED
    BY <2>2, <2>3
<1> QED
  BY <1>2, <1>3, <1>4, <1>5

-----------------------------------------------------------------------------
(* The kinds of steps.                                                     *)

LEMMA MessageNumbers ==
  ASSUME NEW m \in Message
  PROVE  /\ m.pts \in Nat /\ m.count \in Nat /\ m.seq \in 0 .. MaxSeq /\ m.kind \in AllKinds
         /\ m.pts >= 1 /\ m.pts <= MaxPts
         /\ EventOf(m).pts = m.pts /\ EventOf(m).count = m.count
<1>1. m.pts \in 1 .. MaxPts /\ m.count \in Counts /\ m.seq \in 0 .. MaxSeq /\ m.kind \in Kinds
  BY DEF Message
<1>2. m.count \in Nat /\ m.kind \in AllKinds
  BY <1>1, CountsAssumption, KindsAssumption
<1>3. m.pts \in Nat /\ m.pts >= 1 /\ m.pts <= MaxPts
  BY <1>1, BoundsAssumption
<1>4. EventOf(m).pts = m.pts /\ EventOf(m).count = m.count
  BY DEF EventOf
<1> QED
  BY <1>1, <1>2, <1>3, <1>4

LEMMA Numbers ==
  ASSUME TypeOK
  PROVE  /\ good \in Nat /\ last \in Nat /\ count \in Nat
         /\ serverPts \in Nat /\ serverPts <= MaxPts /\ MaxPts \in Nat
         /\ events \subseteq Event
         /\ \A e \in events : e.pts \in Nat /\ e.count \in Nat /\ e.count > 0
         /\ \A m \in net \cup bySeq \cup queue : m \in Message
         /\ \A a \in answer : a.pts \in Nat /\ a.pts >= 1 /\ a.seq \in 0 .. MaxSeq
<1>1. good \in Nat /\ last \in Nat /\ count \in Nat
  BY BoundsAssumption DEF TypeOK
<1>2. serverPts \in Nat /\ serverPts <= MaxPts /\ MaxPts \in Nat
  BY BoundsAssumption DEF TypeOK
<1>3. events \subseteq Event /\ \A e \in events : e.pts \in Nat /\ e.count \in Nat /\ e.count > 0
  BY EventNumbers DEF TypeOK
<1>4. \A m \in net \cup bySeq \cup queue : m \in Message
  BY DEF TypeOK
<1>5. \A a \in answer : a.pts \in Nat /\ a.pts >= 1 /\ a.seq \in 0 .. MaxSeq
  BY BoundsAssumption DEF TypeOK
<1> QED
  BY <1>1, <1>2, <1>3, <1>4, <1>5

(* A step that keeps the log and the invariant and only moves forward is   *)
(* one of the Replica.                                                     *)
LEMMA SeesForward ==
  ASSUME UpdatesInv', events' = events, applied \subseteq applied', good' >= good
  PROVE  Log!See
<1>1. applied' \subseteq events
  BY DEF UpdatesInv, TypeOK
<1>2. \A e \in events : PtsOf(e) <= good' => e \in applied'
  BY DEF UpdatesInv, GoodIsComplete, PtsOf
<1> QED
  BY <1>1, <1>2 DEF Log!See

(* A step that leaves _good, _last and _count alone: messages are lost,    *)
(* dropped, kept for later or applied, a difference is asked for.          *)
LEMMA QuietStep ==
  ASSUME UpdatesInv, TypeOK', OneRequest',
         UNCHANGED <<events, serverPts, good, last, count>>, applied \subseteq applied',
         net' \subseteq net, bySeq' \subseteq net \cup bySeq,
         \A m \in net' \cap bySeq' : m.count = 0,
         queue' \subseteq queue, queue' # {} => waiting',
         ~requesting' => ~requesting /\ queue' = queue
  PROVE  UpdatesInv' /\ Log!See
<1>1. /\ TypeOK /\ LogIsDisjoint /\ MessagesAreEvents /\ GoodIsComplete /\ Counted
  BY DEF UpdatesInv
<1>2. LogIsDisjoint'
  BY <1>1 DEF LogIsDisjoint
<1>3. MessagesAreEvents'
  BY <1>1 DEF MessagesAreEvents, EventOf
<1>4. GoodIsComplete'
  BY <1>1 DEF GoodIsComplete, Boundary
<1>5. Counted'
  <2> SUFFICES ASSUME ~requesting' PROVE \E R \in SUBSET events' : Received(R)'
    BY DEF Counted
  <2>1. PICK R \in SUBSET events : Received(R)
    BY <1>1 DEF Counted
  <2>2. Received(R)'
    BY <2>1 DEF Received, EventOf
  <2> QED
    BY <2>2
<1>6. UpdatesInv'
  BY <1>2, <1>3, <1>4, <1>5 DEF UpdatesInv
<1>7. good \in Nat
  BY <1>1, Numbers
<1> QED
  BY <1>6, <1>7, SeesForward

(* OneRequest is about these variables only. *)
LEMMA SameRequest ==
  ASSUME OneRequest, UNCHANGED <<request, answer, requesting, good, serverPts, events>>
  PROVE  OneRequest'
BY DEF OneRequest, Boundary

LEMMA SetSeqFacts ==
  ASSUME TypeOK, NEW seq \in 0 .. MaxSeq, NEW kept \in SUBSET bySeq, SetSeq(seq, kept)
  PROVE  /\ updatesSeq' \in 0 .. MaxSeq /\ bySeq' \subseteq kept /\ bySeq' \subseteq Message
         /\ seqTimer' \in BOOLEAN
         /\ requesting => bySeq' = {} /\ ~seqTimer'
<1>1. updatesSeq \in 0 .. MaxSeq /\ bySeq \subseteq Message /\ seqTimer \in BOOLEAN
      /\ (requesting => bySeq = {} /\ ~seqTimer)
  BY DEF TypeOK
<1>2. CASE seq = 0 \/ seq = updatesSeq
  BY <1>1, <1>2 DEF SetSeq
<1>3. CASE ~(seq = 0 \/ seq = updatesSeq)
  <2>1. /\ updatesSeq' = seq /\ bySeq' = {m \in kept : m.seq > seq}
        /\ seqTimer' = (bySeq' # {} /\ ~ \E m \in bySeq' : m.seq = seq + 1)
    BY <1>3 DEF SetSeq
  <2>2. bySeq' \subseteq kept
    BY <2>1
  <2>3. seqTimer' \in BOOLEAN
    BY <2>1
  <2>4. requesting => bySeq' = {}
    BY <1>1, <2>2
  <2>5. requesting => ~seqTimer'
    BY <2>1, <2>4
  <2> QED
    BY <1>1, <2>1, <2>2, <2>3, <2>4, <2>5
<1> QED
  BY <1>2, <1>3

-----------------------------------------------------------------------------
(* The server, the network and the requests.                               *)

LEMMA Initially == Init => UpdatesInv /\ Log!Init
<1> SUFFICES ASSUME Init PROVE UpdatesInv /\ Log!Init
  OBVIOUS
<1>1. TypeOK
  <2>1. /\ serverPts \in 1 .. MaxPts /\ serverSeq \in 0 .. MaxSeq /\ updatesSeq \in 0 .. MaxSeq
        /\ faults \in 0 .. Faults /\ good \in 0 .. MaxPts /\ last = good /\ count = good
    BY BoundsAssumption DEF Init
  <2>2. /\ requesting = TRUE /\ waiting = FALSE /\ ptsTime = FALSE /\ seqTimer = FALSE
        /\ silent = FALSE /\ events = {} /\ net = {} /\ queue = {} /\ bySeq = {} /\ applied = {} /\ answer = {}
        /\ request = "state"
    BY DEF Init
  <2> QED
    BY <2>1, <2>2 DEF TypeOK
<1>2. LogIsDisjoint /\ MessagesAreEvents /\ OneRequest /\ GoodIsComplete /\ Counted
  BY DEF Init, LogIsDisjoint, MessagesAreEvents, OneRequest, GoodIsComplete, Boundary, Counted
<1> QED
  BY <1>1, <1>2 DEF UpdatesInv, Init, Log!Init

LEMMA LoseStep ==
  ASSUME UpdatesInv, NEW m \in net, Lose(m)
  PROVE  UpdatesInv' /\ Log!See
<1>1. TypeOK /\ MessagesAreEvents /\ OneRequest
  BY DEF UpdatesInv
<1>2. /\ net' = net \ {m}
      /\ UNCHANGED <<events, serverPts, serverSeq, request, answer, good, last, count, queue, waiting,
                     ptsTime, silent, requesting, updatesSeq, bySeq, seqTimer, applied, faults>>
  BY DEF Lose, server, waiter
<1>3. TypeOK'
  BY <1>1, <1>2 DEF TypeOK
<1>4. OneRequest'
  BY <1>1, <1>2, SameRequest
<1>5. (queue' # {} => waiting') /\ \A k \in net' \cap bySeq' : k.count = 0
  BY <1>1, <1>2 DEF MessagesAreEvents
<1> QED
  BY <1>2, <1>3, <1>4, <1>5, QuietStep

LEMMA AnswerStep ==
  ASSUME UpdatesInv, NEW kind \in AnswerKinds, NEW upTo \in 1 .. MaxPts, Answer(kind, upTo)
  PROVE  UpdatesInv' /\ Log!See
<1> DEFINE a == [kind |-> kind, pts |-> upTo, seq |-> serverSeq]
<1>1. TypeOK /\ LogIsDisjoint /\ MessagesAreEvents /\ OneRequest /\ GoodIsComplete
  BY DEF UpdatesInv
<1>2. /\ request' = "no" /\ answer' = {a}
      /\ UNCHANGED <<events, serverPts, serverSeq, net, good, last, count, queue, waiting,
                     ptsTime, silent, requesting, updatesSeq, bySeq, seqTimer, applied, faults>>
  BY DEF Answer, server, waiter
<1>3. a.pts = upTo /\ a \in [kind : AnswerKinds, pts : 1 .. MaxPts, seq : 0 .. MaxSeq]
  BY <1>1 DEF TypeOK
<1> HIDE DEF a
<1>4. TypeOK'
  BY <1>1, <1>2, <1>3 DEF TypeOK
<1>5. requesting
  BY <1>1 DEF Answer, OneRequest
<1>6. good <= upTo /\ upTo <= serverPts /\ Boundary(upTo)
  <2>1. /\ good \in Nat /\ serverPts \in Nat /\ good <= last /\ last \in Nat /\ last <= serverPts
        /\ \A e \in events : e.pts \in Nat /\ e.count \in Nat /\ e.count > 0
    BY <1>1, Numbers DEF GoodIsComplete
  <2>2. CASE upTo = serverPts
    BY <1>1, <2>1, <2>2 DEF LogIsDisjoint, Boundary
  <2>3. CASE upTo = good
    BY <1>1, <2>1, <2>3 DEF GoodIsComplete
  <2>4. CASE \E e \in events : good < e.pts /\ e.pts < serverPts /\ upTo = e.pts
    <3>1. PICK e \in events : good < e.pts /\ e.pts < serverPts /\ upTo = e.pts
      BY <2>4
    <3>2. Boundary(upTo)
      BY <1>1, <2>1, <3>1 DEF LogIsDisjoint, Boundary
    <3> QED
      BY <2>1, <3>1, <3>2
  <2> QED
    BY <2>2, <2>3, <2>4 DEF Answer
<1>7. OneRequest'
  <2>1. \A b \in answer' : good' <= b.pts /\ b.pts <= serverPts' /\ Boundary(b.pts)'
    BY <1>2, <1>3, <1>6 DEF Boundary
  <2>2. \E b \in answer' : answer' = {b}
    BY <1>2
  <2> QED
    BY <1>2, <1>5, <2>1, <2>2 DEF OneRequest
<1>8. (queue' # {} => waiting') /\ \A k \in net' \cap bySeq' : k.count = 0
  BY <1>1, <1>2 DEF MessagesAreEvents
<1> QED
  BY <1>2, <1>4, <1>7, <1>8, QuietStep

LEMMA RequestFailsStep ==
  ASSUME UpdatesInv, RequestFails
  PROVE  UpdatesInv' /\ Log!See
<1>1. TypeOK /\ MessagesAreEvents /\ OneRequest
  BY DEF UpdatesInv
<1>2. /\ request \in {"state", "difference"} /\ faults < Faults /\ faults' = faults + 1
      /\ request' \in {"retry", "stuck"}
      /\ UNCHANGED <<events, serverPts, serverSeq, net, answer, good, last, count, queue, waiting,
                     ptsTime, silent, requesting, updatesSeq, bySeq, seqTimer, applied>>
  BY DEF RequestFails, server, waiter
<1>3. faults' \in 0 .. Faults
  BY <1>1, <1>2, BoundsAssumption DEF TypeOK
<1>4. TypeOK'
  BY <1>1, <1>2, <1>3 DEF TypeOK
<1>5. OneRequest'
  BY <1>1, <1>2 DEF OneRequest, Boundary
<1>6. (queue' # {} => waiting') /\ \A k \in net' \cap bySeq' : k.count = 0
  BY <1>1, <1>2 DEF MessagesAreEvents
<1> QED
  BY <1>2, <1>4, <1>5, <1>6, QuietStep

(* A difference is asked for, or was. *)
LEMMA Asks ==
  ASSUME UpdatesInv, NEW q \in SUBSET queue, queue' = q,
         requesting' = TRUE, queue' = {}, bySeq' = {}, ptsTime' = FALSE, seqTimer' = FALSE,
         request' \in {"no", "state", "difference", "retry", "stuck"},
         IF requesting THEN request' = request \/ (request # "no" /\ request' # "no")
         ELSE request' # "no",
         UNCHANGED <<events, serverPts, answer, good, last, count, waiting, silent, applied>>,
         net' \subseteq net, serverSeq' \in 0 .. MaxSeq, updatesSeq' \in 0 .. MaxSeq,
         faults' \in 0 .. Faults
  PROVE  UpdatesInv' /\ Log!See
<1>1. TypeOK /\ MessagesAreEvents /\ OneRequest
  BY DEF UpdatesInv
<1>2. TypeOK'
  BY <1>1 DEF TypeOK
<1>3. OneRequest'
  BY <1>1 DEF OneRequest, Boundary
<1> QED
  BY <1>1, <1>2, <1>3, QuietStep

LEMMA GetDifferenceAsks ==
  ASSUME UpdatesInv, GetDifference,
         UNCHANGED <<events, serverPts, answer, good, last, count, waiting, silent, applied, net>>,
         serverSeq' \in 0 .. MaxSeq, updatesSeq' \in 0 .. MaxSeq, faults' \in 0 .. Faults
  PROVE  UpdatesInv' /\ Log!See
<1>1. TypeOK
  BY DEF UpdatesInv
<1>2. CASE requesting
  <2>1. queue = {} /\ bySeq = {} /\ ptsTime = FALSE /\ seqTimer = FALSE /\ requesting = TRUE
        /\ request \in {"no", "state", "difference", "retry", "stuck"}
    BY <1>1, <1>2 DEF TypeOK
  <2> QED
    BY <1>2, <2>1, Asks DEF GetDifference
<1>3. CASE ~requesting
  BY <1>3, Asks DEF GetDifference
<1> QED
  BY <1>2, <1>3

LEMMA TimerFiresStep ==
  ASSUME UpdatesInv, TimerFires
  PROVE  UpdatesInv' /\ Log!See
<1>1. serverSeq \in 0 .. MaxSeq /\ updatesSeq \in 0 .. MaxSeq /\ faults \in 0 .. Faults
  BY DEF UpdatesInv, TypeOK
<1> QED
  BY <1>1, GetDifferenceAsks DEF TimerFires, server

LEMMA UpdatesTooLongStep ==
  ASSUME UpdatesInv, UpdatesTooLong
  PROVE  UpdatesInv' /\ Log!See
<1>1. serverSeq \in 0 .. MaxSeq /\ updatesSeq \in 0 .. MaxSeq /\ faults \in 0 .. Faults
  BY DEF UpdatesInv, TypeOK
<1> QED
  BY <1>1, GetDifferenceAsks DEF UpdatesTooLong, server

LEMMA NewSessionStep ==
  ASSUME UpdatesInv, NewSession
  PROVE  UpdatesInv' /\ Log!See
<1>1. faults \in 0 .. Faults
  BY DEF UpdatesInv, TypeOK
<1>2. faults' \in 0 .. Faults /\ serverSeq' \in 0 .. MaxSeq /\ updatesSeq' \in 0 .. MaxSeq
  BY <1>1, BoundsAssumption DEF NewSession
<1> QED
  BY <1>2, GetDifferenceAsks DEF NewSession

LEMMA RetryAfterFailStep ==
  ASSUME UpdatesInv, RetryAfterFail
  PROVE  UpdatesInv' /\ Log!See
<1>1. serverSeq \in 0 .. MaxSeq /\ updatesSeq \in 0 .. MaxSeq /\ faults \in 0 .. Faults
      /\ requesting \in BOOLEAN
  BY DEF UpdatesInv, TypeOK
<1>2. request = "retry" /\ requesting
  BY DEF UpdatesInv, OneRequest, RetryAfterFail
<1>3. requesting' = TRUE
  BY <1>1, <1>2 DEF RetryAfterFail
<1> QED
  BY <1>1, <1>2, <1>3, Asks DEF RetryAfterFail, server

LEMMA DifferenceDone ==
  ASSUME UpdatesInv, NEW a \in answer, AnswerDone(a), a.kind # "tooLong"
  PROVE  UpdatesInv' /\ Log!See
<1>1. TypeOK /\ LogIsDisjoint /\ MessagesAreEvents /\ OneRequest /\ GoodIsComplete
  BY DEF UpdatesInv
<1>2. /\ answer' = {}
      /\ applied' = applied \cup {e \in events : good < e.pts /\ e.pts <= a.pts}
      /\ good' = a.pts /\ last' = a.pts /\ count' = a.pts /\ queue' = {}
      /\ SetSeq(a.seq, bySeq)
      /\ IF a.kind = "slice"
         THEN request' = "difference" /\ ptsTime' = FALSE /\ UNCHANGED requesting
         ELSE requesting' = FALSE /\ UNCHANGED <<request, ptsTime>>
      /\ silent' = FALSE /\ UNCHANGED <<events, serverPts, serverSeq, net, waiting, faults>>
  BY DEF AnswerDone, server
<1>3. /\ requesting /\ request = "no" /\ answer # {}
      /\ good <= a.pts /\ a.pts <= serverPts /\ Boundary(a.pts)
  BY <1>1 DEF OneRequest
<1>4. /\ a.pts \in Nat /\ a.pts >= 1 /\ a.seq \in 0 .. MaxSeq
      /\ good \in Nat /\ serverPts \in Nat /\ serverPts <= MaxPts /\ MaxPts \in Nat
      /\ \A e \in events : e.pts \in Nat /\ e.count \in Nat
  BY <1>1, Numbers
<1>5. /\ updatesSeq' \in 0 .. MaxSeq /\ bySeq' = {} /\ seqTimer' = FALSE
  <2>1. updatesSeq' \in 0 .. MaxSeq /\ bySeq' = {} /\ ~seqTimer' /\ seqTimer' \in BOOLEAN
    BY <1>1, <1>2, <1>3, <1>4, SetSeqFacts
  <2> QED
    BY <2>1
<1>6. ptsTime = FALSE /\ requesting = TRUE
  BY <1>1, <1>3 DEF TypeOK
<1>7. good' \in 0 .. MaxPts /\ last' \in 0 .. MaxPts /\ count' \in 0 .. MaxPts /\ good' > 0
  BY <1>2, <1>3, <1>4
<1>8. applied \subseteq applied' /\ applied' \subseteq events
  BY <1>1, <1>2 DEF TypeOK
<1>9. TypeOK'
  BY <1>1, <1>2, <1>3, <1>5, <1>6, <1>7, <1>8 DEF TypeOK
<1>10. LogIsDisjoint'
  BY <1>1, <1>2 DEF LogIsDisjoint
<1>11. MessagesAreEvents'
  BY <1>1, <1>2, <1>5 DEF MessagesAreEvents, EventOf
<1>12. OneRequest'
  BY <1>2, <1>3, <1>6 DEF OneRequest
<1>13. GoodIsComplete'
  <2>1. Boundary(good)'
    BY <1>2, <1>3 DEF Boundary
  <2>2. \A e \in events : e.pts <= a.pts => e \in applied'
    BY <1>1, <1>2, <1>4 DEF GoodIsComplete
  <2> QED
    BY <1>2, <1>3, <1>4, <2>1, <2>2 DEF GoodIsComplete
<1>14. Counted'
  <2>1. Received({})'
    BY <1>2, <1>4, PositionsOfNone DEF Received
  <2> QED
    BY <2>1 DEF Counted
<1>15. UpdatesInv'
  BY <1>9, <1>10, <1>11, <1>12, <1>13, <1>14 DEF UpdatesInv
<1> QED
  BY <1>2, <1>3, <1>8, <1>15, SeesForward

(* updates.differenceTooLong leaves everything as it is. *)
LEMMA TooLongDone ==
  ASSUME UpdatesInv, NEW a \in answer, AnswerDone(a), a.kind = "tooLong"
  PROVE  UpdatesInv' /\ Log!See
<1>1. TypeOK /\ MessagesAreEvents /\ OneRequest
  BY DEF UpdatesInv
<1>2. /\ answer' = {} /\ request' = "stuck"
      /\ UNCHANGED <<events, serverPts, serverSeq, net, good, last, count, queue, waiting,
                     ptsTime, silent, requesting, updatesSeq, bySeq, seqTimer, applied, faults>>
  BY DEF AnswerDone, server, waiter
<1>3. requesting
  BY <1>1 DEF OneRequest
<1>4. TypeOK'
  BY <1>1, <1>2 DEF TypeOK
<1>5. OneRequest'
  BY <1>2, <1>3 DEF OneRequest
<1>6. (queue' # {} => waiting') /\ \A k \in net' \cap bySeq' : k.count = 0
  BY <1>1, <1>2 DEF MessagesAreEvents
<1> QED
  BY <1>2, <1>3, <1>4, <1>5, <1>6, QuietStep

LEMMA AnswerDoneStep ==
  ASSUME UpdatesInv, NEW a \in answer, AnswerDone(a)
  PROVE  UpdatesInv' /\ Log!See
BY DifferenceDone, TooLongDone

LEMMA SendStep ==
  ASSUME UpdatesInv, NEW n \in Counts, NEW kind \in Kinds, NEW numbered \in BOOLEAN,
         Send(n, kind, numbered)
  PROVE  UpdatesInv' /\ (Log!Produce \/ UNCHANGED Log!vars)
<1> DEFINE m == [pts |-> serverPts + n, count |-> n, kind |-> kind,
                 seq |-> IF numbered THEN serverSeq + 1 ELSE 0]
           e == [pts |-> serverPts + n, count |-> n]
<1>1. /\ TypeOK /\ LogIsDisjoint /\ MessagesAreEvents /\ OneRequest /\ GoodIsComplete /\ Counted
  BY DEF UpdatesInv
<1>2. /\ serverPts + n <= MaxPts /\ serverPts' = serverPts + n
      /\ numbered => serverSeq < MaxSeq /\ kind = "push"
      /\ serverSeq' = (IF numbered THEN serverSeq + 1 ELSE serverSeq)
      /\ net' = net \cup {m} /\ EventOf(m) = e
      /\ events' = (IF n = 0 THEN events ELSE events \cup {e})
      /\ UNCHANGED <<request, answer, good, last, count, queue, waiting, ptsTime, silent, requesting,
                     updatesSeq, bySeq, seqTimer, applied, faults>>
  BY DEF Send, waiter, EventOf
<1>3. /\ good \in Nat /\ last \in Nat /\ count \in Nat
      /\ serverPts \in Nat /\ serverPts <= MaxPts /\ MaxPts \in Nat /\ MaxSeq \in Nat
      /\ n \in Nat /\ serverSeq \in 0 .. MaxSeq /\ serverPts >= 1
      /\ \A f \in events : f \in Event /\ f.pts \in Nat /\ f.count \in Nat /\ f.count > 0
      /\ \A k \in net \cup bySeq \cup queue : k \in Message
      /\ \A a \in answer : a.pts \in Nat
  <2>1. n \in Nat /\ MaxSeq \in Nat
    BY BoundsAssumption, CountsAssumption
  <2>2. serverSeq \in 0 .. MaxSeq /\ serverPts \in 1 .. MaxPts
    BY <1>1 DEF TypeOK
  <2> QED
    BY <1>1, <2>1, <2>2, Numbers
<1>4. serverSeq' \in 0 .. MaxSeq /\ serverPts' \in 1 .. MaxPts
  BY <1>2, <1>3
<1>5. m \in Message
  <2>1. m.seq \in 0 .. MaxSeq
    BY <1>2, <1>3
  <2>2. serverPts + n \in 1 .. MaxPts
    BY <1>2, <1>3
  <2> QED
    BY <2>1, <2>2 DEF Message
<1>6. n # 0 => e \in Event
  <2>1. n # 0 => serverPts + n \in 2 .. MaxPts /\ n \in 1 .. MaxPts
    BY <1>2, <1>3
  <2> QED
    BY <2>1 DEF Event
<1>7. m.pts = serverPts + n /\ m.count = n /\ e.pts = serverPts + n /\ e.count = n
      /\ m.kind = kind /\ (m.seq # 0 => kind = "push")
  BY <1>2
<1>8. e \notin events \/ n = 0
  BY <1>1, <1>3, <1>7 DEF LogIsDisjoint
<1> HIDE DEF m, e
<1>9. TypeOK'
  BY <1>1, <1>2, <1>4, <1>5, <1>6 DEF TypeOK
<1>10. LogIsDisjoint'
  BY <1>1, <1>2, <1>3, <1>7 DEF LogIsDisjoint
<1>11. MessagesAreEvents'
  <2>1. \A k \in net' \cup bySeq' \cup queue' :
          k.pts <= serverPts' /\ (k.count > 0 => EventOf(k) \in events')
    BY <1>1, <1>2, <1>3, <1>7, MessageNumbers DEF MessagesAreEvents
  <2>2. \A k \in net \cup bySeq : k.count > 0 => EventOf(k) # e \/ n = 0
    BY <1>1, <1>8 DEF MessagesAreEvents
  <2>3. \A k \in net \cup bySeq : k.count > 0 => EventOf(k) # e
    BY <1>3, <1>7, <2>2, MessageNumbers
  <2>4. \A k, l \in net' \cup bySeq' : k.count > 0 /\ EventOf(k) = EventOf(l) => k = l
    <3> SUFFICES ASSUME NEW k \in net' \cup bySeq', NEW l \in net' \cup bySeq',
                        k.count > 0, EventOf(k) = EventOf(l)
                 PROVE  k = l
      OBVIOUS
    <3>1. k \in Message /\ l \in Message
      BY <1>2, <1>3, <1>5
    <3>2. k.count = l.count
      BY <3>1, MessageNumbers
    <3> QED
      BY <1>1, <1>2, <2>3, <3>2 DEF MessagesAreEvents
  <2>5. \A k \in net' \cap bySeq' : k.count = 0
    <3> SUFFICES ASSUME NEW k \in net' \cap bySeq' PROVE k.count = 0
      OBVIOUS
    <3>1. k \in bySeq /\ k.count \in Nat
      BY <1>2, <1>3, MessageNumbers
    <3> QED
      BY <1>1, <1>2, <2>3, <3>1 DEF MessagesAreEvents
  <2>6. \A k \in net' : k.seq # 0 => k.kind = "push"
    BY <1>1, <1>2, <1>7 DEF MessagesAreEvents
  <2> QED
    BY <1>1, <1>2, <2>1, <2>4, <2>5, <2>6 DEF MessagesAreEvents
<1>12. ASSUME NEW p \in Nat, p <= serverPts, Boundary(p) PROVE Boundary(p)'
  BY <1>2, <1>3, <1>7, <1>12 DEF Boundary
<1>13. OneRequest'
  BY <1>1, <1>2, <1>3, <1>12 DEF OneRequest
<1>14. GoodIsComplete'
  <2>1. good <= serverPts
    BY <1>1, <1>3 DEF GoodIsComplete
  <2>2. Boundary(good)'
    BY <1>1, <1>2, <1>3, <1>12, <2>1 DEF GoodIsComplete, Boundary
  <2>3. good' <= last' /\ last' <= serverPts' /\ count' <= serverPts'
    BY <1>1, <1>2, <1>3 DEF GoodIsComplete
  <2>4. \A f \in events' : f.pts <= good' => f \in applied'
    BY <1>1, <1>2, <1>3, <1>7, <2>1 DEF GoodIsComplete
  <2> QED
    BY <2>2, <2>3, <2>4 DEF GoodIsComplete
<1>15. Counted'
  <2> SUFFICES ASSUME ~requesting' PROVE \E R \in SUBSET events' : Received(R)'
    BY DEF Counted
  <2>1. PICK R \in SUBSET events : Received(R)
    BY <1>1, <1>2 DEF Counted
  <2>2. R \in SUBSET events'
    BY <1>2
  <2>3. m.count > 0 => EventOf(m) \notin R
    BY <1>2, <1>3, <1>7, <1>8
  <2>4. Received(R)'
    BY <1>2, <2>1, <2>2, <2>3 DEF Received
  <2> QED
    BY <2>2, <2>4
<1>16. UpdatesInv'
  BY <1>9, <1>10, <1>11, <1>13, <1>14, <1>15 DEF UpdatesInv
<1>17. Log!Produce \/ UNCHANGED Log!vars
  BY <1>2, <1>6, <1>8 DEF Log!Produce, Log!vars
<1> QED
  BY <1>16, <1>17

-----------------------------------------------------------------------------
(* Applying a message m, which then is neither on its way nor kept.        *)

Gone(m) == \A k \in net' \cup bySeq' : m.count > 0 => EventOf(k) # EventOf(m)

(* PtsWaiter::check() and what follows it. *)
LEMMA CheckStep ==
  ASSUME UpdatesInv, NEW m \in net \cup bySeq, Gone(m),
         ~requesting, m.pts > good \/ m.count = 0, UpdateAndApply(m),
         net' \subseteq net, bySeq' \subseteq bySeq, updatesSeq' \in 0 .. MaxSeq,
         seqTimer' \in BOOLEAN,
         UNCHANGED <<events, serverPts, serverSeq, request, answer, requesting, faults>>
  PROVE  UpdatesInv' /\ Log!See
<1> DEFINE own == IF m.count = 0 THEN {} ELSE {EventOf(m)}
           affected == m.kind = "affected"
           L == NewLast(m)
           K == NewCount(m)
<1>1. /\ TypeOK /\ LogIsDisjoint /\ MessagesAreEvents /\ OneRequest /\ GoodIsComplete /\ Counted
  BY DEF UpdatesInv
<1>2. /\ good \in Nat /\ last \in Nat /\ count \in Nat
      /\ serverPts \in Nat /\ serverPts <= MaxPts /\ MaxPts \in Nat
      /\ events \subseteq Event
      /\ \A e \in events : e.pts \in Nat /\ e.count \in Nat /\ e.count > 0
      /\ m \in Message /\ m.pts \in Nat /\ m.count \in Nat
      /\ EventOf(m).pts = m.pts /\ EventOf(m).count = m.count
      /\ good > 0
  <2>1. good > 0
    BY <1>1 DEF TypeOK
  <2> QED
    BY <1>1, <2>1, Numbers, MessageNumbers
<1>3. /\ good <= last /\ last <= serverPts /\ Boundary(good) /\ m.pts <= serverPts
      /\ own \subseteq events
  BY <1>1, <1>2 DEF GoodIsComplete, MessagesAreEvents
<1>4. /\ L \in Nat /\ L = (IF m.pts > last THEN m.pts ELSE last)
      /\ K \in Nat /\ K = count + m.count
      /\ last <= L /\ m.pts <= L /\ L <= serverPts
  BY <1>2, <1>3 DEF NewLast, NewCount
<1>5. ~(requesting) /\ ~(m.pts <= good /\ m.count > 0)
  BY <1>2
<1>6. /\ last' = L /\ count' = K /\ good' = (IF L = K THEN L ELSE good)
      /\ silent' = (m.count = 0 /\ L # K)
      /\ \/ /\ L # K /\ m.count > 0
            /\ waiting' = TRUE /\ ptsTime' = TRUE
            /\ queue' = (IF affected THEN queue ELSE queue \cup {m})
            /\ applied' = (IF affected THEN applied \cup own ELSE applied)
         \/ /\ L = K \/ m.count = 0
            /\ applied' = applied \cup own \cup {EventOf(u) : u \in queue}
            /\ queue' = {} /\ waiting' = FALSE /\ ptsTime' = FALSE
         \/ /\ L = K \/ m.count = 0
            /\ ~((waiting \/ L # K) /\ (affected \/ queue # {}))
            /\ applied' = applied \cup own
            /\ waiting' = (waiting \/ L # K) /\ ptsTime' = (ptsTime \/ L # K)
            /\ UNCHANGED queue
  BY <1>5 DEF UpdateAndApply, Check, Closed, ApplySkipped
<1>7. /\ waiting \in BOOLEAN /\ ptsTime \in BOOLEAN /\ (queue # {} => waiting)
      /\ applied \subseteq events /\ \A u \in queue : EventOf(u) \in events
  <2>1. \A u \in queue : u.count > 0 /\ EventOf(u) \in events
    BY <1>1 DEF MessagesAreEvents
  <2> QED
    BY <1>1, <2>1 DEF TypeOK, MessagesAreEvents
<1> HIDE DEF L, K, own, affected
<1>8. waiting' \in BOOLEAN /\ ptsTime' \in BOOLEAN /\ silent' \in BOOLEAN
  BY <1>6, <1>7
<1>9. applied \subseteq applied' /\ applied' \subseteq events
  BY <1>3, <1>6, <1>7
<1>10. /\ \A u \in queue' : u \in queue \/ (u = m /\ m.count > 0)
       /\ (queue' # {} => waiting')
  BY <1>6, <1>7
<1>11. /\ \A u \in queue : EventOf(u) \in applied' \/ u \in queue'
       /\ m.count > 0 => EventOf(m) \in applied' \/ m \in queue'
       /\ L = K => queue' = {}
  BY <1>2, <1>6, <1>7 DEF own
<1>12. PICK R \in SUBSET events : Received(R)
  BY <1>1 DEF Counted
<1> DEFINE R1 == R \cup own
<1>13. /\ R1 \in SUBSET events
       /\ \A e \in R1 : good < e.pts /\ e.pts <= L
       /\ \A e \in R1 : e \in applied' \/ \E u \in queue' : EventOf(u) = e
       /\ K = good + Cardinality(Positions(R1))
       /\ Cardinality(Positions(R1)) \in Nat
  <2>1. \A e \in R : /\ e \in events /\ good < e.pts /\ e.pts <= last
                     /\ e \in applied \/ \E u \in queue : EventOf(u) = e
    BY <1>12 DEF Received
  <2>2. R1 \in SUBSET events
    BY <1>3
  <2>3. \A e \in R1 : good < e.pts /\ e.pts <= L
    BY <1>2, <1>3, <1>4, <2>1 DEF own
  <2>4. \A e \in R1 : e \in applied' \/ \E u \in queue' : EventOf(u) = e
    BY <1>2, <1>9, <1>11, <2>1 DEF own
  <2>5. Cardinality(Positions(R)) \in Nat /\ count = good + Cardinality(Positions(R))
    BY <1>12, PositionsFinite DEF Received
  <2>6. Cardinality(Positions(R1)) = Cardinality(Positions(R)) + m.count
    <3>1. CASE m.count = 0
      <4>1. R1 = R
        BY <3>1 DEF own
      <4>2. Cardinality(Positions(R1)) = Cardinality(Positions(R))
        BY <4>1, Zenon
      <4> QED
        BY <2>5, <3>1, <4>2
    <3>2. CASE m.count # 0
      <4>1. EventOf(m) \in events /\ EventOf(m) \notin R /\ own = {EventOf(m)}
        BY <1>2, <1>3, <1>12, <3>2 DEF Received, own
      <4>2. Cardinality(Positions(R \cup {EventOf(m)})) = Cardinality(Positions(R)) + EventOf(m).count
        BY <1>1, <1>2, <4>1, CountOneMore
      <4> QED
        BY <1>2, <4>1, <4>2
    <3> QED
      BY <3>1, <3>2
  <2> HIDE DEF R1
  <2>7. K = good + Cardinality(Positions(R1)) /\ Cardinality(Positions(R1)) \in Nat
    BY <1>2, <1>4, <2>5, <2>6
  <2> QED
    BY <2>2, <2>3, <2>4, <2>7
<1> HIDE DEF R1
<1>14. /\ Cardinality(Positions(R1)) <= L - good
       /\ Cardinality(Positions(R1)) = L - good =>
            /\ \A e \in events : good < e.pts /\ e.pts <= L => e \in R1
            /\ Boundary(L)
  <2>1. good <= L /\ L <= MaxPts
    BY <1>2, <1>3, <1>4
  <2> QED
    BY <1>1, <1>2, <1>3, <1>4, <1>13, <2>1, CountBetween
<1>15. K <= L /\ (L = K => /\ \A e \in events : good < e.pts /\ e.pts <= L => e \in R1
                           /\ Boundary(L))
  BY <1>2, <1>4, <1>13, <1>14
<1>16. good' \in Nat /\ good <= good' /\ good' <= last'
  BY <1>2, <1>3, <1>4, <1>6
<1>17. TypeOK'
  <2>1. good' \in 0 .. MaxPts /\ last' \in 0 .. MaxPts /\ count' \in 0 .. MaxPts /\ good' > 0
    BY <1>2, <1>4, <1>6, <1>15, <1>16
  <2>2. queue' \subseteq Message /\ net' \subseteq Message /\ bySeq' \subseteq Message
    BY <1>1, <1>2, <1>10 DEF TypeOK
  <2> QED
    BY <1>1, <1>8, <1>9, <2>1, <2>2 DEF TypeOK
<1>18. LogIsDisjoint'
  BY <1>1 DEF LogIsDisjoint
<1>19. MessagesAreEvents'
  BY <1>1, <1>10 DEF MessagesAreEvents, EventOf
<1>20. OneRequest'
  BY <1>1 DEF OneRequest
<1>21. GoodIsComplete'
  <2>1. last' <= serverPts' /\ count' <= serverPts'
    BY <1>2, <1>4, <1>6, <1>15
  <2>2. Boundary(good)'
    BY <1>3, <1>6, <1>15 DEF Boundary
  <2>3. \A e \in events' : e.pts <= good' => e \in applied'
    <3>1. \A e \in events : e.pts <= good => e \in applied'
      BY <1>1, <1>9 DEF GoodIsComplete
    <3>2. L = K => \A e \in events : good < e.pts /\ e.pts <= L => e \in applied'
      BY <1>11, <1>13, <1>15
    <3> QED
      BY <1>2, <1>4, <1>6, <3>1, <3>2
  <2> QED
    BY <1>16, <2>1, <2>2, <2>3 DEF GoodIsComplete
<1>22. Counted'
  <2>1. CASE L = K
    <3>1. Received({})'
      BY <1>4, <1>6, <2>1, PositionsOfNone DEF Received
    <3> QED
      BY <3>1 DEF Counted
  <2>2. CASE L # K
    <3>1. \A k \in net' \cup bySeq' : k.count > 0 => EventOf(k) \notin R1
      BY <1>2, <1>12 DEF Received, Gone, R1, own
    <3>2. Received(R1)'
      BY <1>6, <1>13, <2>2, <3>1 DEF Received, EventOf
    <3> QED
      BY <1>13, <3>2 DEF Counted
  <2> QED
    BY <2>1, <2>2
<1>23. UpdatesInv'
  BY <1>17, <1>18, <1>19, <1>20, <1>21, <1>22 DEF UpdatesInv
<1> QED
  BY <1>9, <1>16, <1>23, SeesForward

(* Updates while a difference is requested, and those that are late. *)
LEMMA NoCheckStep ==
  ASSUME UpdatesInv, NEW m \in net \cup bySeq,
         requesting \/ (m.pts <= good /\ m.count > 0), UpdateAndApply(m),
         net' \subseteq net, bySeq' \subseteq bySeq, updatesSeq' \in 0 .. MaxSeq,
         seqTimer' \in BOOLEAN, requesting => bySeq' = {} /\ ~seqTimer',
         UNCHANGED <<events, serverPts, serverSeq, request, answer, requesting, faults>>
  PROVE  UpdatesInv' /\ Log!See
<1> DEFINE own == IF m.count = 0 THEN {} ELSE {EventOf(m)}
<1>1. TypeOK /\ MessagesAreEvents /\ OneRequest
  BY DEF UpdatesInv
<1>2. m.count \in Nat /\ m.pts \in Nat /\ good \in Nat
  BY <1>1, Numbers, MessageNumbers
<1>3. own \subseteq events
  BY <1>1, <1>2 DEF MessagesAreEvents
<1>4. waiting \in BOOLEAN /\ applied \subseteq events /\ (requesting => queue = {})
      /\ (queue # {} => waiting)
  BY <1>1 DEF TypeOK, MessagesAreEvents
<1>5. /\ UNCHANGED <<good, last, count, queue, ptsTime, silent>>
      /\ applied' = applied \/ applied' = applied \cup own
      /\ waiting' = waiting \/ (requesting /\ waiting' \in BOOLEAN)
  <2>1. CASE requesting
    BY <1>4, <2>1 DEF UpdateAndApply
  <2>2. CASE ~requesting
    BY <1>2, <2>2 DEF UpdateAndApply, waiter
  <2> QED
    BY <2>1, <2>2
<1> HIDE DEF own
<1>6. applied \subseteq applied' /\ applied' \subseteq events /\ waiting' \in BOOLEAN
  BY <1>3, <1>4, <1>5
<1>7. queue' # {} => waiting'
  BY <1>4, <1>5
<1>8. TypeOK'
  BY <1>1, <1>5, <1>6 DEF TypeOK
<1>9. OneRequest'
  BY <1>1, <1>5, SameRequest
<1>10. \A k \in net' \cap bySeq' : k.count = 0
  BY <1>1 DEF MessagesAreEvents
<1> QED
  BY <1>5, <1>6, <1>7, <1>8, <1>9, <1>10, QuietStep

LEMMA ApplyUpdatesStep ==
  ASSUME UpdatesInv, NEW m \in net \cup bySeq, NEW kept \in SUBSET bySeq, NEW peerLoaded,
         ApplyUpdates(m, kept, peerLoaded),
         m \in net \/ m.seq = updatesSeq + 1, m \in net /\ requesting => m.seq = 0,
         net' \subseteq net, m.count > 0 => m \notin net' \cup kept,
         UNCHANGED <<events, serverPts, serverSeq, answer, faults>>
  PROVE  UpdatesInv' /\ Log!See
<1>1. TypeOK /\ MessagesAreEvents /\ OneRequest
  BY DEF UpdatesInv
<1>2. /\ m \in Message /\ m.seq \in 0 .. MaxSeq /\ m.count \in Nat /\ m.pts \in Nat /\ good \in Nat
      /\ updatesSeq \in 0 .. MaxSeq /\ MaxSeq \in Nat
      /\ bySeq \subseteq Message /\ requesting \in BOOLEAN
  BY <1>1, Numbers, MessageNumbers, BoundsAssumption DEF TypeOK
<1>3. (queue # {} => waiting) /\ \A k \in net' \cap kept : k.count = 0
  BY <1>1 DEF MessagesAreEvents
<1>4. CASE /\ m.seq # 0 /\ m.seq <= updatesSeq
           /\ bySeq' = kept
           /\ UNCHANGED <<request, waiter, requesting, updatesSeq, seqTimer, applied>>
  <2>1. UNCHANGED <<good, last, count, queue, waiting, ptsTime, silent>>
    BY <1>4 DEF waiter
  <2>2. TypeOK'
    BY <1>1, <1>4, <2>1 DEF TypeOK
  <2>3. OneRequest'
    BY <1>1, <1>4, <2>1, SameRequest
  <2> QED
    BY <1>3, <1>4, <2>1, <2>2, <2>3, QuietStep
<1>5. CASE /\ m.seq > updatesSeq + 1
           /\ bySeq' = (IF \E k \in kept : k.seq = m.seq THEN kept ELSE kept \cup {m})
           /\ seqTimer' = TRUE
           /\ UNCHANGED <<request, waiter, requesting, updatesSeq, applied>>
  <2>1. UNCHANGED <<good, last, count, queue, waiting, ptsTime, silent>>
    BY <1>5 DEF waiter
  <2>2. ~requesting
    BY <1>2, <1>5
  <2>3. bySeq' \subseteq net \cup bySeq /\ bySeq' \subseteq Message
        /\ \A k \in net' \cap bySeq' : k.count = 0
    BY <1>2, <1>3, <1>5
  <2>4. TypeOK'
    BY <1>1, <1>5, <2>1, <2>2, <2>3 DEF TypeOK
  <2>5. OneRequest'
    BY <1>1, <1>5, <2>1, SameRequest
  <2> QED
    BY <1>3, <1>5, <2>1, <2>2, <2>3, <2>4, <2>5, QuietStep
<1>6. CASE /\ m.seq \in {0, updatesSeq + 1}
           /\ UpdateAndApply(m)
           /\ SetSeq(m.seq, kept)
           /\ UNCHANGED <<request, requesting>>
  <2>1. /\ updatesSeq' \in 0 .. MaxSeq /\ bySeq' \subseteq kept /\ seqTimer' \in BOOLEAN
        /\ requesting => bySeq' = {} /\ ~seqTimer'
    BY <1>1, <1>2, <1>6, SetSeqFacts
  <2>2. CASE requesting \/ (m.pts <= good /\ m.count > 0)
    BY <1>6, <2>1, <2>2, NoCheckStep
  <2>3. CASE ~(requesting \/ (m.pts <= good /\ m.count > 0))
    <3>1. Gone(m)
      <4> SUFFICES ASSUME NEW k \in net' \cup bySeq', m.count > 0, EventOf(k) = EventOf(m)
                   PROVE  FALSE
        BY DEF Gone
      <4>1. k \in net \cup bySeq /\ k \in net' \cup kept
        BY <2>1
      <4>2. k = m
        BY <1>1, <4>1 DEF MessagesAreEvents
      <4> QED
        BY <4>1, <4>2
    <3>2. m.pts > good \/ m.count = 0
      BY <1>2, <2>3
    <3> QED
      BY <1>6, <2>1, <2>3, <3>1, <3>2, CheckStep
  <2> QED
    BY <2>2, <2>3
<1>7. CASE /\ m.seq \in {0, updatesSeq + 1}
           /\ ~requesting
           /\ request' = "difference" /\ requesting' = TRUE
           /\ ptsTime' = FALSE /\ queue' = {} /\ bySeq' = {} /\ seqTimer' = FALSE
           /\ updatesSeq' = (IF m.seq = 0 THEN updatesSeq ELSE m.seq)
           /\ UNCHANGED <<good, last, count, waiting, silent, applied>>
  <2>1. updatesSeq' \in 0 .. MaxSeq /\ serverSeq' \in 0 .. MaxSeq /\ faults' \in 0 .. Faults
    BY <1>1, <1>2, <1>7 DEF TypeOK
  <2> QED
    BY <1>7, <2>1, Asks
<1> QED
  BY <1>4, <1>5, <1>6, <1>7 DEF ApplyUpdates, KeepBySeq

LEMMA ReceiveStep ==
  ASSUME UpdatesInv, NEW m \in net, NEW peerLoaded \in BOOLEAN, Receive(m, peerLoaded)
  PROVE  UpdatesInv' /\ Log!See
<1>1. TypeOK /\ MessagesAreEvents /\ OneRequest
  BY DEF UpdatesInv
<1>2. net' = net \ {m} /\ UNCHANGED <<events, serverPts, serverSeq, answer, faults>>
  BY DEF Receive, server
<1>3. CASE m.kind = "push" /\ requesting
  <2>1. UNCHANGED <<request, good, last, count, queue, waiting, ptsTime, silent, requesting, updatesSeq,
                    bySeq, seqTimer, applied>>
    BY <1>3 DEF Receive, waiter
  <2>2. TypeOK'
    BY <1>1, <1>2, <2>1 DEF TypeOK
  <2>3. OneRequest'
    BY <1>1, <1>2, <2>1, SameRequest
  <2>4. (queue # {} => waiting) /\ \A k \in net' \cap bySeq' : k.count = 0
    BY <1>1, <1>2, <2>1 DEF MessagesAreEvents
  <2> QED
    BY <1>2, <2>1, <2>2, <2>3, <2>4, QuietStep
<1>4. CASE ~(m.kind = "push" /\ requesting)
  <2>1. ApplyUpdates(m, bySeq, peerLoaded)
    BY <1>4 DEF Receive
  <2>2. requesting => m.seq = 0
    BY <1>1, <1>4 DEF MessagesAreEvents
  <2>3. m.count \in Nat
    BY <1>1, Numbers, MessageNumbers
  <2>4. m \notin bySeq \/ m.count = 0
    BY <1>1 DEF MessagesAreEvents
  <2> QED
    BY <1>2, <2>1, <2>2, <2>3, <2>4, ApplyUpdatesStep
<1> QED
  BY <1>3, <1>4

LEMMA DrainStep ==
  ASSUME UpdatesInv, NEW m \in bySeq, NEW peerLoaded \in BOOLEAN, Drain(m, peerLoaded)
  PROVE  UpdatesInv' /\ Log!See
<1>1. TypeOK /\ MessagesAreEvents
  BY DEF UpdatesInv
<1>2. /\ m.seq = updatesSeq + 1 /\ ApplyUpdates(m, bySeq \ {m}, peerLoaded)
      /\ UNCHANGED <<events, serverPts, serverSeq, net, answer, faults>>
  BY DEF Drain, server
<1>3. m.count \in Nat /\ (m \notin net \/ m.count = 0) /\ ~requesting
  BY <1>1, Numbers, MessageNumbers DEF MessagesAreEvents, TypeOK
<1> QED
  BY <1>2, <1>3, ApplyUpdatesStep

-----------------------------------------------------------------------------
(* The theorems.                                                           *)

LEMMA NextKeeps ==
  ASSUME UpdatesInv, [Next]_vars
  PROVE  UpdatesInv' /\ [Log!Produce \/ Log!See]_(Log!vars)
<1>1. CASE \E n \in Counts, kind \in Kinds, numbered \in BOOLEAN : Send(n, kind, numbered)
  BY <1>1, SendStep
<1>2. CASE \E m \in net : Lose(m)
  BY <1>2, LoseStep
<1>3. CASE \E kind \in AnswerKinds, upTo \in 1 .. MaxPts : Answer(kind, upTo)
  BY <1>3, AnswerStep
<1>4. CASE TimerFires
  BY <1>4, TimerFiresStep
<1>5. CASE RequestFails
  BY <1>5, RequestFailsStep
<1>6. CASE RetryAfterFail
  BY <1>6, RetryAfterFailStep
<1>7. CASE NewSession
  BY <1>7, NewSessionStep
<1>8. CASE \E a \in answer : AnswerDone(a)
  BY <1>8, AnswerDoneStep
<1>9. CASE \E m \in net, peerLoaded \in BOOLEAN : Receive(m, peerLoaded)
  BY <1>9, ReceiveStep
<1>10. CASE \E m \in bySeq, peerLoaded \in BOOLEAN : Drain(m, peerLoaded)
  BY <1>10, DrainStep
<1>11. CASE UNCHANGED vars
  <2>1. UNCHANGED <<events, serverPts, serverSeq, net, request, answer, good, last, count, queue,
                    waiting, ptsTime, silent, requesting, updatesSeq, bySeq, seqTimer, applied, faults>>
    BY <1>11 DEF vars, server, waiter
  <2>2. UpdatesInv'
    BY <2>1 DEF UpdatesInv, TypeOK, LogIsDisjoint, MessagesAreEvents, OneRequest, GoodIsComplete,
                Counted, Received, Boundary, EventOf
  <2> QED
    BY <2>1, <2>2 DEF Log!vars
<1>12. CASE UpdatesTooLong
  BY <1>12, UpdatesTooLongStep
<1> QED
  BY <1>1, <1>2, <1>3, <1>4, <1>5, <1>6, <1>7, <1>8, <1>9, <1>10, <1>11, <1>12 DEF Next

LEMMA UpdatesInvariant == Spec => []UpdatesInv
BY Initially, NextKeeps, PTL DEF Spec

(* The types; and while a difference is requested nothing is queued, kept  *)
(* for its seq or timed.                                                   *)
THEOREM TypeCorrect == Spec => []TypeOK
<1>1. UpdatesInv => TypeOK
  BY DEF UpdatesInv
<1> QED
  BY <1>1, UpdatesInvariant, PTL

(* _requesting, which makes mtpUpdateReceived() drop updates, is set       *)
(* exactly while one answer or one retry is to come, or nothing ever will: *)
(* after updates.differenceTooLong or a failed updates.getState.           *)
THEOREM RequestingHasAnEnd == Spec => []RequestingEnds
<1>1. UpdatesInv => RequestingEnds
  <2> SUFFICES ASSUME UpdatesInv PROVE RequestingEnds
    OBVIOUS
  <2>1. OneRequest /\ request \in {"no", "state", "difference", "retry", "stuck"}
    BY DEF UpdatesInv, TypeOK
  <2>2. \A a : Cardinality({a}) = 1
    BY FS_Singleton
  <2>3. Cardinality({}) = 0
    BY FS_EmptySet
  <2>4. CASE requesting
    BY <2>1, <2>2, <2>4 DEF OneRequest, RequestingEnds
  <2>5. CASE ~requesting
    BY <2>1, <2>3, <2>5 DEF OneRequest, RequestingEnds
  <2> QED
    BY <2>4, <2>5
<1> QED
  BY <1>1, UpdatesInvariant, PTL

(* The client follows the log of the server: _good, from which             *)
(* getDifference() asks, never goes back and never passes an event that    *)
(* the client has not applied, whatever is lost, late, early, applied      *)
(* twice or dropped while a difference is requested.                       *)
THEOREM UpdatesFollowTheLog == Spec => FollowsTheLog
BY Initially, NextKeeps, UpdatesInvariant, PTL DEF Spec, FollowsTheLog, Log!Spec

LEMMA GapIsTimed ==
  ASSUME UpdatesInv, GapIsWaited, NEW m \in net \cup bySeq, NEW kept, NEW peerLoaded,
         ApplyUpdates(m, kept, peerLoaded)
  PROVE  GapIsWaited'
<1>1. CASE UNCHANGED <<waiter, requesting>>
  BY <1>1 DEF GapIsWaited, waiter
<1>2. CASE requesting'
  BY <1>2 DEF GapIsWaited
<1>3. CASE UpdateAndApply(m) /\ UNCHANGED requesting
  <2>1. CASE requesting
    BY <1>3, <2>1 DEF GapIsWaited
  <2>2. CASE ~requesting /\ UNCHANGED waiter
    BY <1>3, <2>2 DEF GapIsWaited, waiter
  <2>3. CASE ~requesting /\ Check(m) /\ Closed(m)
    BY <2>3 DEF GapIsWaited, Check, Closed
  <2>4. CASE ~requesting /\ Check(m) /\ ptsTime' = TRUE
    BY <2>4 DEF GapIsWaited
  <2>5. CASE ~requesting /\ Check(m) /\ ~Closed(m) /\ m.count = 0 /\ queue' = {}
    BY <2>5 DEF GapIsWaited, Check
  <2>6. ASSUME ~requesting, ~UNCHANGED waiter
        PROVE  Check(m) /\ (Closed(m) \/ ptsTime' = TRUE \/ (m.count = 0 /\ queue' = {}))
    BY <1>3, <2>6, Zenon DEF UpdateAndApply, ApplySkipped
  <2> QED
    BY <2>1, <2>2, <2>3, <2>4, <2>5, <2>6
<1> QED
  BY <1>1, <1>2, <1>3 DEF ApplyUpdates, KeepBySeq

(* A gap that PtsWaiter::check() has noticed is timed until a difference   *)
(* is requested; only an update of count 0 takes the timer away with the   *)
(* gap still open, and it leaves no update in the queue.                   *)
THEOREM GapsAreWaitedFor == Spec => []GapIsWaited
<1>1. Init => GapIsWaited
  BY DEF Init, GapIsWaited
<1>2. ASSUME UpdatesInv, GapIsWaited, [Next]_vars PROVE GapIsWaited'
  <2>1. CASE UNCHANGED <<last, count, queue, ptsTime, silent, requesting>>
    BY <1>2, <2>1 DEF GapIsWaited
  <2>2. CASE requesting' \/ last' = count'
    BY <2>2 DEF GapIsWaited
  <2>3. CASE \E m \in net, peerLoaded \in BOOLEAN : Receive(m, peerLoaded)
    BY <1>2, <2>1, <2>3, GapIsTimed DEF Receive, waiter
  <2>4. CASE \E m \in bySeq, peerLoaded \in BOOLEAN : Drain(m, peerLoaded)
    BY <1>2, <2>4, GapIsTimed DEF Drain
  <2>5. CASE GetDifference
    BY <2>2, <2>5 DEF GetDifference
  <2>6. CASE RetryAfterFail
    <3>1. requesting
      BY <1>2, <2>6 DEF UpdatesInv, OneRequest, RetryAfterFail
    <3> QED
      BY <2>2, <2>6, <3>1 DEF RetryAfterFail
  <2>7. CASE \E a \in answer : AnswerDone(a)
    BY <2>1, <2>2, <2>7 DEF AnswerDone, waiter
  <2>8. CASE \/ \E n \in Counts, kind \in Kinds, numbered \in BOOLEAN : Send(n, kind, numbered)
             \/ \E m \in net : Lose(m)
             \/ \E kind \in AnswerKinds, upTo \in 1 .. MaxPts : Answer(kind, upTo)
             \/ RequestFails
             \/ UNCHANGED vars
    BY <2>1, <2>8 DEF Send, Lose, Answer, RequestFails, vars, waiter
  <2> QED
    BY <1>2, <2>3, <2>4, <2>5, <2>6, <2>7, <2>8 DEF Next, TimerFires, UpdatesTooLong, NewSession
<1> QED
  BY <1>1, <1>2, UpdatesInvariant, PTL DEF Spec
=============================================================================
