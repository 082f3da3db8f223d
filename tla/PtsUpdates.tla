----------------------------- MODULE PtsUpdates -----------------------------
(***************************************************************************)
(* How Telegram Desktop follows the updates of its server (PtsWaiter and   *)
(* Api::Updates).  Each event of the server raises a counter, pts, by its  *)
(* count; a message may carry a second number, seq.  A client that finds a *)
(* gap keeps what came too early, starts a timer, and asks for the         *)
(* difference when the timer fires first.                                  *)
(*                                                                         *)
(* The network loses, delays and reorders messages.  It does not repeat    *)
(* them: SessionPrivate registers the id of each message it receives.      *)
(* Everything here runs on the main thread, so a handler is one step; the  *)
(* loop of setState over _bySeqUpdates is a step per turn that precedes    *)
(* everything else (Draining).  The channel waiters, the date and the qts  *)
(* of the state, and the contents of the events are left out.              *)
(***************************************************************************)
EXTENDS Integers, FiniteSets

CONSTANTS MaxPts,       \* bound: the last pts the server gives out
          MaxSeq,       \* bound: the last seq of a session
          MaxNet,       \* bound: messages on their way at once
          MaxSilent,    \* bound: messages of count 0 among them
          Counts,       \* the counts a message may carry
          Kinds,        \* the ways a message may arrive, a subset of AllKinds
          Faults        \* bound: failed requests and new sessions together

(* "push": mtpUpdateReceived; "reply": updates in the answer to a request, *)
(* given to applyUpdates; "affected": an answer that only tells the pts of *)
(* an event whose effect the caller has applied (applyAffectedMessages).   *)
AllKinds == {"push", "reply", "affected"}

ASSUME BoundsAssumption ==
  {MaxSeq, MaxNet, MaxSilent, Faults} \subseteq Nat /\ MaxPts \in Nat \ {0}
ASSUME CountsAssumption == Counts \subseteq Nat
ASSUME KindsAssumption == Kinds \subseteq AllKinds

Event == [pts : 2 .. MaxPts, count : 1 .. MaxPts]
Message == [pts : 1 .. MaxPts, count : Counts, seq : 0 .. MaxSeq, kind : Kinds]
AnswerKinds == {"state", "empty", "slice", "difference", "tooLong"}

VARIABLES
  events, serverPts, serverSeq,     \* the server
  net,                              \* messages on their way to the client
  request,                          \* "no", "state", "difference", "retry", "stuck"
  answer,                           \* the answers on their way, at most one
  good, last, count,                \* PtsWaiter::_good, _last, _count
  queue,                            \* _queue, the updates that came too early
  waiting, requesting,              \* _waitingForSkipped, _requesting
  ptsTime,                          \* _getDifferenceTimeByPts is set
  updatesSeq, bySeq, seqTimer,      \* _updatesSeq, _bySeqUpdates, _bySeqTimer
  applied,                          \* history: the events the client applied
  silent,                           \* history: check() last counted 0, in a gap
  faults                            \* history: counts up to Faults

server == <<events, serverPts, serverSeq>>
waiter == <<good, last, count, queue, waiting, ptsTime, silent>>
vars == <<server, net, request, answer, waiter, requesting, updatesSeq, bySeq,
          seqTimer, applied, faults>>

EventOf(m) == [pts |-> m.pts, count |-> m.count]

(* The constructor of Updates asks for the state and counts as requesting. *)
(* The pts of an account starts above 0, the value inited() tells apart.   *)
Init ==
  /\ events = {} /\ serverPts = 1 /\ serverSeq = 0
  /\ net = {} /\ request = "state" /\ answer = {}
  /\ good = 0 /\ last = 0 /\ count = 0 /\ queue = {}
  /\ waiting = FALSE /\ requesting = TRUE /\ ptsTime = FALSE
  /\ updatesSeq = 0 /\ bySeq = {} /\ seqTimer = FALSE
  /\ applied = {} /\ silent = FALSE /\ faults = 0

(* The loop of setState has a next turn.                                   *)
Draining == \E m \in bySeq : m.seq = updatesSeq + 1

----------------------------------------------------------------------------
(* The server, and the network.                                            *)

(* An event (or a message of count 0, which is none) is sent to the client,*)
(* with or without the next seq; only pushes carry one.                    *)
Send(n, kind, numbered) ==
  /\ ~Draining
  /\ serverPts + n <= MaxPts /\ Cardinality(net) < MaxNet
  /\ n = 0 => Cardinality({m \in net : m.count = 0}) < MaxSilent
  /\ numbered => serverSeq < MaxSeq /\ kind = "push"
  /\ serverPts' = serverPts + n
  /\ serverSeq' = IF numbered THEN serverSeq + 1 ELSE serverSeq
  /\ LET m == [pts |-> serverPts', count |-> n, kind |-> kind,
               seq |-> IF numbered THEN serverSeq' ELSE 0]
     IN  /\ net' = net \cup {m}
         /\ events' = IF n = 0 THEN events ELSE events \cup {EventOf(m)}
  /\ UNCHANGED <<request, answer, waiter, requesting, updatesSeq, bySeq,
                 seqTimer, applied, faults>>

Lose(m) ==
  /\ ~Draining
  /\ net' = net \ {m}
  /\ UNCHANGED <<server, request, answer, waiter, requesting, updatesSeq,
                 bySeq, seqTimer, applied, faults>>

(* The server answers from the pts the client asked from: with its state,  *)
(* with all it has, with a slice that ends at one of the events, or with   *)
(* updates.differenceTooLong.                                              *)
Answer(kind, upTo) ==
  /\ ~Draining
  /\ \/ request = "state" /\ kind = "state" /\ upTo = serverPts
     \/ request = "difference" /\ serverPts > good
        /\ kind = "difference" /\ upTo = serverPts
     \/ request = "difference" /\ serverPts = good
        /\ kind = "empty" /\ upTo = good
     \/ request = "difference" /\ kind = "tooLong" /\ upTo = serverPts
     \/ request = "difference" /\ kind = "slice"
        /\ \E e \in events : good < e.pts /\ e.pts < serverPts /\ upTo = e.pts
  /\ request' = "no"
  /\ answer' = {[kind |-> kind, pts |-> upTo, seq |-> serverSeq]}
  /\ UNCHANGED <<server, net, waiter, requesting, updatesSeq, bySeq, seqTimer,
                 applied, faults>>

----------------------------------------------------------------------------
(* Asking for the difference.                                              *)

(* Mutant: setRequesting(true) leaves the skipped updates in the queue.    *)
GetDifference_KeepsQueue ==
  /\ ptsTime' = FALSE
  /\ UNCHANGED queue
  /\ IF requesting
     THEN UNCHANGED <<request, requesting, bySeq, seqTimer>>
     ELSE /\ request' = "difference" /\ requesting' = TRUE
          /\ bySeq' = {} /\ seqTimer' = FALSE

(* Updates::getDifference(); it clears _queue but not _waitingForSkipped.  *)
GetDifference ==
  /\ ptsTime' = FALSE
  /\ IF requesting
     THEN UNCHANGED <<request, requesting, queue, bySeq, seqTimer>>
     ELSE /\ request' = "difference" /\ requesting' = TRUE
          /\ queue' = {} /\ bySeq' = {} /\ seqTimer' = FALSE

(* The timers whose handler is getDifference() or getDifferenceByPts().    *)
TimerFires ==
  /\ ~Draining
  /\ ptsTime \/ seqTimer
  /\ GetDifference
  /\ UNCHANGED <<server, net, answer, good, last, count, silent, waiting, updatesSeq,
                 applied, faults>>

(* updatesTooLong, a message without pts and seq, calls getDifference().   *)
UpdatesTooLong ==
  /\ ~Draining
  /\ GetDifference
  /\ UNCHANGED <<server, net, answer, good, last, count, silent, waiting,
                 updatesSeq, applied, faults>>

(* differenceFail() starts the timer of getDifferenceAfterFail(): the      *)
(* request waits in "retry", and requesting stays set.  Nothing handles a  *)
(* failure of updates.getState.                                            *)
RequestFails ==
  /\ ~Draining
  /\ request \in {"state", "difference"} /\ faults < Faults
  /\ request' = IF request = "difference" THEN "retry" ELSE "stuck"
  /\ faults' = faults + 1
  /\ UNCHANGED <<server, net, answer, waiter, requesting, updatesSeq, bySeq,
                 seqTimer, applied>>

(* Mutant: without setRequesting(false), getDifference() returns early.    *)
RetryAfterFail_StillRequesting ==
  /\ ~Draining
  /\ request = "retry"
  /\ request' = "no"
  /\ UNCHANGED <<server, net, answer, waiter, requesting, updatesSeq, bySeq,
                 seqTimer, applied, faults>>

(* getDifferenceAfterFail(): setRequesting(false), then getDifference().   *)
RetryAfterFail ==
  /\ ~Draining
  /\ request = "retry"
  /\ request' = "difference"
  /\ ptsTime' = FALSE /\ queue' = {} /\ bySeq' = {} /\ seqTimer' = FALSE
  /\ UNCHANGED <<server, net, answer, good, last, count, silent, waiting, requesting,
                 updatesSeq, applied, faults>>

(* mtpNewSessionCreated(): the server starts to count seq anew.            *)
NewSession ==
  /\ ~Draining
  /\ faults < Faults
  /\ faults' = faults + 1
  /\ serverSeq' = 0 /\ updatesSeq' = 0
  /\ GetDifference
  /\ UNCHANGED <<events, serverPts, net, answer, good, last, count, silent, waiting,
                 applied>>

(* setState() as to seq.  What has been kept for a smaller seq is dropped, *)
(* and the timer runs when the loop ends with something left.              *)
SetSeq(seq, kept) ==
  IF seq = 0 \/ seq = updatesSeq
  THEN bySeq' = kept /\ UNCHANGED <<updatesSeq, seqTimer>>
  ELSE /\ updatesSeq' = seq
       /\ bySeq' = {m \in kept : m.seq > seq}
       /\ seqTimer' = (bySeq' # {} /\ ~ \E m \in bySeq' : m.seq = seq + 1)

(* Mutant: setState() sets _good alone instead of calling init().          *)
AnswerDone_GoodOnly(a) ==
  /\ ~Draining
  /\ answer' = {}
  /\ applied' = applied \cup {e \in events : good < e.pts /\ e.pts <= a.pts}
  /\ good' = a.pts /\ SetSeq(a.seq, bySeq)
  /\ IF a.kind = "slice"
     THEN request' = "difference" /\ ptsTime' = FALSE /\ UNCHANGED requesting
     ELSE requesting' = FALSE /\ UNCHANGED <<request, ptsTime>>
  /\ UNCHANGED <<server, net, last, count, silent, queue, waiting, faults>>

(* differenceDone() and stateDone(): feedDifference() and setState().  The *)
(* state comes with the dialogs that stateDone() goes on to request.  An   *)
(* updates.differenceTooLong is only logged: requesting stays set.         *)
AnswerDone(a) ==
  /\ ~Draining
  /\ answer' = {}
  /\ IF a.kind = "tooLong"
     THEN /\ request' = "stuck"
          /\ UNCHANGED <<waiter, requesting, updatesSeq, bySeq, seqTimer, applied>>
     ELSE /\ applied' = applied \cup {e \in events : good < e.pts /\ e.pts <= a.pts}
          /\ good' = a.pts /\ last' = a.pts /\ count' = a.pts /\ queue' = {}
          /\ SetSeq(a.seq, bySeq)
          /\ IF a.kind = "slice"
             THEN request' = "difference" /\ ptsTime' = FALSE /\ UNCHANGED requesting
             ELSE requesting' = FALSE /\ UNCHANGED <<request, ptsTime>>
          /\ silent' = FALSE /\ UNCHANGED waiting
  /\ UNCHANGED <<server, net, faults>>

----------------------------------------------------------------------------
(* Applying a message.                                                     *)

(* PtsWaiter::check().  When no gap is left, _good catches up with _last.  *)
(* (It is inited() whenever no state or difference is requested.)          *)
NewLast(m) == IF m.pts > last THEN m.pts ELSE last
NewCount(m) == count + m.count
Closed(m) == NewLast(m) = NewCount(m)

(* Mutant: an update that leaves a gap moves _good as well.                *)
Check_Ahead(m) ==
  /\ last' = NewLast(m) /\ count' = NewCount(m) /\ silent' = (m.count = 0 /\ ~Closed(m))
  /\ good' = NewLast(m)

Check(m) ==
  /\ last' = NewLast(m)
  /\ count' = NewCount(m)
  /\ silent' = (m.count = 0 /\ ~Closed(m))
  /\ good' = IF Closed(m) THEN NewLast(m) ELSE good

(* applySkippedUpdates(): the queue is applied and the timer stopped.      *)
ApplySkipped(own) ==
  /\ applied' = applied \cup own \cup {EventOf(u) : u \in queue}
  /\ queue' = {} /\ waiting' = FALSE /\ ptsTime' = FALSE

(* PtsWaiter::updateAndApply() in its three forms.                         *)
UpdateAndApply(m) ==
  LET own == IF m.count = 0 THEN {} ELSE {EventOf(m)}
      affected == m.kind = "affected"
      gap == ~Closed(m)
  IN  \/ /\ requesting
         /\ applied' = applied \cup own
         /\ waiting' = (waiting /\ ~affected)
         /\ UNCHANGED <<good, last, count, silent, queue, ptsTime>>
      \/ /\ ~requesting /\ m.pts <= good /\ m.count > 0
         /\ applied' = IF affected THEN applied \cup own ELSE applied
         /\ UNCHANGED waiter
      \/ /\ ~requesting /\ (m.pts > good \/ m.count = 0)
         /\ Check(m)
         /\ \/ /\ gap /\ m.count > 0
               /\ waiting' = TRUE /\ ptsTime' = TRUE
               /\ queue' = IF affected THEN queue ELSE queue \cup {m}
               /\ applied' = IF affected THEN applied \cup own ELSE applied
            \/ /\ ~gap \/ m.count = 0
               /\ (waiting \/ gap) /\ (affected \/ queue # {})
               /\ ApplySkipped(own)
            \/ /\ ~gap \/ m.count = 0
               /\ ~((waiting \/ gap) /\ (affected \/ queue # {}))
               /\ applied' = applied \cup own
               /\ waiting' = (waiting \/ gap) /\ ptsTime' = (ptsTime \/ gap)
               /\ UNCHANGED queue

(* Mutant: the timer is not started for what is kept.                      *)
KeepBySeq_NoTimer(m, kept) ==
  /\ bySeq' = kept \cup {m}
  /\ UNCHANGED <<request, waiter, requesting, updatesSeq, seqTimer, applied>>

(* A message whose seq is too high waits for those before it.              *)
KeepBySeq(m, kept) ==
  /\ bySeq' = IF \E k \in kept : k.seq = m.seq THEN kept ELSE kept \cup {m}
  /\ seqTimer' = TRUE
  /\ UNCHANGED <<request, waiter, requesting, updatesSeq, applied>>

(* applyUpdates(), when feedUpdate() knows the peer of the update or not.  *)
ApplyUpdates(m, kept, peerLoaded) ==
  \/ /\ m.seq # 0 /\ m.seq <= updatesSeq
     /\ bySeq' = kept
     /\ UNCHANGED <<request, waiter, requesting, updatesSeq, seqTimer, applied>>
  \/ m.seq > updatesSeq + 1 /\ KeepBySeq(m, kept)
  \/ /\ m.seq \in {0, updatesSeq + 1}
     /\ peerLoaded \/ requesting
     /\ UpdateAndApply(m)
     /\ SetSeq(m.seq, kept)
     /\ UNCHANGED <<request, requesting>>
  \/ /\ m.seq \in {0, updatesSeq + 1}
     /\ ~peerLoaded /\ ~requesting /\ m.kind # "affected" /\ m.count > 0
     /\ request' = "difference" /\ requesting' = TRUE
     /\ ptsTime' = FALSE /\ queue' = {} /\ bySeq' = {} /\ seqTimer' = FALSE
     /\ updatesSeq' = IF m.seq = 0 THEN updatesSeq ELSE m.seq
     /\ UNCHANGED <<good, last, count, silent, waiting, applied>>

(* mtpUpdateReceived() drops what comes while a difference is requested;   *)
(* the answers to other requests are applied all the same.  (The notice    *)
(* that ends the session is applied too; what follows is the log-out.)     *)
Receive(m, peerLoaded) ==
  /\ ~Draining
  /\ net' = net \ {m}
  /\ IF m.kind = "push" /\ requesting
     THEN UNCHANGED <<request, waiter, requesting, updatesSeq, bySeq, seqTimer,
                      applied>>
     ELSE ApplyUpdates(m, bySeq, peerLoaded)
  /\ UNCHANGED <<server, answer, faults>>

(* A turn of the loop of setState().                                       *)
Drain(m, peerLoaded) ==
  /\ m.seq = updatesSeq + 1
  /\ ApplyUpdates(m, bySeq \ {m}, peerLoaded)
  /\ UNCHANGED <<server, net, answer, faults>>

Next ==
  \/ \E n \in Counts, kind \in Kinds, numbered \in BOOLEAN : Send(n, kind, numbered)
  \/ \E m \in net : Lose(m)
  \/ \E kind \in AnswerKinds, upTo \in 1 .. MaxPts : Answer(kind, upTo)
  \/ TimerFires
  \/ UpdatesTooLong
  \/ RequestFails
  \/ RetryAfterFail
  \/ NewSession
  \/ \E a \in answer : AnswerDone(a)
  \/ \E m \in net, peerLoaded \in BOOLEAN : Receive(m, peerLoaded)
  \/ \E m \in bySeq, peerLoaded \in BOOLEAN : Drain(m, peerLoaded)

(* Timers fire, the server answers, and a loop runs to its end.            *)
Fairness ==
  /\ WF_vars(TimerFires)
  /\ WF_vars(RetryAfterFail)
  /\ WF_vars(\E kind \in AnswerKinds, upTo \in 1 .. MaxPts : Answer(kind, upTo))
  /\ WF_vars(\E a \in answer : AnswerDone(a))
  /\ WF_vars(\E m \in bySeq, peerLoaded \in BOOLEAN : Drain(m, peerLoaded))

Spec == Init /\ [][Next]_vars /\ Fairness

----------------------------------------------------------------------------
(* Properties.                                                             *)

(* The types, and what is idle while a difference is requested: nothing is *)
(* queued, kept for its seq or timed by Updates and its PtsWaiter.         *)
TypeOK ==
  /\ events \subseteq Event /\ applied \subseteq events
  /\ serverPts \in 1 .. MaxPts /\ serverSeq \in 0 .. MaxSeq
  /\ net \subseteq Message /\ queue \subseteq Message /\ bySeq \subseteq Message
  /\ request \in {"no", "state", "difference", "retry", "stuck"}
  /\ answer \subseteq [kind : AnswerKinds, pts : 1 .. MaxPts, seq : 0 .. MaxSeq]
  /\ {good, last, count} \subseteq 0 .. MaxPts
  /\ {waiting, requesting, ptsTime, silent, seqTimer} \subseteq BOOLEAN
  /\ updatesSeq \in 0 .. MaxSeq /\ faults \in 0 .. Faults
  /\ requesting => queue = {} /\ bySeq = {} /\ ~ptsTime /\ ~seqTimer
  /\ ~requesting => good > 0

(* _requesting, which makes mtpUpdateReceived() drop updates, is set while *)
(* one answer is to come or one retry is timed, so that no two differences *)
(* mix; and for good where nothing is to come, after differenceTooLong or  *)
(* a failed updates.getState.                                              *)
RequestingEnds ==
  requesting <=> \/ request \in {"state", "difference", "retry"} /\ answer = {}
                 \/ request = "no" /\ Cardinality(answer) = 1
                 \/ request = "stuck" /\ answer = {}

(* A gap that check() has noticed is timed until a difference is requested *)
(* ("1s wait for skipped seq or pts in updates", data_pts_waiter.h), with  *)
(* one exception: an update of count 0 counted last may have stopped the   *)
(* timer, and then nothing that was received is kept back.                 *)
GapIsWaited == ~requesting /\ last # count => ptsTime \/ (silent /\ queue = {})

\* A gap that an update of count 0 has taken the timer from.
GapForgotten == ~requesting /\ last # count /\ silent /\ ~ptsTime

(* Whatever the client has heard of, by its pts or as a message that waits *)
(* for a smaller seq, it has in the end made up for, unless one of the two *)
(* dead ends is met: a request that gets stuck, or a forgotten gap.        *)
KnownIsCovered ==
  \A n \in 2 .. MaxPts :
    (last >= n \/ \E m \in bySeq : m.pts >= n)
        ~> (good >= n \/ request = "stuck" \/ GapForgotten)

(* getDifference() asks from _good: all before it has been applied, and it *)
(* never goes back, although updates are lost, late, early, applied twice, *)
(* or dropped while a difference is requested.                             *)
PtsOf(e) == e.pts
Log == INSTANCE Replica
         WITH NumberOf <- PtsOf, produced <- events, seen <- applied,
              position <- good
FollowsTheLog == Log!Spec
=============================================================================
