--------------------------- MODULE HistoriesProofs ---------------------------
(***************************************************************************)
(* Proofs about Histories, for any number of chats and of requests:        *)
(* TypeCorrect, PartsWait, ReadingsOnlyGrow and EntriesAreAwaited.         *)
(*                                                                         *)
(* The invariant says of the State of each chat, besides what the          *)
(* properties say, that only parts of its history are postponed, that a    *)
(* reading in flight is not beyond sentTill, or, when sentTill has been    *)
(* forgotten, is behind what is known to be read, and that it is behind    *)
(* what is to be read; and of the numbers of requests, that there are no   *)
(* more of them in use than requests were made, so that a free one is left.*)
(***************************************************************************)
EXTENDS Histories, FiniteSetTheorems, TLAPS

Numbers(s) == {r.n : r \in s.sent \cup s.postponed}

OnlyParts(s) == \A r \in s.postponed : r.type = "History"

Waits(s) ==
  IF Deleting(s.sent) THEN \A r \in s.sent : r.type # "History"
  ELSE s.postponed = {}

Readings(s, before) ==
  \A r \in s.sent : r.type = "ReadInbox" =>
    /\ IF s.sentTill = 0 THEN r.till < before ELSE r.till <= s.sentTill
    /\ s.will # 0 => r.till < s.will

Beyond(s) == s.will # 0 => s.will > s.sentTill

(* The State s of a chat that is known to be read before an id, when m     *)
(* requests have been made.                                                *)
Sound(s, before, m) ==
  /\ s \in State
  /\ OnlyParts(s) /\ Waits(s)
  /\ Readings(s, before) /\ Beyond(s)
  /\ Cardinality(Numbers(s)) <= m

(* A chat marked to be asked for again is in _dialogRequests.              *)
Marked(s, asked) == s.entry => asked /\ ~OnlyHistory(s.sent)

ToRead(S) == {h \in Chats : S[h].will # 0}

AllSound == \A h \in Chats : Sound(states[h], readBefore[h], made)
RoomForReadings == made + Cardinality(ToRead(states)) <= MaxRequests

HistoriesInv ==
  /\ TypeOK /\ IsFiniteSet(batches)
  /\ AllSound /\ RoomForReadings
  /\ EntryIsAwaited
  /\ \A g, h \in settling : g = h

----------------------------------------------------------------------------
(* Numbers of requests.                                                    *)

LEMMA RequestFields ==
  ASSUME NEW r \in Request
  PROVE  /\ r.n \in 1 .. MaxRequests /\ r.type \in Types /\ r.till \in 0 .. MaxId
         /\ r.n \in Nat /\ r.till \in Nat
BY HistoriesAssumption DEF Request

LEMMA StateFields ==
  ASSUME NEW s \in State
  PROVE  /\ s.sent \subseteq Request /\ s.postponed \subseteq Request
         /\ s.will \in 0 .. MaxId /\ s.sentTill \in 0 .. MaxId
         /\ s.later \in BOOLEAN /\ s.sentDone \in BOOLEAN /\ s.entry \in BOOLEAN
         /\ s.will \in Nat /\ s.sentTill \in Nat
BY HistoriesAssumption DEF State

LEMMA NumbersAreFinite ==
  ASSUME NEW s \in State
  PROVE  /\ Numbers(s) \subseteq 1 .. MaxRequests
         /\ IsFiniteSet(Numbers(s)) /\ Cardinality(Numbers(s)) \in Nat
<1>1. Numbers(s) \subseteq 1 .. MaxRequests
  BY StateFields, RequestFields DEF Numbers
<1>2. IsFiniteSet(1 .. MaxRequests)
  BY FS_Interval, HistoriesAssumption
<1> QED
  BY <1>1, <1>2, FS_Subset, FS_CardinalityType

(* While fewer numbers than MaxRequests are in use, Free finds another.    *)
LEMMA FreeIsANumber ==
  ASSUME NEW s \in State, Cardinality(Numbers(s)) < MaxRequests
  PROVE  Free(s) \in 1 .. MaxRequests
<1>1. Numbers(s) # 1 .. MaxRequests
  BY FS_Interval, HistoriesAssumption
<1>2. PICK n \in 1 .. MaxRequests : n \notin Numbers(s)
  BY <1>1, NumbersAreFinite
<1>3. \A r \in s.sent \cup s.postponed : r.n # n
  BY <1>2 DEF Numbers
<1> QED
  BY <1>3 DEF Free

LEMMA FewerNumbers ==
  ASSUME NEW s \in State, NEW t \in State, Numbers(t) \subseteq Numbers(s)
  PROVE  Cardinality(Numbers(t)) <= Cardinality(Numbers(s))
BY NumbersAreFinite, FS_Subset

LEMMA OneNumberMore ==
  ASSUME NEW s \in State, NEW t \in State, NEW n, Numbers(t) \subseteq Numbers(s) \cup {n}
  PROVE  Cardinality(Numbers(t)) <= Cardinality(Numbers(s)) + 1
<1>1. /\ IsFiniteSet(Numbers(s) \cup {n})
      /\ Cardinality(Numbers(s) \cup {n}) \in Nat
      /\ Cardinality(Numbers(s) \cup {n}) <= Cardinality(Numbers(s)) + 1
  <2>1. IsFiniteSet(Numbers(s)) /\ Cardinality(Numbers(s)) \in Nat
    BY NumbersAreFinite
  <2>2. /\ IsFiniteSet(Numbers(s) \cup {n})
        /\ \/ Cardinality(Numbers(s) \cup {n}) = Cardinality(Numbers(s))
           \/ Cardinality(Numbers(s) \cup {n}) = Cardinality(Numbers(s)) + 1
    BY <2>1, FS_AddElement, Zenon
  <2> QED
    BY <2>1, <2>2
<1>2. Cardinality(Numbers(t)) <= Cardinality(Numbers(s) \cup {n})
  BY <1>1, FS_Subset
<1> QED
  BY <1>1, <1>2, NumbersAreFinite

----------------------------------------------------------------------------
(* What sendRequest() and finishSentRequest() make of a State.             *)

LEMMA SentFacts ==
  ASSUME NEW s \in State, NEW r \in Request, NEW asked \in BOOLEAN,
         NEW new, new = Sent(s, r, asked)
  PROVE  /\ new \in State
         /\ new.will = s.will /\ new.later = s.later
         /\ new.sentTill = s.sentTill /\ new.sentDone = s.sentDone
         /\ new.sent \subseteq s.sent \cup {r}
         /\ \A q \in s.sent : q.type # "History" => q \in new.sent
         /\ new.sent \cup new.postponed \subseteq s.sent \cup s.postponed \cup {r}
         /\ OnlyParts(s) => OnlyParts(new)
         /\ Waits(s) => Waits(new)
         /\ s.entry => new.entry
         /\ Marked(s, asked) => Marked(new, asked)
<1> DEFINE all == s.sent \cup {r}
           parts == {q \in all : q.type = "History"}
<1>1. CASE r.type = "History" /\ Deleting(s.sent)
  <2>1. new = [s EXCEPT !.postponed = @ \cup {r}]
    BY <1>1 DEF Sent
  <2>2. /\ new \in State
        /\ new.sent = s.sent /\ new.postponed = s.postponed \cup {r}
        /\ new.will = s.will /\ new.later = s.later
        /\ new.sentTill = s.sentTill /\ new.sentDone = s.sentDone
        /\ new.entry = s.entry
    BY <2>1 DEF State
  <2> QED
    BY <1>1, <2>2 DEF OnlyParts, Waits, Marked
<1>2. CASE ~(r.type = "History" /\ Deleting(s.sent))
  <2>1. new = [s EXCEPT !.sent = IF Deleting(all) THEN all \ parts ELSE all,
                        !.postponed = IF Deleting(all) THEN @ \cup parts ELSE @,
                        !.entry = @ \/ (asked /\ ~OnlyHistory(all))]
    BY <1>2 DEF Sent
  <2>2. /\ new.sent = (IF Deleting(all) THEN all \ parts ELSE all)
        /\ new.postponed = (IF Deleting(all) THEN s.postponed \cup parts ELSE s.postponed)
        /\ new.will = s.will /\ new.later = s.later
        /\ new.sentTill = s.sentTill /\ new.sentDone = s.sentDone
        /\ new.entry = (s.entry \/ (asked /\ ~OnlyHistory(all)))
    BY <2>1 DEF State
  <2>3. new \in State
    <3>1. all \subseteq Request /\ parts \subseteq Request
      BY StateFields
    <3> HIDE DEF all, parts
    <3> QED
      BY <2>1, <3>1 DEF State
  <2>4. \A q \in all : q.type # "History" => q \in new.sent
    BY <2>2
  <2>5. OnlyParts(s) => OnlyParts(new)
    BY <2>2 DEF OnlyParts
  <2>6. Deleting(all) => Deleting(new.sent) /\ \A q \in new.sent : q.type # "History"
    BY <2>2 DEF Deleting
  <2>7. ~Deleting(all) => ~Deleting(s.sent) /\ ~Deleting(new.sent) /\ new.postponed = s.postponed
    BY <2>2 DEF Deleting
  <2>8. Waits(s) => Waits(new)
    BY <2>6, <2>7 DEF Waits
  <2>9. ~OnlyHistory(all) => ~OnlyHistory(new.sent)
    BY <2>4 DEF OnlyHistory
  <2>10. ~OnlyHistory(s.sent) => ~OnlyHistory(all)
    BY DEF OnlyHistory
  <2>11. Marked(s, asked) => Marked(new, asked)
    BY <2>2, <2>9, <2>10 DEF Marked
  <2> QED
    BY <2>2, <2>3, <2>4, <2>5, <2>8, <2>11
<1> QED
  BY <1>1, <1>2

LEMMA LeftFacts ==
  ASSUME NEW s \in State, NEW r, OnlyParts(s), Waits(s),
         NEW new, new = Left(s, r)
  PROVE  /\ new \in State
         /\ new.will = s.will /\ new.later = s.later /\ new.entry = s.entry
         /\ new.sentTill = s.sentTill /\ new.sentDone = s.sentDone
         /\ new.sent \cup new.postponed \subseteq s.sent \cup s.postponed
         /\ \A q \in new.sent : q \in s.sent \/ q.type = "History"
         /\ OnlyParts(new) /\ Waits(new)
<1> DEFINE rest == s.sent \ {r}
<1>1. CASE Deleting(rest)
  <2>1. new = [s EXCEPT !.sent = rest]
    BY <1>1 DEF Left
  <2>2. /\ new.sent = rest /\ new.postponed = s.postponed
        /\ new.will = s.will /\ new.later = s.later /\ new.entry = s.entry
        /\ new.sentTill = s.sentTill /\ new.sentDone = s.sentDone
    BY <2>1 DEF State
  <2>3. new \in State
    BY <2>1 DEF State
  <2>4. Deleting(s.sent)
    BY <1>1 DEF Deleting
  <2> QED
    BY <1>1, <2>2, <2>3, <2>4 DEF OnlyParts, Waits
<1>2. CASE ~Deleting(rest)
  <2>1. new = [s EXCEPT !.sent = rest \cup s.postponed, !.postponed = {}]
    BY <1>2 DEF Left
  <2>2. /\ new.sent = rest \cup s.postponed /\ new.postponed = {}
        /\ new.will = s.will /\ new.later = s.later /\ new.entry = s.entry
        /\ new.sentTill = s.sentTill /\ new.sentDone = s.sentDone
    BY <2>1 DEF State
  <2>3. new \in State
    BY <2>1 DEF State
  <2>4. ~Deleting(new.sent)
    BY <1>2, <2>2 DEF Deleting, OnlyParts
  <2> QED
    BY <2>2, <2>3, <2>4 DEF OnlyParts, Waits
<1> QED
  BY <1>1, <1>2

LEMMA SoundLeft ==
  ASSUME NEW s, NEW before \in Nat, NEW m \in Nat, Sound(s, before, m), NEW r
  PROVE  Sound(Left(s, r), before, m)
<1> DEFINE new == Left(s, r)
<1>1. s \in State /\ OnlyParts(s) /\ Waits(s)
  BY DEF Sound
<1>2. /\ new \in State
      /\ new.will = s.will /\ new.sentTill = s.sentTill
      /\ new.sent \cup new.postponed \subseteq s.sent \cup s.postponed
      /\ \A q \in new.sent : q \in s.sent \/ q.type = "History"
      /\ OnlyParts(new) /\ Waits(new)
  BY <1>1, LeftFacts
<1> HIDE DEF new
<1>3. Readings(new, before) /\ Beyond(new)
  BY <1>2 DEF Sound, Readings, Beyond
<1>4. Numbers(new) \subseteq Numbers(s)
  BY <1>2 DEF Numbers
<1>5. Cardinality(Numbers(new)) <= m
  BY <1>1, <1>2, <1>4, FewerNumbers, NumbersAreFinite DEF Sound
<1>6. Sound(new, before, m)
  BY <1>2, <1>3, <1>5 DEF Sound
<1> QED
  BY <1>6 DEF new

(* A request that is not a reading.                                        *)
LEMMA SoundSent ==
  ASSUME NEW s, NEW before \in Nat, NEW m \in Nat, Sound(s, before, m),
         NEW r \in Request, r.type # "ReadInbox", NEW asked \in BOOLEAN
  PROVE  Sound(Sent(s, r, asked), before, m + 1)
<1> DEFINE new == Sent(s, r, asked)
<1>1. s \in State /\ OnlyParts(s) /\ Waits(s)
  BY DEF Sound
<1>2. /\ new \in State
      /\ new.will = s.will /\ new.sentTill = s.sentTill
      /\ new.sent \subseteq s.sent \cup {r}
      /\ new.sent \cup new.postponed \subseteq s.sent \cup s.postponed \cup {r}
      /\ OnlyParts(new) /\ Waits(new)
  BY <1>1, SentFacts
<1> HIDE DEF new
<1>3. Readings(new, before) /\ Beyond(new)
  BY <1>2 DEF Sound, Readings, Beyond
<1>4. Numbers(new) \subseteq Numbers(s) \cup {r.n}
  BY <1>2 DEF Numbers
<1>5. Cardinality(Numbers(new)) <= m + 1
  <2>1. Cardinality(Numbers(new)) <= Cardinality(Numbers(s)) + 1
    BY <1>1, <1>2, <1>4, OneNumberMore
  <2> QED
    BY <1>1, <1>2, <2>1, NumbersAreFinite DEF Sound
<1>6. Sound(new, before, m + 1)
  BY <1>2, <1>3, <1>5 DEF Sound
<1> QED
  BY <1>6 DEF new

(* sendReadRequest(): what is to be read is beyond all readings in flight. *)
LEMMA SoundRead ==
  ASSUME NEW s, NEW before \in Nat, NEW m \in Nat, Sound(s, before, m),
         m < MaxRequests, s.will # 0, NEW asked \in BOOLEAN,
         NEW new, new = SentRead(s, asked)
  PROVE  /\ Sound(new, before, m + 1)
         /\ new.will = 0
         /\ s.entry => new.entry
         /\ Marked(s, asked) => Marked(new, asked)
<1> DEFINE t == [s EXCEPT !.sentTill = s.will, !.will = 0, !.later = FALSE,
                          !.sentDone = FALSE]
           r == [n |-> Free(s), type |-> "ReadInbox", till |-> s.will]
<1>1. s \in State /\ OnlyParts(s) /\ Waits(s)
  BY DEF Sound
<1>2. /\ t \in State
      /\ t.sent = s.sent /\ t.postponed = s.postponed /\ t.entry = s.entry
      /\ t.sentTill = s.will /\ t.will = 0
  <2>1. 0 \in 0 .. MaxId /\ s.will \in 0 .. MaxId
    BY <1>1, StateFields, HistoriesAssumption
  <2>2. t \in State
    BY <1>1, <2>1 DEF State
  <2> QED
    BY <1>1, <2>2 DEF State
<1>3. r \in Request /\ r.till = s.will /\ r.type = "ReadInbox"
  <2>1. Cardinality(Numbers(s)) < MaxRequests
    BY <1>1, NumbersAreFinite, HistoriesAssumption DEF Sound
  <2>2. Free(s) \in 1 .. MaxRequests
    BY <1>1, <2>1, FreeIsANumber
  <2> QED
    BY <1>1, <2>2, StateFields DEF Request, Types
<1>4. new = Sent(t, r, asked)
  BY DEF SentRead
<1> HIDE DEF t, r
<1>5. OnlyParts(t) /\ Waits(t) /\ (Marked(s, asked) => Marked(t, asked))
  BY <1>1, <1>2 DEF OnlyParts, Waits, Marked
<1>6. /\ new \in State
      /\ new.will = 0 /\ new.sentTill = s.will
      /\ new.sent \subseteq s.sent \cup {r}
      /\ new.sent \cup new.postponed \subseteq s.sent \cup s.postponed \cup {r}
      /\ OnlyParts(new) /\ Waits(new)
      /\ s.entry => new.entry
      /\ Marked(t, asked) => Marked(new, asked)
  BY <1>2, <1>3, <1>4, <1>5, SentFacts
<1>7. Readings(new, before) /\ Beyond(new)
  <2>1. \A q \in s.sent : q.type = "ReadInbox" => q.till < s.will
    BY DEF Sound, Readings
  <2>2. s.will \in Nat /\ \A q \in s.sent : q.till \in Nat
    BY <1>1, StateFields, RequestFields
  <2> QED
    BY <1>3, <1>6, <2>1, <2>2 DEF Readings, Beyond
<1>8. Numbers(new) \subseteq Numbers(s) \cup {r.n}
  BY <1>6 DEF Numbers
<1>9. Cardinality(Numbers(new)) <= m + 1
  <2>1. Cardinality(Numbers(new)) <= Cardinality(Numbers(s)) + 1
    BY <1>1, <1>6, <1>8, OneNumberMore
  <2> QED
    BY <1>1, <1>6, <2>1, NumbersAreFinite DEF Sound
<1> QED
  BY <1>5, <1>6, <1>7, <1>9 DEF Sound

LEMMA SoundLater ==
  ASSUME NEW s, NEW b \in Nat, NEW c \in Nat, NEW m \in Nat, NEW n \in Nat,
         Sound(s, b, m), b <= c, m <= n
  PROVE  Sound(s, c, n)
<1>1. s \in State
  BY DEF Sound
<1>2. \A r \in s.sent : r.till \in Nat
  BY <1>1, StateFields, RequestFields
<1>3. Readings(s, c)
  BY <1>2 DEF Sound, Readings
<1>4. Cardinality(Numbers(s)) <= n
  BY <1>1, NumbersAreFinite DEF Sound
<1> QED
  BY <1>3, <1>4 DEF Sound

----------------------------------------------------------------------------
(* What a handler does to all States.                                      *)

LEMMA ToReadIsFinite ==
  ASSUME NEW S
  PROVE  IsFiniteSet(ToRead(S)) /\ Cardinality(ToRead(S)) \in Nat
BY FS_Subset, FS_CardinalityType, HistoriesAssumption DEF ToRead

LEMMA FewerToRead ==
  ASSUME NEW S, NEW R, ToRead(R) \subseteq ToRead(S)
  PROVE  Cardinality(ToRead(R)) <= Cardinality(ToRead(S))
BY ToReadIsFinite, FS_Subset

(* sendReadRequests(): one request for each chat of D.                     *)
LEMMA ReadStep ==
  ASSUME TypeOK, NEW S \in [Chats -> State], NEW D \in SUBSET Chats, Due(S, D),
         \A h \in Chats : Sound(S[h], readBefore[h], made),
         made + Cardinality(ToRead(S)) <= MaxRequests,
         NEW R, R = ReadStates(S, D), NEW m, m = made + Cardinality(D)
  PROVE  /\ R \in [Chats -> State]
         /\ m \in Nat /\ made <= m
         /\ \A h \in Chats : Sound(R[h], readBefore[h], m)
         /\ m + Cardinality(ToRead(R)) <= MaxRequests
         /\ \A h \in Chats : /\ S[h].entry => R[h].entry
                             /\ Marked(S[h], h \in dialogs) => Marked(R[h], h \in dialogs)
<1>1. made \in Nat /\ \A h \in Chats : readBefore[h] \in Nat
  BY HistoriesAssumption DEF TypeOK
<1>2. /\ IsFiniteSet(D) /\ Cardinality(D) \in Nat
      /\ (D # {} => Cardinality(D) >= 1)
  BY FS_Subset, FS_CardinalityType, FS_EmptySet, HistoriesAssumption
<1>3. D \subseteq ToRead(S)
  BY DEF Due, ToRead
<1>4. Cardinality(D) <= Cardinality(ToRead(S))
  BY <1>3, ToReadIsFinite, FS_Subset
<1>5. Cardinality(ToRead(S) \ D) = Cardinality(ToRead(S)) - Cardinality(D)
  <2>1. ToRead(S) \cap D = D
    BY <1>3
  <2>2. Cardinality(ToRead(S) \ D) = Cardinality(ToRead(S)) - Cardinality(ToRead(S) \cap D)
    BY ToReadIsFinite, FS_Difference
  <2> QED
    BY <2>1, <2>2
<1>6. ASSUME NEW h \in D
      PROVE  /\ Sound(R[h], readBefore[h], m) /\ R[h].will = 0
             /\ S[h].entry => R[h].entry
             /\ Marked(S[h], h \in dialogs) => Marked(R[h], h \in dialogs)
  <2>1. R[h] = SentRead(S[h], h \in dialogs)
    BY <1>6 DEF ReadStates
  <2>2. made < MaxRequests
    BY <1>1, <1>2, <1>4, <1>6, ToReadIsFinite, HistoriesAssumption
  <2>3. S[h].will # 0 /\ Sound(S[h], readBefore[h], made)
    BY <1>3 DEF ToRead
  <2>4. /\ Sound(R[h], readBefore[h], made + 1) /\ R[h].will = 0
        /\ S[h].entry => R[h].entry
        /\ Marked(S[h], h \in dialogs) => Marked(R[h], h \in dialogs)
    <3>1. h \in Chats /\ readBefore[h] \in Nat
      BY <1>1, <1>6
    <3>2. \A asked \in BOOLEAN : R[h] = SentRead(S[h], asked) =>
            /\ Sound(R[h], readBefore[h], made + 1) /\ R[h].will = 0
            /\ S[h].entry => R[h].entry
            /\ Marked(S[h], asked) => Marked(R[h], asked)
      BY <1>1, <2>2, <2>3, <3>1, SoundRead, Zenon
    <3>3. (h \in dialogs) \in BOOLEAN
      OBVIOUS
    <3> QED
      BY <2>1, <3>2, <3>3, Zenon
  <2>5. made + 1 <= m /\ made + 1 \in Nat /\ m \in Nat
    BY <1>1, <1>2, <1>6
  <2>6. readBefore[h] \in Nat
    BY <1>1
  <2> HIDE DEF Sound
  <2> QED
    BY <2>4, <2>5, <2>6, SoundLater
<1>7. ASSUME NEW h \in Chats \ D
      PROVE  Sound(R[h], readBefore[h], m) /\ R[h] = S[h]
  BY <1>1, <1>2, SoundLater DEF ReadStates
<1>8. ToRead(R) \subseteq ToRead(S) \ D
  BY <1>6, <1>7 DEF ToRead
<1>9. Cardinality(ToRead(R)) <= Cardinality(ToRead(S) \ D)
  BY <1>8, ToReadIsFinite, FS_Subset, FS_Difference
<1>10. R \in [Chats -> State]
  <2>1. \A h \in Chats : R[h] \in State
    BY <1>6, <1>7 DEF Sound
  <2> QED
    BY <2>1 DEF ReadStates
<1>11. m \in Nat /\ made <= m /\ m + Cardinality(ToRead(R)) <= MaxRequests
  BY <1>1, <1>2, <1>4, <1>5, <1>9, ToReadIsFinite, HistoriesAssumption
<1> QED
  BY <1>6, <1>7, <1>10, <1>11

(* The end of finishSentRequest().                                         *)
LEMMA AskStep ==
  ASSUME TypeOK, NEW S \in [Chats -> State], NEW h \in Chats, NEW s, NEW P, NEW C \in Nat,
         AskAgain(S, h, s, P, C),
         UNCHANGED <<readBefore, batches, callbacks, loop>>,
         made' \in Nat, \A g \in Chats : Sound(S[g], readBefore[g], made'),
         Sound(s, readBefore[h], made'),
         s.will = S[h].will, s.entry = S[h].entry,
         made' + Cardinality(ToRead(S)) <= MaxRequests,
         P \subseteq Chats, P \cap dialogs = {}, P # {} => C > 0,
         \A g \in Chats : S[g].entry => g \in dialogs,
         \A g \in Chats \ {h} : Marked(S[g], g \in dialogs),
         \A g \in dialogs :
           S[g].entry \/ g \in applying \/ \E b \in batches : g \in b.members,
         callbacks \subseteq P \cup dialogs \cup settling
  PROVE  /\ states' \in [Chats -> State] /\ AllSound' /\ RoomForReadings'
         /\ pending' \subseteq Chats /\ dialogs' \subseteq Chats /\ calls' \in Nat
         /\ EntryIsAwaited'
<1> DEFINE again == s.entry /\ OnlyHistory(s.sent)
           t == [s EXCEPT !.entry = @ /\ ~again]
<1>1. s \in State /\ dialogs \subseteq Chats
  BY DEF Sound, TypeOK
<1>2. /\ t \in State
      /\ t.sent = s.sent /\ t.postponed = s.postponed /\ t.entry = (s.entry /\ ~again)
      /\ t.sentTill = s.sentTill /\ t.will = s.will
  BY <1>1 DEF State
<1>3. Sound(t, readBefore[h], made')
  BY <1>2 DEF Sound, OnlyParts, Waits, Readings, Beyond, Numbers
<1>4. /\ states' = [S EXCEPT ![h] = t]
      /\ pending' = IF again THEN P \cup {h} ELSE P
      /\ dialogs' = IF again THEN dialogs \ {h} ELSE dialogs
      /\ calls' = IF again /\ P = {} THEN C + 1 ELSE C
  BY DEF AskAgain
<1> HIDE DEF t
<1>5. states'[h] = t /\ \A g \in Chats \ {h} : states'[g] = S[g]
  BY <1>4
<1>6. states' \in [Chats -> State]
  BY <1>2, <1>4
<1>7. AllSound'
  BY <1>3, <1>5 DEF AllSound
<1>8. RoomForReadings'
  <2>1. ToRead(states') \subseteq ToRead(S)
    BY <1>2, <1>5 DEF ToRead
  <2>2. Cardinality(ToRead(states')) <= Cardinality(ToRead(S))
    BY <2>1, FewerToRead
  <2>3. made' + Cardinality(ToRead(states')) <= MaxRequests
    BY <2>2, ToReadIsFinite, HistoriesAssumption
  <2>4. ToRead(states)' = ToRead(states')
    BY DEF ToRead
  <2> QED
    BY <2>3, <2>4 DEF RoomForReadings
<1>9. EntryIsAwaited'
  <2>1. pending' \cap dialogs' = {} /\ (pending' # {} => calls' > 0)
    BY <1>4
  <2>2. \A g \in Chats : states'[g].entry => g \in dialogs' /\ ~OnlyHistory(states'[g].sent)
    BY <1>2, <1>4, <1>5 DEF Marked
  <2>3. \A g \in dialogs' :
          states'[g].entry \/ g \in applying' \/ \E b \in batches' : g \in b.members
    <3>1. ASSUME NEW g \in dialogs'
          PROVE  states'[g].entry \/ g \in applying \/ \E b \in batches : g \in b.members
      <4>1. g \in dialogs /\ g \in Chats
        BY <1>1, <1>4
      <4>2. CASE g = h
        BY <1>2, <1>4, <1>5, <4>1, <4>2
      <4>3. CASE g # h
        BY <1>5, <4>1, <4>3
      <4> QED
        BY <4>2, <4>3
    <3> QED
      BY <3>1 DEF loop
  <2>4. callbacks' \subseteq pending' \cup dialogs' \cup settling'
    BY <1>4 DEF loop
  <2> QED
    BY <2>1, <2>2, <2>3, <2>4 DEF EntryIsAwaited, OnlyHistory
<1> QED
  BY <1>1, <1>4, <1>6, <1>7, <1>8, <1>9

----------------------------------------------------------------------------
(* The actions.                                                            *)

LEMMA Initially == Init => HistoriesInv
<1> SUFFICES ASSUME Init PROVE HistoriesInv
  OBVIOUS
<1>1. /\ NoState \in State /\ NoState.sent = {} /\ NoState.postponed = {}
      /\ NoState.will = 0 /\ NoState.entry = FALSE
  BY HistoriesAssumption DEF NoState, State
<1>2. \A h \in Chats : states[h] = NoState
  BY DEF Init
<1>3. TypeOK
  <2>1. states \in [Chats -> State] /\ readBefore \in [Chats -> 1 .. MaxId + 1]
    BY <1>1, HistoriesAssumption DEF Init
  <2>2. made \in 0 .. MaxRequests /\ entries \in 0 .. MaxEntries /\ calls \in Nat
    BY HistoriesAssumption DEF Init
  <2> QED
    BY <2>1, <2>2 DEF Init, TypeOK
<1>4. Cardinality({}) = 0 /\ IsFiniteSet({})
  BY FS_EmptySet
<1>5. Numbers(NoState) = {}
  BY <1>1 DEF Numbers
<1>6. AllSound
  BY <1>1, <1>2, <1>4, <1>5 DEF AllSound, Sound, OnlyParts, Waits, Deleting, Readings, Beyond, Init
<1>7. ToRead(states) = {}
  BY <1>1, <1>2 DEF ToRead
<1>8. RoomForReadings
  <2>1. Cardinality(ToRead(states)) = 0 /\ made = 0
    BY <1>4, <1>7 DEF Init
  <2> QED
    BY <2>1, HistoriesAssumption DEF RoomForReadings
<1>9. EntryIsAwaited
  BY <1>1, <1>2 DEF EntryIsAwaited, Init
<1> QED
  BY <1>3, <1>4, <1>6, <1>8, <1>9 DEF HistoriesInv, Init

(* The facts about the numbers that the steps need.                        *)
LEMMA Counters ==
  ASSUME TypeOK
  PROVE  /\ made \in Nat /\ calls \in Nat /\ entries \in Nat
         /\ \A h \in Chats : readBefore[h] \in Nat /\ readBefore[h] >= 1
BY HistoriesAssumption DEF TypeOK

LEMMA MarkedChats ==
  ASSUME EntryIsAwaited
  PROVE  \A h \in Chats : Marked(states[h], h \in dialogs)
BY DEF EntryIsAwaited, Marked

LEMMA FinishKeeps ==
  ASSUME HistoriesInv, NEW h \in Chats, NEW r, Finish(h, r)
  PROVE  HistoriesInv'
<1> DEFINE s == Left(states[h], r)
<1>1. TypeOK /\ AllSound /\ RoomForReadings /\ EntryIsAwaited
  BY DEF HistoriesInv
<1>2. Sound(states[h], readBefore[h], made) /\ states[h] \in State
  BY <1>1 DEF AllSound, Sound
<1>3. Sound(s, readBefore[h], made)
  BY <1>1, <1>2, SoundLeft, Counters
<1>4. s.will = states[h].will /\ s.entry = states[h].entry
  BY <1>2, LeftFacts DEF Sound
<1> HIDE DEF s
<1>5. /\ AskAgain(states, h, s, pending, calls)
      /\ UNCHANGED <<made, readTimer, callbacks, batches, loop, readBefore, entries>>
  BY DEF Finish, s
<1>6. /\ states' \in [Chats -> State] /\ AllSound' /\ RoomForReadings'
      /\ pending' \subseteq Chats /\ dialogs' \subseteq Chats /\ calls' \in Nat
      /\ EntryIsAwaited'
  <2>1. /\ states \in [Chats -> State] /\ calls \in Nat /\ made' \in Nat
        /\ pending \subseteq Chats /\ pending \cap dialogs = {}
        /\ pending # {} => calls > 0
        /\ \A g \in Chats : states[g].entry => g \in dialogs
        /\ \A g \in Chats : Marked(states[g], g \in dialogs)
        /\ \A g \in dialogs :
             states[g].entry \/ g \in applying \/ \E b \in batches : g \in b.members
        /\ callbacks \subseteq pending \cup dialogs \cup settling
    BY <1>1, <1>5, Counters, MarkedChats DEF TypeOK, EntryIsAwaited
  <2>2. /\ \A g \in Chats : Sound(states[g], readBefore[g], made')
        /\ Sound(s, readBefore[h], made')
        /\ made' + Cardinality(ToRead(states)) <= MaxRequests
    BY <1>1, <1>3, <1>5 DEF AllSound, RoomForReadings
  <2> QED
    BY <1>1, <1>4, <1>5, <2>1, <2>2, AskStep
<1> QED
  BY <1>1, <1>5, <1>6 DEF HistoriesInv, TypeOK, loop

LEMMA CancelKeeps ==
  ASSUME HistoriesInv, NEW h \in Chats, NEW r, CancelRequest(h, r)
  PROVE  HistoriesInv'
<1> DEFINE u == [states[h] EXCEPT !.postponed = @ \ {r}]
           s == Left(u, r)
<1>1. TypeOK /\ AllSound /\ RoomForReadings /\ EntryIsAwaited
  BY DEF HistoriesInv
<1>2. Sound(states[h], readBefore[h], made) /\ states[h] \in State
  BY <1>1 DEF AllSound, Sound
<1>3. Sound(u, readBefore[h], made) /\ u.will = states[h].will /\ u.entry = states[h].entry
  <2>1. /\ u \in State
        /\ u.sent = states[h].sent /\ u.postponed = states[h].postponed \ {r}
        /\ u.will = states[h].will /\ u.entry = states[h].entry
        /\ u.sentTill = states[h].sentTill
    BY <1>2 DEF State
  <2> HIDE DEF u
  <2>2. Numbers(u) \subseteq Numbers(states[h])
    BY <2>1 DEF Numbers
  <2>3. Cardinality(Numbers(u)) <= Cardinality(Numbers(states[h]))
    BY <1>2, <2>1, <2>2, FewerNumbers
  <2>4. Cardinality(Numbers(u)) <= made
    BY <1>1, <1>2, <2>1, <2>3, NumbersAreFinite, Counters DEF Sound
  <2>5. OnlyParts(u) /\ Waits(u) /\ Readings(u, readBefore[h]) /\ Beyond(u)
    BY <1>2, <2>1 DEF Sound, OnlyParts, Waits, Readings, Beyond
  <2> QED
    BY <2>1, <2>4, <2>5 DEF Sound
<1> HIDE DEF u
<1>4. Sound(s, readBefore[h], made)
  BY <1>1, <1>3, SoundLeft, Counters
<1>5. s.will = states[h].will /\ s.entry = states[h].entry
  BY <1>3, LeftFacts DEF Sound
<1> HIDE DEF s
<1>6. /\ AskAgain(states, h, s, pending, calls)
      /\ UNCHANGED <<made, readTimer, callbacks, batches, loop, readBefore, entries>>
  BY DEF CancelRequest, s, u
<1>7. /\ states' \in [Chats -> State] /\ AllSound' /\ RoomForReadings'
      /\ pending' \subseteq Chats /\ dialogs' \subseteq Chats /\ calls' \in Nat
      /\ EntryIsAwaited'
  <2>1. /\ states \in [Chats -> State] /\ calls \in Nat /\ made' \in Nat
        /\ pending \subseteq Chats /\ pending \cap dialogs = {}
        /\ pending # {} => calls > 0
        /\ \A g \in Chats : states[g].entry => g \in dialogs
        /\ \A g \in Chats : Marked(states[g], g \in dialogs)
        /\ \A g \in dialogs :
             states[g].entry \/ g \in applying \/ \E b \in batches : g \in b.members
        /\ callbacks \subseteq pending \cup dialogs \cup settling
    BY <1>1, <1>6, Counters, MarkedChats DEF TypeOK, EntryIsAwaited
  <2>2. /\ \A g \in Chats : Sound(states[g], readBefore[g], made')
        /\ Sound(s, readBefore[h], made')
        /\ made' + Cardinality(ToRead(states)) <= MaxRequests
    BY <1>1, <1>4, <1>6 DEF AllSound, RoomForReadings
  <2> QED
    BY <1>1, <1>5, <1>6, <2>1, <2>2, AskStep
<1> QED
  BY <1>1, <1>6, <1>7 DEF HistoriesInv, TypeOK, loop

(* A step that leaves the entries alone.                                   *)
LEMMA StatesStep ==
  ASSUME HistoriesInv, NEW R \in [Chats -> State], states' = R,
         made' \in Nat, readTimer' \in BOOLEAN,
         readBefore' \in [Chats -> 1 .. MaxId + 1],
         \A h \in Chats : Sound(R[h], readBefore'[h], made'),
         made' + Cardinality(ToRead(R)) <= MaxRequests,
         \A h \in Chats : /\ states[h].entry => R[h].entry
                          /\ Marked(R[h], h \in dialogs),
         callbacks' \subseteq callbacks,
         UNCHANGED <<pending, dialogs, calls, batches, loop, entries>>
  PROVE  HistoriesInv'
<1>1. AllSound'
  BY DEF AllSound
<1>2. RoomForReadings'
  <2>1. ToRead(states)' = ToRead(R)
    BY DEF ToRead
  <2> QED
    BY <2>1 DEF RoomForReadings
<1>3. EntryIsAwaited'
  <2>1. EntryIsAwaited /\ dialogs \subseteq Chats
    BY DEF HistoriesInv, TypeOK
  <2>2. \A h \in Chats : states'[h].entry => h \in dialogs' /\ ~OnlyHistory(states'[h].sent)
    BY DEF Marked
  <2>3. \A h \in dialogs' :
          states'[h].entry \/ h \in applying' \/ \E b \in batches' : h \in b.members
    BY <2>1 DEF EntryIsAwaited, loop
  <2> QED
    BY <2>1, <2>2, <2>3 DEF EntryIsAwaited, OnlyHistory, loop
<1>4. made' \in 0 .. MaxRequests
  BY ToReadIsFinite, HistoriesAssumption
<1> QED
  BY <1>1, <1>2, <1>3, <1>4 DEF HistoriesInv, TypeOK, loop

LEMMA ReadTillGrows ==
  ASSUME TypeOK, NEW H, NEW till \in 0 .. MaxId
  PROVE  /\ ReadTill(H, till) \in [Chats -> 1 .. MaxId + 1]
         /\ \A h \in Chats : readBefore[h] <= ReadTill(H, till)[h]
<1>1. till \in Nat /\ till + 1 \in 1 .. MaxId + 1
  BY HistoriesAssumption
<1>2. \A h \in Chats : readBefore[h] \in 1 .. MaxId + 1 /\ readBefore[h] \in Nat
  BY HistoriesAssumption DEF TypeOK
<1> QED
  BY <1>1, <1>2, HistoriesAssumption DEF ReadTill, Larger

LEMMA SendRequestKeeps ==
  ASSUME HistoriesInv, NEW h \in Chats, NEW type \in Types \ {"ReadInbox"}, SendRequest(h, type)
  PROVE  HistoriesInv'
<1> DEFINE r == [n |-> Free(states[h]), type |-> type, till |-> 0]
           s == Sent(states[h], r, h \in dialogs)
           R == [states EXCEPT ![h] = s]
<1>1. TypeOK /\ AllSound /\ RoomForReadings /\ EntryIsAwaited
  BY DEF HistoriesInv
<1>2. /\ made \in Nat /\ made' = made + 1 /\ made' \in Nat
      /\ made + Cardinality(ToRead(states)) < MaxRequests
      /\ states' = R
      /\ UNCHANGED <<readTimer, pending, dialogs, callbacks, calls, batches, loop,
                     readBefore, entries>>
  BY <1>1, Counters DEF SendRequest, ToRead
<1>3. Sound(states[h], readBefore[h], made) /\ states[h] \in State
  BY <1>1 DEF AllSound, Sound
<1>4. r \in Request /\ r.type # "ReadInbox"
  <2>1. made < MaxRequests
    BY <1>2, ToReadIsFinite, HistoriesAssumption
  <2>2. Cardinality(Numbers(states[h])) < MaxRequests
    BY <1>2, <1>3, <2>1, NumbersAreFinite, HistoriesAssumption DEF Sound
  <2>3. Free(states[h]) \in 1 .. MaxRequests /\ 0 \in 0 .. MaxId
    BY <1>3, <2>2, FreeIsANumber, HistoriesAssumption
  <2> QED
    BY <2>3 DEF Request
<1> HIDE DEF r
<1>5. (h \in dialogs) \in BOOLEAN /\ readBefore[h] \in Nat
  BY <1>1, Counters
<1>6. Sound(s, readBefore[h], made + 1)
  BY <1>2, <1>3, <1>4, <1>5, SoundSent, Zenon
<1>7. /\ s.will = states[h].will
      /\ states[h].entry => s.entry
      /\ Marked(states[h], h \in dialogs) => Marked(s, h \in dialogs)
  <2>1. \A asked \in BOOLEAN : s = Sent(states[h], r, asked) =>
          /\ s.will = states[h].will
          /\ states[h].entry => s.entry
          /\ Marked(states[h], asked) => Marked(s, asked)
    BY <1>3, <1>4, SentFacts
  <2> QED
    BY <1>5, <2>1, Zenon
<1> HIDE DEF s
<1>8. R \in [Chats -> State] /\ R[h] = s /\ \A g \in Chats \ {h} : R[g] = states[g]
  BY <1>1, <1>6 DEF TypeOK, Sound
<1> HIDE DEF R
<1>9. \A g \in Chats : Sound(R[g], readBefore'[g], made')
  <2>1. ASSUME NEW g \in Chats \ {h} PROVE Sound(R[g], readBefore[g], made + 1)
    <3>1. Sound(states[g], readBefore[g], made) /\ readBefore[g] \in Nat
      BY <1>1, Counters DEF AllSound
    <3> QED
      BY <1>2, <1>8, <3>1, SoundLater
  <2> QED
    BY <1>2, <1>6, <1>8, <2>1
<1>10. made' + Cardinality(ToRead(R)) <= MaxRequests
  <2>1. ToRead(R) \subseteq ToRead(states)
    BY <1>7, <1>8 DEF ToRead
  <2>2. Cardinality(ToRead(R)) <= Cardinality(ToRead(states))
    BY <2>1, FewerToRead
  <2> QED
    BY <1>2, <2>2, ToReadIsFinite, HistoriesAssumption
<1>11. \A g \in Chats : (states[g].entry => R[g].entry) /\ Marked(R[g], g \in dialogs)
  <2>1. ASSUME NEW g \in Chats
        PROVE (states[g].entry => R[g].entry) /\ Marked(R[g], g \in dialogs)
    <3>1. Marked(states[g], g \in dialogs)
      BY <1>1, MarkedChats
    <3>2. CASE g = h
      BY <1>7, <1>8, <3>1, <3>2
    <3>3. CASE g # h
      BY <1>8, <3>1, <3>3
    <3> QED
      BY <3>2, <3>3
  <2> QED
    BY <2>1
<1>12. readTimer' \in BOOLEAN /\ readBefore' \in [Chats -> 1 .. MaxId + 1]
  BY <1>1, <1>2 DEF TypeOK
<1> QED
  BY <1>2, <1>8, <1>9, <1>10, <1>11, <1>12, StatesStep

(* sendReadRequests() as the last thing a handler does, S being what the   *)
(* handler has made of the States before.                                  *)
LEMMA ReadAll ==
  ASSUME HistoriesInv, NEW S \in [Chats -> State], NEW D \in SUBSET Chats,
         \A h \in Chats : Sound(S[h], readBefore[h], made),
         made + Cardinality(ToRead(S)) <= MaxRequests,
         \A h \in Chats : S[h].entry = states[h].entry /\ S[h].sent = states[h].sent,
         SendReadRequests(S, D), states' = ReadStates(S, D),
         readBefore' \in [Chats -> 1 .. MaxId + 1],
         \A h \in Chats : readBefore[h] <= readBefore'[h],
         callbacks' \subseteq callbacks,
         UNCHANGED <<pending, dialogs, calls, batches, loop, entries>>
  PROVE  HistoriesInv'
<1> DEFINE R == ReadStates(S, D)
<1>1. TypeOK /\ EntryIsAwaited
  BY DEF HistoriesInv
<1>2. Due(S, D) /\ made' = made + Cardinality(D) /\ readTimer' \in BOOLEAN
  BY DEF SendReadRequests
<1>3. /\ R \in [Chats -> State]
      /\ made' \in Nat /\ made <= made'
      /\ \A h \in Chats : Sound(R[h], readBefore[h], made')
      /\ made' + Cardinality(ToRead(R)) <= MaxRequests
      /\ \A h \in Chats : /\ S[h].entry => R[h].entry
                          /\ Marked(S[h], h \in dialogs) => Marked(R[h], h \in dialogs)
  BY <1>1, <1>2, ReadStep
<1> HIDE DEF R
<1>4. \A h \in Chats : Sound(R[h], readBefore'[h], made')
  <2>1. \A h \in Chats : readBefore[h] \in Nat /\ readBefore'[h] \in Nat
    BY <1>1, Counters, HistoriesAssumption
  <2> QED
    BY <1>3, <2>1, SoundLater
<1>5. \A h \in Chats : (states[h].entry => R[h].entry) /\ Marked(R[h], h \in dialogs)
  <2>1. \A h \in Chats : Marked(S[h], h \in dialogs)
    BY <1>1, MarkedChats DEF Marked
  <2> QED
    BY <1>3, <2>1
<1>6. states' = R
  BY DEF R
<1> QED
  BY <1>2, <1>3, <1>4, <1>5, <1>6, StatesStep

LEMMA ReadTimerKeeps ==
  ASSUME HistoriesInv, NEW D \in SUBSET Chats, ReadTimer(D)
  PROVE  HistoriesInv'
<1>1. TypeOK /\ AllSound /\ RoomForReadings
  BY DEF HistoriesInv
<1>2. /\ states \in [Chats -> State]
      /\ readBefore' = readBefore /\ readBefore \in [Chats -> 1 .. MaxId + 1]
      /\ \A h \in Chats : readBefore[h] <= readBefore'[h]
  BY <1>1, Counters DEF ReadTimer, TypeOK
<1> QED
  BY <1>1, <1>2, ReadAll DEF ReadTimer, AllSound, RoomForReadings

(* An id to be read that is beyond what is known to be read, or beyond     *)
(* another one that is to be read, is beyond all readings in flight.       *)
LEMMA WillRead ==
  ASSUME NEW s, NEW before \in Nat, NEW m \in Nat, Sound(s, before, m),
         NEW till \in Ids, s.sentTill < till, s.will < till, before <= till \/ s.will # 0,
         NEW t \in State, t.sent = s.sent, t.postponed = s.postponed,
         t.sentTill = s.sentTill, t.will = till
  PROVE  Sound(t, before, m)
<1>1. s \in State /\ till \in 0 .. MaxId /\ till \in Nat /\ till # 0
  BY HistoriesAssumption DEF Sound, Ids
<1>2. OnlyParts(t) /\ Waits(t) /\ Numbers(t) = Numbers(s)
  BY DEF Sound, OnlyParts, Waits, Numbers
<1>3. Beyond(t)
  BY DEF Beyond
<1>4. Readings(t, before)
  <2>1. ASSUME NEW r \in s.sent, r.type = "ReadInbox"
        PROVE  /\ IF s.sentTill = 0 THEN r.till < before ELSE r.till <= s.sentTill
               /\ r.till < till
    <3>1. /\ IF s.sentTill = 0 THEN r.till < before ELSE r.till <= s.sentTill
          /\ s.will # 0 => r.till < s.will
      BY <2>1 DEF Sound, Readings
    <3>2. r.till \in Nat /\ s.will \in Nat /\ s.sentTill \in Nat
      BY <1>1, StateFields, RequestFields
    <3>3. r.till < till
      BY <1>1, <3>1, <3>2
    <3> QED
      BY <3>1, <3>3
  <2> QED
    BY <2>1 DEF Readings
<1> QED
  BY <1>2, <1>3, <1>4 DEF Sound

(* One chat more may be to be read.                                        *)
LEMMA OneMoreToRead ==
  ASSUME NEW S, NEW R, NEW h, ToRead(R) \subseteq ToRead(S) \cup {h}
  PROVE  Cardinality(ToRead(R)) <= Cardinality(ToRead(S)) + 1
<1>1. IsFiniteSet(ToRead(S)) /\ Cardinality(ToRead(S)) \in Nat /\ Cardinality(ToRead(R)) \in Nat
  BY ToReadIsFinite
<1>2. /\ IsFiniteSet(ToRead(S) \cup {h})
      /\ \/ Cardinality(ToRead(S) \cup {h}) = Cardinality(ToRead(S))
         \/ Cardinality(ToRead(S) \cup {h}) = Cardinality(ToRead(S)) + 1
  BY <1>1, FS_AddElement, Zenon
<1>3. Cardinality(ToRead(R)) <= Cardinality(ToRead(S) \cup {h})
  BY <1>2, FS_Subset
<1> QED
  BY <1>1, <1>2, <1>3

(* readInboxTill(), as a handler or within the loop that applies entries.  *)
LEMMA ReadsKeeps ==
  ASSUME HistoriesInv, NEW h \in Chats, NEW till \in Ids, NEW force \in BOOLEAN,
         NEW D \in SUBSET Chats, NEW still, Reads(h, till, force, still, D),
         callbacks' \subseteq callbacks,
         UNCHANGED <<pending, dialogs, calls, batches, loop, entries>>
  PROVE  HistoriesInv'
<1> DEFINE s == states[h]
           needsRequest == readBefore[h] <= till
           now == [states EXCEPT ![h].will = till, ![h].later = FALSE]
           fresh == ReadTill({h}, till)
           soon == [states EXCEPT ![h].later = FALSE]
           later == [states EXCEPT ![h].will = till, ![h].later = TRUE]
<1>1. TypeOK /\ AllSound /\ RoomForReadings /\ EntryIsAwaited
  BY DEF HistoriesInv
<1>2. /\ states \in [Chats -> State] /\ s \in State /\ made \in Nat
      /\ readBefore \in [Chats -> 1 .. MaxId + 1]
      /\ \A g \in Chats : readBefore[g] \in Nat
      /\ \A g \in Chats : Sound(states[g], readBefore[g], made)
  BY <1>1, Counters DEF TypeOK, AllSound
<1>3. /\ made + Cardinality(ToRead(states)) < MaxRequests /\ s.sentTill < till
  BY DEF Reads, ToRead
<1>4. /\ fresh \in [Chats -> 1 .. MaxId + 1]
      /\ \A g \in Chats : readBefore[g] <= fresh[g]
  <2>1. till \in 0 .. MaxId
    BY HistoriesAssumption DEF Ids
  <2> QED
    BY <1>1, <2>1, ReadTillGrows
<1> HIDE DEF fresh
<1>5. ASSUME NEW R, R \in [Chats -> State], \A g \in Chats \ {h} : R[g] = states[g]
      PROVE  made + Cardinality(ToRead(R)) <= MaxRequests
  <2>1. ToRead(R) \subseteq ToRead(states) \cup {h}
    BY <1>5 DEF ToRead
  <2>2. Cardinality(ToRead(R)) <= Cardinality(ToRead(states)) + 1
    BY <2>1, OneMoreToRead
  <2> QED
    BY <1>2, <1>3, <2>2, ToReadIsFinite, HistoriesAssumption
<1>6. CASE SendReadRequests(soon, D) /\ states' = ReadStates(soon, D) /\ UNCHANGED readBefore
  <2> DEFINE t == [s EXCEPT !.later = FALSE]
  <2>1. /\ t \in State /\ t.sent = s.sent /\ t.postponed = s.postponed /\ t.entry = s.entry
        /\ t.sentTill = s.sentTill /\ t.will = s.will
    BY <1>2 DEF State
  <2>2. soon = [states EXCEPT ![h] = t]
    BY <1>2
  <2> HIDE DEF t
  <2>3. soon \in [Chats -> State] /\ soon[h] = t /\ \A g \in Chats \ {h} : soon[g] = states[g]
    BY <1>2, <2>1, <2>2
  <2>4. Sound(t, readBefore[h], made)
    <3>1. Sound(s, readBefore[h], made)
      BY <1>2
    <3> QED
      BY <2>1, <3>1 DEF Sound, OnlyParts, Waits, Readings, Beyond, Numbers
  <2> HIDE DEF soon, s
  <2>5. /\ \A g \in Chats : Sound(soon[g], readBefore[g], made)
        /\ \A g \in Chats : soon[g].entry = states[g].entry /\ soon[g].sent = states[g].sent
        /\ made + Cardinality(ToRead(soon)) <= MaxRequests
        /\ readBefore' \in [Chats -> 1 .. MaxId + 1]
        /\ \A g \in Chats : readBefore[g] <= readBefore'[g]
    BY <1>2, <1>5, <1>6, <2>1, <2>3, <2>4 DEF s
  <2> QED
    BY <1>3, <1>6, <2>3, <2>5, ReadAll
<1>7. CASE readBefore' = fresh /\ UNCHANGED <<states, made, readTimer>>
  <2>1. \A g \in Chats : readBefore'[g] \in Nat
    BY <1>4, <1>7, HistoriesAssumption
  <2>2. \A g \in Chats : Sound(states[g], readBefore'[g], made')
    <3>1. made' = made /\ \A g \in Chats : readBefore[g] <= readBefore'[g]
      BY <1>4, <1>7
    <3> QED
      BY <1>2, <2>1, <3>1, SoundLater
  <2> QED
    BY <1>1, <1>2, <1>3, <1>4, <1>7, <2>2, StatesStep, MarkedChats DEF RoomForReadings, TypeOK
<1>8. CASE /\ s.will < till /\ (needsRequest \/ s.will # 0)
           /\ SendReadRequests(now, D) /\ states' = ReadStates(now, D)
           /\ readBefore' = IF still = "unknown" THEN readBefore ELSE fresh
  <2> DEFINE t == [s EXCEPT !.will = till, !.later = FALSE]
  <2>1. Sound(t, readBefore[h], made) /\ t.entry = s.entry /\ t.sent = s.sent
    <3>1. /\ Sound(s, readBefore[h], made) /\ readBefore[h] \in Nat /\ made \in Nat
          /\ s.sentTill < till /\ s.will < till /\ (readBefore[h] <= till \/ s.will # 0)
      BY <1>2, <1>3, <1>8
    <3>2. till \in 0 .. MaxId
      BY HistoriesAssumption DEF Ids
    <3>3. t \in State
      BY <1>2, <3>2 DEF State
    <3>4. /\ t.sent = s.sent /\ t.postponed = s.postponed /\ t.entry = s.entry
          /\ t.sentTill = s.sentTill /\ t.will = till
      BY <1>2 DEF State
    <3> HIDE DEF t, s
    <3> QED
      BY <3>1, <3>3, <3>4, WillRead
  <2>2. now = [states EXCEPT ![h] = t]
    BY <1>2
  <2>3. t \in State
    BY <2>1 DEF Sound
  <2> HIDE DEF t
  <2>4. now \in [Chats -> State] /\ now[h] = t /\ \A g \in Chats \ {h} : now[g] = states[g]
    BY <1>2, <2>2, <2>3
  <2> HIDE DEF now, s
  <2>5. /\ \A g \in Chats : Sound(now[g], readBefore[g], made)
        /\ \A g \in Chats : now[g].entry = states[g].entry /\ now[g].sent = states[g].sent
        /\ made + Cardinality(ToRead(now)) <= MaxRequests
    BY <1>2, <1>5, <2>1, <2>4 DEF s
  <2>6. /\ readBefore' \in [Chats -> 1 .. MaxId + 1]
        /\ \A g \in Chats : readBefore[g] <= readBefore'[g]
    BY <1>2, <1>4, <1>8
  <2> QED
    BY <1>3, <1>8, <2>4, <2>5, <2>6, ReadAll
<1>9. CASE /\ s.will < till /\ (needsRequest \/ s.will # 0)
           /\ states' = later /\ readTimer' = (readTimer \/ ~s.later)
           /\ readBefore' = fresh /\ UNCHANGED made
  <2> DEFINE t == [s EXCEPT !.will = till, !.later = TRUE]
  <2>1. Sound(t, readBefore[h], made) /\ t.entry = s.entry /\ t.sent = s.sent
    <3>1. /\ Sound(s, readBefore[h], made) /\ readBefore[h] \in Nat /\ made \in Nat
          /\ s.sentTill < till /\ s.will < till /\ (readBefore[h] <= till \/ s.will # 0)
      BY <1>2, <1>3, <1>9
    <3>2. till \in 0 .. MaxId
      BY HistoriesAssumption DEF Ids
    <3>3. t \in State
      BY <1>2, <3>2 DEF State
    <3>4. /\ t.sent = s.sent /\ t.postponed = s.postponed /\ t.entry = s.entry
          /\ t.sentTill = s.sentTill /\ t.will = till
      BY <1>2 DEF State
    <3> HIDE DEF t, s
    <3> QED
      BY <3>1, <3>3, <3>4, WillRead
  <2>2. later = [states EXCEPT ![h] = t]
    BY <1>2
  <2>3. t \in State
    BY <2>1 DEF Sound
  <2> HIDE DEF t
  <2>4. later \in [Chats -> State] /\ later[h] = t /\ \A g \in Chats \ {h} : later[g] = states[g]
    BY <1>2, <2>2, <2>3
  <2> HIDE DEF later, s
  <2>5. /\ \A g \in Chats : Sound(later[g], readBefore[g], made)
        /\ \A g \in Chats : later[g].entry = states[g].entry /\ later[g].sent = states[g].sent
        /\ made' + Cardinality(ToRead(later)) <= MaxRequests /\ made' \in Nat
    BY <1>2, <1>5, <1>9, <2>1, <2>4 DEF s
  <2>6. /\ readBefore' \in [Chats -> 1 .. MaxId + 1]
        /\ \A g \in Chats : readBefore[g] <= readBefore'[g] /\ readBefore'[g] \in Nat
    BY <1>4, <1>9, HistoriesAssumption
  <2>7. \A g \in Chats : Sound(later[g], readBefore'[g], made')
    <3>1. made' = made
      BY <1>9
    <3> QED
      BY <1>2, <2>5, <2>6, <3>1, SoundLater
  <2>8. \A g \in Chats : Marked(later[g], g \in dialogs)
    BY <1>1, <2>5, MarkedChats DEF Marked
  <2>9. readTimer' \in BOOLEAN
    BY <1>1, <1>9 DEF TypeOK
  <2> QED
    BY <1>3, <1>9, <2>4, <2>5, <2>6, <2>7, <2>8, <2>9, StatesStep
<1> QED
  BY <1>6, <1>7, <1>8, <1>9 DEF Reads, fresh

LEMMA ReadInboxTillKeeps ==
  ASSUME HistoriesInv, NEW h \in Chats, NEW till \in Ids, NEW force \in BOOLEAN,
         NEW D \in SUBSET Chats, NEW still, ReadInboxTill(h, till, force, still, D)
  PROVE  HistoriesInv'
BY ReadsKeeps DEF ReadInboxTill

(* One more chat waits: a call is to come.                                 *)
LEMMA CallIsMade ==
  ASSUME TypeOK, EntryIsAwaited, NEW h \in Chats, NeedsEntry(h), NEW P, P = pending \cup {h}
  PROVE  /\ P \subseteq Chats /\ P \cap dialogs = {}
         /\ Calls(P) \in Nat /\ Calls(P) > 0
<1>1. P \subseteq Chats /\ P \cap dialogs = {}
  BY DEF TypeOK, EntryIsAwaited, NeedsEntry
<1>2. CASE pending = {}
  <2>1. Cardinality({h}) = 1 /\ P = {h}
    BY <1>2, FS_Singleton
  <2>2. Cardinality(P) = 1
    BY <2>1
  <2> QED
    BY <1>1, <2>2, Counters DEF Calls
<1>3. CASE pending # {}
  <2>1. calls > 0 /\ calls \in Nat
    BY <1>3, Counters DEF EntryIsAwaited
  <2> QED
    BY <1>1, <2>1 DEF Calls
<1> QED
  BY <1>2, <1>3

(* requestDialogEntry(): the chat waits for its entry, one way or another. *)
LEMMA AskedKeeps ==
  ASSUME HistoriesInv, NEW h \in Chats, AskEntry(h),
         callbacks' \subseteq callbacks \cup {h},
         readBefore' \in [Chats -> 1 .. MaxId + 1],
         \A g \in Chats : readBefore[g] <= readBefore'[g],
         UNCHANGED <<states, made, readTimer, dialogs, batches, loop>>
  PROVE  HistoriesInv'
<1>1. TypeOK /\ AllSound /\ RoomForReadings /\ EntryIsAwaited
  BY DEF HistoriesInv
<1>2. /\ entries < MaxEntries /\ entries' = entries + 1
      /\ pending' = IF NeedsEntry(h) THEN pending \cup {h} ELSE pending
      /\ calls' = IF NeedsEntry(h) THEN Calls(pending') ELSE calls
  BY DEF AskEntry
<1>3. /\ pending' \subseteq Chats /\ pending' \cap dialogs = {} /\ calls' \in Nat
      /\ pending' # {} => calls' > 0
      /\ pending \subseteq pending' /\ h \in pending' \cup dialogs
  <2>1. CASE NeedsEntry(h)
    BY <1>1, <1>2, <2>1, CallIsMade
  <2>2. CASE ~NeedsEntry(h)
    BY <1>1, <1>2, <2>2, Counters DEF TypeOK, EntryIsAwaited, NeedsEntry
  <2> QED
    BY <2>1, <2>2
<1>4. AllSound'
  <2>1. \A g \in Chats : readBefore[g] \in Nat /\ readBefore'[g] \in Nat
    BY <1>1, Counters, HistoriesAssumption
  <2>2. \A g \in Chats : Sound(states[g], readBefore'[g], made')
    BY <1>1, <2>1, Counters, SoundLater DEF AllSound
  <2> QED
    BY <2>2 DEF AllSound
<1>5. RoomForReadings'
  BY <1>1 DEF RoomForReadings, ToRead
<1>6. EntryIsAwaited'
  <2>1. callbacks' \subseteq pending' \cup dialogs' \cup settling'
    BY <1>1, <1>3 DEF EntryIsAwaited, loop
  <2> QED
    BY <1>1, <1>3, <2>1 DEF EntryIsAwaited, loop
<1>7. entries' \in 0 .. MaxEntries /\ callbacks' \subseteq Chats
  BY <1>1, <1>2, Counters, HistoriesAssumption DEF TypeOK
<1> QED
  BY <1>1, <1>3, <1>4, <1>5, <1>6, <1>7 DEF HistoriesInv, TypeOK, loop

LEMMA RequestDialogEntryKeeps ==
  ASSUME HistoriesInv, NEW h \in Chats, RequestDialogEntry(h) \/ ReadInbox(h)
  PROVE  HistoriesInv'
<1>1. /\ readBefore' \in [Chats -> 1 .. MaxId + 1]
      /\ \A g \in Chats : readBefore[g] <= readBefore'[g]
  BY Counters DEF RequestDialogEntry, ReadInbox, HistoriesInv, TypeOK
<1> QED
  BY <1>1, AskedKeeps DEF RequestDialogEntry, ReadInbox

LEMMA ReadElsewhereKeeps ==
  ASSUME HistoriesInv, NEW h \in Chats, NEW till \in Ids, NEW ask \in BOOLEAN,
         ReadElsewhere(h, till, ask)
  PROVE  HistoriesInv'
<1>1. TypeOK /\ AllSound /\ RoomForReadings /\ EntryIsAwaited
  BY DEF HistoriesInv
<1>2. till \in 0 .. MaxId
  BY HistoriesAssumption DEF Ids
<1>3. /\ readBefore' \in [Chats -> 1 .. MaxId + 1]
      /\ \A g \in Chats : readBefore[g] <= readBefore'[g]
  BY <1>1, <1>2, ReadTillGrows DEF ReadElsewhere
<1>4. UNCHANGED <<states, made, readTimer, dialogs, callbacks, batches, loop>>
  BY DEF ReadElsewhere
<1>5. CASE ask
  BY <1>3, <1>4, <1>5, AskedKeeps DEF ReadElsewhere
<1>6. CASE ~ask
  <2>1. UNCHANGED <<pending, calls, entries>>
    BY <1>6 DEF ReadElsewhere
  <2>2. \A g \in Chats : readBefore[g] \in Nat /\ readBefore'[g] \in Nat
    BY <1>1, <1>3, Counters, HistoriesAssumption
  <2>3. \A g \in Chats : Sound(states[g], readBefore'[g], made')
    BY <1>1, <1>3, <1>4, <2>2, Counters, SoundLater DEF AllSound
  <2> QED
    BY <1>1, <1>3, <1>4, <2>1, <2>3, StatesStep, MarkedChats, Counters DEF RoomForReadings, TypeOK
<1> QED
  BY <1>5, <1>6

LEMMA ReadFinishedKeeps ==
  ASSUME HistoriesInv, NEW h \in Chats, NEW r \in states[h].sent, NEW refresh \in BOOLEAN,
         NEW D \in SUBSET Chats, ReadFinished(h, r, refresh, D)
  PROVE  HistoriesInv'
<1> DEFINE own == states[h].sentTill = r.till
           ask == own /\ refresh /\ NeedsEntry(h)
           t == [states[h] EXCEPT !.sentDone = @ \/ (own /\ refresh),
                                  !.sentTill = IF own /\ ~refresh THEN 0 ELSE @]
           S == [states EXCEPT ![h].sentDone = @ \/ (own /\ refresh),
                               ![h].sentTill = IF own /\ ~refresh THEN 0 ELSE @]
           P == IF ask THEN pending \cup {h} ELSE pending
           C == IF ask THEN Calls(P) ELSE calls
           R == ReadStates(S, D)
           s == Left(R[h], r)
<1>1. TypeOK /\ AllSound /\ RoomForReadings /\ EntryIsAwaited
  BY DEF HistoriesInv
<1>2. /\ r.type = "ReadInbox" /\ (RefreshNeeded(h, r.till) => refresh)
      /\ SendReadRequests(S, D)
      /\ AskAgain(R, h, s, P, C)
      /\ UNCHANGED <<callbacks, batches, loop, readBefore, entries>>
  BY DEF ReadFinished
<1>3. /\ states \in [Chats -> State] /\ states[h] \in State /\ made \in Nat
      /\ Sound(states[h], readBefore[h], made) /\ readBefore[h] \in Nat
  BY <1>1, Counters DEF TypeOK, AllSound
<1>4. r \in Request /\ r.till \in Nat /\ \A q \in states[h].sent : q.till \in Nat
  BY <1>3, StateFields, RequestFields
<1>5. /\ t.sent = states[h].sent /\ t.postponed = states[h].postponed
      /\ t.entry = states[h].entry /\ t.will = states[h].will
      /\ t.sentTill = IF own /\ ~refresh THEN 0 ELSE states[h].sentTill
  BY <1>3 DEF State
<1>6. t \in State
  <2>1. 0 \in 0 .. MaxId
    BY HistoriesAssumption
  <2> QED
    BY <1>3, <2>1 DEF State
<1>7. S \in [Chats -> State] /\ S[h] = t /\ \A g \in Chats \ {h} : S[g] = states[g]
  <2>1. S = [states EXCEPT ![h] = t]
    BY <1>3
  <2> HIDE DEF S, t
  <2> QED
    BY <1>3, <1>6, <2>1
<1> HIDE DEF t
<1>8. Sound(t, readBefore[h], made)
  <2>1. OnlyParts(t) /\ Waits(t) /\ Numbers(t) = Numbers(states[h])
    BY <1>3, <1>5 DEF Sound, OnlyParts, Waits, Numbers
  <2>2. Beyond(t)
    BY <1>3, <1>5, <1>6, StateFields DEF Sound, Beyond
  <2>3. Readings(t, readBefore[h])
    <3>1. CASE own /\ ~refresh
      <4>1. r.till < readBefore[h]
        BY <1>2, <1>3, <1>4, <3>1 DEF RefreshNeeded
      <4>2. \A q \in states[h].sent : q.type = "ReadInbox" => q.till < readBefore[h]
        BY <1>3, <1>4, <3>1, <4>1 DEF Sound, Readings
      <4>3. t.sentTill = 0
        BY <1>5, <3>1
      <4> QED
        BY <1>3, <1>5, <4>2, <4>3 DEF Sound, Readings
    <3>2. CASE ~(own /\ ~refresh)
      BY <1>3, <1>5, <3>2 DEF Sound, Readings
    <3> QED
      BY <3>1, <3>2
  <2> QED
    BY <1>3, <1>6, <2>1, <2>2, <2>3 DEF Sound
<1> HIDE DEF S
<1>9. \A g \in Chats : Sound(S[g], readBefore[g], made)
  BY <1>1, <1>7, <1>8 DEF AllSound
<1>10. made + Cardinality(ToRead(S)) <= MaxRequests
  <2>1. ToRead(S) \subseteq ToRead(states)
    BY <1>5, <1>7 DEF ToRead
  <2> QED
    BY <1>1, <1>3, <2>1, FewerToRead, ToReadIsFinite, HistoriesAssumption DEF RoomForReadings
<1>11. /\ Due(S, D) /\ made' = made + Cardinality(D) /\ readTimer' \in BOOLEAN
  BY <1>2 DEF SendReadRequests
<1>12. /\ R \in [Chats -> State]
       /\ made' \in Nat /\ made <= made'
       /\ \A g \in Chats : Sound(R[g], readBefore[g], made')
       /\ made' + Cardinality(ToRead(R)) <= MaxRequests
       /\ \A g \in Chats : /\ S[g].entry => R[g].entry
                           /\ Marked(S[g], g \in dialogs) => Marked(R[g], g \in dialogs)
  BY <1>1, <1>7, <1>9, <1>10, <1>11, ReadStep
<1> HIDE DEF R
<1>13. Sound(s, readBefore[h], made')
  BY <1>3, <1>12, SoundLeft
<1>14. s.will = R[h].will /\ s.entry = R[h].entry
  BY <1>12, LeftFacts DEF Sound
<1> HIDE DEF s
<1>15. /\ P \subseteq Chats /\ P \cap dialogs = {} /\ C \in Nat /\ (P # {} => C > 0)
       /\ callbacks \subseteq P \cup dialogs \cup settling
  <2>1. CASE ask
    BY <1>1, <2>1, CallIsMade DEF EntryIsAwaited
  <2>2. CASE ~ask
    BY <1>1, <2>2, Counters DEF TypeOK, EntryIsAwaited
  <2> QED
    BY <2>1, <2>2
<1> HIDE DEF P, C
<1>16. \A g \in Chats : Marked(R[g], g \in dialogs) /\ (states[g].entry => R[g].entry)
  <2>1. \A g \in Chats : S[g].entry = states[g].entry /\ S[g].sent = states[g].sent
    BY <1>5, <1>7
  <2>2. \A g \in Chats : Marked(S[g], g \in dialogs)
    BY <1>1, <2>1, MarkedChats DEF Marked
  <2> QED
    BY <1>12, <2>1, <2>2
<1>17. /\ \A g \in Chats : R[g].entry => g \in dialogs
       /\ \A g \in dialogs :
            R[g].entry \/ g \in applying \/ \E b \in batches : g \in b.members
  <2>1. dialogs \subseteq Chats
    BY <1>1 DEF TypeOK
  <2> QED
    BY <1>1, <1>16, <2>1 DEF Marked, EntryIsAwaited
<1>18. /\ states' \in [Chats -> State] /\ AllSound' /\ RoomForReadings'
       /\ pending' \subseteq Chats /\ dialogs' \subseteq Chats /\ calls' \in Nat
       /\ EntryIsAwaited'
  BY <1>1, <1>2, <1>12, <1>13, <1>14, <1>15, <1>16, <1>17, AskStep
<1>19. made' \in 0 .. MaxRequests
  BY <1>12, ToReadIsFinite, HistoriesAssumption
<1>20. IsFiniteSet(batches')
  BY <1>2 DEF HistoriesInv
<1> QED
  BY <1>1, <1>2, <1>11, <1>18, <1>19, <1>20 DEF HistoriesInv, TypeOK, loop

(* A number that no request for entries in flight has.                     *)
LEMMA BatchIsNew ==
  ASSUME IsFiniteSet(batches)
  PROVE  NewBatch \in Nat
<1> DEFINE used == {b.n : b \in batches}
           all == 1 .. Cardinality(batches) + 1
<1>1. Cardinality(batches) \in Nat
  BY FS_CardinalityType
<1>2. IsFiniteSet(used) /\ Cardinality(used) <= Cardinality(batches)
  <2> DEFINE f == [b \in batches |-> b.n]
  <2>1. f \in Surjection(batches, used)
    BY DEF Surjection
  <2> HIDE DEF f, used
  <2> QED
    BY <2>1, FS_Surjection, Zenon
<1>3. IsFiniteSet(all) /\ Cardinality(all) = Cardinality(batches) + 1
  BY <1>1, FS_Interval
<1>4. ~(all \subseteq used)
  <2> SUFFICES ASSUME all \subseteq used PROVE FALSE
    OBVIOUS
  <2> HIDE DEF all, used
  <2>1. Cardinality(all) <= Cardinality(used)
    BY <1>2, FS_Subset
  <2>2. Cardinality(used) \in Nat
    BY <1>2, FS_CardinalityType
  <2> QED
    BY <1>1, <1>2, <1>3, <2>1, <2>2
<1>5. PICK n \in all : n \notin used
  BY <1>4
<1>6. n \in 1 .. Cardinality(batches) + 1 /\ \A b \in batches : b.n # n
  BY <1>5
<1>7. NewBatch \in 1 .. Cardinality(batches) + 1
  BY <1>6 DEF NewBatch
<1> QED
  BY <1>1, <1>7

LEMMA SendDialogRequestsKeeps ==
  ASSUME HistoriesInv, SendDialogRequests
  PROVE  HistoriesInv'
<1> DEFINE free == {h \in pending : OnlyHistory(states[h].sent)}
           new == [n |-> NewBatch, members |-> free]
           mark(h) == [states[h] EXCEPT !.entry = @ \/ h \in pending \ free]
<1>1. /\ TypeOK /\ AllSound /\ RoomForReadings /\ EntryIsAwaited
      /\ IsFiniteSet(batches)
  BY DEF HistoriesInv
<1>2. /\ calls > 0 /\ calls' = calls - 1 /\ pending' = {}
      /\ UNCHANGED <<made, readTimer, callbacks, loop, readBefore, entries>>
  BY DEF SendDialogRequests
<1>3. calls' \in Nat
  BY <1>1, <1>2, Counters
<1>4. CASE pending = {}
  <2>1. UNCHANGED <<states, dialogs, batches>>
    BY <1>4 DEF SendDialogRequests
  <2>2. AllSound' /\ RoomForReadings'
    BY <1>1, <1>2, <2>1 DEF AllSound, RoomForReadings, ToRead
  <2>3. EntryIsAwaited'
    BY <1>1, <1>2, <1>4, <2>1 DEF EntryIsAwaited, loop
  <2> QED
    BY <1>1, <1>2, <1>3, <2>1, <2>2, <2>3 DEF HistoriesInv, TypeOK, loop
<1>5. CASE pending # {}
  <2>1. /\ states' = [h \in Chats |-> mark(h)]
        /\ dialogs' = dialogs \cup pending
        /\ batches' = batches \cup {new}
    BY <1>5 DEF SendDialogRequests
  <2>2. ASSUME NEW h \in Chats
        PROVE  /\ states'[h] \in State
               /\ states'[h].sent = states[h].sent /\ states'[h].postponed = states[h].postponed
               /\ states'[h].sentTill = states[h].sentTill /\ states'[h].will = states[h].will
               /\ states'[h].entry = (states[h].entry \/ h \in pending \ free)
    <3>1. states'[h] = mark(h) /\ states[h] \in State
      BY <1>1, <2>1 DEF TypeOK
    <3>2. mark(h) \in State
      BY <3>1 DEF State
    <3>3. /\ mark(h).sent = states[h].sent /\ mark(h).postponed = states[h].postponed
          /\ mark(h).sentTill = states[h].sentTill /\ mark(h).will = states[h].will
          /\ mark(h).entry = (states[h].entry \/ h \in pending \ free)
      BY <3>1 DEF State
    <3> HIDE DEF mark
    <3> QED
      BY <3>1, <3>2, <3>3
  <2>3. states' \in [Chats -> State]
    <3> HIDE DEF mark
    <3>1. \A h \in Chats : mark(h) \in State
      BY <2>1, <2>2
    <3> QED
      BY <2>1, <3>1
  <2>4. new \in Batch /\ new.members = free
    BY <1>1, BatchIsNew DEF Batch, TypeOK
  <2>5. batches' \subseteq Batch /\ IsFiniteSet(batches')
    BY <1>1, <2>1, <2>4, FS_AddElement DEF TypeOK
  <2> HIDE DEF mark, new
  <2>6. AllSound'
    <3>1. ASSUME NEW h \in Chats PROVE Sound(states'[h], readBefore'[h], made')
      <4>1. Sound(states[h], readBefore[h], made)
        BY <1>1 DEF AllSound
      <4> QED
        BY <1>2, <2>2, <4>1 DEF Sound, OnlyParts, Waits, Readings, Beyond, Numbers
    <3> QED
      BY <3>1 DEF AllSound
  <2>7. RoomForReadings'
    <3>1. ToRead(states)' = ToRead(states)
      BY <2>2 DEF ToRead
    <3> QED
      BY <1>1, <1>2, <3>1 DEF RoomForReadings
  <2>8. EntryIsAwaited'
    <3>1. dialogs \subseteq Chats /\ pending \subseteq Chats
      BY <1>1 DEF TypeOK
    <3>2. \A h \in Chats : states'[h].entry => h \in dialogs' /\ ~OnlyHistory(states'[h].sent)
      BY <1>1, <2>1, <2>2 DEF EntryIsAwaited
    <3>3. ASSUME NEW h \in dialogs'
          PROVE  states'[h].entry \/ h \in applying' \/ \E b \in batches' : h \in b.members
      <4>1. h \in Chats /\ (h \in dialogs \/ h \in free \/ h \in pending \ free)
        BY <2>1, <3>1
      <4>2. CASE h \in free
        BY <2>1, <2>4, <4>2
      <4>3. CASE h \in dialogs
        BY <1>1, <1>2, <2>1, <2>2, <4>1, <4>3 DEF EntryIsAwaited, loop
      <4>4. CASE h \in pending \ free
        BY <2>2, <4>1, <4>4
      <4> QED
        BY <4>1, <4>2, <4>3, <4>4
    <3>4. callbacks' \subseteq pending' \cup dialogs' \cup settling'
      BY <1>1, <1>2, <2>1 DEF EntryIsAwaited, loop
    <3> QED
      BY <1>2, <3>2, <3>3, <3>4 DEF EntryIsAwaited, OnlyHistory
  <2> QED
    BY <1>1, <1>2, <1>3, <2>1, <2>3, <2>5, <2>6, <2>7, <2>8 DEF HistoriesInv, TypeOK, loop
<1> QED
  BY <1>4, <1>5

(* The answer: its members are to be applied, one after the other.         *)
LEMMA DialogsDoneKeeps ==
  ASSUME HistoriesInv, NEW b \in batches, NEW till \in 0 .. MaxId, DialogsDone(b, till)
  PROVE  HistoriesInv'
<1>1. /\ TypeOK /\ AllSound /\ RoomForReadings /\ EntryIsAwaited
      /\ IsFiniteSet(batches)
  BY DEF HistoriesInv
<1>2. /\ batches' = batches \ {b} /\ applying' = b.members
      /\ readBefore' = ReadTill(b.members, till)
      /\ UNCHANGED <<states, made, readTimer, pending, dialogs, callbacks, calls,
                     settling, entries>>
      /\ applying = {}
  BY DEF DialogsDone, Idle
<1>3. /\ readBefore' \in [Chats -> 1 .. MaxId + 1]
      /\ \A h \in Chats : readBefore[h] <= readBefore'[h]
  BY <1>1, <1>2, ReadTillGrows
<1>4. AllSound'
  <2>1. \A g \in Chats : readBefore[g] \in Nat /\ readBefore'[g] \in Nat
    BY <1>1, <1>3, Counters, HistoriesAssumption
  <2>2. made' = made /\ made \in Nat
    BY <1>1, <1>2, Counters
  <2>3. \A g \in Chats : Sound(states[g], readBefore'[g], made')
    BY <1>1, <1>3, <2>1, <2>2, SoundLater DEF AllSound
  <2> QED
    BY <1>2, <2>3 DEF AllSound
<1>5. RoomForReadings'
  BY <1>1, <1>2 DEF RoomForReadings, ToRead
<1>6. EntryIsAwaited'
  <2>1. ASSUME NEW h \in dialogs
        PROVE  states[h].entry \/ h \in applying' \/ \E c \in batches' : h \in c.members
    <3>1. states[h].entry \/ \E c \in batches : h \in c.members
      BY <1>1, <1>2, <2>1 DEF EntryIsAwaited
    <3> QED
      BY <1>2, <3>1
  <2> QED
    BY <1>1, <1>2, <2>1 DEF EntryIsAwaited
<1>7. IsFiniteSet(batches') /\ batches' \subseteq Batch /\ b.members \subseteq Chats
  BY <1>1, <1>2, FS_Subset DEF TypeOK, Batch
<1> QED
  BY <1>1, <1>2, <1>3, <1>4, <1>5, <1>6, <1>7 DEF HistoriesInv, TypeOK

(* A turn of the loop: the chat waits no more, or is to be asked for again.*)
LEMMA ApplyEntryKeeps ==
  ASSUME HistoriesInv, NEW h \in applying, ApplyEntry(h)
  PROVE  HistoriesInv'
<1>1. /\ TypeOK /\ AllSound /\ RoomForReadings /\ EntryIsAwaited
      /\ IsFiniteSet(batches)
  BY DEF HistoriesInv
<1>2. /\ settling = {} /\ applying' = applying \ {h}
      /\ UNCHANGED <<states, made, readTimer, callbacks, calls, batches, readBefore, entries>>
  BY DEF ApplyEntry
<1>3. AllSound' /\ RoomForReadings'
  BY <1>1, <1>2 DEF AllSound, RoomForReadings, ToRead
<1>4. h \in Chats
  BY <1>1 DEF TypeOK
<1>5. CASE states[h].entry
  <2>1. UNCHANGED <<pending, dialogs, settling>>
    BY <1>5 DEF ApplyEntry
  <2>2. EntryIsAwaited'
    BY <1>1, <1>2, <1>5, <2>1 DEF EntryIsAwaited
  <2> QED
    BY <1>1, <1>2, <1>3, <2>1, <2>2 DEF HistoriesInv, TypeOK
<1>6. CASE ~states[h].entry
  <2>1. pending' = pending \ {h} /\ dialogs' = dialogs \ {h} /\ settling' = {h}
    BY <1>6 DEF ApplyEntry
  <2>2. \A g \in Chats : states'[g].entry => g \in dialogs' /\ ~OnlyHistory(states'[g].sent)
    BY <1>1, <1>2, <1>6, <2>1 DEF EntryIsAwaited
  <2>3. EntryIsAwaited'
    BY <1>1, <1>2, <2>1, <2>2 DEF EntryIsAwaited, OnlyHistory
  <2> QED
    BY <1>1, <1>2, <1>3, <1>4, <2>1, <2>3 DEF HistoriesInv, TypeOK
<1> QED
  BY <1>5, <1>6

LEMMA CallbackKeeps ==
  ASSUME HistoriesInv, NEW h \in settling, NEW till \in 0 .. MaxId, NEW still,
         NEW D \in SUBSET Chats, Callback(h, till, still, D)
  PROVE  HistoriesInv'
<1>1. /\ TypeOK /\ AllSound /\ RoomForReadings /\ EntryIsAwaited
  BY DEF HistoriesInv
<1>2. /\ callbacks' = callbacks \ {h} /\ h \in Chats
      /\ UNCHANGED <<pending, dialogs, calls, batches, loop, entries>>
  BY <1>1 DEF Callback, TypeOK
<1>3. CASE till = 0 /\ UNCHANGED <<states, made, readTimer, readBefore>>
  BY <1>1, <1>2, <1>3, StatesStep, MarkedChats, Counters DEF AllSound, RoomForReadings, TypeOK
<1>4. CASE till # 0 /\ Reads(h, till, FALSE, still, D)
  <2>1. till \in Ids /\ callbacks' \subseteq callbacks
    BY <1>2, <1>4, HistoriesAssumption DEF Ids
  <2> QED
    BY <1>2, <1>4, <2>1, ReadsKeeps
<1> QED
  BY <1>3, <1>4 DEF Callback

(* The end of dialogEntryApplied(): what was sent is known to be read.     *)
LEMMA SettleKeeps ==
  ASSUME HistoriesInv, NEW h \in settling, Settle(h)
  PROVE  HistoriesInv'
<1> DEFINE done == states[h].sentTill # 0 /\ states[h].sentDone
           t == [states[h] EXCEPT !.sentTill = 0, !.sentDone = FALSE]
<1>1. /\ TypeOK /\ AllSound /\ RoomForReadings /\ EntryIsAwaited
      /\ settling = {h} /\ h \in Chats
  BY DEF HistoriesInv, TypeOK
<1>2. /\ h \notin callbacks /\ settling' = {}
      /\ UNCHANGED <<made, readTimer, pending, dialogs, callbacks, calls, batches,
                     applying, entries>>
      /\ readBefore' = IF done THEN ReadTill({h}, states[h].sentTill) ELSE readBefore
  BY DEF Settle
<1>3. states' = IF done THEN [states EXCEPT ![h] = t] ELSE states
  BY <1>1 DEF Settle, TypeOK
<1>4. /\ states[h] \in State /\ Sound(states[h], readBefore[h], made)
      /\ made \in Nat /\ readBefore[h] \in Nat
      /\ states[h].sentTill \in 0 .. MaxId /\ states[h].sentTill \in Nat
  BY <1>1, StateFields, Counters DEF AllSound, Sound
<1>5. /\ t \in State /\ t.sent = states[h].sent /\ t.postponed = states[h].postponed
      /\ t.will = states[h].will /\ t.entry = states[h].entry /\ t.sentTill = 0
  <2>1. 0 \in 0 .. MaxId
    BY HistoriesAssumption
  <2> QED
    BY <1>4, <2>1 DEF State
<1> HIDE DEF t
<1>6. EntryIsAwaited'
  <2>1. \A g \in Chats : states'[g].entry = states[g].entry /\ states'[g].sent = states[g].sent
    BY <1>1, <1>3, <1>5 DEF TypeOK
  <2>2. dialogs \subseteq Chats
    BY <1>1 DEF TypeOK
  <2>3. callbacks \subseteq pending \cup dialogs
    BY <1>1, <1>2 DEF EntryIsAwaited
  <2> QED
    BY <1>1, <1>2, <2>1, <2>2, <2>3 DEF EntryIsAwaited, OnlyHistory
<1>7. RoomForReadings'
  <2>1. ToRead(states)' = ToRead(states)
    BY <1>1, <1>3, <1>5 DEF ToRead, TypeOK
  <2> QED
    BY <1>1, <1>2, <2>1 DEF RoomForReadings
<1>8. CASE ~done
  <2>1. AllSound'
    BY <1>1, <1>2, <1>3, <1>8 DEF AllSound
  <2> QED
    BY <1>1, <1>2, <1>3, <1>6, <1>7, <1>8, <2>1 DEF HistoriesInv, TypeOK
<1>9. CASE done
  <2>1. /\ readBefore' \in [Chats -> 1 .. MaxId + 1]
        /\ \A g \in Chats : readBefore[g] <= readBefore'[g]
        /\ readBefore' = ReadTill({h}, states[h].sentTill)
    BY <1>1, <1>2, <1>4, <1>9, ReadTillGrows
  <2>2. \A g \in Chats : readBefore[g] \in Nat /\ readBefore'[g] \in Nat
    BY <1>1, <2>1, Counters, HistoriesAssumption
  <2>3. states[h].sentTill < readBefore'[h]
    BY <1>1, <1>4, <2>1, <2>2 DEF ReadTill, Larger
  <2>4. states' \in [Chats -> State] /\ states'[h] = t /\ \A g \in Chats \ {h} : states'[g] = states[g]
    BY <1>1, <1>3, <1>5, <1>9 DEF TypeOK
  <2>5. Sound(t, readBefore'[h], made)
    <3>1. OnlyParts(t) /\ Waits(t) /\ Numbers(t) = Numbers(states[h])
      BY <1>4, <1>5 DEF Sound, OnlyParts, Waits, Numbers
    <3>2. Beyond(t)
      BY <1>4, <1>5, StateFields DEF Sound, Beyond
    <3>3. Readings(t, readBefore'[h])
      <4>1. \A r \in states[h].sent : r.till \in Nat
        BY <1>4, StateFields, RequestFields
      <4>2. ASSUME NEW r \in states[h].sent, r.type = "ReadInbox"
            PROVE  r.till < readBefore'[h]
        <5>1. r.till <= states[h].sentTill
          BY <1>4, <1>9, <4>2 DEF Sound, Readings
        <5>2. readBefore'[h] \in Nat /\ r.till \in Nat
          BY <1>1, <2>2, <4>1
        <5> QED
          BY <1>4, <2>3, <5>1, <5>2
      <4> QED
        BY <1>4, <1>5, <4>2 DEF Sound, Readings
    <3> QED
      BY <1>4, <1>5, <3>1, <3>2, <3>3 DEF Sound
  <2>6. \A g \in Chats : Sound(states'[g], readBefore'[g], made')
    <3>1. ASSUME NEW g \in Chats \ {h} PROVE Sound(states[g], readBefore'[g], made)
      <4>1. Sound(states[g], readBefore[g], made) /\ readBefore[g] <= readBefore'[g]
        BY <1>1, <2>1 DEF AllSound
      <4> QED
        BY <1>4, <2>2, <4>1, SoundLater
    <3> QED
      BY <1>2, <2>4, <2>5, <3>1
  <2> QED
    BY <1>1, <1>2, <1>6, <1>7, <2>1, <2>4, <2>6 DEF HistoriesInv, TypeOK, AllSound
<1> QED
  BY <1>8, <1>9

LEMMA NextKeeps == HistoriesInv /\ [Next]_vars => HistoriesInv'
<1> SUFFICES ASSUME HistoriesInv, [Next]_vars PROVE HistoriesInv'
  OBVIOUS
<1>1. CASE \E h \in Readers, till \in Ids, force \in BOOLEAN, still \in Counts,
             D \in SUBSET Chats : ReadInboxTill(h, till, force, still, D)
  BY <1>1, ReadInboxTillKeeps, HistoriesAssumption
<1>2. CASE \E h \in Readers : ReadInbox(h)
  BY <1>2, RequestDialogEntryKeeps, HistoriesAssumption
<1>3. CASE \E D \in SUBSET Chats : ReadTimer(D)
  BY <1>3, ReadTimerKeeps
<1>4. CASE \E h \in Readers, till \in Ids, ask \in BOOLEAN : ReadElsewhere(h, till, ask)
  BY <1>4, ReadElsewhereKeeps, HistoriesAssumption
<1>5. CASE \E h \in Chats, type \in Types \ {"ReadInbox"} : SendRequest(h, type)
  BY <1>5, SendRequestKeeps
<1>6. CASE \E h \in Chats : \E r \in states[h].sent : Finish(h, r)
  BY <1>6, FinishKeeps
<1>7. CASE \E h \in Chats : \E r \in states[h].sent :
             \E refresh \in BOOLEAN, D \in SUBSET Chats : ReadFinished(h, r, refresh, D)
  BY <1>7, ReadFinishedKeeps
<1>8. CASE \E h \in Chats : \E r \in states[h].sent \cup states[h].postponed : CancelRequest(h, r)
  BY <1>8, CancelKeeps
<1>9. CASE \E h \in Chats : RequestDialogEntry(h)
  BY <1>9, RequestDialogEntryKeeps
<1>10. CASE SendDialogRequests
  BY <1>10, SendDialogRequestsKeeps
<1>11. CASE \E b \in batches, till \in 0 .. MaxId : DialogsDone(b, till)
  BY <1>11, DialogsDoneKeeps
<1>12. CASE \E h \in applying : ApplyEntry(h)
  BY <1>12, ApplyEntryKeeps
<1>13. CASE \E h \in settling : \E till \in 0 .. MaxId, still \in Counts, D \in SUBSET Chats :
              Callback(h, till, still, D)
  BY <1>13, CallbackKeeps
<1>14. CASE \E h \in settling : Settle(h)
  BY <1>14, SettleKeeps
<1>15. CASE UNCHANGED vars
  BY <1>15 DEF vars, loop, HistoriesInv, TypeOK, AllSound, RoomForReadings, ToRead, EntryIsAwaited
<1> QED
  BY <1>1, <1>2, <1>3, <1>4, <1>5, <1>6, <1>7, <1>8, <1>9, <1>10, <1>11, <1>12, <1>13, <1>14,
     <1>15 DEF Next

LEMMA HistoriesInvariant == Spec => []HistoriesInv
BY Initially, NextKeeps, PTL DEF Spec

----------------------------------------------------------------------------
(* Theorems.                                                               *)

(* The types of the members of Data::Histories.                            *)
THEOREM TypeCorrect == Spec => []TypeOK
<1>1. HistoriesInv => TypeOK
  BY DEF HistoriesInv
<1> QED
  BY <1>1, HistoriesInvariant, PTL

(* postponeHistoryRequest(): no part of a history is in flight together    *)
(* with a deletion in it, and none is left postponed after the last one.   *)
THEOREM PartsWait == Spec => []PartsWaitForDeletion
<1>1. HistoriesInv => PartsWaitForDeletion
  BY DEF HistoriesInv, AllSound, Sound, Waits, PartsWaitForDeletion
<1> QED
  BY <1>1, HistoriesInvariant, PTL

(* The assertions of sendReadRequest() and of its finished(): a reading is *)
(* always beyond those sent before it, although sentTill is forgotten when *)
(* an answer or an entry comes while older readings are still in flight.   *)
THEOREM ReadingsOnlyGrow == Spec => []ReadingsGrow
<1>1. HistoriesInv => ReadingsGrow
  <2> SUFFICES ASSUME HistoriesInv, NEW h \in Chats
               PROVE  /\ states[h].will # 0 => states[h].will > states[h].sentTill
                      /\ \A r \in states[h].sent :
                           r.type = "ReadInbox" /\ states[h].sentTill # r.till
                             => states[h].sentTill = 0 \/ states[h].sentTill > r.till
    BY DEF ReadingsGrow
  <2>1. Sound(states[h], readBefore[h], made) /\ states[h] \in State
    BY DEF HistoriesInv, AllSound, Sound
  <2>2. states[h].sentTill \in Nat /\ \A r \in states[h].sent : r.till \in Nat
    BY <2>1, StateFields, RequestFields
  <2> QED
    BY <2>1, <2>2 DEF Sound, Beyond, Readings
<1> QED
  BY <1>1, HistoriesInvariant, PTL

(* The assertions of finishSentRequest() on _dialogRequests and on         *)
(* _dialogRequestsPending; and whoever waits for an entry waits for a call *)
(* to come, for a request in the way or for an answer.                     *)
THEOREM EntriesAreAwaited == Spec => []EntryIsAwaited
<1>1. HistoriesInv => EntryIsAwaited
  BY DEF HistoriesInv
<1> QED
  BY <1>1, HistoriesInvariant, PTL
=============================================================================
