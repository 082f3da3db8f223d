----------------------------- MODULE Histories -----------------------------
(***************************************************************************)
(* Data::Histories of Telegram Desktop: the requests about a chat, in what *)
(* order they may be in flight, the reading of the inbox, and the refresh  *)
(* of the chat's entry in the list of dialogs.                             *)
(*                                                                         *)
(*  - Requests for parts of a history wait while a deletion is in flight,  *)
(*    those in flight are cancelled and repeated after it.                 *)
(*  - An entry that was asked for while something other than a part of the *)
(*    history is in flight is asked for again after it.                    *)
(*  - Reading is sent at once or some seconds later, a larger id replacing *)
(*    a smaller one; the entry is refreshed when the count is not known.   *)
(*                                                                         *)
(* It all runs on the main thread: a handler is one step, but for the loop *)
(* that applies the entries of an answer, where callbacks come back into   *)
(* the module; its turns precede everything else (Idle).  Answers come in  *)
(* any order; an answer and an error are handled alike, but the deletion   *)
(* of a channel is never finished.  An empty State is the same as none.    *)
(***************************************************************************)
EXTENDS Integers, FiniteSets

CONSTANTS Chats,        \* the histories
          Readers,      \* bound: those that are read in this instance
          Channels,     \* those that the user may delete as a channel
          MaxId,        \* bound: the largest id of a message
          MaxRequests,  \* bound: requests made (_requestAutoincrement)
          MaxEntries    \* bound: refreshes asked for from outside

ASSUME HistoriesAssumption ==
  /\ IsFiniteSet(Chats) /\ Readers \subseteq Chats /\ Channels \subseteq Chats
  /\ MaxId \in Nat \ {0} /\ MaxRequests \in Nat /\ MaxEntries \in Nat

Ids == 1 .. MaxId
(* Deleting a channel is a RequestType::Delete that nobody finishes.       *)
Types == {"History", "ReadInbox", "Delete", "DeleteChannel", "Send"}
Request == [n : 1 .. MaxRequests, type : Types, till : 0 .. MaxId]
Batch == [n : Nat, members : SUBSET Chats]

(* Histories::State; later tells whether willReadWhen is set, and sentDone *)
(* says nothing without a sentTill.                                        *)
State == [sent : SUBSET Request, postponed : SUBSET Request,
          will : 0 .. MaxId, later : BOOLEAN, sentTill : 0 .. MaxId,
          sentDone : BOOLEAN, entry : BOOLEAN]

NoState == [sent |-> {}, postponed |-> {}, will |-> 0, later |-> FALSE,
            sentTill |-> 0, sentDone |-> FALSE, entry |-> FALSE]

VARIABLES
  states,           \* _states
  made,             \* _requestAutoincrement
  readTimer,        \* _readRequestsTimer is active
  pending,          \* _dialogRequestsPending
  dialogs,          \* _dialogRequests
  callbacks,        \* those of the two with a callback of readInbox()
  calls,            \* postponed calls of sendDialogRequests() to come
  batches,          \* requests for dialog entries in flight
  applying,         \* the turns of the loop of finalize() to come
  settling,         \* the history dialogEntryApplied() is at work on
  readBefore,       \* History::_inboxReadBefore of each history, 1 if unknown
  entries           \* history: refreshes asked for, up to MaxEntries

loop == <<applying, settling>>
vars == <<states, made, readTimer, pending, dialogs, callbacks, calls, batches,
          loop, readBefore, entries>>

Init ==
  /\ states = [h \in Chats |-> NoState]
  /\ made = 0 /\ readTimer = FALSE
  /\ pending = {} /\ dialogs = {} /\ callbacks = {} /\ calls = 0
  /\ batches = {} /\ applying = {} /\ settling = {}
  /\ readBefore = [h \in Chats |-> 1]
  /\ entries = 0

(* The loop of finalize() has come to its end.                             *)
Idle == applying = {} /\ settling = {}

----------------------------------------------------------------------------
(* The requests of one history, as functions of its State s.               *)

(* postponeHistoryRequest() and postponeEntryRequest().                    *)
Deleting(sent) == \E r \in sent : r.type \in {"Delete", "DeleteChannel"}
OnlyHistory(sent) == \A r \in sent : r.type = "History"

(* Two requests of a history at a time have different numbers.             *)
Free(s) == CHOOSE n \in 1 .. MaxRequests : \A r \in s.sent \cup s.postponed : r.n # n

(* Mutant: parts of the history in flight are not cancelled by a deletion. *)
Sent_KeepsParts(s, r, asked) ==
  LET all == s.sent \cup {r}
  IN  IF r.type = "History" /\ Deleting(s.sent)
      THEN [s EXCEPT !.postponed = @ \cup {r}]
      ELSE [s EXCEPT !.sent = all, !.entry = @ \/ (asked /\ ~OnlyHistory(all))]

(* sendRequest(); asked: the entry of this history is in _dialogRequests.  *)
Sent(s, r, asked) ==
  LET parts(sent) == {q \in sent : q.type = "History"}
      all == s.sent \cup {r}
  IN  IF r.type = "History" /\ Deleting(s.sent)
      THEN [s EXCEPT !.postponed = @ \cup {r}]
      ELSE [s EXCEPT !.sent = IF Deleting(all) THEN all \ parts(all) ELSE all,
                     !.postponed = IF Deleting(all) THEN @ \cup parts(all) ELSE @,
                     !.entry = @ \/ (asked /\ ~OnlyHistory(all))]

(* sendReadRequest().                                                      *)
SentRead(s, asked) ==
  Sent([s EXCEPT !.sentTill = s.will, !.will = 0, !.later = FALSE,
                 !.sentDone = FALSE],
       [n |-> Free(s), type |-> "ReadInbox", till |-> s.will], asked)

(* finishSentRequest(): the request leaves, and postponed parts are sent.  *)
Left(s, r) ==
  LET rest == s.sent \ {r}
  IN  IF Deleting(rest) THEN [s EXCEPT !.sent = rest]
      ELSE [s EXCEPT !.sent = rest \cup s.postponed, !.postponed = {}]

(* postponeRequestDialogEntries(), when waiting is the new _pending.       *)
Calls(waiting) == IF Cardinality(waiting) > 1 THEN calls ELSE calls + 1

(* Mutant: the call that sends what is pending is not postponed.           *)
AskAgain_NoCall(S, h, s, P, C) ==
  LET again == s.entry /\ OnlyHistory(s.sent)
  IN  /\ states' = [S EXCEPT ![h] = [s EXCEPT !.entry = @ /\ ~again]]
      /\ pending' = IF again THEN P \cup {h} ELSE P
      /\ dialogs' = IF again THEN dialogs \ {h} ELSE dialogs
      /\ calls' = C

(* The end of finishSentRequest(): h is the history, s its State by then,  *)
(* S, P and C what the states, _pending and the calls have become.         *)
AskAgain(S, h, s, P, C) ==
  LET again == s.entry /\ OnlyHistory(s.sent)
  IN  /\ states' = [S EXCEPT ![h] = [s EXCEPT !.entry = @ /\ ~again]]
      /\ pending' = IF again THEN P \cup {h} ELSE P
      /\ dialogs' = IF again THEN dialogs \ {h} ELSE dialogs
      /\ calls' = IF again /\ P = {} THEN C + 1 ELSE C

(* requestDialogEntry().                                                   *)
NeedsEntry(h) == h \notin dialogs /\ h \notin pending
AskEntry(h) ==
  /\ entries < MaxEntries
  /\ entries' = entries + 1
  /\ pending' = IF NeedsEntry(h) THEN pending \cup {h} ELSE pending
  /\ calls' = IF NeedsEntry(h) THEN Calls(pending') ELSE calls

Larger(a, b) == IF a > b THEN a ELSE b

(* Mutant: one is added twice.                                             *)
ReadTill_PlusTwo(H, till) ==
  [h \in Chats |-> IF h \in H THEN Larger(readBefore[h], till + 2) ELSE readBefore[h]]

(* History::setInboxReadTill() for each history of H.                      *)
ReadTill(H, till) ==
  [h \in Chats |-> IF h \in H THEN Larger(readBefore[h], till + 1) ELSE readBefore[h]]

----------------------------------------------------------------------------
(* Reading.                                                                *)

(* sendReadRequests() when the times of the histories D have come, S being *)
(* the states: each of them sends a request.                               *)
Due(S, D) ==
  /\ D \subseteq {h \in Chats : S[h].will # 0}
  /\ \A h \in Chats : S[h].will # 0 /\ ~S[h].later => h \in D
ReadStates(S, D) ==
  [h \in Chats |-> IF h \in D THEN SentRead(S[h], h \in dialogs) ELSE S[h]]

(* Mutant: the timer is cancelled although something is left for later.    *)
SendReadRequests_CancelsTimer(S, D) ==
  Due(S, D) /\ made' = made + Cardinality(D) /\ readTimer' = FALSE

SendReadRequests(S, D) ==
  /\ Due(S, D)
  /\ made' = made + Cardinality(D)
  /\ readTimer' = \E h \in Chats \ D : S[h].will # 0

(* What readInboxTill() does when it does not return early; still stands   *)
(* for countStillUnreadLocal(): not known, none, some, or as many as before.*)
Reads(h, till, force, still, D) ==
  LET s == states[h]
      needsRequest == readBefore[h] <= till
      now == [states EXCEPT ![h].will = till, ![h].later = FALSE]
  IN  /\ made + Cardinality({g \in Chats : states[g].will # 0}) < MaxRequests
      /\ needsRequest \/ force
      /\ s.sentTill < till
      /\ \/ /\ s.will >= till /\ force /\ s.later
            /\ LET S == [states EXCEPT ![h].later = FALSE]
               IN  SendReadRequests(S, D) /\ states' = ReadStates(S, D)
            /\ UNCHANGED readBefore
         \/ /\ s.will < till /\ (needsRequest \/ s.will # 0)
            /\ still = "same" /\ ~force /\ D = {}
            /\ readBefore' = ReadTill({h}, till)
            /\ UNCHANGED <<states, made, readTimer>>
         \/ /\ s.will < till /\ (needsRequest \/ s.will # 0)
            /\ force \/ still \in {"unknown", "none"}
            /\ SendReadRequests(now, D) /\ states' = ReadStates(now, D)
            /\ readBefore' = IF still = "unknown" THEN readBefore ELSE ReadTill({h}, till)
         \/ /\ s.will < till /\ (needsRequest \/ s.will # 0)
            /\ ~force /\ still = "some" /\ D = {}
            /\ states' = [states EXCEPT ![h].will = till, ![h].later = TRUE]
            /\ readTimer' = (readTimer \/ ~s.later)
            /\ readBefore' = ReadTill({h}, till)
            /\ UNCHANGED made

Counts == {"unknown", "none", "some", "same"}

(* readInboxTill(), and readInbox() when the last message is known.        *)
ReadInboxTill(h, till, force, still, D) ==
  /\ Idle
  /\ Reads(h, till, force, still, D)
  /\ UNCHANGED <<pending, dialogs, callbacks, calls, batches, loop, entries>>

(* readInbox() when it is not: the entry is requested with a callback.     *)
ReadInbox(h) ==
  /\ Idle
  /\ AskEntry(h)
  /\ callbacks' = callbacks \cup {h}
  /\ UNCHANGED <<states, made, readTimer, dialogs, batches, loop, readBefore>>

(* The timer: the time of at least one history has come.                   *)
ReadTimer(D) ==
  /\ Idle
  /\ readTimer
  /\ D # {}
  /\ SendReadRequests(states, D)
  /\ states' = ReadStates(states, D)
  /\ UNCHANGED <<pending, dialogs, callbacks, calls, batches, loop, readBefore, entries>>

(* Mutant: the entry is refreshed only when the count is not known.        *)
RefreshNeeded_Known(h, till) == FALSE

(* unreadCountRefreshNeeded(), when the count is known.                    *)
RefreshNeeded(h, till) == till + 1 > readBefore[h]

(* finished() of sendReadRequest(): it may ask for the entry, sends what   *)
(* is due and only then finishes its own request.  refresh is true also    *)
(* when the unread count is not known.                                     *)
ReadFinished(h, r, refresh, D) ==
  LET own == states[h].sentTill = r.till
      ask == own /\ refresh /\ NeedsEntry(h)
      S == [states EXCEPT ![h].sentDone = @ \/ (own /\ refresh),
                          ![h].sentTill = IF own /\ ~refresh THEN 0 ELSE @]
      P == IF ask THEN pending \cup {h} ELSE pending
  IN  /\ Idle /\ r.type = "ReadInbox"
      /\ RefreshNeeded(h, r.till) => refresh
      /\ SendReadRequests(S, D)
      /\ AskAgain(ReadStates(S, D), h, Left(ReadStates(S, D)[h], r), P, IF ask THEN Calls(P) ELSE calls)
      /\ UNCHANGED <<callbacks, batches, loop, readBefore, entries>>

(* An update says that the inbox was read on another device.  The entry is *)
(* requested when the folder is not right, or the count not known.         *)
ReadElsewhere(h, till, ask) ==
  /\ Idle
  /\ readBefore[h] <= till \/ ask
  /\ readBefore' = ReadTill({h}, till)
  /\ IF ask THEN AskEntry(h) ELSE UNCHANGED <<pending, calls, entries>>
  /\ UNCHANGED <<states, made, readTimer, dialogs, callbacks, batches, loop>>

----------------------------------------------------------------------------
(* Other requests.                                                         *)

SendRequest(h, type) ==
  /\ Idle
  /\ type = "DeleteChannel" => h \in Channels
  /\ made + Cardinality({g \in Chats : states[g].will # 0}) < MaxRequests
  /\ made' = made + 1
  /\ states' = [states EXCEPT ![h] =
                  Sent(@, [n |-> Free(@), type |-> type, till |-> 0], h \in dialogs)]
  /\ UNCHANGED <<readTimer, pending, dialogs, callbacks, calls, batches, loop, readBefore,
                 entries>>

(* finish() of a request that is not a reading: checkPostponed().  Neither *)
(* the answer nor the error of deleting a channel calls it.                *)
Finish(h, r) ==
  /\ Idle
  /\ r.type \notin {"ReadInbox", "DeleteChannel"}
  /\ AskAgain(states, h, Left(states[h], r), pending, calls)
  /\ UNCHANGED <<made, readTimer, callbacks, batches, loop, readBefore, entries>>

(* cancelRequest() for a part of a history, in flight or postponed.        *)
CancelRequest(h, r) ==
  /\ Idle
  /\ r.type = "History"
  /\ AskAgain(states, h, Left([states[h] EXCEPT !.postponed = @ \ {r}], r), pending, calls)
  /\ UNCHANGED <<made, readTimer, callbacks, batches, loop, readBefore, entries>>

----------------------------------------------------------------------------
(* The entries of the list of dialogs.                                     *)

(* requestDialogEntry() for a new message, a lost folder and the like.     *)
RequestDialogEntry(h) ==
  /\ Idle
  /\ AskEntry(h)
  /\ UNCHANGED <<states, made, readTimer, dialogs, callbacks, batches, loop, readBefore>>

NewBatch == CHOOSE n \in 1 .. Cardinality(batches) + 1 : \A b \in batches : b.n # n

(* All pending histories move on; those with a request in the way are left *)
(* out of the request and marked instead.                                  *)
SendDialogRequests ==
  LET free == {h \in pending : OnlyHistory(states[h].sent)}
  IN  /\ Idle
      /\ calls > 0
      /\ calls' = calls - 1
      /\ IF pending = {}
         THEN UNCHANGED <<states, dialogs, batches>>
         ELSE /\ states' = [h \in Chats |-> [states[h] EXCEPT
                              !.entry = @ \/ h \in pending \ free]]
              /\ dialogs' = dialogs \cup pending
              /\ batches' = batches \cup {[n |-> NewBatch, members |-> free]}
      /\ pending' = {}
      /\ UNCHANGED <<made, readTimer, callbacks, loop, readBefore, entries>>

(* The answer to sendDialogRequests(), with or without dialogs read up to  *)
(* an id; finalize() then goes through the members of the request.         *)
DialogsDone(b, till) ==
  /\ Idle
  /\ batches' = batches \ {b}
  /\ readBefore' = ReadTill(b.members, till)
  /\ applying' = b.members
  /\ UNCHANGED <<states, made, readTimer, pending, dialogs, callbacks, calls,
                 settling, entries>>

(* Mutant: an entry marked to be asked for again is taken as applied.      *)
ApplyEntry_Marked(h) ==
  /\ settling = {}
  /\ applying' = applying \ {h}
  /\ pending' = pending \ {h} /\ dialogs' = dialogs \ {h} /\ settling' = {h}
  /\ UNCHANGED <<states, made, readTimer, callbacks, calls, batches, readBefore, entries>>

(* A turn of finalize(): dialogEntryApplied(), unless the entry is to be   *)
(* asked for again, takes the callbacks out of the two maps, ...           *)
ApplyEntry(h) ==
  /\ settling = {}
  /\ applying' = applying \ {h}
  /\ IF states[h].entry
     THEN UNCHANGED <<pending, dialogs, settling>>
     ELSE pending' = pending \ {h} /\ dialogs' = dialogs \ {h} /\ settling' = {h}
  /\ UNCHANGED <<states, made, readTimer, callbacks, calls, batches, readBefore, entries>>

(* ... calls them: readInbox() reads till the last message, 0 if none, ... *)
Callback(h, till, still, D) ==
  /\ h \in callbacks
  /\ callbacks' = callbacks \ {h}
  /\ \/ till = 0 /\ UNCHANGED <<states, made, readTimer, readBefore>>
     \/ till # 0 /\ Reads(h, till, FALSE, still, D)
  /\ UNCHANGED <<pending, dialogs, calls, batches, loop, entries>>

(* ... and takes what has been sent for read.                              *)
Settle(h) ==
  LET done == states[h].sentTill # 0 /\ states[h].sentDone
  IN  /\ h \notin callbacks
      /\ settling' = {}
      /\ readBefore' = IF done THEN ReadTill({h}, states[h].sentTill) ELSE readBefore
      /\ states' = IF done THEN [states EXCEPT ![h].sentTill = 0, ![h].sentDone = FALSE]
                   ELSE states
      /\ UNCHANGED <<made, readTimer, pending, dialogs, callbacks, calls, batches,
                     applying, entries>>

Next ==
  \/ \E h \in Readers, till \in Ids, force \in BOOLEAN, still \in Counts, D \in SUBSET Chats :
        ReadInboxTill(h, till, force, still, D)
  \/ \E h \in Readers : ReadInbox(h)
  \/ \E D \in SUBSET Chats : ReadTimer(D)
  \/ \E h \in Readers, till \in Ids, ask \in BOOLEAN : ReadElsewhere(h, till, ask)
  \/ \E h \in Chats, type \in Types \ {"ReadInbox"} : SendRequest(h, type)
  \/ \E h \in Chats : \E r \in states[h].sent :
        \/ Finish(h, r)
        \/ \E refresh \in BOOLEAN, D \in SUBSET Chats : ReadFinished(h, r, refresh, D)
  \/ \E h \in Chats : \E r \in states[h].sent \cup states[h].postponed :
        CancelRequest(h, r)
  \/ \E h \in Chats : RequestDialogEntry(h)
  \/ SendDialogRequests
  \/ \E b \in batches, till \in 0 .. MaxId :
        (b.members \cap Readers = {} => till = 0) /\ DialogsDone(b, till)
  \/ \E h \in applying : ApplyEntry(h)
  \/ \E h \in settling :
        \/ \E till \in 0 .. MaxId, still \in Counts, D \in SUBSET Chats :
              Callback(h, till, still, D)
        \/ Settle(h)

(* Answers come, timers fire, postponed calls are made and the loop ends.  *)
Fairness ==
  /\ WF_vars(\E D \in SUBSET Chats : ReadTimer(D))
  /\ WF_vars(\E h \in Chats : \E r \in states[h].sent :
        \/ Finish(h, r)
        \/ \E refresh \in BOOLEAN, D \in SUBSET Chats : ReadFinished(h, r, refresh, D))
  /\ WF_vars(SendDialogRequests)
  /\ WF_vars(\E b \in batches, till \in 0 .. MaxId : DialogsDone(b, till))
  /\ WF_vars(\/ \E h \in applying : ApplyEntry(h)
             \/ \E h \in settling :
                   \/ \E till \in 0 .. MaxId, still \in Counts, D \in SUBSET Chats :
                         Callback(h, till, still, D)
                   \/ Settle(h))

Spec == Init /\ [][Next]_vars /\ Fairness

----------------------------------------------------------------------------
(* Properties.                                                             *)

(* The types of the members of Data::Histories.                            *)
TypeOK ==
  /\ states \in [Chats -> State]
  /\ made \in 0 .. MaxRequests /\ entries \in 0 .. MaxEntries /\ calls \in Nat
  /\ readTimer \in BOOLEAN
  /\ pending \subseteq Chats /\ dialogs \subseteq Chats /\ batches \subseteq Batch
  /\ applying \subseteq Chats /\ settling \subseteq Chats /\ callbacks \subseteq Chats
  /\ readBefore \in [Chats -> 1 .. MaxId + 1]

(* A part of a history is never in flight together with a deletion in it,  *)
(* and is postponed only while one is (postponeHistoryRequest()).          *)
PartsWaitForDeletion ==
  \A h \in Chats :
    LET s == states[h]
    IN  IF Deleting(s.sent) THEN \A r \in s.sent : r.type # "History"
        ELSE s.postponed = {}

(* What sendReadRequest() and its finished() assert: a reading that is to  *)
(* be sent goes beyond the last one sent, and when an answer comes, nothing*)
(* smaller than its id has been sent after it.                             *)
ReadingsGrow ==
  \A h \in Chats :
    LET s == states[h]
    IN  /\ s.will # 0 => s.will > s.sentTill
        /\ \A r \in s.sent : r.type = "ReadInbox" /\ s.sentTill # r.till
             => s.sentTill = 0 \/ s.sentTill > r.till

(* The assertions of finishSentRequest() on the two maps, and that whoever *)
(* waits for an entry waits for something: a call to come, a request that  *)
(* holds the entry up, or the answer to a request for entries, in flight   *)
(* or being applied; and no callback of readInbox() waits without entry.   *)
EntryIsAwaited ==
  /\ pending \cap dialogs = {}
  /\ pending # {} => calls > 0
  /\ \A h \in Chats : states[h].entry => h \in dialogs /\ ~OnlyHistory(states[h].sent)
  /\ \A h \in dialogs :
       states[h].entry \/ h \in applying \/ \E b \in batches : h \in b.members
  /\ callbacks \subseteq pending \cup dialogs \cup settling

(* The callbacks of requestDialogEntry() are called in the end, unless the *)
(* chat is being deleted as a channel, which is never finished.            *)
BeingDeleted(h) == \E r \in states[h].sent : r.type = "DeleteChannel"
EntryArrives ==
  \A h \in Chats :
    h \in pending \cup dialogs ~> h \notin pending \cup dialogs \/ BeingDeleted(h)

(* What has been read is sent to the server in the end, one way or another.*)
ReadIsSent == \A h \in Chats : states[h].will # 0 ~> states[h].will = 0
=============================================================================
