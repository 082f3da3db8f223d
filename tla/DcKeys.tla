------------------------------- MODULE DcKeys -------------------------------
(***************************************************************************)
(* The authorization keys of one datacenter: the Dcenter, shared by the    *)
(* sessions (each in a thread of its own), the right to create a key that  *)
(* they take from it, the binding of a new temporary key to the persistent *)
(* one, the loss of keys, and the messages by which the main thread tells  *)
(* the sessions of a change.                                               *)
(*                                                                         *)
(* Calls of the Dcenter are atomic; checkAuthKey(), which makes several,   *)
(* is cut between them (phases "look" and "acquire"), and so is a session  *)
(* that has changed the keys of the Dcenter and is about to tell the main  *)
(* thread.  A connection is always found; what requests a session sends    *)
(* with its key is left out, and so are CDN datacenters, the instance that *)
(* destroys old keys, and sessions that are stopped for a while.           *)
(***************************************************************************)
EXTENDS Integers, Sequences

CONSTANTS Sessions,     \* the sessions of the datacenter
          Downloaders,  \* those of them whose shift is that of a media cluster
          MaxKeys,      \* bound: temporary keys made, once the persistent is revoked
          MaxReports,   \* bound: calls queued when a lost key is reported
          FaultPlans    \* bound: the sets of faults one of which may happen

FaultNames == {"creation", "bind", "young", "disconnect", "revoke", "forget", "options", "kill"}

ASSUME KeysAssumption ==
  /\ Downloaders \subseteq Sessions /\ MaxKeys \in Nat /\ MaxReports \in Nat
  /\ FaultPlans \subseteq SUBSET FaultNames

None == 0
Kinds == {"regular", "media"}
Creating == {"none", "persistent", "regular", "media"}
Index(creating) == IF creating = "media" THEN "media" ELSE "regular"

Persistent == Nat \ {0}
NoKey == [n |-> None, kind |-> "regular", perm |-> None]
Temporary == [n : Nat \ {0}, kind : Kinds, perm : Persistent]

(* What the main thread is told: dcTemporaryKeyChanged,                    *)
(* dcPersistentKeyChanged or keyDestroyedOnServer.                         *)
Report == [call : {"changed"}] \cup [call : {"persistent", "destroyed"}, key : Persistent]
NoReport == [call |-> "none"]

VARIABLES
  persistent,       \* Dcenter::_persistentKey
  temp,             \* Dcenter::_temporaryKeys
  creating,         \* Dcenter::_creatingKeys
  sess,             \* for each session, the fields named by Session below
  main,             \* calls queued for the main thread
  todo,             \* calls queued for each session's thread
  saved,            \* Instance::Private::_keysForWrite
  mediaOnly,        \* DcOptions: the datacenter has media only addresses
  revoked,          \* external: persistent keys the server has destroyed
  forgotten,        \* external: numbers of the temporary keys it has lost
  persistents, temporaries, \* keys made so far
  faults            \* faults that may still happen, each of them once

dc == <<persistent, temp, creating>>
server == <<mediaOnly, revoked, forgotten>>
made == <<persistents, temporaries>>
vars == <<dc, sess, main, todo, saved, server, made, faults>>

(* my is Session::_myKeyCreation and tells whether there is a _keyCreator, *)
(* binder is the persistent key to bind to, key is the one of _keyId and   *)
(* enc _encryptionKey, bind tells what has become of the bind request, and *)
(* report is what the thread is to queue for the main thread next.         *)
Session ==
  [life : {"alive", "detached", "gone"},
   phase : {"off", "connecting", "look", "acquire", "on"},
   real : Kinds, cur : Kinds,
   key : Temporary \cup {NoKey}, enc : Temporary \cup {NoKey},
   my : Creating, binder : Persistent \cup {None},
   bind : {"none", "sent", "done", "destroyed", "failed"},
   report : Report \cup {NoReport}]

(* DcOptions::dcType, for the types that are modelled. *)
DcType(x) == IF x \in Downloaders /\ mediaOnly THEN "media" ELSE "regular"

Init ==
  /\ persistent \in {None, 1} /\ persistents = persistent /\ saved = persistent
  /\ temp = [i \in Kinds |-> NoKey]
  /\ creating = [i \in Kinds |-> FALSE]
  /\ mediaOnly \in BOOLEAN
  /\ sess = [x \in Sessions |->
       [life |-> "alive", phase |-> "off", real |-> DcType(x), cur |-> DcType(x),
        key |-> NoKey, enc |-> NoKey, my |-> "none", binder |-> None, bind |-> "none",
        report |-> NoReport]]
  /\ main = <<>> /\ todo = [x \in Sessions |-> <<>>]
  /\ revoked = {} /\ forgotten = {} /\ temporaries = 0 /\ faults \in FaultPlans

Fault(f) == f \in faults /\ faults' = faults \ {f}
Alive(x) == sess[x].life = "alive"
Runs(x) == Alive(x) /\ sess[x].report = NoReport
Creator(s) == s.my # "none"

-----------------------------------------------------------------------------
(* The Dcenter.                                                            *)

(* A mutant: the exchange of the flag does not compare. *)
AcquireKeyCreation_Always(kind) ==
  IF temp[kind] # NoKey THEN "none"
  ELSE IF persistent = None THEN "persistent"
  ELSE IF temp["regular"] # NoKey THEN kind ELSE "regular"

AcquireKeyCreation(kind) ==
  IF temp[kind] # NoKey THEN "none"
  ELSE LET index == IF temp["regular"] # NoKey THEN kind ELSE "regular"
       IN  IF creating[index] THEN "none"
           ELSE IF index = "regular" /\ persistent = None THEN "persistent" ELSE index

Acquired(my) ==
  IF my = "none" THEN creating ELSE [creating EXCEPT ![Index(my)] = TRUE]

(* A mutant: the flag is not given back. *)
ReleaseKeyCreationOnFail_Keeps(my) == creating

ReleaseKeyCreationOnFail(my) ==
  IF my = "none" THEN creating ELSE [creating EXCEPT ![Index(my)] = FALSE]

-----------------------------------------------------------------------------
(* Parts of the steps of a session.                                        *)

Disconnected(s) == [s EXCEPT !.phase = "off", !.bind = "none"]

WithoutCreator(s) == [s EXCEPT !.my = "none", !.binder = None]

(* destroyTemporaryKey: the creation is given up, the key is forgotten by  *)
(* the Dcenter too, if it has it, and the session starts again.            *)
DestroyTemporaryKey(x, s) ==
  LET bad == {i \in Kinds : s.enc # NoKey /\ temp[i] = s.enc}
  IN  /\ creating' = ReleaseKeyCreationOnFail(s.my)
      /\ temp' = [i \in Kinds |-> IF i \in bad THEN NoKey ELSE temp[i]]
      /\ sess' = [sess EXCEPT ![x] =
           [WithoutCreator(Disconnected(s)) EXCEPT
              !.key = NoKey, !.enc = NoKey,
              !.report = IF bad = {} THEN NoReport ELSE [call |-> "changed"]]]
      /\ UNCHANGED <<persistent, main>>

(* InvokeQueued, after the Dcenter has been unlocked. *)
TellMain(x) ==
  /\ Alive(x) /\ sess[x].report # NoReport
  /\ main' = Append(main, sess[x].report)
  /\ sess' = [sess EXCEPT ![x].report = NoReport]
  /\ UNCHANGED <<dc, todo, saved, server, made, faults>>

(* tryAcquireKeyCreation: the session as the call leaves it, and the type  *)
(* of datacenter it is to work with.                                       *)
TryAcquire(s) ==
  IF Creator(s) THEN s ELSE [s EXCEPT !.my = AcquireKeyCreation(s.real)]
TypeToUse(s, t) ==
  IF Creator(s) THEN s.cur ELSE IF Creator(t) THEN Index(t.my) ELSE t.real

-----------------------------------------------------------------------------
(* Connecting.                                                             *)

ConnectToServer(x) ==
  LET s == [sess[x] EXCEPT !.real = DcType(x)]
      t == TryAcquire(s)
  IN  /\ Runs(x) /\ s.phase = "off"
      /\ \/ /\ s.real # sess[x].real /\ Creator(s)
            /\ DestroyTemporaryKey(x, s)
         \/ /\ ~(s.real # sess[x].real /\ Creator(s))
            /\ sess' = [sess EXCEPT ![x] = [t EXCEPT !.cur = TypeToUse(s, t), !.phase = "connecting"]]
            /\ creating' = Acquired(t.my)
            /\ UNCHANGED <<persistent, temp, main>>
      /\ UNCHANGED <<todo, saved, server, made, faults>>

(* applyAuthKey, in a session with a connection: without a key it goes on  *)
(* to look for one to create.                                              *)
ApplyAuthKey(s, key) ==
  IF s.key = key /\ key # NoKey THEN s
  ELSE IF s.key # NoKey THEN [Disconnected(s) EXCEPT !.key = NoKey, !.enc = key]
  ELSE [s EXCEPT !.key = key, !.enc = key, !.phase = IF key = NoKey THEN "look" ELSE "on"]

(* confirmBestConnection and checkAuthKey. *)
CheckAuthKey(x) ==
  LET s == sess[x]
  IN  /\ Runs(x) /\ s.phase = "connecting"
      /\ sess' = [sess EXCEPT ![x] =
           IF s.key # NoKey THEN [s EXCEPT !.phase = "on"] ELSE ApplyAuthKey(s, temp[s.cur])]
      /\ UNCHANGED <<dc, main, todo, saved, server, made, faults>>

NoMediaKeyWithExistingRegularKey(x) ==
  /\ Runs(x) /\ sess[x].phase = "look"
  /\ sess' = [sess EXCEPT ![x].phase =
       IF sess[x].cur = "media" /\ temp["regular"] # NoKey THEN "acquire" ELSE "on"]
  /\ UNCHANGED <<dc, main, todo, saved, server, made, faults>>

AcquireForMedia(x) ==
  LET s == sess[x]
      t == TryAcquire(s)
  IN  /\ Runs(x) /\ s.phase = "acquire"
      /\ sess' = [sess EXCEPT ![x] =
           IF Creator(t) /\ TypeToUse(s, t) # s.cur THEN Disconnected(t)
           ELSE [t EXCEPT !.phase = "on"]]
      /\ creating' = Acquired(t.my)
      /\ UNCHANGED <<persistent, temp, main, todo, saved, server, made, faults>>

-----------------------------------------------------------------------------
(* Creating and binding a key.                                             *)

Started(s) == s.phase = "on" /\ Creator(s) /\ s.key = NoKey

(* A mutant: the persistent key is taken to be there still. *)
UnboundReady_NoCheck(x) ==
  LET s == sess[x]
      perm == IF s.my = "persistent" THEN persistents + 1 ELSE persistent
      key == [n |-> temporaries + 1, kind |-> Index(s.my), perm |-> perm]
  IN  /\ Runs(x) /\ Started(s) /\ (revoked = {} \/ temporaries < MaxKeys)
      /\ persistents' = IF s.my = "persistent" THEN perm ELSE persistents
      /\ temporaries' = temporaries + 1
      /\ sess' = [sess EXCEPT ![x] = ApplyAuthKey([s EXCEPT !.binder = perm], key)]
      /\ UNCHANGED <<dc, main, todo, saved, server, faults>>

(* unboundReady: a temporary key is made, with a persistent one if that    *)
(* was to be created; otherwise the persistent key may be gone by now.     *)
UnboundReady(x) ==
  LET s == sess[x]
      perm == IF s.my = "persistent" THEN persistents + 1 ELSE persistent
      key == [n |-> temporaries + 1, kind |-> Index(s.my), perm |-> perm]
  IN  /\ Runs(x) /\ Started(s) /\ (revoked = {} \/ temporaries < MaxKeys)
      /\ persistents' = IF s.my = "persistent" THEN perm ELSE persistents
      /\ temporaries' = temporaries + 1
      /\ \/ /\ perm = None
            /\ creating' = ReleaseKeyCreationOnFail(s.my)
            /\ sess' = [sess EXCEPT ![x] = WithoutCreator(Disconnected(s))]
         \/ /\ perm # None
            /\ sess' = [sess EXCEPT ![x] = ApplyAuthKey([s EXCEPT !.binder = perm], key)]
            /\ UNCHANGED creating
      /\ UNCHANGED <<persistent, temp, main, todo, saved, server, faults>>

CreationFails(x) ==
  /\ Runs(x) /\ Started(sess[x]) /\ Fault("creation")
  /\ creating' = ReleaseKeyCreationOnFail(sess[x].my)
  /\ sess' = [sess EXCEPT ![x] = WithoutCreator(Disconnected(sess[x]))]
  /\ UNCHANGED <<persistent, temp, main, todo, saved, server, made>>

SendBind(x) ==
  LET s == sess[x]
  IN  /\ Runs(x) /\ s.phase = "on" /\ s.key # NoKey /\ s.binder # None /\ s.bind = "none"
      /\ sess' = [sess EXCEPT ![x].bind = "sent"]
      /\ UNCHANGED <<dc, main, todo, saved, server, made, faults>>

(* External: the server answers, by what it knows when it is asked. *)
ServerBinds(x) ==
  LET s == sess[x]
  IN  /\ Runs(x) /\ s.bind = "sent"
      /\ \/ /\ sess' = [sess EXCEPT ![x].bind =
                 IF s.binder \in revoked THEN "destroyed" ELSE "done"]
            /\ UNCHANGED faults
         \/ /\ Fault("bind")
            /\ sess' = [sess EXCEPT ![x].bind = "failed"]
      /\ UNCHANGED <<dc, main, todo, saved, server, made>>

(* The session whose key is bound is to tell which of them has changed.    *)
Bound(s) ==
  [WithoutCreator(s) EXCEPT
     !.bind = "none",
     !.report = IF s.my = "persistent" THEN [call |-> "persistent", key |-> s.binder]
                ELSE [call |-> "changed"]]

(* A mutant: the persistent key is not compared with the one bound to. *)
BindDone_NoCompare(x) ==
  LET s == sess[x]
      i == Index(s.my)
  IN  /\ Runs(x) /\ s.bind = "done"
      /\ persistent' = IF s.my = "persistent" THEN s.binder ELSE persistent
      /\ temp' = [temp EXCEPT ![i] = s.enc]
      /\ creating' = [creating EXCEPT ![i] = FALSE]
      /\ sess' = [sess EXCEPT ![x] = Bound(s)]
      /\ UNCHANGED <<main, todo, saved, server, made, faults>>

(* handleBindResponse, Success: releaseKeyCreationOnDone sets the keys, or *)
(* refuses when the persistent key is not the one that was bound to; the   *)
(* session has given its _keyCreator away by then.                         *)
BindDone(x) ==
  LET s == sess[x]
      i == Index(s.my)
  IN  /\ Runs(x) /\ s.bind = "done"
      /\ \/ /\ s.my = "persistent" \/ persistent = s.binder
            /\ persistent' = s.binder
            /\ temp' = [temp EXCEPT ![i] = s.enc]
            /\ creating' = [creating EXCEPT ![i] = FALSE]
            /\ sess' = [sess EXCEPT ![x] = Bound(s)]
            /\ UNCHANGED main
         \/ /\ s.my # "persistent" /\ persistent # s.binder
            /\ DestroyTemporaryKey(x, WithoutCreator(s))
      /\ UNCHANGED <<todo, saved, server, made, faults>>

(* DefinitelyDestroyed: unless the persistent key is too young to believe  *)
(* it, the main thread is told and the session starts again.               *)
BindDestroyed(x) ==
  LET s == sess[x]
  IN  /\ Runs(x) /\ s.bind = "destroyed"
      /\ \/ /\ Len(main) < MaxReports
            /\ creating' = ReleaseKeyCreationOnFail(s.my)
            /\ sess' = [sess EXCEPT ![x] =
                 [WithoutCreator(Disconnected(s)) EXCEPT !.key = NoKey, !.enc = NoKey]]
            /\ main' = Append(main, [call |-> "destroyed", key |-> s.binder])
            /\ UNCHANGED <<persistent, temp, faults>>
         \/ /\ Fault("young")
            /\ sess' = [sess EXCEPT ![x].bind = "none"]
            /\ UNCHANGED <<dc, main>>
      /\ UNCHANGED <<todo, saved, server, made>>

BindFailed(x) ==
  /\ Runs(x) /\ sess[x].bind = "failed"
  /\ sess' = [sess EXCEPT ![x].bind = "none"]
  /\ UNCHANGED <<dc, main, todo, saved, server, made, faults>>

-----------------------------------------------------------------------------
(* What the network, the server and the user do to a session.              *)

Disconnect(x) ==
  /\ Runs(x) /\ sess[x].phase \in {"connecting", "on"} /\ Fault("disconnect")
  /\ sess' = [sess EXCEPT ![x] = Disconnected(sess[x])]
  /\ UNCHANGED <<dc, main, todo, saved, server, made>>

(* External: the server does not know the key: it belongs to the other     *)
(* kind of datacenter, it is lost, or it was bound to a persistent key that*)
(* has been destroyed.                                                     *)
Unknown(s) ==
  \/ s.key.kind # s.cur \/ s.key.n \in forgotten
  \/ (s.binder = None /\ s.key.perm \in revoked)

(* The error -404 in a session that uses a key, or AUTH_KEY_PERM_EMPTY.    *)
KeyRejected(x) ==
  LET s == sess[x]
  IN  /\ Runs(x) /\ s.phase = "on" /\ s.key # NoKey /\ Unknown(s)
      /\ DestroyTemporaryKey(x, s)
      /\ UNCHANGED <<todo, saved, server, made, faults>>

(* External: the user ends this session from another device. *)
Revoke ==
  /\ persistent \notin revoked \cup {None} /\ Fault("revoke")
  /\ revoked' = revoked \cup {persistent}
  /\ UNCHANGED <<dc, sess, main, todo, saved, mediaOnly, forgotten, made>>

(* External: the server loses a temporary key, as it does with old ones. *)
Forget ==
  /\ \E i \in Kinds : temp[i] # NoKey /\ temp[i].n \notin forgotten
                     /\ forgotten' = forgotten \cup {temp[i].n}
  /\ Fault("forget")
  /\ UNCHANGED <<dc, sess, main, todo, saved, mediaOnly, revoked, made>>

OptionsChange ==
  /\ Fault("options")
  /\ mediaOnly' = ~mediaOnly
  /\ UNCHANGED <<dc, sess, main, todo, saved, revoked, forgotten, made>>

(* Session::kill cuts the connection's thread off; ~Session gives back the *)
(* right to create a key.                                                  *)
Kill(x) ==
  /\ Runs(x) /\ Fault("kill")
  /\ sess' = [sess EXCEPT ![x] = [Disconnected(sess[x]) EXCEPT !.life = "detached"]]
  /\ todo' = [todo EXCEPT ![x] = <<>>]
  /\ UNCHANGED <<dc, main, saved, server, made>>

Destroy(x) ==
  /\ sess[x].life = "detached"
  /\ creating' = ReleaseKeyCreationOnFail(sess[x].my)
  /\ sess' = [sess EXCEPT ![x] = [WithoutCreator(sess[x]) EXCEPT !.life = "gone"]]
  /\ UNCHANGED <<persistent, temp, main, todo, saved, server, made, faults>>

-----------------------------------------------------------------------------
(* The main thread, and what it has the sessions do.                       *)

Tell(calls) == [x \in Sessions |-> IF Alive(x) THEN todo[x] \o calls ELSE todo[x]]

TemporaryKeyChanged ==
  /\ main # <<>> /\ Head(main).call = "changed"
  /\ main' = Tail(main)
  /\ todo' = Tell(<<"updateAuthKey">>)
  /\ UNCHANGED <<dc, sess, saved, server, made, faults>>

(* A mutant: the file of keys is not told. *)
PersistentKeyChanged_NotSaved ==
  /\ main # <<>> /\ Head(main).call = "persistent"
  /\ main' = Tail(main)
  /\ todo' = Tell(<<"updateAuthKey">>)
  /\ UNCHANGED <<dc, sess, saved, server, made, faults>>

PersistentKeyChanged ==
  /\ main # <<>> /\ Head(main).call = "persistent"
  /\ main' = Tail(main)
  /\ todo' = Tell(<<"updateAuthKey">>)
  /\ saved' = Head(main).key
  /\ UNCHANGED <<dc, sess, server, made, faults>>

KeyDestroyedOnServer ==
  /\ main # <<>> /\ Head(main).call = "destroyed"
  /\ main' = Tail(main)
  /\ \/ /\ persistent = Head(main).key
        /\ persistent' = None
        /\ temp' = [i \in Kinds |-> NoKey]
        /\ saved' = None
        /\ todo' = Tell(<<"updateAuthKey", "restartNow">>)
     \/ /\ persistent # Head(main).key
        /\ todo' = Tell(<<"restartNow">>)
        /\ UNCHANGED <<persistent, temp, saved>>
  /\ UNCHANGED <<creating, sess, server, made, faults>>

UpdateAuthKey(x) ==
  LET s == sess[x]
  IN  /\ Runs(x) /\ s.phase \notin {"look", "acquire"}
      /\ todo[x] # <<>> /\ Head(todo[x]) = "updateAuthKey"
      /\ todo' = [todo EXCEPT ![x] = Tail(@)]
      /\ sess' = [sess EXCEPT ![x] =
           IF Creator(s) \/ s.phase # "on" THEN s ELSE ApplyAuthKey(s, temp[s.cur])]
      /\ UNCHANGED <<dc, main, saved, server, made, faults>>

RestartNow(x) ==
  /\ Runs(x) /\ sess[x].phase \notin {"look", "acquire"}
  /\ todo[x] # <<>> /\ Head(todo[x]) = "restartNow"
  /\ todo' = [todo EXCEPT ![x] = Tail(@)]
  /\ sess' = [sess EXCEPT ![x] = Disconnected(sess[x])]
  /\ UNCHANGED <<dc, main, saved, server, made, faults>>

-----------------------------------------------------------------------------
Handled == TemporaryKeyChanged \/ PersistentKeyChanged \/ KeyDestroyedOnServer

Step(x) ==
  \/ ConnectToServer(x) \/ CheckAuthKey(x) \/ NoMediaKeyWithExistingRegularKey(x)
  \/ AcquireForMedia(x) \/ UnboundReady(x) \/ SendBind(x) \/ ServerBinds(x)
  \/ BindDone(x) \/ BindDestroyed(x) \/ BindFailed(x) \/ UpdateAuthKey(x)
  \/ RestartNow(x) \/ Destroy(x) \/ KeyRejected(x) \/ TellMain(x)

Next ==
  \/ Handled \/ Revoke \/ Forget \/ OptionsChange
  \/ \E x \in Sessions : Step(x) \/ CreationFails(x) \/ Disconnect(x) \/ Kill(x)

(* Threads run, timers of reconnection fire, and a server that is asked,   *)
(* over a connection that stays, answers.                                  *)
Spec == Init /\ [][Next]_vars /\ WF_vars(Handled) /\ \A x \in Sessions : WF_vars(Step(x))

-----------------------------------------------------------------------------
TypeOK ==
  /\ persistent \in Persistent \cup {None} /\ saved \in Persistent \cup {None}
  /\ temp \in [Kinds -> Temporary \cup {NoKey}]
  /\ creating \in [Kinds -> BOOLEAN]
  /\ sess \in [Sessions -> Session]
  /\ todo \in [Sessions -> Seq({"updateAuthKey", "restartNow"})]
  /\ main \in Seq(Report)
  /\ mediaOnly \in BOOLEAN /\ revoked \subseteq Persistent /\ forgotten \subseteq Nat
  /\ persistents \in Nat /\ temporaries \in Nat /\ faults \subseteq FaultNames

(* A session that creates a key holds the flag of that key alone, and the  *)
(* Dcenter has no such key yet: what the Expects() of                      *)
(* releaseKeyCreationOnDone and releaseKeyCreationOnFail say, outside of   *)
(* any lock, whatever the other threads have done since the flag was taken.*)
CreatorHasLock ==
  \A x \in Sessions : Creator(sess[x]) =>
    /\ creating[Index(sess[x].my)] /\ temp[Index(sess[x].my)] = NoKey
    /\ \A y \in Sessions \ {x} : Creator(sess[y]) => Index(sess[y].my) # Index(sess[x].my)

(* The temporary keys that sessions are given are bound to the persistent  *)
(* key of the Dcenter, though a binding takes a round trip during which    *)
(* the main thread may forget the persistent key.                          *)
BoundToCurrent == \A i \in Kinds : temp[i] # NoKey => temp[i].perm = persistent

(* Once the main thread has been told of all and has handled it, the key   *)
(* that goes to the file of keys is that of the Dcenter, which session     *)
(* threads set, or one that the server has destroyed: the report of a loss *)
(* may overtake that of the creation of the same key, which is then saved  *)
(* for good, but no report is missed.                                      *)
Quiet == main = <<>> /\ \A x \in Sessions : sess[x].report = NoReport
SavedIsCurrent == Quiet => saved = persistent \/ saved \in revoked

(* A flag that is set belongs to a session that creates the key, which is  *)
(* what a session without a key is told to wait for.                       *)
SomeoneIsCreating ==
  \A i \in Kinds : creating[i] => \E x \in Sessions : Creator(sess[x]) /\ Index(sess[x].my) = i

Ready(x) == sess[x].phase = "on" /\ sess[x].key # NoKey /\ ~Creator(sess[x])

(* In a datacenter without media only addresses, while no session is killed*)
(* and the persistent key not revoked, every session comes to have a bound *)
(* key again after each loss of one or failure to create one.              *)
GetsKey ==
  [](~mediaOnly /\ revoked = {} /\ \A x \in Sessions : Alive(x))
    => \A x \in Sessions : []<>Ready(x)
=============================================================================
