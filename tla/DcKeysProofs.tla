---------------------------- MODULE DcKeysProofs ----------------------------
(***************************************************************************)
(* Theorems about the keys of a datacenter, for any number of sessions,    *)
(* downloading ones among them, and any faults.                            *)
(***************************************************************************)
EXTENDS DcKeys, TLAPS

(* The types of what the arguments below are about. *)
KeysTyped ==
  /\ persistent \in Nat /\ persistents \in Nat /\ temporaries \in Nat
  /\ temp \in [Kinds -> Temporary \cup {NoKey}]
  /\ creating \in [Kinds -> BOOLEAN]
  /\ sess \in [Sessions -> Session]

(* A session that binds a key is the creator of this key, has it in use,   *)
(* and it is a key made for the persistent one of the binding; and the     *)
(* persistent key that a session creates is still missing.                 *)
BindingOf(s) ==
  /\ s.binder # None => /\ Creator(s) /\ s.key = s.enc /\ s.enc # NoKey
                        /\ s.enc.perm = s.binder
  /\ s.bind # "none" => s.binder # None
  /\ s.my = "persistent" => persistent = None
  /\ s.life # "alive" => s.bind = "none"
Binding == \A x \in Sessions : BindingOf(sess[x])

KeysInv == KeysTyped /\ CreatorHasLock /\ Binding /\ BoundToCurrent

-----------------------------------------------------------------------------
(* The kinds of steps.  Each changes the record of one session, x, to t.   *)

LEMMA IndexType == \A c : Index(c) \in Kinds
BY DEF Index, Kinds

(* x neither takes nor gives back the right to create a key. *)
LEMMA QuietStep ==
  ASSUME KeysInv, NEW x \in Sessions, NEW t \in Session,
         sess' = [sess EXCEPT ![x] = t], t.my = sess[x].my, BindingOf(t),
         UNCHANGED dc, persistents' \in Nat, temporaries' \in Nat
  PROVE  KeysInv'
<1>1. KeysTyped'
  BY DEF KeysInv, KeysTyped, dc
<1>2. CreatorHasLock'
  BY DEF KeysInv, KeysTyped, CreatorHasLock, Creator, dc
<1>3. Binding'
  BY DEF KeysInv, KeysTyped, Binding, BindingOf, Creator, dc
<1>4. BoundToCurrent'
  BY DEF KeysInv, BoundToCurrent, dc
<1> QED
  BY <1>1, <1>2, <1>3, <1>4 DEF KeysInv

(* x gives up; the flag it may have held, and no other, may change, and    *)
(* temporary keys may be forgotten.                                        *)
LEMMA GivingUp ==
  ASSUME KeysInv, NEW x \in Sessions, NEW t \in Session,
         sess' = [sess EXCEPT ![x] = t],
         t.my = "none", t.binder = None, t.bind = "none",
         creating' \in [Kinds -> BOOLEAN],
         \A i \in Kinds : creating'[i] = creating[i]
                            \/ (Creator(sess[x]) /\ i = Index(sess[x].my)),
         temp' \in [Kinds -> Temporary \cup {NoKey}],
         \A i \in Kinds : temp'[i] \in {temp[i], NoKey},
         persistent' = persistent, persistents' \in Nat, temporaries' \in Nat
  PROVE  KeysInv'
<1>1. KeysTyped'
  BY DEF KeysInv, KeysTyped
<1>2. CreatorHasLock'
  <2> SUFFICES ASSUME NEW y \in Sessions, Creator(sess'[y])
               PROVE  /\ creating'[Index(sess'[y].my)] /\ temp'[Index(sess'[y].my)] = NoKey
                      /\ \A z \in Sessions \ {y} : Creator(sess'[z])
                            => Index(sess'[z].my) # Index(sess'[y].my)
    BY DEF CreatorHasLock
  <2>1. y # x /\ sess'[y] = sess[y] /\ Creator(sess[y])
    BY DEF KeysInv, KeysTyped, Creator
  <2>2. Index(sess[y].my) \in Kinds
    BY IndexType
  <2>3. creating[Index(sess[y].my)] /\ temp[Index(sess[y].my)] = NoKey
    BY <2>1 DEF KeysInv, CreatorHasLock
  <2>4. Creator(sess[x]) => Index(sess[x].my) # Index(sess[y].my)
    BY <2>1 DEF KeysInv, CreatorHasLock
  <2>5. creating'[Index(sess[y].my)] /\ temp'[Index(sess[y].my)] = NoKey
    BY <2>2, <2>3, <2>4
  <2>6. ASSUME NEW z \in Sessions \ {y}, Creator(sess'[z])
        PROVE  Index(sess'[z].my) # Index(sess'[y].my)
    <3>1. sess'[z] = sess[z] /\ Creator(sess[z])
      BY <2>6 DEF KeysInv, KeysTyped, Creator
    <3> QED
      BY <2>1, <3>1 DEF KeysInv, CreatorHasLock
  <2> QED
    BY <2>1, <2>5, <2>6
<1>3. Binding'
  BY DEF KeysInv, KeysTyped, Binding, BindingOf, Creator, None
<1>4. BoundToCurrent'
  BY DEF KeysInv, BoundToCurrent
<1> QED
  BY <1>1, <1>2, <1>3, <1>4 DEF KeysInv

(* What acquireKeyCreation returns has a free flag and no key, and is a    *)
(* persistent key only when there is none.                                 *)
LEMMA AcquireFree ==
  ASSUME KeysTyped, NEW k \in Kinds, AcquireKeyCreation(k) # "none"
  PROVE  LET my == AcquireKeyCreation(k)
         IN  /\ my \in Creating /\ ~creating[Index(my)] /\ temp[Index(my)] = NoKey
             /\ my = "persistent" => persistent = None
BY DEF KeysTyped, AcquireKeyCreation, Index, Kinds, Creating

(* x takes the right to create a key, unless it has it or it is taken. *)
LEMMA Acquiring ==
  ASSUME KeysInv, NEW x \in Sessions, NEW s \in Session, NEW t \in Session,
         sess' = [sess EXCEPT ![x] = t],
         s.my = sess[x].my, BindingOf(s), t.my = TryAcquire(s).my,
         t.binder = s.binder, t.key = s.key, t.enc = s.enc, t.bind \in {s.bind, "none"},
         t.life = s.life,
         creating' = Acquired(t.my), UNCHANGED <<persistent, temp, made>>
  PROVE  KeysInv'
<1> DEFINE my == AcquireKeyCreation(s.real)
<1>a. s.real \in Kinds /\ s.my \in Creating
  BY DEF Session
<1>1. CASE t.my = s.my
  <2>1. creating' = creating
    <3>1. CASE t.my = "none"
      BY <3>1 DEF Acquired
    <3>2. CASE t.my # "none"
      <4>1. creating[Index(t.my)] = TRUE
        BY <1>1, <3>2 DEF KeysInv, KeysTyped, CreatorHasLock, Creator, Index, Kinds
      <4> QED
        BY <3>2, <4>1, IndexType DEF Acquired, KeysInv, KeysTyped
    <3> QED
      BY <3>1, <3>2
  <2>2. BindingOf(t)
    BY <1>1 DEF BindingOf, Creator
  <2> QED
    BY <1>1, <2>1, <2>2, QuietStep DEF dc, made, KeysInv, KeysTyped
<1>2. CASE t.my # s.my
  <2>1. s.my = "none" /\ t.my = my /\ my # "none"
    BY <1>2, <1>a DEF TryAcquire, Creator, Session
  <2>2. /\ my \in Creating /\ ~creating[Index(my)] /\ temp[Index(my)] = NoKey
        /\ my = "persistent" => persistent = None
    BY <1>a, <2>1, AcquireFree DEF KeysInv
  <2>3. creating' = [creating EXCEPT ![Index(my)] = TRUE]
    BY <2>1 DEF Acquired
  <2>4. KeysTyped'
    BY <2>3 DEF KeysInv, KeysTyped, made
  <2>5. CreatorHasLock'
    <3>1. \A y \in Sessions \ {x} : Creator(sess[y]) => Index(sess[y].my) # Index(my)
      BY <2>2 DEF KeysInv, CreatorHasLock
    <3>2. /\ creating'[Index(my)] /\ temp'[Index(my)] = NoKey
          /\ \A i \in Kinds : creating[i] => creating'[i]
      BY <2>2, <2>3, IndexType DEF KeysInv, KeysTyped
    <3>3. sess'[x] = t /\ \A y \in Sessions \ {x} : sess'[y] = sess[y]
      BY DEF KeysInv, KeysTyped
    <3>4. ASSUME NEW y \in Sessions \ {x}, Creator(sess'[y])
          PROVE  creating'[Index(sess'[y].my)] /\ temp'[Index(sess'[y].my)] = NoKey
      BY <3>2, <3>3, <3>4, IndexType DEF KeysInv, CreatorHasLock
    <3>5. ASSUME NEW y \in Sessions, NEW z \in Sessions \ {y},
                 Creator(sess'[y]), Creator(sess'[z])
          PROVE  Index(sess'[z].my) # Index(sess'[y].my)
      BY <2>1, <3>1, <3>3, <3>5 DEF KeysInv, CreatorHasLock
    <3> QED
      BY <2>1, <3>2, <3>3, <3>4, <3>5 DEF CreatorHasLock
  <2>6. Binding'
    <3>1. t.binder = None /\ t.bind = "none"
      BY <2>1 DEF BindingOf, Creator
    <3> QED
      BY <2>1, <2>2, <3>1 DEF KeysInv, KeysTyped, Binding, BindingOf, Creator, None
  <2>7. BoundToCurrent'
    BY DEF KeysInv, BoundToCurrent
  <2> QED
    BY <2>4, <2>5, <2>6, <2>7 DEF KeysInv
<1> QED
  BY <1>1, <1>2

-----------------------------------------------------------------------------
(* The steps.                                                              *)

LEMMA SessionType == ASSUME KeysInv, NEW x \in Sessions PROVE sess[x] \in Session
BY DEF KeysInv, KeysTyped

LEMMA SessionBinding == ASSUME KeysInv, NEW x \in Sessions PROVE BindingOf(sess[x])
BY DEF KeysInv, Binding

LEMMA InitHasInv == Init => KeysInv
<1> SUFFICES ASSUME Init PROVE KeysInv
  OBVIOUS
<1>1. KeysTyped
  <2>1. \A x \in Sessions : DcType(x) \in Kinds
    BY DEF DcType, Kinds
  <2>2. /\ NoKey \in Temporary \cup {NoKey} /\ "none" \in Creating
        /\ NoReport \in Report \cup {NoReport}
    BY DEF Creating
  <2>3. sess \in [Sessions -> Session]
    BY <2>1, <2>2 DEF Init, Session
  <2> QED
    BY <2>2, <2>3 DEF Init, KeysTyped, None
<1>2. CreatorHasLock
  BY DEF Init, CreatorHasLock, Creator
<1>3. Binding
  BY DEF Init, Binding, BindingOf
<1>4. BoundToCurrent
  BY DEF Init, BoundToCurrent
<1> QED
  BY <1>1, <1>2, <1>3, <1>4 DEF KeysInv

LEMMA ReleaseType ==
  ASSUME KeysInv, NEW x \in Sessions
  PROVE  /\ ReleaseKeyCreationOnFail(sess[x].my) \in [Kinds -> BOOLEAN]
         /\ \A i \in Kinds : ReleaseKeyCreationOnFail(sess[x].my)[i] = creating[i]
                               \/ (Creator(sess[x]) /\ i = Index(sess[x].my))
BY IndexType DEF KeysInv, KeysTyped, ReleaseKeyCreationOnFail, Creator

(* destroyTemporaryKey, called with the right to create or without it. *)
LEMMA DestroyStep ==
  ASSUME KeysInv, NEW x \in Sessions, NEW s \in Session,
         s.my = sess[x].my \/ s.my = "none",
         DestroyTemporaryKey(x, s), UNCHANGED made
  PROVE  KeysInv'
<1> DEFINE bad == {i \in Kinds : s.enc # NoKey /\ temp[i] = s.enc}
           report == IF bad = {} THEN NoReport ELSE [call |-> "changed"]
           t == [WithoutCreator(Disconnected(s)) EXCEPT !.key = NoKey, !.enc = NoKey, !.report = report]
<1>0. report \in Report \cup {NoReport}
  BY DEF Report
<1>1. t \in Session /\ t.my = "none" /\ t.binder = None /\ t.bind = "none"
  <2> HIDE DEF report
  <2> QED
    BY <1>0 DEF WithoutCreator, Disconnected, Session, Creating
<1>2. sess' = [sess EXCEPT ![x] = t]
  BY DEF DestroyTemporaryKey
<1>3. /\ creating' \in [Kinds -> BOOLEAN]
      /\ \A i \in Kinds : creating'[i] = creating[i]
                            \/ (Creator(sess[x]) /\ i = Index(sess[x].my))
  <2>1. CASE s.my = sess[x].my
    BY <2>1, ReleaseType DEF DestroyTemporaryKey
  <2>2. CASE s.my = "none"
    BY <2>2 DEF DestroyTemporaryKey, ReleaseKeyCreationOnFail, KeysInv, KeysTyped
  <2> QED
    BY <2>1, <2>2
<1>4. /\ temp' \in [Kinds -> Temporary \cup {NoKey}]
      /\ \A i \in Kinds : temp'[i] \in {temp[i], NoKey}
  BY DEF DestroyTemporaryKey, KeysInv, KeysTyped
<1>5. persistent' = persistent /\ persistents' \in Nat /\ temporaries' \in Nat
  BY DEF DestroyTemporaryKey, KeysInv, KeysTyped, made
<1> HIDE DEF t
<1> QED
  BY <1>1, <1>2, <1>3, <1>4, <1>5, GivingUp

(* Steps that only give the creation up. *)
LEMMA ReleaseStep ==
  ASSUME KeysInv, NEW x \in Sessions, NEW t \in Session,
         sess' = [sess EXCEPT ![x] = t], t.my = "none", t.binder = None, t.bind = "none",
         creating' = ReleaseKeyCreationOnFail(sess[x].my),
         UNCHANGED <<persistent, temp>>, persistents' \in Nat, temporaries' \in Nat
  PROVE  KeysInv'
<1>1. temp' \in [Kinds -> Temporary \cup {NoKey}] /\ \A i \in Kinds : temp'[i] \in {temp[i], NoKey}
  BY DEF KeysInv, KeysTyped
<1> QED
  BY <1>1, ReleaseType, GivingUp

LEMMA DisconnectedType ==
  ASSUME NEW s \in Session
  PROVE  /\ Disconnected(s) \in Session /\ Disconnected(s).my = s.my
         /\ BindingOf(s) => BindingOf(Disconnected(s))
BY DEF Disconnected, Session, BindingOf, Creator

LEMMA WithoutCreatorType ==
  ASSUME NEW s \in Session
  PROVE  /\ WithoutCreator(s) \in Session
         /\ WithoutCreator(s).my = "none" /\ WithoutCreator(s).binder = None
         /\ WithoutCreator(s).bind = s.bind
BY DEF WithoutCreator, Session, Creating

LEMMA BoundType ==
  ASSUME NEW s \in Session, s.binder # None
  PROVE  /\ Bound(s) \in Session
         /\ Bound(s).my = "none" /\ Bound(s).binder = None /\ Bound(s).bind = "none"
         /\ Bound(s).report = IF s.my = "persistent" THEN [call |-> "persistent", key |-> s.binder]
                              ELSE [call |-> "changed"]
<1> DEFINE report == IF s.my = "persistent" THEN [call |-> "persistent", key |-> s.binder]
                     ELSE [call |-> "changed"]
<1>1. report \in Report \cup {NoReport}
  BY DEF Report, Session
<1>2. Bound(s) = [WithoutCreator(s) EXCEPT !.bind = "none", !.report = report]
  BY DEF Bound
<1> HIDE DEF report
<1>3. /\ Bound(s) \in Session /\ Bound(s).report = report
      /\ Bound(s).my = "none" /\ Bound(s).binder = None /\ Bound(s).bind = "none"
  BY <1>1, <1>2 DEF WithoutCreator, Session, Creating
<1> QED
  BY <1>3 DEF report

(* applyAuthKey, where no binding is under way. *)
LEMMA ApplyType ==
  ASSUME NEW s \in Session, NEW k \in Temporary \cup {NoKey}, BindingOf(s), s.binder = None
  PROVE  /\ ApplyAuthKey(s, k) \in Session /\ ApplyAuthKey(s, k).my = s.my
         /\ BindingOf(ApplyAuthKey(s, k))
BY DEF ApplyAuthKey, Disconnected, Session, BindingOf, Creator

LEMMA DcTypeIsKind == \A x : DcType(x) \in Kinds
BY DEF DcType, Kinds

LEMMA TypeToUseType ==
  ASSUME NEW s \in Session, NEW t \in Session PROVE TypeToUse(s, t) \in Kinds
BY IndexType DEF TypeToUse, Session

LEMMA TryAcquireType ==
  ASSUME KeysInv, NEW s \in Session
  PROVE  /\ TryAcquire(s) \in Session
         /\ TryAcquire(s).binder = s.binder /\ TryAcquire(s).key = s.key
         /\ TryAcquire(s).enc = s.enc /\ TryAcquire(s).bind = s.bind
         /\ TryAcquire(s).life = s.life
<1>1. s.real \in Kinds
  BY DEF Session
<1>2. AcquireKeyCreation(s.real) \in Creating
  BY <1>1 DEF AcquireKeyCreation, Creating, Kinds
<1> QED
  BY <1>2 DEF TryAcquire, Session

LEMMA ConnectToServerStep ==
  ASSUME KeysInv, NEW x \in Sessions, ConnectToServer(x)
  PROVE  KeysInv'
<1> DEFINE s == [sess[x] EXCEPT !.real = DcType(x)]
           t == TryAcquire(s)
           u == [t EXCEPT !.cur = TypeToUse(s, t), !.phase = "connecting"]
<1>1. s \in Session /\ s.my = sess[x].my /\ BindingOf(s)
  BY SessionType, SessionBinding, DcTypeIsKind DEF Session, BindingOf, Creator
<1>2. UNCHANGED made
  BY DEF ConnectToServer
<1>3. CASE DestroyTemporaryKey(x, s)
  <2> HIDE DEF s
  <2> QED
    BY <1>1, <1>2, <1>3, DestroyStep
<1>4. CASE /\ sess' = [sess EXCEPT ![x] = u] /\ creating' = Acquired(t.my)
           /\ UNCHANGED <<persistent, temp, main>>
  <2> HIDE DEF s
  <2>1. /\ t \in Session /\ t.binder = s.binder /\ t.key = s.key /\ t.enc = s.enc
        /\ t.bind = s.bind /\ t.life = s.life
    BY <1>1, TryAcquireType
  <2>2. t.my = TryAcquire(s).my
    OBVIOUS
  <2> HIDE DEF t
  <2>3. TypeToUse(s, t) \in Kinds
    BY <1>1, <2>1, TypeToUseType
  <2>4. /\ u \in Session /\ u.my = t.my /\ u.binder = t.binder /\ u.key = t.key
        /\ u.enc = t.enc /\ u.bind = t.bind /\ u.life = t.life
    BY <2>1, <2>3 DEF Session
  <2> HIDE DEF u
  <2> QED
    BY <1>1, <1>2, <1>4, <2>1, <2>2, <2>4, Acquiring
<1> QED
  BY <1>3, <1>4 DEF ConnectToServer

LEMMA AcquireForMediaStep ==
  ASSUME KeysInv, NEW x \in Sessions, AcquireForMedia(x)
  PROVE  KeysInv'
<1> DEFINE s == sess[x]
           t == TryAcquire(s)
           u == IF Creator(t) /\ TypeToUse(s, t) # s.cur THEN Disconnected(t)
                ELSE [t EXCEPT !.phase = "on"]
<1>1. s \in Session /\ s.my = sess[x].my /\ BindingOf(s)
  BY SessionType, SessionBinding
<1>2. UNCHANGED made /\ sess' = [sess EXCEPT ![x] = u] /\ creating' = Acquired(t.my)
      /\ UNCHANGED <<persistent, temp>>
  BY DEF AcquireForMedia
<1> HIDE DEF s
<1>3. /\ t \in Session /\ t.binder = s.binder /\ t.key = s.key /\ t.enc = s.enc
      /\ t.bind = s.bind /\ t.life = s.life
  BY <1>1, TryAcquireType
<1>4. t.my = TryAcquire(s).my
  OBVIOUS
<1> HIDE DEF t
<1>5. /\ u \in Session /\ u.my = t.my /\ u.binder = t.binder /\ u.key = t.key
      /\ u.enc = t.enc /\ u.bind \in {t.bind, "none"} /\ u.life = t.life
  BY <1>3 DEF Session, Disconnected
<1> HIDE DEF u
<1> QED
  BY <1>1, <1>2, <1>3, <1>4, <1>5, Acquiring

(* Steps in which a session reads the keys, waits, or is disconnected. *)
LEMMA CheckAuthKeyStep ==
  ASSUME KeysInv, NEW x \in Sessions, CheckAuthKey(x)
  PROVE  KeysInv'
<1> DEFINE s == sess[x]
           t == IF s.key # NoKey THEN [s EXCEPT !.phase = "on"] ELSE ApplyAuthKey(s, temp[s.cur])
<1>1. s \in Session /\ BindingOf(s)
  BY SessionType, SessionBinding
<1>2. temp[s.cur] \in Temporary \cup {NoKey}
  BY <1>1 DEF KeysInv, KeysTyped, Session
<1>3. t \in Session /\ t.my = s.my /\ BindingOf(t)
  <2>1. CASE s.key # NoKey
    BY <1>1, <2>1 DEF Session, BindingOf, Creator
  <2>2. CASE s.key = NoKey
    <3>1. s.binder = None
      BY <1>1, <2>2 DEF BindingOf
    <3> QED
      BY <1>1, <1>2, <2>2, <3>1, ApplyType
  <2> QED
    BY <2>1, <2>2
<1>4. sess' = [sess EXCEPT ![x] = t] /\ UNCHANGED dc /\ persistents' \in Nat /\ temporaries' \in Nat
  BY DEF CheckAuthKey, KeysInv, KeysTyped, made
<1> HIDE DEF t
<1> QED
  BY <1>3, <1>4, QuietStep

LEMMA UpdateAuthKeyStep ==
  ASSUME KeysInv, NEW x \in Sessions, UpdateAuthKey(x)
  PROVE  KeysInv'
<1> DEFINE s == sess[x]
           t == IF Creator(s) \/ s.phase # "on" THEN s ELSE ApplyAuthKey(s, temp[s.cur])
<1>1. s \in Session /\ BindingOf(s)
  BY SessionType, SessionBinding
<1>2. temp[s.cur] \in Temporary \cup {NoKey}
  BY <1>1 DEF KeysInv, KeysTyped, Session
<1>3. t \in Session /\ t.my = s.my /\ BindingOf(t)
  <2>1. CASE Creator(s) \/ s.phase # "on"
    BY <1>1, <2>1
  <2>2. CASE ~(Creator(s) \/ s.phase # "on")
    <3>1. s.binder = None
      BY <1>1, <2>2 DEF BindingOf
    <3> QED
      BY <1>1, <1>2, <2>2, <3>1, ApplyType
  <2> QED
    BY <2>1, <2>2
<1>4. sess' = [sess EXCEPT ![x] = t] /\ UNCHANGED dc /\ persistents' \in Nat /\ temporaries' \in Nat
  BY DEF UpdateAuthKey, KeysInv, KeysTyped, made
<1> HIDE DEF t
<1> QED
  BY <1>3, <1>4, QuietStep

LEMMA PhaseStep ==
  ASSUME KeysInv, NEW x \in Sessions,
         \/ NoMediaKeyWithExistingRegularKey(x) \/ SendBind(x) \/ ServerBinds(x)
         \/ BindFailed(x) \/ TellMain(x)
  PROVE  KeysInv'
<1> DEFINE s == sess[x]
<1>1. s \in Session /\ BindingOf(s)
  BY SessionType, SessionBinding
<1>2. UNCHANGED dc /\ persistents' \in Nat /\ temporaries' \in Nat
  BY DEF NoMediaKeyWithExistingRegularKey, SendBind, ServerBinds, BindFailed, TellMain,
         KeysInv, KeysTyped, made
<1>3. ASSUME NEW p \in {"acquire", "on"}, sess' = [sess EXCEPT ![x].phase = p]
      PROVE  KeysInv'
  <2>1. [s EXCEPT !.phase = p] \in Session /\ [s EXCEPT !.phase = p].my = s.my
        /\ BindingOf([s EXCEPT !.phase = p])
    BY <1>1 DEF Session, BindingOf, Creator
  <2>2. sess' = [sess EXCEPT ![x] = [s EXCEPT !.phase = p]]
    BY <1>3
  <2> QED
    BY <1>2, <2>1, <2>2, QuietStep
<1>4. ASSUME NEW b \in {"none", "sent", "done", "destroyed", "failed"},
             sess' = [sess EXCEPT ![x].bind = b],
             b # "none" => s.binder # None /\ s.life = "alive"
      PROVE  KeysInv'
  <2>1. [s EXCEPT !.bind = b] \in Session /\ [s EXCEPT !.bind = b].my = s.my
        /\ BindingOf([s EXCEPT !.bind = b])
    BY <1>1, <1>4 DEF Session, BindingOf, Creator
  <2>2. sess' = [sess EXCEPT ![x] = [s EXCEPT !.bind = b]]
    BY <1>4
  <2> QED
    BY <1>2, <2>1, <2>2, QuietStep
<1>5. CASE NoMediaKeyWithExistingRegularKey(x)
  BY <1>3, <1>5 DEF NoMediaKeyWithExistingRegularKey
<1>6. CASE SendBind(x)
  BY <1>4, <1>6 DEF SendBind, Runs, Alive
<1>7. CASE ServerBinds(x)
  <2>1. s.bind # "none" /\ s.life = "alive"
    BY <1>7 DEF ServerBinds, Runs, Alive
  <2>2. s.binder # None
    BY <1>1, <2>1 DEF BindingOf
  <2> QED
    BY <1>4, <1>7, <2>1, <2>2 DEF ServerBinds
<1>8. CASE BindFailed(x)
  BY <1>4, <1>8 DEF BindFailed
<1>9. CASE TellMain(x)
  <2> DEFINE t == [s EXCEPT !.report = NoReport]
  <2>1. t \in Session /\ t.my = s.my /\ BindingOf(t)
    BY <1>1 DEF Session, BindingOf, Creator
  <2>2. sess' = [sess EXCEPT ![x] = t]
    BY <1>9 DEF TellMain
  <2> HIDE DEF t
  <2> QED
    BY <1>2, <2>1, <2>2, QuietStep
<1> QED
  BY <1>5, <1>6, <1>7, <1>8, <1>9

LEMMA DisconnectStep ==
  ASSUME KeysInv, NEW x \in Sessions, Disconnect(x) \/ RestartNow(x) \/ Kill(x)
  PROVE  KeysInv'
<1>1. sess[x] \in Session /\ BindingOf(sess[x])
  BY SessionType, SessionBinding
<1>2. UNCHANGED dc /\ persistents' \in Nat /\ temporaries' \in Nat
  BY DEF Disconnect, RestartNow, Kill, KeysInv, KeysTyped, made
<1>3. CASE sess' = [sess EXCEPT ![x] = Disconnected(sess[x])]
  BY <1>1, <1>2, <1>3, DisconnectedType, QuietStep
<1>4. CASE sess' = [sess EXCEPT ![x] = [Disconnected(sess[x]) EXCEPT !.life = "detached"]]
  <2> DEFINE t == [Disconnected(sess[x]) EXCEPT !.life = "detached"]
  <2>1. t \in Session /\ t.my = sess[x].my /\ BindingOf(t)
    BY <1>1 DEF Disconnected, Session, BindingOf, Creator
  <2> HIDE DEF t
  <2> QED
    BY <1>2, <1>4, <2>1, QuietStep DEF t
<1> QED
  BY <1>3, <1>4 DEF Disconnect, RestartNow, Kill

(* Steps that end a creation. *)
LEMMA UnboundReadyStep ==
  ASSUME KeysInv, NEW x \in Sessions, UnboundReady(x)
  PROVE  KeysInv'
<1> DEFINE s == sess[x]
           perm == IF s.my = "persistent" THEN persistents + 1 ELSE persistent
           key == [n |-> temporaries + 1, kind |-> Index(s.my), perm |-> perm]
<1>1. s \in Session /\ BindingOf(s)
  BY SessionType, SessionBinding
<1>2. perm \in Nat /\ persistents' \in Nat /\ temporaries' \in Nat
  BY DEF UnboundReady, KeysInv, KeysTyped
<1>3. Creator(s) /\ s.key = NoKey
  BY DEF UnboundReady, Started
<1>4. CASE /\ creating' = ReleaseKeyCreationOnFail(s.my)
           /\ sess' = [sess EXCEPT ![x] = WithoutCreator(Disconnected(s))]
           /\ UNCHANGED <<persistent, temp>>
  <2> DEFINE t == WithoutCreator(Disconnected(s))
  <2>1. t \in Session /\ t.my = "none" /\ t.binder = None /\ t.bind = "none"
    BY <1>1 DEF WithoutCreator, Disconnected, Session, Creating
  <2> HIDE DEF t
  <2> QED
    BY <1>2, <1>4, <2>1, ReleaseStep DEF t
<1>5. CASE /\ perm # None
           /\ sess' = [sess EXCEPT ![x] = ApplyAuthKey([s EXCEPT !.binder = perm], key)]
           /\ UNCHANGED <<persistent, temp, creating>>
  <2> DEFINE t == ApplyAuthKey([s EXCEPT !.binder = perm], key)
  <2>1. key \in Temporary /\ key # NoKey /\ key.perm = perm
    BY <1>2, <1>5, IndexType DEF Temporary, Persistent, NoKey, None, KeysInv, KeysTyped
  <2>2. perm \in Persistent
    BY <1>2, <1>5 DEF Persistent, None
  <2> HIDE DEF key, perm
  <2>3. t = [s EXCEPT !.binder = perm, !.key = key, !.enc = key, !.phase = "on"]
    BY <1>1, <1>3, <2>1 DEF ApplyAuthKey, Session
  <2>4. t \in Session /\ t.my = s.my /\ BindingOf(t)
    <3> HIDE DEF t
    <3>1. /\ t \in Session /\ t.my = s.my /\ t.binder = perm /\ t.key = key /\ t.enc = key
          /\ t.life = s.life /\ t.bind = s.bind
      BY <1>1, <2>1, <2>2, <2>3 DEF Session
    <3> QED
      BY <1>1, <1>3, <1>5, <2>1, <3>1 DEF BindingOf, Creator
  <2>5. sess' = [sess EXCEPT ![x] = t] /\ UNCHANGED dc
    BY <1>5 DEF dc
  <2> HIDE DEF t
  <2> QED
    BY <1>2, <2>4, <2>5, QuietStep
<1> QED
  BY <1>4, <1>5 DEF UnboundReady

LEMMA GiveUpStep ==
  ASSUME KeysInv, NEW x \in Sessions, CreationFails(x) \/ Destroy(x) \/ BindDestroyed(x)
  PROVE  KeysInv'
<1> DEFINE s == sess[x]
<1>1. s \in Session /\ BindingOf(s)
  BY SessionType, SessionBinding
<1>2. persistents' \in Nat /\ temporaries' \in Nat
  BY DEF CreationFails, Destroy, BindDestroyed, KeysInv, KeysTyped, made
<1>3. ASSUME NEW t \in Session, t.my = "none", t.binder = None, t.bind = "none",
             sess' = [sess EXCEPT ![x] = t],
             creating' = ReleaseKeyCreationOnFail(s.my), UNCHANGED <<persistent, temp>>
      PROVE  KeysInv'
  BY <1>2, <1>3, ReleaseStep
<1>4. CASE CreationFails(x)
  <2> DEFINE t == WithoutCreator(Disconnected(s))
  <2>1. t \in Session /\ t.my = "none" /\ t.binder = None /\ t.bind = "none"
    BY <1>1 DEF WithoutCreator, Disconnected, Session, Creating
  <2>2. sess' = [sess EXCEPT ![x] = t]
    BY <1>4 DEF CreationFails
  <2> HIDE DEF t
  <2> QED
    BY <1>3, <1>4, <2>1, <2>2 DEF CreationFails
<1>5. CASE Destroy(x)
  <2> DEFINE t == [WithoutCreator(s) EXCEPT !.life = "gone"]
  <2>1. s.bind = "none"
    BY <1>1, <1>5 DEF Destroy, BindingOf
  <2>2. t \in Session /\ t.my = "none" /\ t.binder = None /\ t.bind = "none"
    BY <1>1, <2>1 DEF WithoutCreator, Session, Creating
  <2>3. sess' = [sess EXCEPT ![x] = t]
    BY <1>5 DEF Destroy
  <2> HIDE DEF t
  <2> QED
    BY <1>3, <1>5, <2>2, <2>3 DEF Destroy
<1>6. CASE BindDestroyed(x)
  <2> DEFINE t == [WithoutCreator(Disconnected(s)) EXCEPT !.key = NoKey, !.enc = NoKey]
             u == [s EXCEPT !.bind = "none"]
  <2>1. t \in Session /\ t.my = "none" /\ t.binder = None /\ t.bind = "none"
    BY <1>1 DEF WithoutCreator, Disconnected, Session, Creating
  <2>2. u \in Session /\ u.my = s.my /\ BindingOf(u)
    BY <1>1 DEF Session, BindingOf, Creator
  <2>3. \/ /\ sess' = [sess EXCEPT ![x] = t]
           /\ creating' = ReleaseKeyCreationOnFail(s.my) /\ UNCHANGED <<persistent, temp>>
        \/ sess' = [sess EXCEPT ![x] = u] /\ UNCHANGED dc
    BY <1>6 DEF BindDestroyed
  <2> HIDE DEF t, u
  <2> QED
    BY <1>2, <1>3, <2>1, <2>2, <2>3, QuietStep
<1> QED
  BY <1>4, <1>5, <1>6

(* The step that gives keys to the Dcenter.  The flag of the new key kept  *)
(* its place empty; a persistent key that this session made finds none in  *)
(* the Dcenter, hence no temporary one either, and no one else makes one.  *)
LEMMA BindDoneStep ==
  ASSUME KeysInv, NEW x \in Sessions, BindDone(x)
  PROVE  KeysInv'
<1> DEFINE s == sess[x]
           i == Index(s.my)
           t == Bound(s)
<1>1. s \in Session /\ BindingOf(s)
  BY SessionType, SessionBinding
<1>2. UNCHANGED made
  BY DEF BindDone
<1>3. CASE DestroyTemporaryKey(x, WithoutCreator(s))
  BY <1>1, <1>2, <1>3, WithoutCreatorType, DestroyStep
<1>4. CASE /\ s.bind = "done" /\ (s.my = "persistent" \/ persistent = s.binder)
           /\ persistent' = s.binder
           /\ temp' = [temp EXCEPT ![i] = s.enc]
           /\ creating' = [creating EXCEPT ![i] = FALSE]
           /\ sess' = [sess EXCEPT ![x] = t]
  <2>1. Creator(s) /\ s.enc # NoKey /\ s.enc.perm = s.binder /\ s.binder # None
    BY <1>1, <1>4 DEF BindingOf
  <2>2. s.enc \in Temporary /\ s.binder \in Nat
    BY <1>1, <2>1 DEF Session, Persistent, None
  <2>3. i \in Kinds
    BY IndexType
  <2>4. \A y \in Sessions \ {x} : Creator(sess[y]) => Index(sess[y].my) # i
    BY <2>1 DEF KeysInv, CreatorHasLock
  <2>5. t \in Session /\ t.my = "none" /\ t.binder = None /\ t.bind = "none"
    BY <1>1, <2>1, BoundType
  <2> HIDE DEF t
  <2>6. sess'[x] = t /\ \A y \in Sessions \ {x} : sess'[y] = sess[y]
    BY <1>4 DEF KeysInv, KeysTyped
  <2>7. KeysTyped'
    BY <1>2, <1>4, <2>2, <2>5 DEF KeysInv, KeysTyped, made
  <2> HIDE DEF i
  <2>8. CreatorHasLock'
    <3>1. \A y \in Sessions : Creator(sess'[y]) => y # x /\ Creator(sess[y])
      BY <2>5, <2>6 DEF Creator
    <3>2. ASSUME NEW y \in Sessions, Creator(sess'[y])
          PROVE  creating'[Index(sess'[y].my)] /\ temp'[Index(sess'[y].my)] = NoKey
      <4>1. y # x /\ Creator(sess[y]) /\ sess'[y] = sess[y] /\ Index(sess[y].my) # i
        BY <2>4, <2>6, <3>1, <3>2
      <4>2. creating[Index(sess[y].my)] /\ temp[Index(sess[y].my)] = NoKey
        BY <4>1 DEF KeysInv, CreatorHasLock
      <4> QED
        BY <1>4, <4>1, <4>2, IndexType DEF KeysInv, KeysTyped
    <3>3. ASSUME NEW y \in Sessions, NEW z \in Sessions \ {y},
                 Creator(sess'[y]), Creator(sess'[z])
          PROVE  Index(sess'[z].my) # Index(sess'[y].my)
      BY <2>6, <3>1, <3>3 DEF KeysInv, CreatorHasLock
    <3> QED
      BY <3>2, <3>3 DEF CreatorHasLock
  <2>9. Binding'
    <3>1. BindingOf(sess[x])'
      BY <2>5, <2>6 DEF BindingOf
    <3>2. ASSUME NEW y \in Sessions \ {x} PROVE BindingOf(sess[y])'
      <4>1. BindingOf(sess[y]) /\ sess'[y] = sess[y]
        BY <2>6, SessionBinding
      <4>2. sess[y].my = "persistent" => persistent' = None
        <5>1. sess[y].my = "persistent" => Index(sess[y].my) = "regular" /\ Creator(sess[y])
          BY DEF Index, Creator
        <5>2. s.my = "persistent" => i = "regular"
          BY DEF Index, i
        <5> QED
          BY <1>4, <2>4, <4>1, <5>1, <5>2 DEF BindingOf
      <4> QED
        BY <4>1, <4>2 DEF BindingOf
    <3> QED
      BY <3>1, <3>2 DEF Binding
  <2>10. BoundToCurrent'
    <3>1. ASSUME NEW j \in Kinds, j # i, temp[j] # NoKey
          PROVE  temp[j].perm = s.binder
      <4>1. temp[j].perm = persistent /\ temp[j] \in Temporary
        BY <3>1 DEF KeysInv, KeysTyped, BoundToCurrent
      <4>2. persistent # None
        BY <4>1 DEF Temporary, Persistent, None
      <4> QED
        BY <1>1, <1>4, <4>1, <4>2 DEF BindingOf
    <3> QED
      BY <1>4, <2>1, <2>3, <3>1 DEF KeysInv, KeysTyped, BoundToCurrent
  <2> QED
    BY <2>7, <2>8, <2>9, <2>10 DEF KeysInv
<1> QED
  BY <1>3, <1>4 DEF BindDone

(* Steps of the main thread and of the server. *)
LEMMA MainStep ==
  ASSUME KeysInv,
         Handled \/ Revoke \/ Forget \/ OptionsChange
  PROVE  KeysInv'
<1>1. CASE /\ UNCHANGED <<sess, creating, made>>
           /\ persistent' = None /\ temp' = [j \in Kinds |-> NoKey]
  <2>1. KeysTyped'
    BY <1>1 DEF KeysInv, KeysTyped, made, None
  <2>2. CreatorHasLock'
    BY <1>1, IndexType DEF KeysInv, CreatorHasLock, Creator
  <2>3. Binding'
    BY <1>1 DEF KeysInv, Binding, BindingOf, Creator
  <2>4. BoundToCurrent'
    BY <1>1 DEF BoundToCurrent
  <2> QED
    BY <2>1, <2>2, <2>3, <2>4 DEF KeysInv
<1>2. CASE UNCHANGED <<dc, sess, made>>
  <2>1. KeysTyped' /\ CreatorHasLock' /\ BoundToCurrent'
    BY <1>2 DEF KeysInv, KeysTyped, CreatorHasLock, BoundToCurrent, Creator, dc, made
  <2>2. Binding'
    BY <1>2 DEF KeysInv, Binding, BindingOf, Creator, dc
  <2> QED
    BY <2>1, <2>2 DEF KeysInv
<1> QED
  BY <1>1, <1>2 DEF Handled, TemporaryKeyChanged, PersistentKeyChanged, KeyDestroyedOnServer,
                    Revoke, Forget, OptionsChange, dc

-----------------------------------------------------------------------------
(* The invariant is inductive. *)
LEMMA KeysInvStep == KeysInv /\ [Next]_vars => KeysInv'
<1> SUFFICES ASSUME KeysInv, [Next]_vars PROVE KeysInv'
  OBVIOUS
<1>1. CASE Handled \/ Revoke \/ Forget \/ OptionsChange
  BY <1>1, MainStep
<1>2. ASSUME NEW x \in Sessions, Step(x) PROVE KeysInv'
  <2>1. CASE KeyRejected(x)
    <3>1. DestroyTemporaryKey(x, sess[x]) /\ UNCHANGED made
      BY <2>1 DEF KeyRejected
    <3> QED
      BY <3>1, SessionType, DestroyStep
  <2> QED
    BY <1>2, <2>1, ConnectToServerStep, CheckAuthKeyStep, PhaseStep, AcquireForMediaStep,
       UnboundReadyStep, BindDoneStep, GiveUpStep, UpdateAuthKeyStep, DisconnectStep DEF Step
<1>3. ASSUME NEW x \in Sessions, CreationFails(x) \/ Disconnect(x) \/ Kill(x) PROVE KeysInv'
  BY <1>3, GiveUpStep, DisconnectStep
<1>4. CASE UNCHANGED vars
  <2>1. UNCHANGED <<dc, sess, made>>
    BY <1>4 DEF vars
  <2>2. KeysTyped' /\ CreatorHasLock' /\ BoundToCurrent'
    BY <2>1 DEF KeysInv, KeysTyped, CreatorHasLock, BoundToCurrent, Creator, dc, made
  <2>3. Binding'
    BY <2>1 DEF KeysInv, Binding, BindingOf, Creator, dc
  <2> QED
    BY <2>2, <2>3 DEF KeysInv
<1> QED
  BY <1>1, <1>2, <1>3, <1>4 DEF Next

(* The right to create a key is exclusive: whatever the threads do between *)
(* the calls of acquireKeyCreation and releaseKeyCreationOnDone/OnFail, a  *)
(* session that creates a key has the flag of it to itself, and the key is *)
(* still missing, as the Expects() of the Dcenter demand.                  *)
THEOREM CreatorHasLockHolds == Spec => []CreatorHasLock
<1>1. KeysInv => CreatorHasLock
  BY DEF KeysInv
<1> QED
  BY <1>1, InitHasInv, KeysInvStep, PTL DEF Spec

(* No temporary key that the Dcenter hands out is bound to another than    *)
(* its present persistent key, since releaseKeyCreationOnDone compares and *)
(* destroyConfirmedForgottenKey clears both kinds of keys.                 *)
THEOREM BoundToCurrentHolds == Spec => []BoundToCurrent
<1>1. KeysInv => BoundToCurrent
  BY DEF KeysInv
<1> QED
  BY <1>1, InitHasInv, KeysInvStep, PTL DEF Spec

-----------------------------------------------------------------------------
(* The queues, and what is saved of the persistent key.                    *)

TodoType == Seq({"updateAuthKey", "restartNow"})

QueuesTyped ==
  /\ saved \in Persistent \cup {None}
  /\ main \in Seq(Report) /\ todo \in [Sessions -> TodoType]
  /\ mediaOnly \in BOOLEAN /\ revoked \subseteq Persistent /\ forgotten \subseteq Nat
  /\ faults \subseteq FaultNames

(* What the main thread has not handled: queued, or still to be queued by  *)
(* a thread that has changed the keys.                                     *)
Pending(r) == \/ \E i \in 1 .. Len(main) : main[i] = r
              \/ \E x \in Sessions : sess[x].report = r

(* Only keys the server has destroyed are taken, or reported, to be so. *)
Losses ==
  /\ \A r \in Report : Pending(r) /\ r.call = "destroyed" => r.key \in revoked
  /\ \A x \in Sessions : sess[x].bind = "destroyed" => sess[x].binder \in revoked

(* A persistent key that is yet to be saved is that of the Dcenter, or it  *)
(* is lost; and that of the Dcenter is saved or yet to be, unless the one  *)
(* that is saved is lost.                                                  *)
Told ==
  /\ \A r \in Report : Pending(r) /\ r.call = "persistent" => r.key \in revoked \cup {persistent}
  /\ \/ saved \in revoked \cup {persistent}
     \/ \E r \in Report : Pending(r) /\ r.call = "persistent" /\ r.key = persistent

SavedInv == KeysInv /\ QueuesTyped /\ Losses /\ Told

Silent(r) == r = NoReport \/ r = [call |-> "changed"]

LEMMA ReportShape ==
  /\ \A r \in Report : ~Silent(r) => r.call \in {"persistent", "destroyed"} /\ r.key \in Persistent
  /\ \A r : Silent(r) => r.call \notin {"persistent", "destroyed"}
BY DEF Report, Silent, NoReport

(* Steps that leave the persistent key alone. *)
LEMMA CalmStep ==
  ASSUME SavedInv, KeysInv', QueuesTyped',
         \A r : Pending(r)' => Pending(r) \/ Silent(r),
         \A r : Pending(r) => Pending(r)' \/ Silent(r),
         UNCHANGED <<saved, persistent>>, revoked \subseteq revoked',
         \A x \in Sessions : sess'[x].bind = "destroyed" => sess'[x].binder \in revoked'
  PROVE  SavedInv'
<1>1. Losses'
  <2>1. ASSUME NEW r \in Report, Pending(r)', r.call = "destroyed" PROVE r.key \in revoked'
    <3>1. Pending(r)
      BY <2>1, ReportShape
    <3> QED
      BY <2>1, <3>1 DEF SavedInv, Losses
  <2> QED
    BY <2>1 DEF Losses
<1>2. Told'
  <2>1. ASSUME NEW r \in Report, Pending(r)', r.call = "persistent"
        PROVE  r.key \in revoked' \cup {persistent'}
    <3>1. Pending(r)
      BY <2>1, ReportShape
    <3> QED
      BY <2>1, <3>1 DEF SavedInv, Told
  <2>2. ASSUME NEW r \in Report, Pending(r), r.call = "persistent" PROVE Pending(r)'
    BY <2>2, ReportShape
  <2>3. \/ saved' \in revoked' \cup {persistent'}
        \/ \E r \in Report : Pending(r)' /\ r.call = "persistent" /\ r.key = persistent'
    BY <2>2 DEF SavedInv, Told
  <2> QED
    BY <2>1, <2>3 DEF Told
<1> QED
  BY <1>1, <1>2 DEF SavedInv

(* A session's step that tells nothing of a persistent key. *)
LEMMA SilentStep ==
  ASSUME SavedInv, KeysInv', QueuesTyped', NEW x \in Sessions, NEW t,
         sess' = [sess EXCEPT ![x] = t],
         t.report = sess[x].report \/ (sess[x].report = NoReport /\ Silent(t.report)),
         t.bind = "destroyed" => t.binder \in revoked,
         UNCHANGED <<main, saved, persistent, revoked>>
  PROVE  SavedInv'
<1>1. sess'[x] = t /\ \A y \in Sessions \ {x} : sess'[y] = sess[y]
  BY DEF SavedInv, KeysInv, KeysTyped
<1>2. \A y \in Sessions : sess'[y].bind = "destroyed" => sess'[y].binder \in revoked
  BY <1>1 DEF SavedInv, Losses
<1>3. ASSUME NEW r, Pending(r)' PROVE Pending(r) \/ Silent(r)
  BY <1>1, <1>3 DEF Pending
<1>4. ASSUME NEW r, Pending(r) PROVE Pending(r)' \/ Silent(r)
  <2>1. CASE \E i \in 1 .. Len(main) : main[i] = r
    BY <2>1 DEF Pending
  <2>2. CASE \E y \in Sessions : sess[y].report = r
    BY <1>1, <2>2 DEF Pending, Silent
  <2> QED
    BY <1>4, <2>1, <2>2 DEF Pending
<1> QED
  BY <1>2, <1>3, <1>4, CalmStep

(* destroyTemporaryKey tells at most that a temporary key has changed. *)
LEMMA DestroySaved ==
  ASSUME SavedInv, KeysInv', QueuesTyped', NEW x \in Sessions, NEW s \in Session,
         sess[x].report = NoReport, DestroyTemporaryKey(x, s), UNCHANGED <<saved, revoked>>
  PROVE  SavedInv'
<1> DEFINE bad == {i \in Kinds : s.enc # NoKey /\ temp[i] = s.enc}
           report == IF bad = {} THEN NoReport ELSE [call |-> "changed"]
           t == [WithoutCreator(Disconnected(s)) EXCEPT !.key = NoKey, !.enc = NoKey, !.report = report]
<1>1. Silent(report)
  BY DEF Silent
<1>2. sess' = [sess EXCEPT ![x] = t] /\ UNCHANGED <<main, persistent>>
  BY DEF DestroyTemporaryKey
<1> HIDE DEF report
<1>3. t.bind = "none" /\ t.report = report
  BY DEF WithoutCreator, Disconnected, Session
<1> HIDE DEF t
<1> QED
  BY <1>1, <1>2, <1>3, SilentStep

(* Queueing: what was to be told is told. *)
LEMMA TellMainSaved ==
  ASSUME SavedInv, KeysInv', QueuesTyped', NEW x \in Sessions, TellMain(x)
  PROVE  SavedInv'
<1> DEFINE new == sess[x].report
           t == [sess[x] EXCEPT !.report = NoReport]
<1>1. /\ main' = Append(main, new) /\ sess' = [sess EXCEPT ![x] = t]
      /\ UNCHANGED <<saved, persistent, revoked>>
  BY DEF TellMain, dc, server
<1>2. main \in Seq(Report) /\ Len(main) \in Nat /\ new \in Report
  BY SessionType DEF SavedInv, QueuesTyped, Session, TellMain
<1>3. t.report = NoReport /\ t.bind = sess[x].bind /\ t.binder = sess[x].binder
  BY SessionType DEF SavedInv, Session
<1> HIDE DEF t
<1>4. sess'[x] = t /\ \A y \in Sessions \ {x} : sess'[y] = sess[y]
  BY <1>1 DEF SavedInv, KeysInv, KeysTyped
<1>5. \A y \in Sessions : sess'[y].bind = "destroyed" => sess'[y].binder \in revoked
  BY <1>3, <1>4 DEF SavedInv, Losses
<1>6. /\ Len(main') = Len(main) + 1 /\ main'[Len(main) + 1] = new
      /\ \A i \in 1 .. Len(main) : main'[i] = main[i]
  BY <1>1, <1>2
<1>7. ASSUME NEW r, Pending(r)' PROVE Pending(r) \/ Silent(r)
  <2>1. CASE \E i \in 1 .. Len(main') : main'[i] = r
    <3>1. PICK i \in 1 .. Len(main') : main'[i] = r
      BY <2>1
    <3>2. i \in 1 .. Len(main) \/ i = Len(main) + 1
      BY <1>2, <1>6
    <3> QED
      BY <1>6, <3>1, <3>2 DEF Pending
  <2>2. CASE \E y \in Sessions : sess'[y].report = r
    BY <1>3, <1>4, <2>2 DEF Pending, Silent
  <2> QED
    BY <1>7, <2>1, <2>2 DEF Pending
<1>8. ASSUME NEW r, Pending(r) PROVE Pending(r)'
  <2>0. Len(main) + 1 \in 1 .. Len(main') /\ \A i \in 1 .. Len(main) : i \in 1 .. Len(main')
    BY <1>2, <1>6
  <2>1. CASE \E i \in 1 .. Len(main) : main[i] = r
    BY <1>6, <2>0, <2>1 DEF Pending
  <2>2. CASE \E y \in Sessions : sess[y].report = r
    <3>1. PICK y \in Sessions : sess[y].report = r
      BY <2>2
    <3>2. CASE y = x
      BY <1>6, <2>0, <3>1, <3>2 DEF Pending
    <3>3. CASE y # x
      BY <1>4, <3>1, <3>3 DEF Pending
    <3> QED
      BY <3>2, <3>3
  <2> QED
    BY <1>8, <2>1, <2>2 DEF Pending
<1> QED
  BY <1>1, <1>5, <1>7, <1>8, CalmStep

(* The main thread takes the first message, and the persistent key is as   *)
(* it was unless it has been destroyed.                                    *)
LEMMA HandledStep ==
  ASSUME SavedInv, Handled, KeysInv', QueuesTyped'
  PROVE  SavedInv'
<1> DEFINE first == Head(main)
<1>1. main # <<>> /\ main' = Tail(main) /\ UNCHANGED <<sess, revoked>>
  BY DEF Handled, TemporaryKeyChanged, PersistentKeyChanged, KeyDestroyedOnServer, server
<1>2. main \in Seq(Report) /\ Len(main) \in Nat
  BY DEF SavedInv, QueuesTyped
<1>3. first \in Report /\ Pending(first)
  <2>1. 1 \in 1 .. Len(main) /\ main[1] = first /\ first \in Report
    BY <1>1, <1>2
  <2> QED
    BY <2>1 DEF Pending
<1>4. ASSUME NEW r, Pending(r)' PROVE Pending(r)
  <2>1. CASE \E i \in 1 .. Len(main') : main'[i] = r
    <3>1. PICK i \in 1 .. Len(main') : main'[i] = r
      BY <2>1
    <3>2. i + 1 \in 1 .. Len(main) /\ main[i + 1] = r
      BY <1>1, <1>2, <3>1
    <3> QED
      BY <3>2 DEF Pending
  <2>2. CASE \E y \in Sessions : sess'[y].report = r
    BY <1>1, <2>2 DEF Pending
  <2> QED
    BY <1>4, <2>1, <2>2 DEF Pending
<1>5. ASSUME NEW r, Pending(r), r # first PROVE Pending(r)'
  <2>1. CASE \E i \in 1 .. Len(main) : main[i] = r
    <3>1. PICK i \in 1 .. Len(main) : main[i] = r
      BY <2>1
    <3>2. i # 1
      BY <1>1, <1>2, <1>5, <3>1
    <3>3. i - 1 \in 1 .. Len(main') /\ main'[i - 1] = r
      BY <1>1, <1>2, <3>1, <3>2
    <3> QED
      BY <3>3 DEF Pending
  <2>2. CASE \E y \in Sessions : sess[y].report = r
    BY <1>1, <2>2 DEF Pending
  <2> QED
    BY <1>5, <2>1, <2>2 DEF Pending
<1>6. Losses'
  BY <1>1, <1>4 DEF SavedInv, Losses
<1>7. \/ saved' = saved /\ persistent' = persistent /\ first.call # "persistent"
      \/ saved' = first.key /\ persistent' = persistent /\ first.call = "persistent"
      \/ saved' = None /\ persistent' = None /\ first.call = "destroyed" /\ persistent = first.key
  BY DEF Handled, TemporaryKeyChanged, PersistentKeyChanged, KeyDestroyedOnServer, dc
<1> HIDE DEF first
<1>8. Told'
  <2>1. CASE saved' = saved /\ persistent' = persistent /\ first.call # "persistent"
    <3>1. ASSUME NEW r \in Report, Pending(r), r.call = "persistent" PROVE Pending(r)'
      BY <1>5, <2>1, <3>1
    <3>2. \/ saved' \in revoked' \cup {persistent'}
          \/ \E r \in Report : Pending(r)' /\ r.call = "persistent" /\ r.key = persistent'
      BY <1>1, <2>1, <3>1 DEF SavedInv, Told
    <3>3. \A r \in Report : Pending(r)' /\ r.call = "persistent" => r.key \in revoked' \cup {persistent'}
      BY <1>1, <1>4, <2>1 DEF SavedInv, Told
    <3> QED
      BY <3>2, <3>3 DEF Told
  <2>2. CASE saved' = first.key /\ persistent' = persistent /\ first.call = "persistent"
    <3>1. first.key \in revoked \cup {persistent}
      BY <1>3, <2>2 DEF SavedInv, Told
    <3>2. \A r \in Report : Pending(r)' /\ r.call = "persistent" => r.key \in revoked' \cup {persistent'}
      BY <1>1, <1>4, <2>2 DEF SavedInv, Told
    <3> QED
      BY <1>1, <2>2, <3>1, <3>2 DEF Told
  <2>3. CASE saved' = None /\ persistent' = None /\ first.call = "destroyed" /\ persistent = first.key
    <3>1. persistent \in revoked
      BY <1>3, <2>3 DEF SavedInv, Losses
    <3>2. \A r \in Report : Pending(r)' /\ r.call = "persistent" => r.key \in revoked' \cup {persistent'}
      BY <1>1, <1>4, <3>1 DEF SavedInv, Told
    <3> QED
      BY <2>3, <3>2 DEF Told
  <2> QED
    BY <1>7, <2>1, <2>2, <2>3
<1> QED
  BY <1>6, <1>8 DEF SavedInv

(* A session that bound its new persistent key: there was none, hence what *)
(* is pending about others is about lost ones.                             *)
LEMMA BindDoneSaved ==
  ASSUME SavedInv, NEW x \in Sessions, BindDone(x), KeysInv', QueuesTyped'
  PROVE  SavedInv'
<1> DEFINE s == sess[x]
           t == Bound(s)
<1>1. s \in Session /\ BindingOf(s) /\ s.report = NoReport /\ s.bind = "done"
  BY SessionType, SessionBinding DEF SavedInv, BindDone, Runs
<1>2. UNCHANGED <<saved, revoked, main>> /\ s.binder # None
  BY <1>1 DEF BindDone, server, BindingOf, DestroyTemporaryKey
<1>3. CASE DestroyTemporaryKey(x, WithoutCreator(s))
  <2>1. WithoutCreator(s) \in Session
    BY <1>1, WithoutCreatorType
  <2> QED
    BY <1>1, <1>2, <1>3, <2>1, DestroySaved
<1>4. CASE /\ s.my = "persistent" \/ persistent = s.binder
           /\ persistent' = s.binder /\ sess' = [sess EXCEPT ![x] = t]
  <2>1. /\ t.bind = "none"
        /\ t.report = IF s.my = "persistent" THEN [call |-> "persistent", key |-> s.binder]
                     ELSE [call |-> "changed"]
    BY <1>1, <1>2, BoundType
  <2> HIDE DEF t
  <2>2. CASE s.my # "persistent"
    BY <1>1, <1>2, <1>4, <2>1, <2>2, SilentStep DEF Silent
  <2>3. CASE s.my = "persistent"
    <3>1. persistent = None /\ s.binder \in Persistent
      BY <1>1, <1>2, <2>3 DEF BindingOf, Session
    <3>a. [call |-> "persistent", key |-> s.binder] \in Report
      BY <3>1 DEF Report
    <3>b. PICK new \in Report : new = [call |-> "persistent", key |-> s.binder]
      BY <3>a
    <3>c. t.report = new
      BY <2>1, <2>3, <3>b
    <3>2. sess'[x] = t /\ \A y \in Sessions \ {x} : sess'[y] = sess[y]
      BY <1>4 DEF SavedInv, KeysInv, KeysTyped
    <3>3. ASSUME NEW r, Pending(r)' PROVE Pending(r) \/ r = new
      BY <1>2, <3>2, <3>3, <3>c DEF Pending
    <3>4. Pending(new)'
      BY <3>2, <3>c DEF Pending
    <3>5. new.call = "persistent" /\ new.key = s.binder /\ new.key = persistent'
      BY <1>4, <3>b
    <3>6. Losses'
      <4>1. \A r \in Report : Pending(r)' /\ r.call = "destroyed" => r.key \in revoked
        BY <3>3, <3>5 DEF SavedInv, Losses
      <4>2. \A y \in Sessions : sess'[y].bind = "destroyed" => sess'[y].binder \in revoked
        BY <2>1, <3>2 DEF SavedInv, Losses
      <4> QED
        BY <1>2, <4>1, <4>2 DEF Losses
    <3>7. ASSUME NEW r \in Report, Pending(r)', r.call = "persistent"
          PROVE  r.key \in revoked' \cup {persistent'}
      <4>1. CASE r = new
        BY <1>4, <3>5, <4>1
      <4>2. CASE Pending(r)
        <5>1. r.key \in revoked \cup {None}
          BY <3>1, <3>7, <4>2 DEF SavedInv, Told
        <5>2. r.key \in Persistent
          BY <3>7 DEF Report
        <5> QED
          BY <1>2, <5>1, <5>2 DEF Persistent, None
      <4> QED
        BY <3>3, <3>7, <4>1, <4>2
    <3>8. Told'
      BY <3>4, <3>5, <3>7 DEF Told
    <3> QED
      BY <3>6, <3>8 DEF SavedInv
  <2> QED
    BY <2>2, <2>3
<1> QED
  BY <1>3, <1>4 DEF BindDone

(* A report of a lost key, by a server that has destroyed it. *)
LEMMA BindDestroyedSaved ==
  ASSUME SavedInv, NEW x \in Sessions, BindDestroyed(x), KeysInv', QueuesTyped'
  PROVE  SavedInv'
<1> DEFINE s == sess[x]
           t == [WithoutCreator(Disconnected(s)) EXCEPT !.key = NoKey, !.enc = NoKey]
           u == [s EXCEPT !.bind = "none"]
           new == [call |-> "destroyed", key |-> s.binder]
<1>1. s \in Session /\ BindingOf(s) /\ s.report = NoReport /\ s.bind = "destroyed"
  BY SessionType, SessionBinding DEF SavedInv, BindDestroyed, Runs
<1>2. UNCHANGED <<saved, persistent, revoked>> /\ s.binder \in revoked
  BY <1>1 DEF BindDestroyed, dc, server, SavedInv, Losses
<1>3. t.report = NoReport /\ t.bind = "none" /\ u.report = NoReport /\ u.bind = "none"
  BY <1>1 DEF WithoutCreator, Disconnected, Session
<1>4. \/ sess' = [sess EXCEPT ![x] = u] /\ main' = main
      \/ sess' = [sess EXCEPT ![x] = t] /\ main' = Append(main, new)
  BY DEF BindDestroyed
<1> HIDE DEF t, u
<1>5. CASE sess' = [sess EXCEPT ![x] = u] /\ main' = main
  BY <1>1, <1>2, <1>3, <1>5, SilentStep
<1>6. CASE sess' = [sess EXCEPT ![x] = t] /\ main' = Append(main, new)
  <2>1. main \in Seq(Report) /\ Len(main) \in Nat
    BY DEF SavedInv, QueuesTyped
  <2>2. new.call = "destroyed" /\ new.key = s.binder
    OBVIOUS
  <2> HIDE DEF new
  <2>3. /\ Len(main') = Len(main) + 1 /\ main'[Len(main) + 1] = new
        /\ \A i \in 1 .. Len(main) : main'[i] = main[i] /\ i \in 1 .. Len(main')
    BY <1>6, <2>1
  <2>4. sess'[x] = t /\ \A y \in Sessions \ {x} : sess'[y] = sess[y]
    BY <1>6 DEF SavedInv, KeysInv, KeysTyped
  <2>5. ASSUME NEW r, Pending(r)' PROVE Pending(r) \/ r = new \/ r = NoReport
    <3>1. CASE \E i \in 1 .. Len(main') : main'[i] = r
      <4>1. PICK i \in 1 .. Len(main') : main'[i] = r
        BY <3>1
      <4>2. i \in 1 .. Len(main) \/ i = Len(main) + 1
        BY <2>1, <2>3
      <4> QED
        BY <2>3, <4>1, <4>2 DEF Pending
    <3>2. CASE \E y \in Sessions : sess'[y].report = r
      BY <1>3, <2>4, <3>2 DEF Pending
    <3> QED
      BY <2>5, <3>1, <3>2 DEF Pending
  <2>6. ASSUME NEW r, Pending(r) PROVE Pending(r)'
    <3>1. CASE \E i \in 1 .. Len(main) : main[i] = r
      BY <2>3, <3>1 DEF Pending
    <3>2. CASE \E y \in Sessions : sess[y].report = r
      BY <1>1, <1>3, <2>4, <3>2 DEF Pending
    <3> QED
      BY <2>6, <3>1, <3>2 DEF Pending
  <2>7. Losses'
    <3>1. ASSUME NEW r \in Report, Pending(r)', r.call = "destroyed" PROVE r.key \in revoked
      <4>1. r # NoReport
        BY <3>1 DEF NoReport
      <4> QED
        BY <1>2, <2>2, <2>5, <3>1, <4>1 DEF SavedInv, Losses
    <3>2. \A y \in Sessions : sess'[y].bind = "destroyed" => sess'[y].binder \in revoked
      BY <1>3, <2>4 DEF SavedInv, Losses
    <3> QED
      BY <1>2, <3>1, <3>2 DEF Losses
  <2>8. Told'
    <3>1. ASSUME NEW r \in Report, Pending(r)', r.call = "persistent"
          PROVE  r.key \in revoked' \cup {persistent'}
      <4>1. Pending(r)
        BY <2>2, <2>5, <3>1 DEF NoReport
      <4> QED
        BY <1>2, <3>1, <4>1 DEF SavedInv, Told
    <3>2. \/ saved' \in revoked' \cup {persistent'}
          \/ \E r \in Report : Pending(r)' /\ r.call = "persistent" /\ r.key = persistent'
      BY <1>2, <2>6 DEF SavedInv, Told
    <3> QED
      BY <3>1, <3>2 DEF Told
  <2> QED
    BY <2>7, <2>8 DEF SavedInv
<1> QED
  BY <1>4, <1>5, <1>6

(* The other steps of sessions. *)
Same(s, t) == t.report = s.report /\ (t.bind = "none" \/ (t.bind = s.bind /\ t.binder = s.binder))

LEMMA SessionCalm ==
  ASSUME SavedInv, KeysInv', QueuesTyped', NEW x \in Sessions,
         \/ ConnectToServer(x) \/ CheckAuthKey(x) \/ NoMediaKeyWithExistingRegularKey(x)
         \/ AcquireForMedia(x) \/ SendBind(x) \/ ServerBinds(x) \/ BindFailed(x)
         \/ UpdateAuthKey(x) \/ RestartNow(x) \/ Destroy(x) \/ KeyRejected(x)
         \/ UnboundReady(x) \/ CreationFails(x) \/ Disconnect(x) \/ Kill(x)
  PROVE  SavedInv'
<1> DEFINE s == sess[x]
<1>1. s \in Session /\ BindingOf(s) /\ KeysInv
  BY SessionType, SessionBinding DEF SavedInv
<1>2. /\ UNCHANGED <<main, saved, persistent, revoked>>
      /\ ~Destroy(x) => s.report = NoReport
  BY DEF ConnectToServer, CheckAuthKey, NoMediaKeyWithExistingRegularKey, AcquireForMedia,
         SendBind, ServerBinds, BindFailed, UpdateAuthKey, RestartNow, Destroy, KeyRejected,
         UnboundReady, CreationFails, Disconnect, Kill, DestroyTemporaryKey, dc, server, Runs
<1>3. ASSUME NEW t, sess' = [sess EXCEPT ![x] = t], Same(s, t)
      PROVE  SavedInv'
  <2>1. t.bind = "destroyed" => t.binder \in revoked
    BY <1>3 DEF Same, SavedInv, Losses
  <2> QED
    BY <1>2, <1>3, <2>1, SilentStep DEF Same
<1>4. \A r \in Session : Same(r, Disconnected(r)) /\ Same(r, WithoutCreator(Disconnected(r)))
  BY DEF Disconnected, WithoutCreator, Session, Same
<1>5. \A r \in Session : \A k : Same(r, ApplyAuthKey(r, k))
  BY DEF ApplyAuthKey, Disconnected, Session, Same
<1>6. \A r \in Session : TryAcquire(r) \in Session /\ TryAcquire(r).report = r.report
                         /\ TryAcquire(r).bind = r.bind /\ TryAcquire(r).binder = r.binder
  <2>1. ASSUME NEW r \in Session
        PROVE  /\ TryAcquire(r) \in Session /\ TryAcquire(r).report = r.report
               /\ TryAcquire(r).bind = r.bind /\ TryAcquire(r).binder = r.binder
    <3>1. TryAcquire(r).report = r.report
      BY DEF TryAcquire, Session
    <3> QED
      BY <1>1, <3>1, TryAcquireType
  <2> QED
    BY <2>1
<1>7. CASE ConnectToServer(x)
  <2> DEFINE r == [s EXCEPT !.real = DcType(x)]
             t == TryAcquire(r)
             u == [t EXCEPT !.cur = TypeToUse(r, t), !.phase = "connecting"]
  <2>1. r \in Session /\ r.binder = s.binder /\ r.bind = s.bind /\ r.report = s.report
    BY <1>1, DcTypeIsKind DEF Session
  <2>2. sess' = [sess EXCEPT ![x] = u] \/ DestroyTemporaryKey(x, r)
    BY <1>7 DEF ConnectToServer
  <2> HIDE DEF r
  <2>3. t \in Session /\ t.report = s.report /\ t.bind = s.bind /\ t.binder = s.binder
    BY <1>6, <2>1
  <2> HIDE DEF t
  <2>4. Same(s, u)
    BY <2>3 DEF Session, Same
  <2> HIDE DEF u
  <2>5. CASE DestroyTemporaryKey(x, r)
    <3>1. s.report = NoReport
      BY <1>7 DEF ConnectToServer, Runs
    <3> QED
      BY <1>2, <2>1, <2>5, <3>1, DestroySaved
  <2> QED
    BY <1>3, <2>2, <2>4, <2>5
<1>8. CASE AcquireForMedia(x)
  <2> DEFINE t == TryAcquire(s)
             u == IF Creator(t) /\ TypeToUse(s, t) # s.cur THEN Disconnected(t)
                  ELSE [t EXCEPT !.phase = "on"]
  <2>1. sess' = [sess EXCEPT ![x] = u]
    BY <1>8 DEF AcquireForMedia
  <2>2. t \in Session /\ t.report = s.report /\ t.bind = s.bind /\ t.binder = s.binder
    BY <1>1, <1>6
  <2> HIDE DEF t
  <2>3. Same(s, u)
    BY <2>2 DEF Session, Disconnected, Same
  <2> HIDE DEF u
  <2> QED
    BY <1>3, <2>1, <2>3
<1>9. CASE CheckAuthKey(x) \/ UpdateAuthKey(x)
  <2>1. Same(s, [s EXCEPT !.phase = "on"]) /\ Same(s, s)
    BY <1>1 DEF Session, Same
  <2>2. PICK k : \/ sess' = [sess EXCEPT ![x] = [s EXCEPT !.phase = "on"]]
                 \/ sess' = [sess EXCEPT ![x] = s]
                 \/ sess' = [sess EXCEPT ![x] = ApplyAuthKey(s, k)]
    BY <1>9 DEF CheckAuthKey, UpdateAuthKey
  <2> QED
    BY <1>1, <1>3, <1>5, <2>1, <2>2
<1>10. CASE NoMediaKeyWithExistingRegularKey(x) \/ SendBind(x) \/ BindFailed(x)
  <2>1. \E p : sess' = [sess EXCEPT ![x] = [s EXCEPT !.phase = p]]
        \/ \E b \in {"sent", "none"} : sess' = [sess EXCEPT ![x] = [s EXCEPT !.bind = b]]
    BY <1>10 DEF NoMediaKeyWithExistingRegularKey, SendBind, BindFailed
  <2>2. ASSUME NEW p, sess' = [sess EXCEPT ![x] = [s EXCEPT !.phase = p]] PROVE SavedInv'
    <3>1. Same(s, [s EXCEPT !.phase = p])
      BY <1>1 DEF Session, Same
    <3> QED
      BY <1>3, <2>2, <3>1
  <2>3. ASSUME NEW b \in {"sent", "none"}, sess' = [sess EXCEPT ![x] = [s EXCEPT !.bind = b]]
        PROVE  SavedInv'
    <3> DEFINE t == [s EXCEPT !.bind = b]
    <3>1. t.report = s.report /\ t.bind # "destroyed"
      BY <1>1 DEF Session
    <3> HIDE DEF t
    <3> QED
      BY <1>2, <2>3, <3>1, SilentStep DEF t
  <2> QED
    BY <2>1, <2>2, <2>3
<1>11. CASE ServerBinds(x)
  <2>1. PICK b : sess' = [sess EXCEPT ![x] = [s EXCEPT !.bind = b]] /\ (b = "destroyed" => s.binder \in revoked)
    BY <1>11 DEF ServerBinds
  <2> DEFINE t == [s EXCEPT !.bind = b]
  <2>2. t.report = s.report /\ t.bind = b /\ t.binder = s.binder
    BY <1>1 DEF Session
  <2>3. sess' = [sess EXCEPT ![x] = t]
    BY <2>1
  <2> HIDE DEF t
  <2> QED
    BY <1>2, <2>1, <2>2, <2>3, SilentStep
<1>12. CASE Disconnect(x) \/ RestartNow(x) \/ CreationFails(x)
  BY <1>1, <1>3, <1>4, <1>12 DEF Disconnect, RestartNow, CreationFails
<1>13. CASE KeyRejected(x)
  <2>1. DestroyTemporaryKey(x, s) /\ s.report = NoReport
    BY <1>13 DEF KeyRejected, Runs
  <2> QED
    BY <1>1, <1>2, <2>1, DestroySaved
<1>14. CASE Kill(x) \/ Destroy(x)
  <2> DEFINE t == [Disconnected(s) EXCEPT !.life = "detached"]
             u == [WithoutCreator(s) EXCEPT !.life = "gone"]
  <2>1. sess' = [sess EXCEPT ![x] = t] \/ (sess' = [sess EXCEPT ![x] = u] /\ s.life # "alive")
    BY <1>14 DEF Kill, Destroy
  <2>2. Same(s, t) /\ (s.life # "alive" => Same(s, u))
    BY <1>1 DEF Disconnected, WithoutCreator, Session, Same, BindingOf
  <2> HIDE DEF t, u
  <2> QED
    BY <1>3, <2>1, <2>2
<1>15. CASE UnboundReady(x)
  <2>1. s.bind = "none"
    BY <1>1, <1>15 DEF UnboundReady, Started, BindingOf
  <2>2. PICK perm, key : \/ sess' = [sess EXCEPT ![x] = WithoutCreator(Disconnected(s))]
                         \/ sess' = [sess EXCEPT ![x] = ApplyAuthKey([s EXCEPT !.binder = perm], key)]
    BY <1>15 DEF UnboundReady
  <2>3. Same(s, ApplyAuthKey([s EXCEPT !.binder = perm], key))
    BY <1>1, <2>1 DEF ApplyAuthKey, Disconnected, Session, Same
  <2> QED
    BY <1>1, <1>3, <1>4, <2>2, <2>3
<1> QED
  BY <1>7, <1>8, <1>9, <1>10, <1>11, <1>12, <1>13, <1>14, <1>15

(* The types of the queues. *)
LEMMA TellType ==
  ASSUME QueuesTyped, NEW c \in TodoType
  PROVE  Tell(c) \in [Sessions -> TodoType]
BY DEF QueuesTyped, Tell, TodoType

LEMMA HandledTypes ==
  ASSUME KeysInv, QueuesTyped, Handled
  PROVE  QueuesTyped'
<1>1. /\ main # <<>> /\ main' = Tail(main) /\ main \in Seq(Report)
      /\ UNCHANGED <<server, faults>>
  BY DEF Handled, TemporaryKeyChanged, PersistentKeyChanged, KeyDestroyedOnServer, QueuesTyped
<1>2. main' \in Seq(Report) /\ Head(main) \in Report
  BY <1>1
<1>3. todo' \in [Sessions -> TodoType]
  <2>1. /\ <<"updateAuthKey">> \in TodoType /\ <<"restartNow">> \in TodoType
        /\ <<"updateAuthKey", "restartNow">> \in TodoType
    BY DEF TodoType
  <2> QED
    BY <2>1, TellType DEF Handled, TemporaryKeyChanged, PersistentKeyChanged, KeyDestroyedOnServer
<1>4. saved' \in Persistent \cup {None}
  <2>1. Head(main).call = "persistent" => Head(main).key \in Persistent
    BY <1>2 DEF Report
  <2> QED
    BY <2>1 DEF Handled, TemporaryKeyChanged, PersistentKeyChanged, KeyDestroyedOnServer, QueuesTyped
<1> QED
  BY <1>1, <1>2, <1>3, <1>4 DEF QueuesTyped, server

LEMMA ServerTypes ==
  ASSUME KeysInv, QueuesTyped, Revoke \/ Forget \/ OptionsChange
  PROVE  QueuesTyped'
<1>1. UNCHANGED <<main, todo, saved>> /\ faults' \subseteq FaultNames
  BY DEF Revoke, Forget, OptionsChange, Fault, QueuesTyped
<1>2. mediaOnly' \in BOOLEAN
  BY DEF Revoke, Forget, OptionsChange, QueuesTyped
<1>3. revoked' \subseteq Persistent
  BY DEF Revoke, Forget, OptionsChange, QueuesTyped, KeysInv, KeysTyped, Persistent, None
<1>4. forgotten' \subseteq Nat
  <2>1. \A i \in Kinds : temp[i] # NoKey => temp[i].n \in Nat
    BY DEF KeysInv, KeysTyped, Temporary
  <2>2. forgotten \subseteq Nat
    BY DEF QueuesTyped
  <2>3. CASE Forget
    <3>1. PICK i \in Kinds : temp[i] # NoKey /\ forgotten' = forgotten \cup {temp[i].n}
      BY <2>3 DEF Forget
    <3> QED
      BY <2>1, <2>2, <3>1
  <2> QED
    BY <2>2, <2>3 DEF Revoke, OptionsChange
<1> QED
  BY <1>1, <1>2, <1>3, <1>4 DEF QueuesTyped

LEMMA SessionTypes ==
  ASSUME KeysInv, QueuesTyped, NEW x \in Sessions,
         Step(x) \/ CreationFails(x) \/ Disconnect(x) \/ Kill(x)
  PROVE  QueuesTyped'
<1>1. UNCHANGED <<saved, server>> /\ faults' \subseteq FaultNames
  BY DEF Step, ConnectToServer, CheckAuthKey, NoMediaKeyWithExistingRegularKey, AcquireForMedia,
         UnboundReady, SendBind, ServerBinds, BindDone, BindDestroyed, BindFailed, UpdateAuthKey,
         RestartNow, Destroy, KeyRejected, TellMain, CreationFails, Disconnect, Kill, Fault, QueuesTyped
<1>2. sess[x].bind # "none" => sess[x].binder \in Persistent
  BY SessionType, SessionBinding DEF BindingOf, Session
<1>3. /\ main \in Seq(Report)
      /\ \/ main' = main
         \/ main' = Append(main, sess[x].report) /\ sess[x].report # NoReport
         \/ /\ sess[x].bind # "none"
            /\ main' = Append(main, [call |-> "destroyed", key |-> sess[x].binder])
  BY DEF Step, ConnectToServer, CheckAuthKey, NoMediaKeyWithExistingRegularKey, AcquireForMedia,
         UnboundReady, SendBind, ServerBinds, BindDone, BindDestroyed, BindFailed, UpdateAuthKey,
         RestartNow, Destroy, KeyRejected, TellMain, CreationFails, Disconnect, Kill,
         DestroyTemporaryKey, QueuesTyped
<1>4. main' \in Seq(Report)
  <2>1. sess[x].report \in Report \cup {NoReport}
    BY SessionType DEF Session
  <2>2. sess[x].bind # "none" => [call |-> "destroyed", key |-> sess[x].binder] \in Report
    BY <1>2 DEF Report
  <2> QED
    BY <1>3, <2>1, <2>2
<1>5. todo' \in [Sessions -> TodoType]
  <2>1. todo \in [Sessions -> TodoType] /\ todo[x] \in TodoType
    BY DEF QueuesTyped
  <2>2. \/ todo' = todo \/ todo' = [todo EXCEPT ![x] = <<>>]
        \/ todo[x] # <<>> /\ todo' = [todo EXCEPT ![x] = Tail(todo[x])]
    BY DEF Step, ConnectToServer, CheckAuthKey, NoMediaKeyWithExistingRegularKey, AcquireForMedia,
           UnboundReady, SendBind, ServerBinds, BindDone, BindDestroyed, BindFailed, UpdateAuthKey,
           RestartNow, Destroy, KeyRejected, TellMain, CreationFails, Disconnect, Kill
  <2>3. <<>> \in TodoType /\ (todo[x] # <<>> => Tail(todo[x]) \in TodoType)
    BY <2>1 DEF TodoType
  <2> QED
    BY <2>1, <2>2, <2>3
<1> QED
  BY <1>1, <1>4, <1>5 DEF QueuesTyped, server

-----------------------------------------------------------------------------
LEMMA InitHasSaved == Init => SavedInv
<1> SUFFICES ASSUME Init PROVE SavedInv
  OBVIOUS
<1>1. KeysInv
  BY InitHasInv
<1>2. QueuesTyped
  <2>1. <<>> \in Seq(Report) /\ <<>> \in TodoType
    BY DEF TodoType
  <2>2. saved \in Persistent \cup {None} /\ faults \subseteq FaultNames
    BY KeysAssumption DEF Init, Persistent, None
  <2> QED
    BY <2>1, <2>2 DEF Init, QueuesTyped
<1>3. ASSUME NEW r, Pending(r) PROVE r = NoReport
  <2>1. main = <<>> /\ \A x \in Sessions : sess[x].report = NoReport
    BY DEF Init
  <2>2. ~\E i \in 1 .. Len(main) : main[i] = r
    BY <2>1
  <2> QED
    BY <1>3, <2>1, <2>2 DEF Pending
<1>4. Losses
  BY <1>3 DEF Init, Losses, NoReport
<1>5. Told
  BY <1>3 DEF Init, Told, NoReport
<1> QED
  BY <1>1, <1>2, <1>4, <1>5 DEF SavedInv

LEMMA SavedInvStep == SavedInv /\ [Next]_vars => SavedInv'
<1> SUFFICES ASSUME SavedInv, [Next]_vars PROVE SavedInv'
  OBVIOUS
<1>1. KeysInv /\ QueuesTyped /\ KeysInv'
  BY KeysInvStep DEF SavedInv
<1>2. CASE Handled
  BY <1>1, <1>2, HandledTypes, HandledStep
<1>3. ASSUME NEW x \in Sessions, Step(x) \/ CreationFails(x) \/ Disconnect(x) \/ Kill(x)
      PROVE  SavedInv'
  <2>1. QueuesTyped'
    BY <1>1, <1>3, SessionTypes
  <2> QED
    BY <1>1, <1>3, <2>1, BindDoneSaved, BindDestroyedSaved, TellMainSaved, SessionCalm DEF Step
<1>4. CASE Revoke \/ Forget \/ OptionsChange \/ UNCHANGED vars
  <2>1. UNCHANGED <<saved, persistent, main, sess>> /\ revoked \subseteq revoked'
    BY <1>4 DEF Revoke, Forget, OptionsChange, vars, dc, server
  <2>2. QueuesTyped'
    <3>1. CASE UNCHANGED vars
      BY <1>1, <3>1 DEF QueuesTyped, vars, server
    <3> QED
      BY <1>1, <1>4, <3>1, ServerTypes
  <2>3. \A r : Pending(r)' <=> Pending(r)
    BY <2>1 DEF Pending
  <2>4. \A x \in Sessions : sess'[x].bind = "destroyed" => sess'[x].binder \in revoked'
    BY <2>1 DEF SavedInv, Losses
  <2> QED
    BY <1>1, <2>1, <2>2, <2>3, <2>4, CalmStep
<1> QED
  BY <1>2, <1>3, <1>4 DEF Next

(* The types of the Dcenter, the sessions and the queues between threads.  *)
THEOREM TypeCorrect == Spec => []TypeOK
<1>1. SavedInv => TypeOK
  <2> SUFFICES ASSUME SavedInv PROVE TypeOK
    OBVIOUS
  <2>1. persistent \in Persistent \cup {None}
    BY DEF SavedInv, KeysInv, KeysTyped, Persistent, None
  <2> QED
    BY <2>1 DEF SavedInv, KeysInv, KeysTyped, QueuesTyped, TodoType, TypeOK
<1> QED
  BY <1>1, InitHasSaved, SavedInvStep, PTL DEF Spec

(* What the main thread has written to the file of keys, once it has been  *)
(* told of all that session threads did to the keys, is the persistent key *)
(* of the Dcenter or one that the server has destroyed, whatever reports   *)
(* came between the change of a key and the report of it.                  *)
THEOREM SavedIsCurrentHolds == Spec => []SavedIsCurrent
<1>1. SavedInv => SavedIsCurrent
  <2> SUFFICES ASSUME SavedInv, Quiet PROVE saved = persistent \/ saved \in revoked
    BY DEF SavedIsCurrent
  <2>1. ASSUME NEW r, Pending(r) PROVE r = NoReport
    BY <2>1 DEF Quiet, Pending
  <2>2. ASSUME NEW r \in Report, Pending(r), r.call = "persistent" PROVE FALSE
    BY <2>1, <2>2 DEF NoReport
  <2> QED
    BY <2>2 DEF SavedInv, Told
<1> QED
  BY <1>1, InitHasSaved, SavedInvStep, PTL DEF Spec
=============================================================================
