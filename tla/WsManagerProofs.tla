-------------------------- MODULE WsManagerProofs --------------------------
(***************************************************************************)
(* Theorems about the ConnectionManager and the handlers, for any number   *)
(* of sockets, users, rooms and broadcasts under way.                      *)
(***************************************************************************)
EXTENDS WsManager, TLAPS

Active == {"loop", "round", "pong"}

(* A pass as Advance is given it: not necessarily in a send yet. *)
Passes == [over : {"room", "user"}, at : Chats \cup Users, exclude : Sockets \cup {NoSocket},
           first : SUBSET Sockets, seen : SUBSET Sockets, cur : Sockets \cup {NoSocket},
           dead : SUBSET Sockets, lost : BOOLEAN]

(* A pass runs over a room or over a user who has a key, unless the set    *)
(* was dropped since; it counts as dead only sockets whose client is gone. *)
PassOK(it, K, W) ==
  /\ it \in Passes
  /\ it.over = "room" => it.at \in Chats
  /\ it.over = "user" => it.at \in Users /\ (it.lost \/ it.at \in K)
  /\ \A w \in it.dead : W[w] = "closed"

HandlerOK(x, K, W) ==
  /\ x \in Handlers
  /\ x.pc \in Active \cup {"bye"} => x.user \in Users
  /\ x.pc \notin {"round", "bye"} => x.it = NoSocket
  /\ x.pc = "new" => x.joined = {}
  /\ x.pc = "round" => x.it \in Rounds /\ PassOK(x.it, K, W)
  /\ x.pc = "bye" => \/ x.it = NoSocket
                     \/ x.it \in Rounds /\ PassOK(x.it, K, W) /\ x.it.over = "room"

SetsOK ==
  /\ rooms \in [Chats -> SUBSET Sockets] /\ roomKeys \subseteq Chats
  /\ conns \in [Users -> SUBSET Sockets] /\ userKeys \subseteq Users
  /\ wire \in [Sockets -> {"open", "closed"}]
  /\ \A c \in Chats \ roomKeys : rooms[c] = {}
  /\ \A u \in Users \ userKeys : conns[u] = {}

HandlersOK ==
  /\ h \in [Sockets -> Handlers]
  /\ \A s \in Sockets : HandlerOK(h[s], userKeys, wire)

(* A socket is in no user's set but its own user's. *)
OneUserEach == \A s \in Sockets, u \in Users : s \in conns[u] => h[s].user = u

WsInv == SetsOK /\ HandlersOK /\ NoGhost /\ OneUserEach /\ StaysRegistered

-----------------------------------------------------------------------------
(* The kinds of steps.                                                     *)

LEMMA PassKept ==
  ASSUME NEW it, NEW K, NEW W, NEW V, PassOK(it, K, W),
         \A w \in Sockets : V[w] \in {W[w], "closed"}
  PROVE  PassOK(it, K, V)
<1>1. it.dead \subseteq Sockets
  BY DEF PassOK, Passes
<1> QED
  BY <1>1 DEF PassOK

LEMMA HandlerKept ==
  ASSUME NEW x, NEW K, NEW W, NEW V, HandlerOK(x, K, W),
         \A w \in Sockets : V[w] \in {W[w], "closed"}
  PROVE  HandlerOK(x, K, V)
BY PassKept DEF HandlerOK

(* The handler of s goes on as next and leaves the keys of the users; rooms *)
(* and users lose only sockets whose client is gone, s itself apart.       *)
LEMMA MoveStep ==
  ASSUME WsInv, NEW s \in Sockets, NEW next,
         HandlerOK(next, userKeys, wire'),
         rooms' \in [Chats -> SUBSET Sockets], conns' \in [Users -> SUBSET Sockets],
         roomKeys' \subseteq Chats, userKeys' = userKeys,
         wire' \in [Sockets -> {"open", "closed"}],
         \A w \in Sockets : wire'[w] \in {wire[w], "closed"},
         h' = [h EXCEPT ![s] = next],
         \A c \in Chats \ roomKeys' : rooms'[c] = {},
         \A c \in Chats : \A w \in Sockets \ {s} :
            /\ w \in rooms'[c] => w \in rooms[c]
            /\ wire'[w] = "open" /\ w \in rooms[c] => w \in rooms'[c],
         \A u \in Users : \A w \in Sockets :
            /\ w \in conns'[u] => w \in conns[u]
            /\ wire'[w] = "open" /\ w \in conns[u] => w \in conns'[u],
         next.user = h[s].user \/ next.pc = "done",
         \/ /\ h[s].pc \in Active /\ next.pc \in Active
            /\ wire'[s] = "open" => \A c \in Chats : s \in rooms'[c] <=> c \in next.joined
         \/ /\ h[s].pc \in {"new", "bye"} /\ next.pc \in {"bye", "done"}
            /\ \A c \in Chats : rooms'[c] \subseteq rooms[c]
  PROVE  WsInv'
<1>1. SetsOK'
  BY DEF WsInv, SetsOK
<1>2. h'[s] = next /\ \A w \in Sockets \ {s} : h'[w] = h[w]
  BY DEF WsInv, HandlersOK
<1>3. HandlersOK'
  <2>1. next \in Handlers
    BY DEF HandlerOK
  <2>2. \A w \in Sockets : HandlerOK(h[w], userKeys, wire')
    BY HandlerKept DEF WsInv, HandlersOK
  <2>3. \A w \in Sockets : HandlerOK(h'[w], userKeys', wire')
    BY <1>2, <2>2
  <2>4. h' \in [Sockets -> Handlers]
    BY <2>1 DEF WsInv, HandlersOK
  <2> QED
    BY <2>3, <2>4 DEF HandlersOK, HandlerOK, PassOK
<1>4. NoGhost'
  <2> SUFFICES ASSUME NEW w \in Sockets, h'[w].pc \in {"new", "bye", "done"}
               PROVE  /\ \A c \in Chats : w \notin rooms'[c]
                      /\ \A u \in Users : w \notin conns'[u]
    BY DEF NoGhost, Registered
  <2>1. CASE w = s
    <3>1. h[s].pc \in {"new", "bye"} /\ \A c \in Chats : rooms'[c] \subseteq rooms[c]
      BY <1>2, <2>1 DEF Active
    <3>2. /\ \A c \in Chats : s \notin rooms[c]
          /\ \A u \in Users : s \notin conns[u]
      BY <3>1 DEF WsInv, NoGhost, Registered
    <3> QED
      BY <2>1, <3>1, <3>2
  <2>2. CASE w # s
    <3>1. /\ \A c \in Chats : w \notin rooms[c]
          /\ \A u \in Users : w \notin conns[u]
      BY <1>2, <2>2 DEF WsInv, NoGhost, Registered
    <3> QED
      BY <2>2, <3>1
  <2> QED
    BY <2>1, <2>2
<1>5. OneUserEach'
  <2>1. ASSUME NEW w \in Sockets, NEW u \in Users, w \in conns'[u]
        PROVE  h'[w].user = u
    <3>1. w \in conns[u] /\ h[w].user = u
      BY <2>1 DEF WsInv, OneUserEach
    <3>2. CASE w = s
      <4>1. h[s].pc \notin {"new", "bye", "done"}
        BY <3>1, <3>2 DEF WsInv, NoGhost, Registered
      <4>2. next.pc # "done"
        BY <4>1 DEF Active
      <4> QED
        BY <1>2, <3>1, <3>2, <4>2
    <3>3. CASE w # s
      BY <1>2, <3>1, <3>3
    <3> QED
      BY <3>2, <3>3
  <2> QED
    BY <2>1 DEF OneUserEach
<1>6. StaysRegistered'
  <2> SUFFICES ASSUME NEW w \in Sockets, h'[w].pc \in Active, wire'[w] = "open"
               PROVE  /\ h'[w].user \in userKeys' /\ w \in conns'[h'[w].user]
                      /\ \A c \in Chats : w \in rooms'[c] <=> c \in h'[w].joined
    BY DEF StaysRegistered, Active
  <2>0. wire[w] = "open"
    BY DEF WsInv, SetsOK
  <2>1. h[w].pc \in Active /\ h'[w].user = h[w].user
    BY <1>2 DEF Active
  <2>2. /\ h[w].user \in userKeys /\ w \in conns[h[w].user]
        /\ \A c \in Chats : w \in rooms[c] <=> c \in h[w].joined
    BY <2>0, <2>1 DEF WsInv, StaysRegistered, Active
  <2>3. h[w].user \in Users
    BY <2>2 DEF WsInv, SetsOK
  <2>4. h'[w].user \in userKeys' /\ w \in conns'[h'[w].user]
    BY <2>1, <2>2, <2>3
  <2>5. \A c \in Chats : w \in rooms'[c] <=> c \in h'[w].joined
    BY <1>2, <2>2 DEF Active
  <2> QED
    BY <2>4, <2>5
<1> QED
  BY <1>1, <1>3, <1>4, <1>5, <1>6 DEF WsInv

(* disconnect() in the handler of s, which goes on as next: the passes of  *)
(* others over a user's set that is dropped are told.                      *)
LEMMA DisconnectStep ==
  ASSUME WsInv, NEW s \in Sockets, NEW next \in Handlers,
         NEW R \in [Chats -> SUBSET Sockets],
         h[s].pc \in Active,
         roomKeys' \subseteq Chats,
         \A c \in Chats \ roomKeys' : R[c] = {},
         \A c \in Chats : R[c] \ {s} = rooms[c] \ {s},
         Disconnect(s, R, conns, userKeys, next),
         wire' = [wire EXCEPT ![s] = "closed"],
         next.pc \in {"bye", "done"}, next.it = NoSocket,
         next.pc = "bye" => next.user \in Users
  PROVE  WsInv'
<1> DEFINE u == h[s].user
           dropped == u \in userKeys /\ conns[u] \subseteq {s}
           Told(x) == dropped /\ h[x].pc = "round" /\ h[x].it.over = "user" /\ h[x].it.at = u
<1>1. /\ conns' = IF u \in userKeys THEN [conns EXCEPT ![u] = @ \ {s}] ELSE conns
      /\ userKeys' = IF dropped THEN userKeys \ {u} ELSE userKeys
      /\ rooms' = [c \in Chats |-> R[c] \ {s}]
      /\ h' = [x \in Sockets |->
                  IF x = s THEN next
                  ELSE IF Told(x) THEN [h[x] EXCEPT !.it.lost = TRUE] ELSE h[x]]
  BY DEF Disconnect, WithoutSocket
<1>2. u \in Users
  BY DEF WsInv, HandlersOK, HandlerOK
<1>3. /\ h[s] \in Handlers /\ \A x \in Sockets : h[x] \in Handlers
      /\ \A x \in Sockets : HandlerOK(h[x], userKeys, wire)
  BY DEF WsInv, HandlersOK
<1>4. /\ conns \in [Users -> SUBSET Sockets] /\ userKeys \subseteq Users
      /\ rooms \in [Chats -> SUBSET Sockets] /\ wire \in [Sockets -> {"open", "closed"}]
      /\ \A v \in Users \ userKeys : conns[v] = {}
  BY DEF WsInv, SetsOK
<1>5. /\ conns' \in [Users -> SUBSET Sockets]
      /\ \A v \in Users : conns'[v] = IF v = u THEN conns[v] \ {s} ELSE conns[v]
  BY <1>1, <1>2, <1>4
<1>6. /\ wire' \in [Sockets -> {"open", "closed"}] /\ wire'[s] = "closed"
      /\ \A w \in Sockets \ {s} : wire'[w] = wire[w]
  BY <1>4
<1>7. /\ rooms' \in [Chats -> SUBSET Sockets]
      /\ \A c \in Chats : rooms'[c] = rooms[c] \ {s}
  BY <1>1, <1>4
<1>8. SetsOK'
  <2>1. \A c \in Chats \ roomKeys' : rooms'[c] = {}
    BY <1>1
  <2>2. \A v \in Users \ userKeys' : conns'[v] = {}
    BY <1>1, <1>4, <1>5
  <2>3. userKeys' \subseteq Users
    BY <1>1, <1>4
  <2> QED
    BY <1>5, <1>6, <1>7, <2>1, <2>2, <2>3 DEF SetsOK
<1>9. ASSUME NEW x \in Sockets \ {s}
      PROVE  /\ h'[x] \in Handlers /\ HandlerOK(h'[x], userKeys', wire')
             /\ h'[x].pc = h[x].pc /\ h'[x].user = h[x].user /\ h'[x].joined = h[x].joined
  <2>1. HandlerOK(h[x], userKeys, wire')
    BY <1>3, <1>6, HandlerKept
  <2>2. CASE Told(x)
    <3> DEFINE it == [h[x].it EXCEPT !.lost = TRUE]
               y == [h[x] EXCEPT !.it = it]
    <3>1. h[x].it \in Rounds /\ PassOK(h[x].it, userKeys, wire') /\ h[x].pc = "round"
          /\ h[x] \in Handlers /\ h[x].user \in Users
      BY <2>1, <2>2 DEF HandlerOK, Active
    <3>2. it \in Rounds /\ PassOK(it, userKeys', wire')
      BY <3>1 DEF Rounds, PassOK, Passes
    <3>3. h'[x] = y
      BY <1>1, <2>2
    <3> HIDE DEF it
    <3>4. /\ y \in Handlers /\ y.pc = "round" /\ y.it = it
          /\ y.user = h[x].user /\ y.joined = h[x].joined
      BY <3>1, <3>2 DEF Handlers
    <3> HIDE DEF y
    <3> QED
      BY <3>1, <3>2, <3>3, <3>4 DEF HandlerOK
  <2>3. CASE ~Told(x)
    <3>1. h'[x] = h[x]
      BY <1>1, <2>3
    <3>2. h[x].pc = "round" => PassOK(h[x].it, userKeys', wire')
      BY <1>1, <2>1, <2>3 DEF HandlerOK, PassOK
    <3>3. h[x].pc = "bye" /\ h[x].it # NoSocket => PassOK(h[x].it, userKeys', wire')
      BY <2>1 DEF HandlerOK, PassOK
    <3> QED
      BY <1>3, <2>1, <3>1, <3>2, <3>3 DEF HandlerOK
  <2> QED
    BY <2>2, <2>3
<1>10. h'[s] = next
  BY <1>1
<1>11. HandlersOK'
  <2>1. HandlerOK(next, userKeys', wire')
    BY DEF HandlerOK, Active
  <2>2. \A x \in Sockets : HandlerOK(h'[x], userKeys', wire') /\ h'[x] \in Handlers
    BY <1>9, <1>10, <2>1
  <2>3. h' \in [Sockets -> Handlers]
    BY <1>1, <2>2
  <2> QED
    BY <2>2, <2>3 DEF HandlersOK, HandlerOK, PassOK
<1> HIDE DEF u, dropped, Told
<1>12. \A v \in Users : s \notin conns'[v]
  BY <1>5 DEF WsInv, OneUserEach, u
<1>13. NoGhost'
  <2> SUFFICES ASSUME NEW w \in Sockets, h'[w].pc \in {"new", "bye", "done"}
               PROVE  /\ \A c \in Chats : w \notin rooms'[c]
                      /\ \A v \in Users : w \notin conns'[v]
    BY DEF NoGhost, Registered
  <2>1. CASE w = s
    BY <1>7, <1>12, <2>1
  <2>2. CASE w # s
    <3>1. h[w].pc \in {"new", "bye", "done"}
      BY <1>9, <2>2
    <3>2. /\ \A c \in Chats : w \notin rooms[c]
          /\ \A v \in Users : w \notin conns[v]
      BY <3>1 DEF WsInv, NoGhost, Registered
    <3> QED
      BY <1>5, <1>7, <3>2
  <2> QED
    BY <2>1, <2>2
<1>14. OneUserEach'
  BY <1>5, <1>9, <1>12 DEF WsInv, OneUserEach
<1>15. StaysRegistered'
  <2> SUFFICES ASSUME NEW w \in Sockets, h'[w].pc \in Active, wire'[w] = "open"
               PROVE  /\ h'[w].user \in userKeys' /\ w \in conns'[h'[w].user]
                      /\ \A c \in Chats : w \in rooms'[c] <=> c \in h'[w].joined
    BY DEF StaysRegistered, Active
  <2>1. w # s /\ wire[w] = "open" /\ h[w].pc \in Active
    BY <1>6, <1>9
  <2>2. /\ h[w].user \in userKeys /\ w \in conns[h[w].user]
        /\ \A c \in Chats : w \in rooms[c] <=> c \in h[w].joined
    BY <2>1 DEF WsInv, StaysRegistered, Active
  <2>3. h'[w].user \in userKeys'
    BY <1>1, <1>9, <2>1, <2>2 DEF dropped
  <2>4. w \in conns'[h'[w].user]
    BY <1>4, <1>5, <1>9, <2>1, <2>2
  <2>5. \A c \in Chats : w \in rooms'[c] <=> c \in h'[w].joined
    BY <1>7, <1>9, <2>1, <2>2
  <2> QED
    BY <2>3, <2>4, <2>5
<1> QED
  BY <1>8, <1>11, <1>13, <1>14, <1>15 DEF WsInv

LEMMA DoneType == /\ Done \in Handlers /\ Done.pc = "done" /\ Done.it = NoSocket
                  /\ \A K, W : HandlerOK(Done, K, W)
<1>1. /\ Done \in Handlers /\ Done.pc = "done" /\ Done.it = NoSocket
  BY DEF Done, NewHandler, Handlers
<1> QED
  BY <1>1 DEF HandlerOK, Active

(* What a handler may do to the rooms before it broadcasts: itself only. *)
OnlySelf(s, R) == /\ R \in [Chats -> SUBSET Sockets]
                  /\ \A c \in Chats : R[c] \ {s} = rooms[c] \ {s}
                  /\ \A c \in Chats \ roomKeys' : R[c] = {}

LEMMA RaiseStep ==
  ASSUME WsInv, NEW s \in Sockets, NEW R, OnlySelf(s, R), roomKeys' \subseteq Chats,
         h[s].pc \in Active \/ (h[s].pc = "bye" /\ R = rooms),
         Raise(s, R, conns)
  PROVE  WsInv'
<1>1. wire' = [wire EXCEPT ![s] = "closed"]
  BY DEF Raise
<1>2. CASE h[s].pc \in Active
  BY <1>1, <1>2, DoneType, DisconnectStep DEF Raise, Active, OnlySelf
<1>3. CASE h[s].pc = "bye" /\ R = rooms
  <2>1. /\ rooms' = rooms /\ conns' = conns /\ userKeys' = userKeys
        /\ h' = [h EXCEPT ![s] = Done]
    BY <1>3 DEF Raise
  <2>2. /\ wire' \in [Sockets -> {"open", "closed"}]
        /\ \A w \in Sockets : wire'[w] \in {wire[w], "closed"}
        /\ conns \in [Users -> SUBSET Sockets]
    BY <1>1 DEF WsInv, SetsOK
  <2>3. HandlerOK(Done, userKeys, wire') /\ Done.pc = "done"
    BY DoneType
  <2> QED
    BY <1>3, <2>1, <2>2, <2>3, MoveStep DEF OnlySelf
<1> QED
  BY <1>2, <1>3

(* A broadcast from one await to the next. *)
LEMMA AdvanceStep ==
  ASSUME WsInv, NEW s \in Sockets, NEW it, NEW next \in Handlers, NEW R,
         OnlySelf(s, R), roomKeys' \subseteq Chats,
         PassOK(it, userKeys, wire),
         next.user = h[s].user, next.user \in Users,
         \/ /\ h[s].pc \in Active /\ next.pc = "round"
            /\ wire[s] = "open" => \A c \in Chats : s \in R[c] <=> c \in next.joined
         \/ h[s].pc = "bye" /\ next.pc = "bye" /\ R = rooms /\ it.over = "room",
         Advance(s, it, next, R, conns)
  PROVE  WsInv'
<1> DEFINE S == SetOf(it, R, conns)
           rest == S \ (it.seen \cup {it.exclude})
           Live(x, T) == IF it.over = x THEN [T EXCEPT ![it.at] = @ \ it.dead] ELSE T
           Sending(w) == [next EXCEPT !.it = [it EXCEPT !.cur = w, !.seen = @ \cup {w}]]
           ended == [next EXCEPT !.pc = IF next.pc = "bye" THEN "bye" ELSE "loop",
                                 !.it = NoSocket]
<1>1. /\ R \in [Chats -> SUBSET Sockets] /\ conns \in [Users -> SUBSET Sockets]
      /\ \A c \in Chats : R[c] \ {s} = rooms[c] \ {s}
      /\ \A c \in Chats \ roomKeys' : R[c] = {}
      /\ wire \in [Sockets -> {"open", "closed"}]
  BY DEF OnlySelf, WsInv, SetsOK
<1>2. CASE Raise(s, R, conns)
  BY <1>2, RaiseStep
<1>3. ASSUME NEW w \in rest, Return(s, Sending(w), R, conns)
      PROVE  WsInv'
  <2>1. w \in Sockets
    BY <1>1 DEF SetOf, PassOK, Passes
  <2> DEFINE jt == [it EXCEPT !.cur = w, !.seen = @ \cup {w}]
             t == Sending(w)
  <2>2. jt \in Rounds /\ PassOK(jt, userKeys, wire) /\ jt.over = it.over
    BY <2>1 DEF PassOK, Passes, Rounds
  <2>3. t = [next EXCEPT !.it = jt]
    OBVIOUS
  <2>4. /\ rooms' = R /\ conns' = conns /\ h' = [h EXCEPT ![s] = t]
        /\ userKeys' = userKeys /\ wire' = wire
    BY <1>3 DEF Return
  <2> HIDE DEF jt, Sending, t
  <2>5. /\ t \in Handlers /\ t.pc = next.pc /\ t.user = next.user /\ t.joined = next.joined
        /\ t.it = jt
    BY <2>2, <2>3 DEF Handlers
  <2>6. HandlerOK(t, userKeys, wire)
    BY <2>2, <2>5 DEF HandlerOK, Active
  <2>7. \A c \in Chats : \A x \in Sockets \ {s} : x \in rooms'[c] <=> x \in rooms[c]
    BY <1>1, <2>4
  <2>8. \/ /\ h[s].pc \in Active /\ t.pc \in Active
           /\ wire'[s] = "open" => \A c \in Chats : s \in rooms'[c] <=> c \in t.joined
        \/ /\ h[s].pc \in {"new", "bye"} /\ t.pc \in {"bye", "done"}
           /\ \A c \in Chats : rooms'[c] \subseteq rooms[c]
    BY <2>4, <2>5 DEF Active
  <2>9. /\ HandlerOK(t, userKeys, wire') /\ t.user = h[s].user
        /\ rooms' \in [Chats -> SUBSET Sockets] /\ conns' \in [Users -> SUBSET Sockets]
        /\ wire' \in [Sockets -> {"open", "closed"}]
        /\ \A c \in Chats \ roomKeys' : rooms'[c] = {}
        /\ \A x \in Sockets : wire'[x] \in {wire[x], "closed"}
    BY <1>1, <2>4, <2>5, <2>6
  <2>10. \A v \in Users : \A x \in Sockets :
            /\ x \in conns'[v] => x \in conns[v]
            /\ wire'[x] = "open" /\ x \in conns[v] => x \in conns'[v]
    BY <2>4
  <2>11. h' = [h EXCEPT ![s] = t] /\ userKeys' = userKeys
    BY <2>4
  <2> HIDE DEF rest
  <2> QED
    BY <2>7, <2>8, <2>9, <2>10, <2>11, MoveStep
<1>4. CASE Return(s, ended, Live("room", R), Live("user", conns))
  <2>1. /\ rooms' = Live("room", R) /\ conns' = Live("user", conns)
        /\ h' = [h EXCEPT ![s] = ended] /\ userKeys' = userKeys /\ wire' = wire
    BY <1>4 DEF Return
  <2>2. /\ ended \in Handlers /\ ended.pc = IF next.pc = "bye" THEN "bye" ELSE "loop"
        /\ ended.user = next.user /\ ended.joined = next.joined /\ ended.it = NoSocket
    BY DEF Handlers
  <2> HIDE DEF ended
  <2>3. /\ rooms' \in [Chats -> SUBSET Sockets]
        /\ \A c \in Chats : /\ rooms'[c] \subseteq R[c]
                            /\ \A x \in Sockets : wire[x] = "open" /\ x \in R[c] => x \in rooms'[c]
    BY <1>1, <2>1 DEF PassOK
  <2>4. /\ conns' \in [Users -> SUBSET Sockets]
        /\ \A v \in Users : /\ conns'[v] \subseteq conns[v]
                            /\ \A x \in Sockets : wire[x] = "open" /\ x \in conns[v] => x \in conns'[v]
    BY <1>1, <2>1 DEF PassOK
  <2> HIDE DEF Live
  <2>5. HandlerOK(ended, userKeys, wire)
    BY <2>2 DEF HandlerOK, Active
  <2>6. \A c \in Chats : \A x \in Sockets \ {s} :
          /\ x \in rooms'[c] => x \in rooms[c]
          /\ wire'[x] = "open" /\ x \in rooms[c] => x \in rooms'[c]
    BY <1>1, <2>1, <2>3
  <2>7. \A c \in Chats \ roomKeys' : rooms'[c] = {}
    BY <1>1, <2>3
  <2>8. \/ /\ h[s].pc \in Active /\ ended.pc \in Active
           /\ wire'[s] = "open" => \A c \in Chats : s \in rooms'[c] <=> c \in ended.joined
        \/ /\ h[s].pc \in {"new", "bye"} /\ ended.pc \in {"bye", "done"}
           /\ \A c \in Chats : rooms'[c] \subseteq rooms[c]
    BY <2>1, <2>2, <2>3 DEF Active
  <2>9. /\ HandlerOK(ended, userKeys, wire') /\ ended.user = h[s].user
        /\ wire' \in [Sockets -> {"open", "closed"}]
        /\ \A x \in Sockets : wire'[x] \in {wire[x], "closed"}
    BY <1>1, <2>1, <2>2, <2>5
  <2>10. \A v \in Users : \A x \in Sockets :
            /\ x \in conns'[v] => x \in conns[v]
            /\ wire'[x] = "open" /\ x \in conns[v] => x \in conns'[v]
    BY <2>1, <2>4
  <2>11. h' = [h EXCEPT ![s] = ended] /\ userKeys' = userKeys
    BY <2>1
  <2> QED
    BY <2>3, <2>4, <2>6, <2>7, <2>8, <2>9, <2>10, <2>11, MoveStep
<1> HIDE DEF Live, ended, Sending, rest, S
<1> QED
  BY <1>2, <1>3, <1>4 DEF Advance, Live, ended, Sending, rest, S

-----------------------------------------------------------------------------
(* The steps.                                                              *)

LEMMA HandlerFacts ==
  ASSUME WsInv, NEW s \in Sockets
  PROVE  h[s] \in Handlers /\ HandlerOK(h[s], userKeys, wire)
BY DEF WsInv, HandlersOK

LEMMA RoomsKept ==
  ASSUME WsInv, NEW s \in Sockets, UNCHANGED roomKeys
  PROVE  OnlySelf(s, rooms) /\ roomKeys' \subseteq Chats
BY DEF WsInv, SetsOK, OnlySelf

LEMMA JoinedIsRooms ==
  ASSUME WsInv, NEW s \in Sockets, h[s].pc \in Active, wire[s] = "open"
  PROVE  \A c \in Chats : s \in rooms[c] <=> c \in h[s].joined
BY DEF WsInv, StaysRegistered, Active

LEMMA RoomPass ==
  ASSUME WsInv, NEW c \in Chats, NEW e \in Sockets \cup {NoSocket},
         NEW R \in [Chats -> SUBSET Sockets]
  PROVE  LET it == Round("room", c, e, R, conns)
         IN  PassOK(it, userKeys, wire) /\ it.over = "room"
BY DEF Round, PassOK, Passes

LEMMA BroadcastStep ==
  ASSUME WsInv, NEW s \in Sockets, h[s].pc = "loop", NEW c \in Chats,
         NEW e \in Sockets \cup {NoSocket}, NEW R \in [Chats -> SUBSET Sockets],
         NEW keys \in SUBSET Chats, NEW joined \in SUBSET Chats,
         \A d \in Chats : R[d] \ {s} = rooms[d] \ {s},
         \A d \in Chats \ keys : R[d] = {},
         wire[s] = "open" => \A d \in Chats : s \in R[d] <=> d \in joined,
         Broadcast(s, c, e, R, keys, joined)
  PROVE  WsInv'
<1> DEFINE next == [h[s] EXCEPT !.pc = "round", !.joined = joined]
           back == [next EXCEPT !.pc = "loop"]
           it == Round("room", c, e, R, conns)
<1>1. h[s] \in Handlers /\ HandlerOK(h[s], userKeys, wire)
  BY HandlerFacts
<1>2. h[s].user \in Users /\ h[s].it = NoSocket
  BY <1>1 DEF HandlerOK, Active
<1>3. /\ next \in Handlers /\ next.pc = "round" /\ next.user = h[s].user
      /\ next.joined = joined
  BY <1>1 DEF Handlers
<1>4. /\ back \in Handlers /\ back.pc = "loop" /\ back.user = h[s].user
      /\ back.joined = joined /\ back.it = NoSocket
  BY <1>1, <1>2 DEF Handlers
<1>5. roomKeys' = keys /\ OnlySelf(s, R)
  BY DEF Broadcast, OnlySelf
<1>6. \/ Advance(s, it, next, R, conns)
      \/ Return(s, back, R, conns)
  BY DEF Broadcast
<1>7. PassOK(it, userKeys, wire)
  BY RoomPass
<1> HIDE DEF next, back, it
<1>8. CASE Advance(s, it, next, R, conns)
  BY <1>2, <1>3, <1>5, <1>7, <1>8, AdvanceStep DEF Active
<1>9. CASE Return(s, back, R, conns)
  <2>1. /\ rooms' = R /\ conns' = conns /\ h' = [h EXCEPT ![s] = back]
        /\ userKeys' = userKeys /\ wire' = wire
    BY <1>9 DEF Return
  <2>2. HandlerOK(back, userKeys, wire')
    BY <1>2, <1>4, <2>1 DEF HandlerOK, Active
  <2>3. /\ rooms' \in [Chats -> SUBSET Sockets] /\ conns' \in [Users -> SUBSET Sockets]
        /\ wire' \in [Sockets -> {"open", "closed"}]
        /\ \A x \in Sockets : wire'[x] \in {wire[x], "closed"}
    BY <2>1 DEF WsInv, SetsOK
  <2>4. \A d \in Chats : \A x \in Sockets \ {s} : x \in rooms'[d] <=> x \in rooms[d]
    BY <2>1
  <2>5. \A d \in Chats \ roomKeys' : rooms'[d] = {}
    BY <1>5, <2>1
  <2>6. /\ h[s].pc \in Active /\ back.pc \in Active
        /\ wire'[s] = "open" => \A d \in Chats : s \in rooms'[d] <=> d \in back.joined
    BY <1>4, <2>1 DEF Active
  <2>7. \A v \in Users : \A x \in Sockets : x \in conns'[v] <=> x \in conns[v]
    BY <2>1
  <2>8. h' = [h EXCEPT ![s] = back] /\ userKeys' = userKeys /\ roomKeys' \subseteq Chats
    BY <1>5, <2>1
  <2> QED
    BY <1>4, <2>2, <2>3, <2>4, <2>5, <2>6, <2>7, <2>8, MoveStep
<1> QED
  BY <1>6, <1>8, <1>9

LEMMA RoomEventStep ==
  ASSUME WsInv, NEW s \in Sockets, NEW c \in Chats,
         JoinChat(s, c) \/ LeaveChat(s, c) \/ Typing(s, c)
  PROVE  WsInv'
<1>1. h[s].pc = "loop"
  BY DEF JoinChat, LeaveChat, Typing, Receives
<1>2. /\ rooms \in [Chats -> SUBSET Sockets] /\ roomKeys \in SUBSET Chats
      /\ \A d \in Chats \ roomKeys : rooms[d] = {}
  BY DEF WsInv, SetsOK
<1>3. h[s].joined \in SUBSET Chats
  BY HandlerFacts DEF Handlers
<1>4. wire[s] = "open" => \A d \in Chats : s \in rooms[d] <=> d \in h[s].joined
  BY <1>1, JoinedIsRooms DEF Active
<1>5. CASE JoinChat(s, c)
  <2> DEFINE R == [rooms EXCEPT ![c] = @ \cup {s}]
             keys == roomKeys \cup {c}
             joined == h[s].joined \cup {c}
  <2>1. /\ R \in [Chats -> SUBSET Sockets] /\ keys \in SUBSET Chats
        /\ joined \in SUBSET Chats
        /\ \A d \in Chats : R[d] \ {s} = rooms[d] \ {s}
        /\ \A d \in Chats \ keys : R[d] = {}
        /\ wire[s] = "open" => \A d \in Chats : s \in R[d] <=> d \in joined
    BY <1>2, <1>3, <1>4
  <2>2. Broadcast(s, c, s, R, keys, joined)
    BY <1>5 DEF JoinChat
  <2> HIDE DEF R, keys, joined
  <2> QED
    BY <1>1, <2>1, <2>2, BroadcastStep
<1>6. CASE LeaveChat(s, c)
  <2> DEFINE R == [rooms EXCEPT ![c] = @ \ {s}]
             joined == h[s].joined \ {c}
  <2>1. /\ R \in [Chats -> SUBSET Sockets] /\ joined \in SUBSET Chats
        /\ \A d \in Chats : R[d] \ {s} = rooms[d] \ {s}
        /\ \A d \in Chats \ roomKeys : R[d] = {}
        /\ wire[s] = "open" => \A d \in Chats : s \in R[d] <=> d \in joined
    BY <1>2, <1>3, <1>4
  <2>2. Broadcast(s, c, NoSocket, R, roomKeys, joined)
    BY <1>6 DEF LeaveChat
  <2> HIDE DEF R, joined
  <2> QED
    BY <1>1, <1>2, <2>1, <2>2, BroadcastStep
<1>7. CASE Typing(s, c)
  <2>1. Broadcast(s, c, s, rooms, roomKeys, h[s].joined)
    BY <1>7 DEF Typing
  <2> QED
    BY <1>1, <1>2, <1>3, <1>4, <2>1, BroadcastStep
<1> QED
  BY <1>5, <1>6, <1>7

LEMMA PresenceStep ==
  ASSUME WsInv, NEW s \in Sockets, Presence(s)
  PROVE  WsInv'
<1> DEFINE u == h[s].user
           next == [h[s] EXCEPT !.pc = "round"]
           it == Round("user", u, NoSocket, rooms, conns)
<1>1. /\ h[s].pc = "loop" /\ u \in userKeys /\ UNCHANGED roomKeys
      /\ Advance(s, it, next, rooms, conns)
  BY DEF Presence, Receives
<1>2. h[s] \in Handlers
  BY HandlerFacts
<1>3. /\ next \in Handlers /\ next.pc = "round" /\ next.user = u /\ next.joined = h[s].joined
  BY <1>2 DEF Handlers
<1>4. u \in Users
  BY <1>1 DEF WsInv, SetsOK
<1>5. PassOK(it, userKeys, wire)
  BY <1>1, <1>4 DEF WsInv, SetsOK, Round, PassOK, Passes
<1>6. wire[s] = "open" => \A c \in Chats : s \in rooms[c] <=> c \in next.joined
  BY <1>1, <1>3, JoinedIsRooms DEF Active
<1> HIDE DEF next, it
<1> QED
  BY <1>1, <1>3, <1>4, <1>5, <1>6, RoomsKept, AdvanceStep DEF Active

LEMMA LeaveStep ==
  ASSUME WsInv, NEW s \in Sockets, h[s].pc \in {"loop", "pong"}, Leave(s)
  PROVE  WsInv'
<1> DEFINE next == [h[s] EXCEPT !.pc = "bye", !.todo = roomKeys]
<1>1. h[s] \in Handlers /\ h[s].it = NoSocket /\ h[s].user \in Users
  BY HandlerFacts DEF HandlerOK, Active
<1>2. next \in Handlers /\ next.pc = "bye" /\ next.it = NoSocket /\ next.user \in Users
  BY <1>1 DEF Handlers, WsInv, SetsOK
<1>3. /\ Disconnect(s, rooms, conns, userKeys, next) /\ UNCHANGED roomKeys
      /\ wire' = [wire EXCEPT ![s] = "closed"]
  BY DEF Leave
<1> HIDE DEF next
<1>4. OnlySelf(s, rooms) /\ roomKeys' \subseteq Chats
  BY <1>3, RoomsKept
<1> QED
  BY <1>2, <1>3, <1>4, DisconnectStep DEF OnlySelf, Active

(* Steps that change the handler of s and nothing of the dictionaries. *)
LEMMA HandlerStep ==
  ASSUME WsInv, NEW s \in Sockets, NEW next,
         UNCHANGED <<rooms, roomKeys, conns, userKeys>>,
         wire' \in {wire, [wire EXCEPT ![s] = "closed"]},
         h' = [h EXCEPT ![s] = next],
         HandlerOK(next, userKeys, wire'),
         next.user = h[s].user \/ next.pc = "done",
         \/ h[s].pc \in Active /\ next.pc \in Active /\ next.joined = h[s].joined
         \/ h[s].pc \in {"new", "bye"} /\ next.pc \in {"bye", "done"}
  PROVE  WsInv'
<1>1. /\ wire' \in [Sockets -> {"open", "closed"}]
      /\ \A x \in Sockets : wire'[x] \in {wire[x], "closed"}
  BY DEF WsInv, SetsOK
<1>2. /\ rooms' = rooms /\ conns' = conns /\ userKeys' = userKeys /\ roomKeys' = roomKeys
      /\ rooms' \in [Chats -> SUBSET Sockets] /\ conns' \in [Users -> SUBSET Sockets]
      /\ roomKeys' \subseteq Chats /\ \A c \in Chats \ roomKeys' : rooms'[c] = {}
  BY DEF WsInv, SetsOK
<1>3. wire'[s] = "open" => wire[s] = "open"
  BY <1>1
<1>4. h[s].pc \in Active /\ wire[s] = "open" => \A c \in Chats : s \in rooms[c] <=> c \in h[s].joined
  BY JoinedIsRooms
<1>5. \/ /\ h[s].pc \in Active /\ next.pc \in Active
         /\ wire'[s] = "open" => \A c \in Chats : s \in rooms'[c] <=> c \in next.joined
      \/ /\ h[s].pc \in {"new", "bye"} /\ next.pc \in {"bye", "done"}
         /\ \A c \in Chats : rooms'[c] \subseteq rooms[c]
  BY <1>2, <1>3, <1>4
<1> QED
  BY <1>1, <1>2, <1>5, MoveStep

LEMMA QuietSteps ==
  ASSUME WsInv, NEW s \in Sockets,
         Refuse(s) \/ ClientCloses(s) \/ Ping(s)
  PROVE  WsInv'
<1>1. h[s] \in Handlers /\ HandlerOK(h[s], userKeys, wire)
  BY HandlerFacts
<1>2. CASE Refuse(s)
  BY <1>2, DoneType, HandlerStep DEF Refuse
<1>3. CASE ClientCloses(s)
  <2>1. \A x \in Sockets : wire'[x] \in {wire[x], "closed"}
    BY <1>3 DEF ClientCloses, WsInv, SetsOK
  <2>2. HandlerOK(h[s], userKeys, wire')
    BY <1>1, <2>1, HandlerKept
  <2>3. h' = [h EXCEPT ![s] = h[s]]
    BY <1>3 DEF ClientCloses, WsInv, HandlersOK
  <2>4. h[s].pc \in Active \cup {"bye", "done"}
    BY <1>1, <1>3 DEF ClientCloses, Handlers, Active
  <2>5. CASE h[s].pc \in Active \cup {"bye"}
    BY <1>3, <2>2, <2>3, <2>5, HandlerStep DEF ClientCloses
  <2>6. CASE h[s].pc = "done"
    <3>1. SetsOK' /\ NoGhost' /\ OneUserEach'
      BY <1>3 DEF ClientCloses, WsInv, SetsOK, NoGhost, Registered, OneUserEach
    <3>2. StaysRegistered'
      BY <1>3, <2>1 DEF ClientCloses, WsInv, SetsOK, StaysRegistered
    <3>3. \A x \in Sockets : HandlerOK(h[x], userKeys, wire')
      BY <2>1, HandlerKept DEF WsInv, HandlersOK
    <3>4. HandlersOK'
      BY <1>3, <3>3 DEF ClientCloses, WsInv, HandlersOK, HandlerOK, PassOK
    <3> QED
      BY <3>1, <3>2, <3>4 DEF WsInv
  <2> QED
    BY <2>4, <2>5, <2>6
<1>4. CASE Ping(s)
  <2> DEFINE next == [h[s] EXCEPT !.pc = "pong"]
  <2>1. h[s].pc = "loop" /\ wire' = wire
    BY <1>4 DEF Ping, Receives
  <2>2. /\ next \in Handlers /\ next.pc = "pong" /\ next.it = h[s].it
        /\ next.user = h[s].user /\ next.joined = h[s].joined
    BY <1>1 DEF Handlers
  <2>3. h' = [h EXCEPT ![s] = next] /\ UNCHANGED <<rooms, roomKeys, conns, userKeys>>
    BY <1>4 DEF Ping
  <2> HIDE DEF next
  <2>4. HandlerOK(next, userKeys, wire')
    BY <1>1, <2>1, <2>2 DEF HandlerOK, Active
  <2> QED
    BY <2>1, <2>2, <2>3, <2>4, HandlerStep DEF Active
<1> QED
  BY <1>2, <1>3, <1>4

LEMMA ConnectStep ==
  ASSUME WsInv, NEW s \in Sockets, Connect(s)
  PROVE  WsInv'
<1> PICK u \in Users : /\ h' = [h EXCEPT ![s].pc = "loop", ![s].user = u]
                       /\ conns' = [conns EXCEPT ![u] = @ \cup {s}]
                       /\ userKeys' = userKeys \cup {u}
  BY DEF Connect
<1> DEFINE next == [h[s] EXCEPT !.pc = "loop", !.user = u]
<1>1. /\ h[s].pc = "new" /\ rooms' = rooms /\ roomKeys' = roomKeys /\ wire' = wire
  BY DEF Connect
<1>2. h[s] \in Handlers /\ h[s].it = NoSocket /\ h[s].joined = {}
  BY <1>1, HandlerFacts DEF HandlerOK
<1>3. /\ next \in Handlers /\ next.pc = "loop" /\ next.user = u /\ next.it = NoSocket
      /\ next.joined = h[s].joined
  BY <1>2 DEF Handlers
<1>4. h' = [h EXCEPT ![s] = next]
  BY DEF WsInv, HandlersOK
<1> HIDE DEF next
<1>5. h'[s] = next /\ \A w \in Sockets \ {s} : h'[w] = h[w]
  BY <1>4 DEF WsInv, HandlersOK
<1>6. /\ conns' \in [Users -> SUBSET Sockets] /\ conns \in [Users -> SUBSET Sockets]
      /\ \A v \in Users : conns'[v] = IF v = u THEN conns[v] \cup {s} ELSE conns[v]
  BY DEF WsInv, SetsOK
<1>7. /\ \A c \in Chats : s \notin rooms[c]
      /\ \A v \in Users : s \notin conns[v]
  BY <1>1 DEF WsInv, NoGhost, Registered
<1>8. SetsOK'
  BY <1>1, <1>6 DEF WsInv, SetsOK
<1>9. HandlersOK'
  <2>1. HandlerOK(next, userKeys', wire)
    BY <1>3 DEF HandlerOK, Active
  <2>2. \A w \in Sockets : HandlerOK(h[w], userKeys', wire)
    <3>1. \A it : PassOK(it, userKeys, wire) => PassOK(it, userKeys', wire)
      BY DEF PassOK
    <3>2. \A w \in Sockets : HandlerOK(h[w], userKeys, wire)
      BY DEF WsInv, HandlersOK
    <3> QED
      BY <3>1, <3>2 DEF HandlerOK
  <2>3. \A w \in Sockets : HandlerOK(h'[w], userKeys', wire')
    BY <1>1, <1>5, <2>1, <2>2
  <2>4. h' \in [Sockets -> Handlers]
    BY <1>3, <1>4 DEF WsInv, HandlersOK
  <2> QED
    BY <2>3, <2>4 DEF HandlersOK, HandlerOK, PassOK
<1>10. NoGhost'
  BY <1>1, <1>3, <1>5, <1>6 DEF WsInv, NoGhost, Registered
<1>11. OneUserEach'
  <2>1. ASSUME NEW w \in Sockets, NEW v \in Users, w \in conns'[v]
        PROVE  h'[w].user = v
    <3>1. CASE w = s
      <4>1. v = u
        BY <1>6, <1>7, <2>1, <3>1
      <4> QED
        BY <1>3, <1>5, <3>1, <4>1
    <3>2. CASE w # s
      <4>1. w \in conns[v]
        BY <1>6, <2>1, <3>2
      <4> QED
        BY <1>5, <3>2, <4>1 DEF WsInv, OneUserEach
    <3> QED
      BY <3>1, <3>2
  <2> QED
    BY <2>1 DEF OneUserEach
<1>12. StaysRegistered'
  <2> SUFFICES ASSUME NEW w \in Sockets, h'[w].pc \in Active, wire'[w] = "open"
               PROVE  /\ h'[w].user \in userKeys' /\ w \in conns'[h'[w].user]
                      /\ \A c \in Chats : w \in rooms'[c] <=> c \in h'[w].joined
    BY DEF StaysRegistered, Active
  <2>1. CASE w = s
    <3>1. h'[w].user = u /\ h'[w].joined = {}
      BY <1>2, <1>3, <1>5, <2>1
    <3>2. u \in userKeys' /\ s \in conns'[u]
      BY <1>6
    <3> QED
      BY <1>1, <1>7, <2>1, <3>1, <3>2
  <2>2. CASE w # s
    <3>1. /\ h[w].user \in userKeys /\ w \in conns[h[w].user]
          /\ \A c \in Chats : w \in rooms[c] <=> c \in h[w].joined
      BY <1>1, <1>5, <2>2 DEF WsInv, StaysRegistered, Active
    <3>2. h[w].user \in Users
      BY <3>1 DEF WsInv, SetsOK
    <3>3. h'[w] = h[w]
      BY <1>5, <2>2
    <3>4. w \in conns'[h[w].user] /\ h[w].user \in userKeys'
      BY <1>6, <3>1, <3>2
    <3> QED
      BY <1>1, <3>1, <3>3, <3>4
  <2> QED
    BY <2>1, <2>2
<1> QED
  BY <1>8, <1>9, <1>10, <1>11, <1>12 DEF WsInv

LEMMA RunStep ==
  ASSUME WsInv, NEW s \in Sockets, Run(s) \/ BadEvent(s)
  PROVE  WsInv'
<1>1. h[s] \in Handlers /\ HandlerOK(h[s], userKeys, wire)
  BY HandlerFacts
<1>2. CASE BadEvent(s)
  BY <1>2, RoomsKept, RaiseStep DEF BadEvent, Receives, Active
<1>3. CASE Disconnected(s)
  BY <1>3, LeaveStep DEF Disconnected
<1>4. CASE Pong(s)
  <2> DEFINE next == [h[s] EXCEPT !.pc = "loop"]
  <2>0. h[s].pc = "pong"
    BY <1>4 DEF Pong
  <2>1. CASE Return(s, next, rooms, conns) /\ UNCHANGED roomKeys
    <3>1. /\ next \in Handlers /\ next.pc = "loop" /\ next.it = h[s].it
          /\ next.user = h[s].user /\ next.joined = h[s].joined
      BY <1>1 DEF Handlers
    <3>2. /\ h' = [h EXCEPT ![s] = next] /\ UNCHANGED <<rooms, roomKeys, conns, userKeys>>
          /\ wire' = wire
      BY <2>1 DEF Return
    <3> HIDE DEF next
    <3>3. HandlerOK(next, userKeys, wire')
      BY <1>1, <2>0, <3>1, <3>2 DEF HandlerOK, Active
    <3> QED
      BY <2>0, <3>1, <3>2, <3>3, HandlerStep DEF Active
  <2>2. CASE Raise(s, rooms, conns) /\ UNCHANGED roomKeys
    BY <2>0, <2>2, RoomsKept, RaiseStep DEF Active
  <2>3. CASE Leave(s)
    BY <2>0, <2>3, LeaveStep
  <2> QED
    BY <1>4, <2>1, <2>2, <2>3 DEF Pong
<1>5. CASE Resume(s)
  <2>1. h[s].pc \in {"round", "bye"} /\ h[s].it # NoSocket /\ UNCHANGED roomKeys
    BY <1>5 DEF Resume
  <2>2. /\ h[s].it \in Rounds /\ PassOK(h[s].it, userKeys, wire) /\ h[s].user \in Users
        /\ h[s].pc = "bye" => h[s].it.over = "room"
    BY <1>1, <2>1 DEF HandlerOK, Active
  <2>3. wire[s] = "open" /\ h[s].pc = "round"
          => \A c \in Chats : s \in rooms[c] <=> c \in h[s].joined
    BY JoinedIsRooms DEF Active
  <2>4. ASSUME NEW it, PassOK(it, userKeys, wire), it.over = h[s].it.over,
               Advance(s, it, h[s], rooms, conns)
        PROVE  WsInv'
    BY <1>1, <2>1, <2>2, <2>3, <2>4, RoomsKept, AdvanceStep DEF Active
  <2> DEFINE jt == [h[s].it EXCEPT !.dead = @ \cup {h[s].it.cur}]
  <2>5. wire[h[s].it.cur] = "closed" => PassOK(jt, userKeys, wire) /\ jt.over = h[s].it.over
    BY <2>2 DEF PassOK, Passes, Rounds
  <2>6. \/ wire[h[s].it.cur] = "closed" /\ Advance(s, jt, h[s], rooms, conns)
        \/ Advance(s, h[s].it, h[s], rooms, conns)
    BY <1>5 DEF Resume
  <2> HIDE DEF jt
  <2> QED
    BY <2>2, <2>4, <2>5, <2>6
<1>6. CASE Goodbye(s)
  <2>1. h[s].pc = "bye" /\ h[s].it = NoSocket /\ UNCHANGED roomKeys
    BY <1>6 DEF Goodbye
  <2>2. CASE Return(s, Done, rooms, conns)
    <3>1. /\ h' = [h EXCEPT ![s] = Done] /\ UNCHANGED <<rooms, roomKeys, conns, userKeys>>
          /\ wire' = wire
      BY <2>1, <2>2 DEF Return
    <3> QED
      BY <2>1, <3>1, DoneType, HandlerStep
  <2>3. ASSUME NEW c \in h[s].todo,
               Advance(s, Round("room", c, NoSocket, rooms, conns),
                       [h[s] EXCEPT !.todo = @ \ {c}], rooms, conns)
        PROVE  WsInv'
    <3> DEFINE next == [h[s] EXCEPT !.todo = @ \ {c}]
               it == Round("room", c, NoSocket, rooms, conns)
    <3>1. c \in Chats /\ rooms \in [Chats -> SUBSET Sockets]
      BY <1>1 DEF Handlers, WsInv, SetsOK
    <3>2. PassOK(it, userKeys, wire) /\ it.over = "room"
      BY <3>1, RoomPass
    <3>3. next \in Handlers /\ next.pc = "bye" /\ next.user = h[s].user
      BY <1>1, <2>1 DEF Handlers
    <3>4. h[s].user \in Users
      BY <1>1, <2>1 DEF HandlerOK
    <3>5. Advance(s, it, next, rooms, conns)
      BY <2>3
    <3> HIDE DEF next, it
    <3> QED
      BY <2>1, <3>2, <3>3, <3>4, <3>5, RoomsKept, AdvanceStep
  <2> QED
    BY <1>6, <2>2, <2>3 DEF Goodbye
<1> QED
  BY <1>2, <1>3, <1>4, <1>5, <1>6 DEF Run

LEMMA WsInit == Init => WsInv
<1> SUFFICES ASSUME Init PROVE WsInv
  OBVIOUS
<1>1. /\ NewHandler \in Handlers /\ NewHandler.pc = "new" /\ NewHandler.it = NoSocket
      /\ NewHandler.joined = {}
  BY DEF NewHandler, Handlers
<1>2. SetsOK /\ NoGhost /\ OneUserEach
  BY DEF Init, SetsOK, NoGhost, Registered, OneUserEach
<1>3. HandlersOK
  BY <1>1 DEF Init, HandlersOK, HandlerOK, Active
<1>4. StaysRegistered
  BY <1>1 DEF Init, StaysRegistered
<1> QED
  BY <1>2, <1>3, <1>4 DEF WsInv

(* The invariant is inductive. *)
LEMMA WsInvStep == WsInv /\ [Next]_vars => WsInv'
<1> SUFFICES ASSUME WsInv, [Next]_vars PROVE WsInv'
  OBVIOUS
<1>1. CASE UNCHANGED vars
  <2>1. SetsOK' /\ NoGhost' /\ OneUserEach' /\ StaysRegistered'
    BY <1>1 DEF WsInv, SetsOK, NoGhost, Registered, OneUserEach, StaysRegistered, vars
  <2>2. HandlersOK'
    BY <1>1 DEF WsInv, HandlersOK, HandlerOK, PassOK, vars
  <2> QED
    BY <2>1, <2>2 DEF WsInv
<1>2. CASE Next
  BY <1>2, ConnectStep, RunStep, QuietSteps, PresenceStep, RoomEventStep DEF Next
<1> QED
  BY <1>1, <1>2

LEMMA WsInvHolds == Spec => []WsInv
BY WsInit, WsInvStep, PTL DEF Spec

-----------------------------------------------------------------------------
(* The dictionaries and the handlers are well typed, whatever the handlers *)
(* of manager.py and handler.py do to each other's sets.                   *)
THEOREM TypeCorrect == Spec => []TypeOK
<1>1. WsInv => TypeOK
  BY DEF WsInv, SetsOK, HandlersOK, TypeOK
<1> QED
  BY <1>1, WsInvHolds, PTL

(* disconnect() leaves nothing of a socket, and nothing brings it back:    *)
(* for any number of sockets, and of broadcasts under way.                 *)
THEOREM NoGhostHolds == Spec => []NoGhost
<1>1. WsInv => NoGhost
  BY DEF WsInv
<1> QED
  BY <1>1, WsInvHolds, PTL

(* A connection whose client is there is never unregistered by others:     *)
(* broadcasts remove only sockets to which a send has failed.              *)
THEOREM StaysRegisteredHolds == Spec => []StaysRegistered
<1>1. WsInv => StaysRegistered
  BY DEF WsInv
<1> QED
  BY <1>1, WsInvHolds, PTL

(* The last statement of send_personal finds the key of its user, as the   *)
(* iterator of a set that was dropped has raised before.                   *)
THEOREM PersonalKeyPresentHolds == Spec => []PersonalKeyPresent
<1>1. WsInv => PersonalKeyPresent
  BY DEF WsInv, HandlersOK, HandlerOK, PassOK, PersonalKeyPresent
<1> QED
  BY <1>1, WsInvHolds, PTL
=============================================================================
