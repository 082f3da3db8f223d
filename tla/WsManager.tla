----------------------------- MODULE WsManager -----------------------------
(***************************************************************************)
(* The WebSocket side of the backend: the ConnectionManager of             *)
(* backend/app/websocket/manager.py and the handler coroutine of           *)
(* backend/app/websocket/handler.py, one per connection, on one event      *)
(* loop.                                                                   *)
(*                                                                         *)
(* A coroutine gives up control only where it awaits: while it waits for   *)
(* an event, and inside "await ws.send_json(...)" of a broadcast, which    *)
(* runs over the live set of a room or user.  Python's set iterator raises *)
(* RuntimeError when it is advanced and the set's size has changed; a set  *)
(* that was changed and has its size again is iterated on, and what was    *)
(* added, or moved by the set's resizing, may be missed.                   *)
(***************************************************************************)
EXTENDS Naturals, FiniteSets

CONSTANTS
    Sockets,   \* connections a client may open; each is used once
    Users,     \* user ids in valid tokens
    Chats,     \* room ids
    NoSocket,  \* "exclude=None"
    MaxRounds  \* bound on the broadcasts suspended in a send at a time

ASSUME NoSocketAssumption == NoSocket \notin Sockets
ASSUME MaxRoundsAssumption == MaxRounds \in Nat

VARIABLES
    rooms,    \* _connections: room -> set of sockets
    roomKeys, \* the keys of _connections, which are never deleted
    conns,    \* _user_connections: user -> set of sockets
    userKeys, \* the keys of _user_connections
    wire,     \* whether the client's end of a socket is still there; events that
              \* it sent before it went may still be queued
    h         \* the handler of each socket

vars == <<rooms, roomKeys, conns, userKeys, wire, h>>

\* A pass over the set of a room or a user, suspended in a send to a socket.
Rounds == [over : {"room", "user"}, at : Chats \cup Users, exclude : Sockets \cup {NoSocket},
           first : SUBSET Sockets,   \* the set as the pass began
           seen : SUBSET Sockets,    \* sockets sent to, the current one included
           cur : Sockets,
           dead : SUBSET Sockets,    \* sockets whose send raised
           lost : BOOLEAN]           \* the set was dropped from the dictionary

(* new: the token is not checked yet; loop: in receive_json; round: in a   *)
(* broadcast of the loop; pong: in the answer to a ping; bye: in a         *)
(* broadcast of the goodbye to all rooms; done: returned.                  *)
Handlers == [pc : {"new", "loop", "round", "pong", "bye", "done"}, user : Users \cup {NoSocket},
             joined : SUBSET Chats,   \* history: the chats the client has joined
             todo : SUBSET Chats,     \* rooms still to say goodbye to
             it : Rounds \cup {NoSocket}]

NewHandler == [pc |-> "new", user |-> NoSocket, joined |-> {}, todo |-> {}, it |-> NoSocket]

(* The type of the state.  A room or user without an entry in the          *)
(* dictionary of connect() or join_room() stands for an empty set.         *)
TypeOK ==
    /\ rooms \in [Chats -> SUBSET Sockets] /\ roomKeys \subseteq Chats
    /\ conns \in [Users -> SUBSET Sockets] /\ userKeys \subseteq Users
    /\ wire \in [Sockets -> {"open", "closed"}]
    /\ h \in [Sockets -> Handlers]
    /\ \A c \in Chats \ roomKeys : rooms[c] = {}
    /\ \A u \in Users \ userKeys : conns[u] = {}

Init ==
    /\ rooms = [c \in Chats |-> {}] /\ roomKeys = {}
    /\ conns = [u \in Users |-> {}] /\ userKeys = {}
    /\ wire = [s \in Sockets |-> "open"]
    /\ h = [s \in Sockets |-> NewHandler]

-----------------------------------------------------------------------------
(* disconnect(): the socket leaves its user's set, which is dropped when   *)
(* empty, and all rooms.  R, U and K are the rooms, users and user keys    *)
(* before it; next is what the handler of s becomes.                       *)

WithoutSocket(R, s) == [x \in DOMAIN R |-> R[x] \ {s}]

\* Mutants: the user's entry is popped with its set unchanged; all sockets of
\* the user are dropped; the rooms are not cleaned.
Disconnect_PopsUser(s, R, U, K, next) ==
    /\ conns' = U /\ userKeys' = K \ {h[s].user}
    /\ rooms' = WithoutSocket(R, s)
    /\ h' = [h EXCEPT ![s] = next]

Disconnect_WholeUser(s, R, U, K, next) ==
    /\ conns' = [U EXCEPT ![h[s].user] = {}] /\ userKeys' = K \ {h[s].user}
    /\ rooms' = WithoutSocket(R, s)
    /\ h' = [h EXCEPT ![s] = next]

Disconnect_KeepsRooms(s, R, U, K, next) ==
    /\ conns' = [U EXCEPT ![h[s].user] = @ \ {s}]
    /\ userKeys' = IF U[h[s].user] \subseteq {s} THEN K \ {h[s].user} ELSE K
    /\ rooms' = R
    /\ h' = [h EXCEPT ![s] = next]

Disconnect(s, R, U, K, next) ==
    LET u == h[s].user
        dropped == u \in K /\ U[u] \subseteq {s} IN
    /\ conns' = IF u \in K THEN [U EXCEPT ![u] = @ \ {s}] ELSE U
    /\ userKeys' = IF dropped THEN K \ {u} ELSE K
    /\ rooms' = WithoutSocket(R, s)
    /\ h' = [x \in Sockets |->
                IF x = s THEN next
                ELSE IF dropped /\ h[x].pc = "round" /\ h[x].it.over = "user" /\ h[x].it.at = u
                THEN [h[x] EXCEPT !.it.lost = TRUE]
                ELSE h[x]]

Done == [NewHandler EXCEPT !.pc = "done"]

-----------------------------------------------------------------------------
(* broadcast_to_room() and send_personal().                                *)

SetOf(it, R, U) == IF it.over = "room" THEN R[it.at] ELSE U[it.at]

Round(over, at, exclude, R, U) ==
    [over |-> over, at |-> at, exclude |-> exclude,
     first |-> IF over = "room" THEN R[at] ELSE U[at],
     seen |-> {}, cur |-> exclude, dead |-> {}, lost |-> FALSE]

\* Mutant: the loop's "except Exception" only logs.
Raise_NoDisconnect(s, R, U) ==
    /\ rooms' = R /\ conns' = U /\ userKeys' = userKeys
    /\ h' = [h EXCEPT ![s] = Done]
    /\ wire' = [wire EXCEPT ![s] = "closed"]

\* The round of s raises: the loop's "except Exception" disconnects s, an
\* exception out of the goodbye leaves the handler.  The server then closes
\* the socket.
Raise(s, R, U) ==
    /\ IF h[s].pc = "bye"
       THEN rooms' = R /\ conns' = U /\ userKeys' = userKeys /\ h' = [h EXCEPT ![s] = Done]
       ELSE Disconnect(s, R, U, userKeys, Done)
    /\ wire' = [wire EXCEPT ![s] = "closed"]

\* A round is over: the handler goes back to where it was called.
Return(s, next, R, U) ==
    /\ rooms' = R /\ conns' = U
    /\ h' = [h EXCEPT ![s] = next]
    /\ UNCHANGED <<userKeys, wire>>

\* From one await of a round to the next: the iterator of it is advanced on the
\* sets R and U, for the handler that is, but for it, next.
Advance(s, it, next, R, U) ==
    LET S == SetOf(it, R, U)
        rest == S \ (it.seen \cup {it.exclude})
        changed == S # it.first
        raises == it.lost \/ Cardinality(S) # Cardinality(it.first)
        Live(x, T) == IF it.over = x THEN [T EXCEPT ![it.at] = @ \ it.dead] ELSE T IN
    \/ raises /\ Raise(s, R, U)
    \/ /\ ~raises
       /\ \E w \in rest :
            Return(s, [next EXCEPT !.it = [it EXCEPT !.cur = w, !.seen = @ \cup {w}]], R, U)
    \/ /\ ~raises
       /\ rest = {} \/ changed
       /\ Return(s, [next EXCEPT !.pc = IF next.pc = "bye" THEN "bye" ELSE "loop",
                                 !.it = NoSocket],
                 Live("room", R), Live("user", U))

MayStartRound == Cardinality({s \in Sockets : h[s].it # NoSocket}) < MaxRounds

\* The loop calls broadcast_to_room on sets R, the keys being keys, after which
\* the client has joined the chats in joined.
Broadcast(s, c, exclude, R, keys, joined) ==
    LET next == [h[s] EXCEPT !.pc = "round", !.joined = joined] IN
    /\ roomKeys' = keys
    /\ IF c \in keys
       THEN MayStartRound /\ Advance(s, Round("room", c, exclude, R, conns), next, R, conns)
       ELSE Return(s, [next EXCEPT !.pc = "loop"], R, conns)

-----------------------------------------------------------------------------
(* websocket_endpoint().                                                   *)

\* No token, one that verify_token refuses, or a client that is gone before
\* accept(): the socket is closed.
Refuse(s) ==
    /\ h[s].pc = "new"
    /\ h' = [h EXCEPT ![s] = Done]
    /\ wire' = [wire EXCEPT ![s] = "closed"]
    /\ UNCHANGED <<rooms, roomKeys, conns, userKeys>>

\* manager.connect(), once the socket is accepted.
Connect(s) ==
    /\ h[s].pc = "new"
    /\ \E u \in Users :
        /\ h' = [h EXCEPT ![s].pc = "loop", ![s].user = u]
        /\ conns' = [conns EXCEPT ![u] = @ \cup {s}]
        /\ userKeys' = userKeys \cup {u}
    /\ UNCHANGED <<rooms, roomKeys, wire>>

Receives(s) == h[s].pc = "loop"

JoinChat(s, c) ==
    /\ Receives(s)
    /\ Broadcast(s, c, s, [rooms EXCEPT ![c] = @ \cup {s}], roomKeys \cup {c}, h[s].joined \cup {c})

LeaveChat(s, c) ==
    /\ Receives(s)
    /\ Broadcast(s, c, NoSocket, [rooms EXCEPT ![c] = @ \ {s}], roomKeys, h[s].joined \ {c})

\* typing and read_receipt
Typing(s, c) ==
    /\ Receives(s)
    /\ Broadcast(s, c, s, rooms, roomKeys, h[s].joined)

Presence(s) ==
    LET u == h[s].user IN
    /\ Receives(s)
    /\ u \in userKeys /\ MayStartRound
    /\ Advance(s, Round("user", u, NoSocket, rooms, conns), [h[s] EXCEPT !.pc = "round"],
               rooms, conns)
    /\ UNCHANGED roomKeys

\* An event that is not JSON raises in receive_json.
BadEvent(s) ==
    /\ Receives(s)
    /\ Raise(s, rooms, conns)
    /\ UNCHANGED roomKeys

\* ping: the answer is sent to the socket itself, outside any try of its own.
Ping(s) ==
    /\ Receives(s)
    /\ h' = [h EXCEPT ![s].pc = "pong"]
    /\ UNCHANGED <<rooms, roomKeys, conns, userKeys, wire>>

\* receive_json, or the send of the pong, raises WebSocketDisconnect.
Leave(s) ==
    /\ Disconnect(s, rooms, conns, userKeys, [h[s] EXCEPT !.pc = "bye", !.todo = roomKeys])
    /\ wire' = [wire EXCEPT ![s] = "closed"]
    /\ UNCHANGED roomKeys

\* A send to a client that is gone may raise, as one exception or another.
Pong(s) ==
    /\ h[s].pc = "pong"
    /\ \/ /\ Return(s, [h[s] EXCEPT !.pc = "loop"], rooms, conns)
          /\ UNCHANGED roomKeys
       \/ wire[s] = "closed" /\ Raise(s, rooms, conns) /\ UNCHANGED roomKeys
       \/ wire[s] = "closed" /\ Leave(s)

\* The send in flight of a round ends: it raises only if the client is gone.
Resume(s) ==
    /\ h[s].pc \in {"round", "bye"} /\ h[s].it # NoSocket
    /\ \E failed \in IF wire[h[s].it.cur] = "closed" THEN BOOLEAN ELSE {FALSE} :
        LET it == IF failed THEN [h[s].it EXCEPT !.dead = @ \cup {h[s].it.cur}] ELSE h[s].it IN
        Advance(s, it, h[s], rooms, conns)
    /\ UNCHANGED roomKeys

Disconnected(s) == h[s].pc = "loop" /\ wire[s] = "closed" /\ Leave(s)

\* "user_left" to the next room, or the handler returns.
Goodbye(s) ==
    /\ h[s].pc = "bye" /\ h[s].it = NoSocket
    /\ \/ h[s].todo = {} /\ Return(s, Done, rooms, conns)
       \/ \E c \in h[s].todo :
            MayStartRound /\ Advance(s, Round("room", c, NoSocket, rooms, conns),
                    [h[s] EXCEPT !.todo = @ \ {c}], rooms, conns)
    /\ UNCHANGED roomKeys

\* The client goes away.
ClientCloses(s) ==
    /\ wire[s] = "open" /\ h[s].pc # "new"
    /\ wire' = [wire EXCEPT ![s] = "closed"]
    /\ UNCHANGED <<rooms, roomKeys, conns, userKeys, h>>

Run(s) == Resume(s) \/ Pong(s) \/ Disconnected(s) \/ Goodbye(s)

Next ==
    \E s \in Sockets :
        \/ Run(s) \/ Refuse(s) \/ Connect(s) \/ ClientCloses(s)
        \/ Presence(s) \/ Ping(s) \/ BadEvent(s)
        \/ \E c \in Chats : JoinChat(s, c) \/ LeaveChat(s, c) \/ Typing(s, c)

\* The event loop runs every coroutine that can go on, no send hangs forever, and
\* a client that is gone has sent finitely many events.
Fairness == \A s \in Sockets : WF_vars(Run(s)) /\ SF_vars(Disconnected(s))

Spec == Init /\ [][Next]_vars /\ Fairness

-----------------------------------------------------------------------------
(* Properties.                                                             *)

Registered(s) == (\E c \in Chats : s \in rooms[c]) \/ (\E u \in Users : s \in conns[u])

(* No ghosts: whatever ends a handler, a bad event, an exception out of a  *)
(* broadcast or a disconnect, its socket is registered nowhere afterwards. *)
NoGhost ==
    \A s \in Sockets : h[s].pc \in {"new", "bye", "done"} => ~Registered(s)

(* A connection whose client is there stays registered for its user and in *)
(* exactly the rooms it has joined, whatever the other connections of the  *)
(* user, failing sends and broadcasts of others do.                        *)
StaysRegistered ==
    \A s \in Sockets : h[s].pc \in {"loop", "round", "pong"} /\ wire[s] = "open" =>
        /\ h[s].user \in userKeys
        /\ s \in conns[h[s].user]
        /\ \A c \in Chats : s \in rooms[c] <=> c \in h[s].joined

(* The last statement of send_personal indexes _user_connections again     *)
(* after its awaits.  The key may have been deleted meanwhile, but then    *)
(* the iterator has raised before: a pass that comes to its end finds the  *)
(* key, and the KeyError cannot happen.                                    *)
PersonalKeyPresent ==
    \A s \in Sockets :
        /\ h[s].pc = "round" /\ h[s].it.over = "user"
        /\ ~h[s].it.lost
        /\ Cardinality(conns[h[s].it.at]) = Cardinality(h[s].it.first)
        => h[s].it.at \in userKeys

(* A client that is gone is forgotten: its socket does not stay in a room  *)
(* or in its user's set, even if its handler was in the middle of a        *)
(* broadcast, and is_online() turns false with the last one.               *)
GoneIsForgotten ==
    \A s \in Sockets : wire[s] = "closed" /\ Registered(s) ~> ~Registered(s)

(* ARCHITECTURE.md, "Backend broadcasts -> Typing indicators, read         *)
(* receipts, presence, notifications": when a broadcast of the loop ends,  *)
(* it has been sent to every connected socket that was in the room when it *)
(* began and still is.                                                     *)
BroadcastReachesRoom ==
    [][\A s \in Sockets :
        h[s].pc = "round" /\ h[s].it.over = "room" /\ h'[s].pc \notin {"round", "bye"} =>
            \A w \in h[s].it.first :
                w \in rooms[h[s].it.at] /\ wire[w] = "open"
                    => w \in h[s].it.seen \cup {h[s].it.exclude}]_vars
=============================================================================
