------------------------------ MODULE WsClient ------------------------------
(***************************************************************************)
(* The desktop client's WebSocketClient                                    *)
(* (Telegram/SourceFiles/custom_network/websocket_client.cpp): a QWebSocket *)
(* and a repeating QTimer that reconnects it.  The slots run on the GUI    *)
(* thread, one at a time, so that each is one action; what the socket and  *)
(* the timer do in between is modelled from the signals the class uses.    *)
(* The owner of the class, and the specification, are in ClientSession.    *)
(***************************************************************************)
EXTENDS Naturals

CONSTANT Tokens   \* access tokens the owner may connect with

\* The empty string.
NoToken == 0

ASSUME TokensAssumption == Tokens \subseteq Nat \ {NoToken}

VARIABLES
    sock,    \* the QWebSocket
    token,   \* _token: the token of the last connectToServer()
    timer,   \* the interval of _reconnectTimer, 0 when it is stopped
    delay,   \* _reconnectDelay, in milliseconds
    wanted   \* history: the owner has asked for a connection, and not for its end

wsVars == <<sock, token, timer, delay, wanted>>

kInitialDelay == 1000
kMaxReconnectDelay == 30000
Delays == kInitialDelay..kMaxReconnectDelay

(* The type of the state: the retry interval, doubled at every failure,    *)
(* is between one second and kMaxReconnectDelay whenever the timer runs.   *)
WsTypeOK ==
    /\ sock \in {"none", "connecting", "open", "closing"}
    /\ token \in Tokens \cup {NoToken}
    /\ timer \in Delays \cup {0}
    /\ delay \in Delays
    /\ wanted \in BOOLEAN

WsInit ==
    /\ sock = "none" /\ token = NoToken
    /\ timer = 0 /\ delay = kInitialDelay
    /\ wanted = FALSE

-----------------------------------------------------------------------------
(* The owner's calls.                                                      *)

\* connectToServer(): QWebSocket::open() drops a socket it already has, without
\* a signal, and starts a new one.
Reopen(t) == token' = t /\ sock' = "connecting"

ConnectToServer(t) ==
    /\ Reopen(t)
    /\ wanted' = TRUE
    /\ UNCHANGED <<timer, delay>>

\* disconnect(): the socket reports its end later, or at once.  _token stays.
Disconnect ==
    /\ timer' = 0
    /\ sock' = IF sock = "none" THEN "none" ELSE "closing"
    /\ wanted' = FALSE
    /\ UNCHANGED <<token, delay>>

-----------------------------------------------------------------------------
(* The slots.                                                              *)

onConnected ==
    /\ sock = "connecting"
    /\ sock' = "open"
    /\ delay' = kInitialDelay
    /\ UNCHANGED <<token, timer, wanted>>

\* Mutants: only a connection that was open is retried; the delay is not capped.
onDisconnected_OnlyOpen ==
    /\ sock # "none"
    /\ sock' = "none"
    /\ timer' = IF sock = "open" THEN delay ELSE 0
    /\ delay' = IF 2 * delay < kMaxReconnectDelay THEN 2 * delay ELSE kMaxReconnectDelay
    /\ UNCHANGED <<token, wanted>>

onDisconnected_NoCap ==
    /\ sock # "none" /\ delay <= kMaxReconnectDelay
    /\ sock' = "none"
    /\ timer' = delay
    /\ delay' = 2 * delay
    /\ UNCHANGED <<token, wanted>>

\* The connection has ended, for whatever reason, or could not be made.
onDisconnected ==
    /\ sock # "none"
    /\ sock' = "none"
    /\ timer' = delay
    /\ delay' = IF 2 * delay < kMaxReconnectDelay THEN 2 * delay ELSE kMaxReconnectDelay
    /\ UNCHANGED <<token, wanted>>

\* The timer is a repeating one.
onReconnectTimeout ==
    /\ timer # 0 /\ token # NoToken
    /\ Reopen(token)
    /\ UNCHANGED <<timer, delay, wanted>>

Slots == onConnected \/ onDisconnected \/ onReconnectTimeout

-----------------------------------------------------------------------------
(* Properties.                                                             *)

(* A client whose owner wants a connection is never left without both a    *)
(* socket and a running reconnect timer, however connects, failures,       *)
(* timeouts, logouts and restarts interleave: auto-reconnect cannot be     *)
(* stranded.                                                               *)
NeverStranded ==
    wanted => /\ sock \in {"connecting", "open"} \/ (sock = "none" /\ timer # 0)
              /\ token # NoToken
=============================================================================
