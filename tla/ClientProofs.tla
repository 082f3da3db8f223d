---------------------------- MODULE ClientProofs ----------------------------
(***************************************************************************)
(* Theorems about the client: WsClient by itself, and ClientSession, which *)
(* drives it.                                                              *)
(***************************************************************************)
EXTENDS ClientSession, TLAPS

-----------------------------------------------------------------------------
(* The WebSocketClient.                                                    *)

WsInv == WsTypeOK /\ NeverStranded

(* Each call and each slot of websocket_client.cpp keeps the state well    *)
(* typed, the delay between its bounds, and the client from being          *)
(* stranded.  The delay bound is what makes the timer really start.        *)
LEMMA ConnectKeepsWsInv ==
    ASSUME WsInv, NEW t \in Tokens, ConnectToServer(t)
    PROVE  WsInv'
BY TokensAssumption DEF WsInv, WsTypeOK, NeverStranded, ConnectToServer, Reopen, NoToken

LEMMA DisconnectKeepsWsInv ==
    ASSUME WsInv, Disconnect
    PROVE  WsInv'
BY DEF WsInv, WsTypeOK, NeverStranded, Disconnect

LEMMA SlotsKeepWsInv ==
    ASSUME WsInv, Slots
    PROVE  WsInv'
<1>1. delay \in Nat /\ delay >= 1000 /\ delay <= 30000
  BY DEF WsInv, WsTypeOK, Delays, kInitialDelay, kMaxReconnectDelay
<1>2. CASE onConnected
  <2>1. WsTypeOK'
    <3>1. (kInitialDelay \in Delays)'
      BY DEF Delays, kInitialDelay, kMaxReconnectDelay
    <3>2. delay' \in Delays'
      BY <1>2, <3>1 DEF onConnected
    <3>3. timer' \in (Delays \cup {0})'
      BY <1>2 DEF onConnected, WsInv, WsTypeOK, Delays
    <3> QED
      BY <1>2, <3>2, <3>3 DEF WsInv, WsTypeOK, onConnected
  <2>2. NeverStranded'
    BY <1>2 DEF WsInv, NeverStranded, onConnected
  <2> QED
    BY <2>1, <2>2 DEF WsInv
<1>3. CASE onDisconnected
  <2>1. delay' \in Delays
    BY <1>1, <1>3 DEF onDisconnected, Delays, kInitialDelay, kMaxReconnectDelay
  <2>2. timer' \in Delays /\ timer' # 0
    BY <1>1, <1>3 DEF WsInv, WsTypeOK, onDisconnected
  <2> QED
    BY <1>3, <2>1, <2>2 DEF WsInv, WsTypeOK, NeverStranded, onDisconnected
<1>4. CASE onReconnectTimeout
  BY <1>4 DEF WsInv, WsTypeOK, NeverStranded, onReconnectTimeout, Reopen
<1> QED
  BY <1>2, <1>3, <1>4 DEF Slots

LEMMA StutterKeepsWsInv ==
    ASSUME WsInv, UNCHANGED wsVars
    PROVE  WsInv'
BY DEF WsInv, WsTypeOK, NeverStranded, wsVars

LEMMA InitialDelay == kInitialDelay \in Delays
BY DEF Delays, kInitialDelay, kMaxReconnectDelay

LEMMA WsInitHasWsInv == WsInit => WsInv
<1>1. WsInit => WsTypeOK
  BY InitialDelay DEF WsInit, WsTypeOK
<1>2. WsInit => NeverStranded
  BY Zenon DEF WsInit, NeverStranded
<1> QED
  BY <1>1, <1>2 DEF WsInv

-----------------------------------------------------------------------------
(* The session.                                                            *)

Inv == TypeOK /\ NeverStranded

LEMMA FileValues ==
    /\ NoFile \in Files /\ Torn \in Files
    /\ \A t \in Tokens : Saved(t) \in Files
BY DEF NoFile, Torn, Saved, Files

\* An exit leaves a WebSocketClient as new.
LEMMA ExitedKeepsWsInv ==
    ASSUME Exited
    PROVE  WsInv'
<1>1. WsTypeOK'
  <2>1. (kInitialDelay \in Delays)'
    BY DEF Delays, kInitialDelay, kMaxReconnectDelay
  <2>2. delay' \in Delays' /\ timer' \in (Delays \cup {0})'
    BY <2>1 DEF Exited
  <2> QED
    BY <2>2 DEF Exited, WsTypeOK
<1>2. NeverStranded'
  BY Zenon DEF Exited, NeverStranded
<1> QED
  BY <1>1, <1>2 DEF WsInv

\* The part of each step that concerns the WebSocketClient.
LEMMA StepKeepsWsInv ==
    ASSUME Inv, Next
    PROVE  WsInv'
<1>1. WsInv
  BY DEF Inv, WsInv, TypeOK
<1>2. CASE Initialize
  <2>1. PICK own \in {file.tokens, NoToken}, second \in {file.tokens, NoToken} :
            IF second # NoToken /\ own # NoToken THEN ConnectToServer(own) ELSE UNCHANGED wsVars
    BY <1>2 DEF Initialize
  <2>2. file.tokens \in Tokens \cup {NoToken}
    BY DEF Inv, TypeOK, Files
  <2>3. own \in Tokens \cup {NoToken}
    BY <2>2
  <2> QED
    BY <1>1, <2>1, <2>3, ConnectKeepsWsInv, StutterKeepsWsInv
<1>3. CASE Exit \/ \E k \in Kinds : CrashInSave(k)
  BY <1>3, ExitedKeepsWsInv DEF Exit, CrashInSave
<1>4. CASE Logout \/ DisconnectWebSocket
  BY <1>1, <1>4, DisconnectKeepsWsInv DEF Logout, DisconnectWebSocket
<1>5. CASE ConnectWebSocket
  <2>1. session \in Tokens
    BY <1>5 DEF ConnectWebSocket, isAuthenticated, Inv, TypeOK
  <2> QED
    BY <1>1, <1>5, <2>1, ConnectKeepsWsInv DEF ConnectWebSocket
<1>6. CASE Socket(Slots)
  BY <1>1, <1>6, SlotsKeepWsInv DEF Socket
<1>7. CASE Login \/ RefreshToken \/ \E k \in Kinds : TokensReply(k) \/ ErrorReply(k)
  <2>1. UNCHANGED wsVars
    BY <1>7 DEF Login, RefreshToken, TokensReply, ErrorReply, wsVars
  <2> QED
    BY <1>1, <2>1, StutterKeepsWsInv
<1> QED
  BY <1>2, <1>3, <1>4, <1>5, <1>6, <1>7 DEF Next

\* The counters of calls in flight stay within their bound.
LEMMA CallsKeepType ==
    ASSUME calls \in [Kinds -> 0..MaxCalls], NEW k \in Kinds, Call(k) \/ Answered(k)
    PROVE  calls' \in [Kinds -> 0..MaxCalls]
BY MaxCallsAssumption DEF Call, Answered

SessionTypeOK ==
    /\ up \in BOOLEAN /\ missed \in BOOLEAN /\ out \in BOOLEAN
    /\ session \in Tokens \cup {NoToken} /\ rest \in Tokens \cup {NoToken}
    /\ ended \in Tokens \cup {NoToken}
    /\ file \in Files
    /\ calls \in [Kinds -> 0..MaxCalls]
    /\ issued \in 0..MaxToken

LEMMA StepKeepsSessionType ==
    ASSUME SessionTypeOK, Next
    PROVE  SessionTypeOK'
<1>1. CASE Initialize
  <2>1. file.tokens \in Tokens \cup {NoToken}
    BY DEF SessionTypeOK, Files
  <2>2. session' \in Tokens \cup {NoToken} /\ missed' \in BOOLEAN
    BY <1>1, <2>1 DEF Initialize
  <2> QED
    BY <1>1, <2>2 DEF Initialize, SessionTypeOK
<1>2. CASE Exit \/ \E k \in Kinds : CrashInSave(k)
  <2>1. calls' \in [Kinds -> 0..MaxCalls]
    BY <1>2, MaxCallsAssumption DEF Exit, CrashInSave, Exited, NoCalls
  <2>2. issued' \in 0..MaxToken
    BY <1>2, TokenRange DEF Exit, CrashInSave, SessionTypeOK
  <2>3. file' \in Files
    BY <1>2, FileValues DEF Exit, CrashInSave, SessionTypeOK
  <2>4. up' \in BOOLEAN /\ missed' \in BOOLEAN /\ out' \in BOOLEAN
    BY <1>2 DEF Exit, CrashInSave, Exited, SessionTypeOK
  <2>5. session' = NoToken /\ rest' = NoToken /\ ended' \in Tokens \cup {NoToken}
    BY <1>2 DEF Exit, CrashInSave, Exited, SessionTypeOK
  <2> QED
    BY <2>1, <2>2, <2>3, <2>4, <2>5 DEF SessionTypeOK
<1>3. CASE Login \/ RefreshToken
  <2>1. calls' \in [Kinds -> 0..MaxCalls]
    BY <1>3, CallsKeepType DEF Login, RefreshToken, Kinds, SessionTypeOK
  <2> QED
    BY <1>3, <2>1 DEF Login, RefreshToken, SessionTypeOK
<1>4. CASE Logout
  <2>1. file' \in Files
    BY <1>4, FileValues DEF Logout, FileBecomes, SessionTypeOK
  <2>2. missed' \in BOOLEAN
    BY <1>4 DEF Logout, FileBecomes
  <2> QED
    BY <1>4, <2>1, <2>2 DEF Logout, SessionTypeOK
<1>5. ASSUME NEW k \in Kinds, TokensReply(k) PROVE SessionTypeOK'
  <2>1. calls' \in [Kinds -> 0..MaxCalls]
    BY <1>5, CallsKeepType DEF TokensReply, SessionTypeOK
  <2>2. issued' \in Tokens /\ issued' \in 0..MaxToken
    BY <1>5, TokenRange DEF TokensReply, SessionTypeOK
  <2>3. file' \in Files
    BY <1>5, <2>2, FileValues DEF TokensReply, FileBecomes, SessionTypeOK
  <2>4. missed' \in BOOLEAN
    BY <1>5 DEF TokensReply, FileBecomes
  <2> QED
    BY <1>5, <2>1, <2>2, <2>3, <2>4 DEF TokensReply, SessionTypeOK
<1>6. ASSUME NEW k \in Kinds, ErrorReply(k) PROVE SessionTypeOK'
  <2>1. calls' \in [Kinds -> 0..MaxCalls]
    BY <1>6, CallsKeepType DEF ErrorReply, SessionTypeOK
  <2> QED
    BY <1>6, <2>1 DEF ErrorReply, SessionTypeOK
<1>7. CASE ConnectWebSocket \/ DisconnectWebSocket \/ Socket(Slots)
  BY <1>7 DEF ConnectWebSocket, DisconnectWebSocket, Socket, sessionVars, SessionTypeOK
<1> QED
  BY <1>1, <1>2, <1>3, <1>4, <1>5, <1>6, <1>7 DEF Next

LEMMA InitHasInv == Init => Inv
<1> SUFFICES ASSUME Init PROVE Inv
  OBVIOUS
<1>1. WsInv
  BY WsInitHasWsInv DEF Init
<1>2. calls \in [Kinds -> 0..MaxCalls] /\ issued \in 0..MaxToken
  BY MaxCallsAssumption, TokenRange DEF Init, NoCalls
<1> QED
  BY <1>1, <1>2, FileValues DEF Init, Inv, WsInv, TypeOK

LEMMA StepKeepsInv == Inv /\ [Next]_vars => Inv'
<1>1. ASSUME Inv, Next PROVE Inv'
  <2>1. WsInv'
    BY <1>1, StepKeepsWsInv
  <2>2. SessionTypeOK'
    BY <1>1, StepKeepsSessionType DEF Inv, TypeOK, SessionTypeOK
  <2> QED
    BY <2>1, <2>2 DEF Inv, WsInv, TypeOK, SessionTypeOK
<1>2. ASSUME Inv, UNCHANGED vars PROVE Inv'
  <2>1. WsInv'
    BY <1>2, StutterKeepsWsInv DEF vars, wsVars, Inv, WsInv, TypeOK
  <2>2. SessionTypeOK'
    BY <1>2 DEF vars, sessionVars, Inv, TypeOK, SessionTypeOK
  <2> QED
    BY <2>1, <2>2 DEF Inv, WsInv, TypeOK, SessionTypeOK
<1> QED
  BY <1>1, <1>2

(* The state of the client is well typed, its retry interval between its   *)
(* bounds, and, through restarts, logouts, late replies and failing disk   *)
(* operations, auto-reconnect is never stranded.                           *)
THEOREM SessionInvariant == Spec => [](TypeOK /\ NeverStranded)
BY InitHasInv, StepKeepsInv, PTL DEF Spec, Inv

(* The session, its file, the REST client, the replies on their way and    *)
(* the connection keep their types.                                        *)
THEOREM TypeCorrect == Spec => []TypeOK
BY SessionInvariant, PTL

(* REST calls carry the session's own token or none.  The strengthening:   *)
(* the REST client of a process that is not there has none, so that the    *)
(* session loaded at the next start cannot meet an older token.            *)
RestInv == RestTokenIsSessions /\ (~up => rest = NoToken)

THEOREM RestTokenIsSessionsHolds == Spec => []RestTokenIsSessions
<1>1. Init => RestInv
  BY DEF Init, RestInv, RestTokenIsSessions
<1>2. ASSUME RestInv, Next PROVE RestInv'
  <2>1. CASE Initialize \/ Exit \/ Login \/ RefreshToken \/ Logout
    BY <1>2, <2>1 DEF RestInv, RestTokenIsSessions, Initialize, Exit, Exited, Login,
                      RefreshToken, Logout
  <2>2. CASE \E k \in Kinds : TokensReply(k) \/ CrashInSave(k) \/ ErrorReply(k)
    BY <1>2, <2>2 DEF RestInv, RestTokenIsSessions, TokensReply, CrashInSave, ErrorReply, Exited
  <2>3. CASE ConnectWebSocket \/ DisconnectWebSocket \/ Socket(Slots)
    BY <1>2, <2>3 DEF RestInv, RestTokenIsSessions, ConnectWebSocket, DisconnectWebSocket,
                      Socket, sessionVars
  <2> QED
    BY <1>2, <2>1, <2>2, <2>3 DEF Next
<1>3. RestInv /\ UNCHANGED vars => RestInv'
  BY DEF RestInv, RestTokenIsSessions, vars, sessionVars
<1>4. RestInv => RestTokenIsSessions
  BY DEF RestInv
<1> QED
  BY <1>1, <1>2, <1>3, <1>4, PTL DEF Spec

(* A start restores the session the last process ended with.  The          *)
(* strengthening says what the file holds, unless its last operation has   *)
(* failed: the session in memory while the process runs, afterwards the    *)
(* one it ended with, or nothing when a save was cut off.                  *)
FileInv ==
    ~missed => IF up THEN file.tokens = session ELSE file.tokens = ended \/ file = Torn

THEOREM RestoresSessionHolds == Spec => RestoresSession
<1>1. Init => FileInv
  BY DEF Init, FileInv, NoFile
<1>2. ASSUME FileInv, Next PROVE FileInv'
  <2>1. CASE Initialize
    BY <2>1 DEF FileInv, Initialize
  <2>2. CASE Exit \/ \E k \in Kinds : CrashInSave(k)
    BY <1>2, <2>2 DEF FileInv, Exit, CrashInSave, Exited
  <2>3. CASE Logout
    BY <2>3 DEF FileInv, Logout, FileBecomes, NoFile
  <2>4. CASE \E k \in Kinds : TokensReply(k)
    BY <2>4 DEF FileInv, TokensReply, FileBecomes, Saved
  <2>5. CASE Login \/ RefreshToken \/ \E k \in Kinds : ErrorReply(k)
    BY <1>2, <2>5 DEF FileInv, Login, RefreshToken, ErrorReply
  <2>6. CASE ConnectWebSocket \/ DisconnectWebSocket \/ Socket(Slots)
    BY <1>2, <2>6 DEF FileInv, ConnectWebSocket, DisconnectWebSocket, Socket, sessionVars
  <2> QED
    BY <1>2, <2>1, <2>2, <2>3, <2>4, <2>5, <2>6 DEF Next
<1>3. FileInv /\ UNCHANGED vars => FileInv'
  BY DEF FileInv, vars, sessionVars
<1>4. ASSUME FileInv, Initialize
      PROVE  session' = ended \/ (file = Torn /\ session' = NoToken) \/ missed \/ missed'
  <2>1. session' = file.tokens \/ missed'
    BY <1>4 DEF Initialize
  <2>2. missed \/ file.tokens = ended \/ file = Torn
    BY <1>4 DEF FileInv, Initialize
  <2>3. file = Torn => file.tokens = NoToken
    BY DEF Torn
  <2> QED
    BY <2>1, <2>2, <2>3
<1> QED
  BY <1>1, <1>2, <1>3, <1>4, PTL DEF Spec, RestoresSession
=============================================================================
