--------------------------- MODULE ClientSession ---------------------------
(***************************************************************************)
(* The client's session: CustomApi with its SessionManager, RestClient and *)
(* WebSocketClient, and the Karagram::Backend that creates and destroys    *)
(* them (custom_network/custom_api.cpp, session_manager.cpp,               *)
(* rest_client.cpp, karagram_backend.cpp).                                 *)
(*                                                                         *)
(* Calls and callbacks run on the GUI thread, one at a time; replies to    *)
(* REST calls arrive in any order, at any time later.  A pair of access    *)
(* and refresh token is always set as a whole and is one number here.      *)
(***************************************************************************)
EXTENDS WsClient

CONSTANTS
    MaxToken,   \* bound on the token pairs the server issues
    MaxCalls    \* bound on the REST calls in flight of each kind

ASSUME TokenRange == MaxToken \in Nat /\ Tokens = 1..MaxToken
ASSUME MaxCallsAssumption == MaxCalls \in Nat

VARIABLES
    up,       \* Backend::_initialized
    session,  \* the tokens of CustomApi's SessionManager
    rest,     \* RestClient::_authToken
    file,     \* karagram_session.json: its tokens, "none" or "torn"
    calls,    \* REST calls in flight
    issued,   \* tokens issued so far
    missed,   \* history: the last operation on the session file has failed
    ended,    \* history: the session there was when the process last ended
    out       \* history: logout() was called, and login() not since

sessionVars == <<up, session, rest, file, calls, issued, missed, ended, out>>
vars == <<sessionVars, wsVars>>

Kinds == {"login", "refresh"}
Files == [state : {"none", "torn", "tokens"}, tokens : Tokens \cup {NoToken}]

(* The type of the state.                                                  *)
TypeOK ==
    /\ WsTypeOK
    /\ up \in BOOLEAN /\ missed \in BOOLEAN /\ out \in BOOLEAN
    /\ session \in Tokens \cup {NoToken}
    /\ rest \in Tokens \cup {NoToken}
    /\ ended \in Tokens \cup {NoToken}
    /\ file \in Files
    /\ calls \in [Kinds -> 0..MaxCalls]
    /\ issued \in 0..MaxToken

NoFile == [state |-> "none", tokens |-> NoToken]
Torn == [state |-> "torn", tokens |-> NoToken]
Saved(t) == [state |-> "tokens", tokens |-> t]

\* An operation on the session file has one of these outcomes when it fails, none
\* of which is reported, and ok when it does not.
FileBecomes(ok, failures) ==
    \/ file' = ok /\ missed' = FALSE
    \/ file' \in failures /\ missed' = TRUE

NoCalls == [k \in Kinds |-> 0]

Init ==
    /\ WsInit
    /\ up = FALSE /\ session = NoToken /\ rest = NoToken /\ file = NoFile
    /\ calls = NoCalls /\ issued = 0
    /\ missed = FALSE /\ ended = NoToken /\ out = FALSE

isAuthenticated == session # NoToken

-----------------------------------------------------------------------------
(* Karagram::Backend.                                                      *)

(* initialize(): CustomApi's SessionManager, and a second one of Backend,  *)
(* load the file; when the second is authenticated, connectWebSocket().    *)
(* A file that cannot be opened, or was cut off, gives no tokens.  The     *)
(* REST client starts without a token.                                     *)
Initialize ==
    /\ ~up /\ up' = TRUE
    /\ \E own, second \in {file.tokens, NoToken} :
        /\ session' = own
        /\ missed' = (own # file.tokens)
        /\ IF second # NoToken /\ own # NoToken THEN ConnectToServer(own) ELSE UNCHANGED wsVars
    /\ UNCHANGED <<rest, file, calls, issued, ended, out>>

\* What is left when the process is gone: replies have no one to call.
Exited ==
    /\ up' = FALSE
    /\ ended' = session
    /\ session' = NoToken /\ rest' = NoToken
    /\ calls' = NoCalls
    /\ sock' = "none" /\ token' = NoToken
    /\ timer' = 0 /\ delay' = kInitialDelay /\ wanted' = FALSE

\* shutdown(), or a crash.
Exit == up /\ Exited /\ UNCHANGED <<file, issued, missed, out>>

-----------------------------------------------------------------------------
(* CustomApi.                                                              *)

Call(k) == calls[k] < MaxCalls /\ calls' = [calls EXCEPT ![k] = @ + 1]

Login ==
    /\ up /\ Call("login")
    /\ out' = FALSE
    /\ UNCHANGED <<up, session, rest, file, issued, missed, ended, wsVars>>

\* refreshToken(), which no code calls but any owner of the API may.
RefreshToken ==
    /\ up /\ Call("refresh")
    /\ UNCHANGED <<up, session, rest, file, issued, missed, ended, out, wsVars>>

\* Mutant: the REST client is not told of the end of the session.
Logout_KeepsRestToken ==
    /\ up
    /\ session' = NoToken
    /\ FileBecomes(NoFile, {file})
    /\ Disconnect
    /\ out' = TRUE
    /\ UNCHANGED <<up, rest, calls, issued, ended>>

\* Mutant: clear() leaves the file.
Logout_KeepsFile ==
    /\ up
    /\ session' = NoToken /\ rest' = NoToken
    /\ Disconnect
    /\ out' = TRUE
    /\ UNCHANGED <<up, file, calls, issued, missed, ended>>

\* logout(): the reply to its POST is ignored.
Logout ==
    /\ up
    /\ session' = NoToken /\ rest' = NoToken
    /\ FileBecomes(NoFile, {file})
    /\ Disconnect
    /\ out' = TRUE
    /\ UNCHANGED <<up, calls, issued, ended>>

Answered(k) == calls[k] > 0 /\ calls' = [calls EXCEPT ![k] = @ - 1]

\* The reply to login() or refreshToken(): setTokens(), which saves, and
\* setAuthToken().
TokensReply(k) ==
    /\ up /\ Answered(k)
    /\ issued < MaxToken /\ issued' = issued + 1
    /\ session' = issued' /\ rest' = issued'
    /\ FileBecomes(Saved(issued'), {file, Torn})
    /\ UNCHANGED <<up, ended, out, wsVars>>

\* The same, cut off by a crash after saveToStorage() has truncated the file.
CrashInSave(k) ==
    /\ up /\ calls[k] > 0
    /\ issued < MaxToken /\ issued' = issued + 1
    /\ Exited
    /\ file' = Torn
    /\ UNCHANGED <<missed, out>>

ErrorReply(k) ==
    /\ up /\ Answered(k)
    /\ UNCHANGED <<up, session, rest, file, issued, missed, ended, out, wsVars>>

ConnectWebSocket ==
    /\ up /\ isAuthenticated
    /\ ConnectToServer(session)
    /\ UNCHANGED sessionVars

DisconnectWebSocket == up /\ Disconnect /\ UNCHANGED sessionVars

\* The socket or the timer signals, and a slot of the WebSocketClient runs.
Socket(slot) == up /\ slot /\ UNCHANGED sessionVars

Next ==
    \/ Initialize \/ Exit \/ Login \/ RefreshToken \/ Logout
    \/ \E k \in Kinds : TokensReply(k) \/ CrashInSave(k) \/ ErrorReply(k)
    \/ ConnectWebSocket \/ DisconnectWebSocket \/ Socket(Slots)

\* A timer that runs goes off.
Fairness == WF_vars(Socket(onReconnectTimeout))

Spec == Init /\ [][Next]_vars /\ Fairness

-----------------------------------------------------------------------------
(* Properties.                                                             *)

(* A start restores the session there was when the process last ended:     *)
(* not one that has been logged out, and not one that a reply has replaced *)
(* since.  The exceptions are what the code does not see to: an operation  *)
(* on the file that has failed, and a process that died in the middle of a *)
(* save, after which there is no session, neither the old nor the new.     *)
RestoresSession ==
    [][Initialize => \/ session' = ended
                     \/ file = Torn /\ session' = NoToken
                     \/ missed \/ missed']_vars

(* REST calls carry the session's own token or none: never that of a       *)
(* session that has ended or been replaced by a late reply.                *)
RestTokenIsSessions == rest \in {NoToken, session}

(* After every connection that is lost or could not be made, however many *)
(* there have been, a client that is to be connected tries again, unless   *)
(* its owner stops it.  (Whether the server accepts is not the client's.)  *)
TriesAgain == wanted /\ sock = "none" ~> sock = "connecting" \/ ~wanted

(* API.md, "Logout (invalidate tokens).": once logout() has been called,   *)
(* the client is not authenticated until someone logs in again.            *)
LoggedOutStaysOut == out => ~isAuthenticated
=============================================================================
