---------------------------- MODULE ChatBackend ----------------------------
(***************************************************************************)
(* The chats, memberships and messages tables of the Karagram backend      *)
(* (backend/app/api/{chats,members,messages}.py) under concurrent HTTP     *)
(* requests.                                                               *)
(*                                                                         *)
(* A request is a coroutine with a database session of its own; it gives   *)
(* up control at every "await db...", so each handler is split there:      *)
(* Begin is get_current_user, the Lookup actions are the SELECTs with the  *)
(* checks that follow them, the commits are "await db.commit()".           *)
(* PostgreSQL runs READ COMMITTED: a SELECT sees what is committed when it *)
(* runs, and a commit is atomic.                                           *)
(*                                                                         *)
(* A session keeps the objects it has loaded: a later SELECT that returns  *)
(* a row again keeps the attributes of the first load, and a flush writes  *)
(* only the columns whose value differs from the loaded one.  Loading the  *)
(* current user loads (lazy="selectin") the user's memberships and         *)
(* messages, their chats, and the memberships of the chats the user has    *)
(* written in.  The fields roles, old and oldTitle of a request hold what  *)
(* its session has loaded of the objects the request is about.             *)
(***************************************************************************)
EXTENDS Naturals, FiniteSets

CONSTANTS
    Users,       \* ids of registered users (users are never deleted)
    UserIds,     \* user ids a client may name, registered or not
    ChatIds,     \* uuids a chat row may get
    MemberIds,   \* uuids a membership row may get
    MessageIds,  \* uuids a message row may get
    Titles,      \* chat titles
    Contents,    \* message texts a client may send
    Requests,    \* request slots of the server: requests in flight at once
    Ops,         \* the operations clients call
    AskedRoles,  \* role names clients ask for, roles or not
    MaxRepeat,   \* how often member_ids may repeat a user
    None         \* an absent value

ASSUME UsersAssumption == Users \subseteq UserIds
ASSUME MaxRepeatAssumption == MaxRepeat \in Nat
ASSUME NoneAssumption == None \notin Users

VARIABLES
    chats,     \* the table chats
    members,   \* the table memberships; a deleted row keeps its last values
    messages,  \* the table messages
    req        \* the request in each slot

vars == <<chats, members, messages, req>>

-----------------------------------------------------------------------------
(* Rows.  A row is "free" until inserted, then "live", then "gone".        *)

Opt(S) == S \cup {None}
Roles == {"member", "admin", "owner"}
DeletedText == "Message deleted"
Texts == Contents \cup {DeletedText}

ChatRow == [st : {"free", "live", "gone"}, by : Opt(Users),
            title : Opt(Titles)]
MemberRow == [st : {"free", "live", "gone"}, chat : Opt(ChatIds),
              user : Opt(Users), role : Roles]
MessageRow == [st : {"free", "live"}, chat : Opt(ChatIds),
               sender : Opt(Users), content : Texts,
               edited : BOOLEAN, deleted : BOOLEAN]
MemberLists == [UserIds -> 0..MaxRepeat]   \* how often member_ids names each id
RoleNames == AskedRoles \cup {"member"}
RoleMaps == [MemberIds -> Opt(Roles)]
Columns == [content : Texts, edited : BOOLEAN, deleted : BOOLEAN]

FreeChat == [st |-> "free", by |-> None, title |-> None]
FreeMember == [st |-> "free", chat |-> None, user |-> None, role |-> "member"]
FreeMessage == [st |-> "free", chat |-> None, sender |-> None,
                content |-> DeletedText, edited |-> FALSE, deleted |-> FALSE]

Stages == {"idle", "auth", "chat", "caller", "ready"}
Request ==
    [pc : Stages,
     op : Opt(Ops), user : Opt(Users), chat : Opt(ChatIds),
     target : Opt(UserIds), role : RoleNames, title : Opt(Titles),
     msg : Opt(MessageIds), content : Texts,
     list : MemberLists,
     row : Opt(MemberIds), roles : RoleMaps,
     old : Opt(Columns), oldTitle : Opt(Titles),
     hadMembers : BOOLEAN]

NoRequest ==
    [pc |-> "idle", op |-> None, user |-> None, chat |-> None, target |-> None,
     role |-> "member", title |-> None, msg |-> None, content |-> DeletedText,
     list |-> [u \in UserIds |-> 0],
     row |-> None, roles |-> [i \in MemberIds |-> None], old |-> None,
     oldTitle |-> None, hadMembers |-> FALSE]

(* The type of the tables and of the requests in flight: in particular, no *)
(* role outside MemberRole and no user outside users is ever stored.       *)
TypeOK ==
    /\ chats \in [ChatIds -> ChatRow]
    /\ members \in [MemberIds -> MemberRow]
    /\ messages \in [MessageIds -> MessageRow]
    /\ req \in [Requests -> Request]

Init ==
    /\ chats = [c \in ChatIds |-> FreeChat]
    /\ members = [i \in MemberIds |-> FreeMember]
    /\ messages = [m \in MessageIds |-> FreeMessage]
    /\ req = [p \in Requests |-> NoRequest]

-----------------------------------------------------------------------------
(* Queries.                                                                *)

\* Mutant: the lookup forgets to compare the user.
RowsOf_AnyUser(c, u) ==
    {i \in MemberIds : members[i].st = "live" /\ members[i].chat = c}

RowsOf(c, u) ==
    {i \in MemberIds : members[i].st = "live" /\ members[i].chat = c
                                             /\ members[i].user = u}

MembersOf(c) == {i \in MemberIds : members[i].st = "live" /\ members[i].chat = c}
HasMembers(c) == MembersOf(c) # {}
HasMessages(c) == \E m \in MessageIds : messages[m].st = "live" /\ messages[m].chat = c
HasWrittenIn(u, c) ==
    \E m \in MessageIds : messages[m].st = "live" /\ messages[m].chat = c
                                                  /\ messages[m].sender = u

\* Result.scalar_one_or_none() raises MultipleResultsFound on such a result.
MultipleResults(rows) == \E i, j \in rows : i # j

\* Mutant: the FOREIGN KEY is not enforced.
ChatExists_Ever(c) == c \in ChatIds /\ chats[c].st # "free"

\* A chat that a FOREIGN KEY column may name.
ChatExists(c) == c \in ChatIds /\ chats[c].st = "live"

\* What a session holds of message m once it has loaded it.
ColumnsOf(m) == [content |-> messages[m].content, edited |-> messages[m].edited,
                 deleted |-> messages[m].deleted]

\* The role a session sees in row i: that of its first load of the row.
RoleSeen(r, i) == IF r.roles[i] # None THEN r.roles[i] ELSE members[i].role

-----------------------------------------------------------------------------
(* The handlers up to their commit.  A lookup ends the request with the    *)
(* status code of the check that fails, or lets it go on.                  *)

Pass == 0

\* The handler answers with the status code; session and slot are free again.
Reply(p, code) ==
    /\ code \in {200, 201, 204, 400, 403, 404, 409, 500}
    /\ req' = [req EXCEPT ![p] = NoRequest]

ReplyUnless(p, code, next) ==
    IF code # Pass THEN Reply(p, code) ELSE req' = [req EXCEPT ![p] = next]

\* What loading the current user brings into the session, of the objects the
\* request is about.
LoadUser(r) ==
    [r EXCEPT
        !.pc = "auth",
        !.roles = [i \in MemberIds |->
            IF /\ members[i].st = "live" /\ members[i].chat = r.chat
               /\ members[i].user = r.user \/ HasWrittenIn(r.user, r.chat)
            THEN members[i].role ELSE None],
        !.old = IF r.msg # None /\ messages[r.msg].st = "live" /\ messages[r.msg].sender = r.user
                THEN ColumnsOf(r.msg) ELSE None,
        !.oldTitle = IF /\ r.chat # None
                        /\ RowsOf(r.chat, r.user) # {} \/ HasWrittenIn(r.user, r.chat)
                     THEN chats[r.chat].title ELSE None]

\* get_current_user authenticates the caller of request r.
Start(p, r) == req' = [req EXCEPT ![p] = LoadUser(r)]

\* The arguments a call of operation op may carry.
Arguments(p, op, call) ==
    \/ /\ op = "create_chat"
       /\ \E t \in Titles, l \in MemberLists : Start(p, [call EXCEPT !.title = t, !.list = l])
    \/ /\ op = "update_chat"
       /\ \E c \in ChatIds, t \in Opt(Titles) : Start(p, [call EXCEPT !.chat = c, !.title = t])
    \/ /\ op = "delete_chat"
       /\ \E c \in ChatIds : Start(p, [call EXCEPT !.chat = c])
    \/ /\ op \in {"add_member", "update_member_role"}
       /\ \E c \in ChatIds, t \in UserIds, n \in AskedRoles :
            Start(p, [call EXCEPT !.chat = c, !.target = t, !.role = n])
    \/ /\ op = "remove_member"
       /\ \E c \in ChatIds, t \in UserIds : Start(p, [call EXCEPT !.chat = c, !.target = t])
    \/ /\ op = "send_message"
       /\ \E c \in ChatIds, x \in Contents : Start(p, [call EXCEPT !.chat = c, !.content = x])
    \/ /\ op = "edit_message"
       /\ \E m \in MessageIds, x \in Contents : Start(p, [call EXCEPT !.msg = m, !.content = x])
    \/ /\ op = "delete_message"
       /\ \E m \in MessageIds : Start(p, [call EXCEPT !.msg = m])

\* A client calls an operation.
Begin(p) ==
    /\ req[p].pc = "idle"
    /\ \E u \in Users, op \in Ops : Arguments(p, op, [NoRequest EXCEPT !.op = op, !.user = u])
    /\ UNCHANGED <<chats, members, messages>>

\* The session holds the rows it has read, with the role it sees in them.
Loaded(r, rows) == [i \in MemberIds |-> IF i \in rows THEN RoleSeen(r, i) ELSE r.roles[i]]

\* SELECT the chat: update_chat and delete_chat.  Its memberships come with it.
LookupChat(p) ==
    LET r == req[p]
        refusal == IF ~ChatExists(r.chat) THEN 404
                   ELSE IF r.op = "delete_chat" /\ chats[r.chat].by # r.user THEN 403
                   ELSE Pass IN
    /\ r.pc = "auth" /\ r.op \in {"update_chat", "delete_chat"}
    /\ ReplyUnless(p, refusal,
          [r EXCEPT !.pc = IF r.op = "update_chat" THEN "chat" ELSE "ready",
                    !.oldTitle = IF @ = None THEN chats[r.chat].title ELSE @,
                    !.roles = Loaded(r, MembersOf(r.chat)),
                    !.hadMembers = HasMembers(r.chat)])
    /\ UNCHANGED <<chats, members, messages>>

CallerRoles(op) ==
    CASE op = "update_member_role" -> {"owner"}
      [] op = "send_message" -> Roles
      [] OTHER -> {"admin", "owner"}

CallerRefusal(r, rows) ==
    CASE MultipleResults(rows) -> 500
      [] \A i \in rows : RoleSeen(r, i) \notin CallerRoles(r.op) -> 403
      [] OTHER -> Pass

\* SELECT the caller's membership in the chat, and check its role.
LookupCaller(p) ==
    LET r == req[p]
        rows == RowsOf(r.chat, r.user) IN
    /\ \/ r.pc = "auth" /\ r.op \in {"add_member", "remove_member",
                                     "update_member_role", "send_message"}
       \/ r.pc = "chat" /\ r.op = "update_chat"
    /\ ReplyUnless(p, CallerRefusal(r, rows),
          [r EXCEPT !.pc = IF r.op \in {"send_message", "update_chat"} THEN "ready" ELSE "caller",
                    !.roles = Loaded(r, rows)])
    /\ UNCHANGED <<chats, members, messages>>

\* Mutant: add_member and update_member_role store any role.
TargetRefusal_AnyRole(r, rows) ==
    IF (r.op = "add_member") = (rows = {}) THEN Pass ELSE 409

TargetRefusal(r, rows) ==
    CASE MultipleResults(rows) -> 500
      [] r.op = "add_member" /\ rows # {} -> 409
      [] r.op # "add_member" /\ rows = {} -> 404
      [] r.op = "remove_member" /\ (\E i \in rows : RoleSeen(r, i) = "owner") -> 400
      [] r.op # "remove_member" /\ r.role \notin Roles -> 500   \* MemberRole(...) raises
      [] OTHER -> Pass

\* SELECT the target's membership: add_member, remove_member, update_member_role.
LookupTarget(p) ==
    LET r == req[p]
        rows == RowsOf(r.chat, r.target) IN
    /\ r.pc = "caller"
    /\ \E row \in IF rows = {} THEN {None} ELSE rows :
          ReplyUnless(p, TargetRefusal(r, rows),
             [r EXCEPT !.pc = "ready", !.row = row, !.roles = Loaded(r, rows)])
    /\ UNCHANGED <<chats, members, messages>>

\* SELECT the message: edit_message and delete_message.
LookupMessage(p) ==
    LET r == req[p]
        refusal == IF messages[r.msg].st = "free" THEN 404
                   ELSE IF messages[r.msg].sender # r.user THEN 403 ELSE Pass IN
    /\ r.pc = "auth" /\ r.op \in {"edit_message", "delete_message"}
    /\ ReplyUnless(p, refusal,
          [r EXCEPT !.pc = "ready", !.old = IF @ = None THEN ColumnsOf(r.msg) ELSE @])
    /\ UNCHANGED <<chats, members, messages>>

-----------------------------------------------------------------------------
(* Commits.                                                                *)

Ready(p, op) == req[p].pc = "ready" /\ req[p].op = op

NewMember(c, u, role) == [st |-> "live", chat |-> c, user |-> u, role |-> role]

\* The rows of a new chat c: the chat, its owner, and the members new[i].
InsertChat(r, c, own, ids, new) ==
    /\ chats' = [chats EXCEPT ![c] = [st |-> "live", by |-> r.user, title |-> r.title]]
    /\ members' = [i \in MemberIds |->
            IF i = own THEN NewMember(c, r.user, "owner")
            ELSE IF i \in ids THEN NewMember(c, new[i], "member")
            ELSE members[i]]

\* create_chat: the chat, its owner and one row per entry of member_ids other
\* than the creator, in one transaction.  An unknown user in member_ids breaks
\* a FOREIGN KEY.
CreateChat(p) ==
    LET r == req[p] IN
    /\ r.pc = "auth" /\ r.op = "create_chat"
    /\ IF \E u \in UserIds \ Users : r.list[u] > 0
       THEN Reply(p, 500) /\ UNCHANGED <<chats, members>>
       ELSE /\ \E c \in ChatIds, own \in MemberIds, ids \in SUBSET MemberIds :
               \E new \in [ids -> Users \ {r.user}] :
                /\ chats[c].st = "free"
                /\ own \notin ids
                /\ \A i \in ids \cup {own} : members[i].st = "free"
                /\ \A u \in Users \ {r.user} :
                        Cardinality({i \in ids : new[i] = u}) = r.list[u]
                /\ InsertChat(r, c, own, ids, new)
            /\ Reply(p, 201)
    /\ UNCHANGED messages

\* update_chat: an UPDATE if the title differs from the loaded one; when the
\* chat is gone the UPDATE fails, or else the refresh after it.
CommitUpdateChat(p) ==
    LET r == req[p] IN
    /\ Ready(p, "update_chat")
    /\ chats' = IF r.title \in {None, r.oldTitle} \/ ~ChatExists(r.chat) THEN chats
                ELSE [chats EXCEPT ![r.chat].title = r.title]
    /\ Reply(p, IF ChatExists(r.chat) THEN 200 ELSE 500)
    /\ UNCHANGED <<members, messages>>

\* delete_chat: the session first sets chat_id to NULL in the memberships and
\* messages it loaded with the chat, which their NOT NULL columns refuse; the
\* DELETE itself fails while a row refers to the chat.
CommitDeleteChat(p) ==
    LET c == req[p].chat
        refused == req[p].hadMembers \/ HasMembers(c) \/ HasMessages(c) IN
    /\ Ready(p, "delete_chat")
    /\ chats' = IF refused THEN chats ELSE [chats EXCEPT ![c].st = "gone"]
    /\ Reply(p, IF refused THEN 500 ELSE 204)
    /\ UNCHANGED <<members, messages>>

\* add_member: the INSERT needs the chat and the user to exist.
CommitAddMember(p) ==
    LET r == req[p] IN
    /\ Ready(p, "add_member")
    /\ IF ChatExists(r.chat) /\ r.target \in Users
       THEN /\ \E i \in MemberIds :
                /\ members[i].st = "free"
                /\ members' = [members EXCEPT ![i] = NewMember(r.chat, r.target, r.role)]
            /\ Reply(p, 201)
       ELSE Reply(p, 500) /\ UNCHANGED members
    /\ UNCHANGED <<chats, messages>>

\* remove_member: a DELETE by primary key; one that matches no row only warns.
CommitRemoveMember(p) ==
    /\ Ready(p, "remove_member")
    /\ members' = [members EXCEPT ![req[p].row].st = "gone"]
    /\ Reply(p, 204)
    /\ UNCHANGED <<chats, messages>>

\* update_member_role: an UPDATE by primary key if the role differs from the
\* loaded one; one that matches no row raises StaleDataError.
CommitUpdateRole(p) ==
    LET r == req[p]
        dirty == r.role # r.roles[r.row]
        found == members[r.row].st = "live" IN
    /\ Ready(p, "update_member_role")
    /\ members' = IF dirty /\ found THEN [members EXCEPT ![r.row].role = r.role] ELSE members
    /\ Reply(p, IF dirty /\ ~found THEN 500 ELSE 200)
    /\ UNCHANGED <<chats, messages>>

\* send_message: the INSERT needs the chat to exist.
CommitSendMessage(p) ==
    LET r == req[p] IN
    /\ Ready(p, "send_message")
    /\ IF ChatExists(r.chat)
       THEN /\ \E m \in MessageIds :
                /\ messages[m].st = "free"
                /\ messages' = [messages EXCEPT ![m] =
                    [st |-> "live", chat |-> r.chat, sender |-> r.user,
                     content |-> r.content, edited |-> FALSE, deleted |-> FALSE]]
            /\ Reply(p, 201)
       ELSE Reply(p, 500) /\ UNCHANGED messages
    /\ UNCHANGED <<chats, members>>

\* An UPDATE of the columns of message m that differ from those loaded.
WriteColumns(m, old, new) ==
    messages' = [messages EXCEPT
        ![m].content = IF new.content = old.content THEN @ ELSE new.content,
        ![m].edited = IF new.edited = old.edited THEN @ ELSE new.edited,
        ![m].deleted = IF new.deleted = old.deleted THEN @ ELSE new.deleted]

\* Mutant: the flags are written back as they were loaded.
CommitEditMessage_Revives(p) ==
    /\ Ready(p, "edit_message")
    /\ messages' = [messages EXCEPT ![req[p].msg].content = req[p].content,
                                    ![req[p].msg].edited = TRUE,
                                    ![req[p].msg].deleted = req[p].old.deleted]
    /\ Reply(p, 200)
    /\ UNCHANGED <<chats, members>>

CommitEditMessage(p) ==
    LET r == req[p] IN
    /\ Ready(p, "edit_message")
    /\ WriteColumns(r.msg, r.old, [r.old EXCEPT !.content = r.content, !.edited = TRUE])
    /\ Reply(p, 200)
    /\ UNCHANGED <<chats, members>>

\* Mutant: delete_message only sets the flag.
CommitDeleteMessage_KeepsText(p) ==
    /\ Ready(p, "delete_message")
    /\ WriteColumns(req[p].msg, req[p].old, [req[p].old EXCEPT !.deleted = TRUE])
    /\ Reply(p, 204)
    /\ UNCHANGED <<chats, members>>

CommitDeleteMessage(p) ==
    LET r == req[p] IN
    /\ Ready(p, "delete_message")
    /\ WriteColumns(r.msg, r.old, [r.old EXCEPT !.content = DeletedText, !.deleted = TRUE])
    /\ Reply(p, 204)
    /\ UNCHANGED <<chats, members>>

\* The database connection fails under an await: get_db closes the session,
\* which rolls the transaction back.
DatabaseFails(p) ==
    /\ req[p].pc # "idle"
    /\ Reply(p, 500)
    /\ UNCHANGED <<chats, members, messages>>

Step(p) ==
    \/ LookupChat(p) \/ LookupCaller(p) \/ LookupTarget(p) \/ LookupMessage(p)
    \/ CreateChat(p) \/ CommitUpdateChat(p) \/ CommitDeleteChat(p)
    \/ CommitAddMember(p) \/ CommitRemoveMember(p) \/ CommitUpdateRole(p)
    \/ CommitSendMessage(p) \/ CommitEditMessage(p) \/ CommitDeleteMessage(p)

Next == \E p \in Requests : Begin(p) \/ Step(p) \/ DatabaseFails(p)

Spec == Init /\ [][Next]_vars

-----------------------------------------------------------------------------
(* Properties.                                                             *)

(* The FOREIGN KEYs of memberships and messages: while delete_chat races   *)
(* with add_member and send_message, no row ever refers to a chat that is  *)
(* not there.                                                              *)
ForeignKeys ==
    /\ \A i \in MemberIds : members[i].st = "live" => chats[members[i].chat].st = "live"
    /\ \A m \in MessageIds : messages[m].st = "live" => chats[messages[m].chat].st = "live"

\* User u is, or has been, a member of chat c.
WasMember(c, u) ==
    \E i \in MemberIds : members[i].st # "free" /\ members[i].chat = c /\ members[i].user = u

(* send_message checks the membership in one statement and inserts in a    *)
(* later one.  Whatever happens in between, the sender of every message    *)
(* has been a member of its chat: the row may be gone, it cannot never     *)
(* have been.                                                              *)
SenderWasMember ==
    \A m \in MessageIds :
        messages[m].st = "live" => WasMember(messages[m].chat, messages[m].sender)

(* delete_message blanks the text, and edit_message does not look at       *)
(* is_deleted.  A deleted message shows a text only if it is also marked   *)
(* as edited, in whatever order edits and deletions load and commit.       *)
DeletedTextIsBlank ==
    \A m \in MessageIds :
        messages[m].deleted /\ ~messages[m].edited => messages[m].content = DeletedText

ChatsStay == \A c \in ChatIds : chats[c].st = "gone" => chats'[c].st = "gone"
MembersStay ==
    \A i \in MemberIds :
        /\ members[i].st = "gone" => members'[i].st = "gone"
        /\ members[i].st # "free" => /\ members'[i].st # "free"
                                     /\ members'[i].chat = members[i].chat
                                     /\ members'[i].user = members[i].user
MessagesStay ==
    \A m \in MessageIds : messages[m].st = "live" =>
        /\ messages'[m].st = "live"
        /\ messages'[m].chat = messages[m].chat
        /\ messages'[m].sender = messages[m].sender
        /\ messages[m].deleted => messages'[m].deleted
        /\ messages[m].edited => messages'[m].edited

(* A role change, an edit or a title change that commits late brings back  *)
(* no row that another request deleted, moves no row to another chat or    *)
(* user, and undoes no deletion and no edit mark of a message.             *)
NothingComesBack == [][ChatsStay /\ MembersStay /\ MessagesStay]_vars

(* The 409 answer of add_member ("Already a member") and every             *)
(* scalar_one_or_none() rely on it: a user has at most one membership in a *)
(* chat.                                                                   *)
OneMembershipEach ==
    \A c \in ChatIds, u \in Users : ~MultipleResults(RowsOf(c, u))

(* The 400 answer of remove_member ("Cannot remove owner"): no step        *)
(* removes a membership whose role is owner.                               *)
OwnerNeverRemoved ==
    [][\A i \in MemberIds :
        members[i].st = "live" /\ members[i].role = "owner" => members'[i].st = "live"]_vars
=============================================================================
