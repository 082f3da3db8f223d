------------------------- MODULE ChatBackendProofs -------------------------
(***************************************************************************)
(* Proofs about ChatBackend, for any tables, users and number of requests. *)
(***************************************************************************)
EXTENDS ChatBackend, TLAPS

MessageOps == {"edit_message", "delete_message"}

(* What the steps before a commit have established about a request.        *)
RequestOK(r) ==
    /\ r.pc # "idle" => r.user \in Users
    /\ r.pc # "idle" /\ r.op \in MessageOps => r.msg \in MessageIds
    /\ r.pc = "ready" /\ r.op \in MessageOps => r.old \in Columns
    /\ r.pc = "ready" /\ r.op \in {"add_member", "update_member_role"} => r.role \in Roles
    /\ r.pc = "caller" => r.op \in {"add_member", "remove_member", "update_member_role"}

RequestsOK == \A p \in Requests : RequestOK(req[p])

TypeInv == TypeOK /\ RequestsOK

-----------------------------------------------------------------------------
(* Optional values.                                                        *)
LEMMA OptFacts ==
  ASSUME NEW S
  PROVE  None \in Opt(S) /\ (\A x \in S : x \in Opt(S)) /\ (\A x \in Opt(S) : x # None => x \in S)
  BY DEF Opt

(* The free slot is a well-typed request.                                  *)
LEMMA NoRequestType ==
  NoRequest \in Request /\ RequestOK(NoRequest) /\ NoRequest.pc = "idle"
<1>1. /\ "idle" \in Stages /\ "member" \in RoleNames /\ DeletedText \in Texts
      /\ [u \in UserIds |-> 0] \in MemberLists /\ [i \in MemberIds |-> None] \in RoleMaps
  BY MaxRepeatAssumption DEF Stages, RoleNames, Texts, MemberLists, RoleMaps, Opt
<1>2. NoRequest \in Request
  BY <1>1, OptFacts DEF NoRequest, Request
<1>3. RequestOK(NoRequest) /\ NoRequest.pc = "idle"
  BY DEF NoRequest, RequestOK
<1> QED
  BY <1>2, <1>3

(* get_current_user keeps a call as it is and loads well-typed values.     *)
LEMMA LoadUserType ==
  ASSUME TypeOK, NEW r \in Request
  PROVE  /\ LoadUser(r) \in Request
         /\ LoadUser(r).pc = "auth"
         /\ LoadUser(r).user = r.user /\ LoadUser(r).op = r.op /\ LoadUser(r).msg = r.msg
<1> DEFINE rs == [i \in MemberIds |->
            IF /\ members[i].st = "live" /\ members[i].chat = r.chat
               /\ members[i].user = r.user \/ HasWrittenIn(r.user, r.chat)
            THEN members[i].role ELSE None]
           o == IF r.msg # None /\ messages[r.msg].st = "live" /\ messages[r.msg].sender = r.user
                THEN ColumnsOf(r.msg) ELSE None
           t == IF /\ r.chat # None
                   /\ RowsOf(r.chat, r.user) # {} \/ HasWrittenIn(r.user, r.chat)
                THEN chats[r.chat].title ELSE None
<1>1. rs \in RoleMaps
  BY DEF TypeOK, MemberRow, RoleMaps, Opt
<1>2. o \in Opt(Columns)
  <2>1. r.msg \in Opt(MessageIds)
    BY DEF Request
  <2> QED
    BY <2>1 DEF TypeOK, MessageRow, ColumnsOf, Columns, Opt
<1>3. t \in Opt(Titles)
  <2>1. r.chat \in Opt(ChatIds)
    BY DEF Request
  <2> QED
    BY <2>1 DEF TypeOK, ChatRow, Opt
<1>4. LoadUser(r) = [r EXCEPT !.pc = "auth", !.roles = rs, !.old = o, !.oldTitle = t]
  BY DEF LoadUser
<1>5. "auth" \in Stages
  BY DEF Stages
<1> HIDE DEF rs, o, t
<1> QED
  BY <1>1, <1>2, <1>3, <1>4, <1>5 DEF Request

(* A reply frees its slot and touches no other.                            *)
LEMMA ReplyType ==
  ASSUME TypeInv, NEW p \in Requests, NEW code, Reply(p, code)
  PROVE  req' \in [Requests -> Request] /\ RequestsOK'
  BY NoRequestType DEF Reply, TypeInv, TypeOK, RequestsOK

(* So does a step that lets a request go on, when what it becomes is fine. *)
LEMMA GoOnType ==
  ASSUME TypeInv, NEW p \in Requests, NEW r \in Request, RequestOK(r),
         req' = [req EXCEPT ![p] = r]
  PROVE  req' \in [Requests -> Request] /\ RequestsOK'
  BY DEF TypeInv, TypeOK, RequestsOK

LEMMA ReplyUnlessType ==
  ASSUME TypeInv, NEW p \in Requests, NEW code, NEW r, ReplyUnless(p, code, r),
         code = Pass => r \in Request /\ RequestOK(r)
  PROVE  req' \in [Requests -> Request] /\ RequestsOK'
  BY ReplyType, GoOnType DEF ReplyUnless

-----------------------------------------------------------------------------
(* Begin starts only well-typed requests.                                  *)
LEMMA BeginStarts ==
  ASSUME NEW p \in Requests, Begin(p)
  PROVE  \E r \in Request : /\ Start(p, r)
                            /\ r.user \in Users
                            /\ r.op \in MessageOps => r.msg \in MessageIds
<1> DEFINE Good == \E r \in Request : /\ Start(p, r)
                                      /\ r.user \in Users
                                      /\ r.op \in MessageOps => r.msg \in MessageIds
<1>2. ASSUME NEW u \in Users, NEW op \in Ops, NEW r \in Request,
             op \notin MessageOps \/ r.msg \in MessageIds,
             r.op = op, r.user = u, Start(p, r)
      PROVE  Good
  BY <1>2
<1>3. ASSUME NEW u \in Users, NEW op \in Ops
      PROVE  [NoRequest EXCEPT !.op = op, !.user = u] \in Request
  BY NoRequestType, OptFacts DEF Request
<1> HIDE DEF Good
<1>4. PICK u \in Users, op \in Ops : Arguments(p, op, [NoRequest EXCEPT !.op = op, !.user = u])
  BY Zenon DEF Begin
<1> DEFINE call == [NoRequest EXCEPT !.op = op, !.user = u]
<1>5. call \in Request /\ call.op = op /\ call.user = u
  BY <1>3, NoRequestType DEF Request
<1> HIDE DEF call
<1>6. ASSUME op = "create_chat", NEW t \in Titles, NEW l \in MemberLists,
             Start(p, [call EXCEPT !.title = t, !.list = l])
      PROVE  Good
  <2>1. [call EXCEPT !.title = t, !.list = l] \in Request
    BY <1>5, OptFacts DEF Request
  <2> QED
    BY <1>2, <1>5, <1>6, <2>1 DEF Request, MessageOps
<1>7. ASSUME op = "update_chat", NEW c \in ChatIds, NEW t \in Opt(Titles),
             Start(p, [call EXCEPT !.chat = c, !.title = t])
      PROVE  Good
  <2>1. [call EXCEPT !.chat = c, !.title = t] \in Request
    BY <1>5, OptFacts DEF Request
  <2> QED
    BY <1>2, <1>5, <1>7, <2>1 DEF Request, MessageOps
<1>8. ASSUME op = "delete_chat", NEW c \in ChatIds, Start(p, [call EXCEPT !.chat = c])
      PROVE  Good
  <2>1. [call EXCEPT !.chat = c] \in Request
    BY <1>5, OptFacts DEF Request
  <2> QED
    BY <1>2, <1>5, <1>8, <2>1 DEF Request, MessageOps
<1>9. ASSUME op \in {"add_member", "update_member_role"}, NEW c \in ChatIds, NEW t \in UserIds,
             NEW n \in AskedRoles, Start(p, [call EXCEPT !.chat = c, !.target = t, !.role = n])
      PROVE  Good
  <2>1. [call EXCEPT !.chat = c, !.target = t, !.role = n] \in Request
    <3>1. n \in RoleNames
      BY DEF RoleNames
    <3> QED
      BY <3>1, <1>5, OptFacts DEF Request
  <2> QED
    BY <1>2, <1>5, <1>9, <2>1 DEF Request, MessageOps
<1>10. ASSUME op = "remove_member", NEW c \in ChatIds, NEW t \in UserIds,
              Start(p, [call EXCEPT !.chat = c, !.target = t])
       PROVE  Good
  <2>1. [call EXCEPT !.chat = c, !.target = t] \in Request
    BY <1>5, OptFacts DEF Request
  <2> QED
    BY <1>2, <1>5, <1>10, <2>1 DEF Request, MessageOps
<1>11. ASSUME op = "send_message", NEW c \in ChatIds, NEW x \in Contents,
              Start(p, [call EXCEPT !.chat = c, !.content = x])
       PROVE  Good
  <2>1. [call EXCEPT !.chat = c, !.content = x] \in Request
    <3>1. x \in Texts
      BY DEF Texts
    <3> QED
      BY <3>1, <1>5, OptFacts DEF Request
  <2> QED
    BY <1>2, <1>5, <1>11, <2>1 DEF Request, MessageOps
<1>12. ASSUME op = "edit_message", NEW m \in MessageIds, NEW x \in Contents,
              Start(p, [call EXCEPT !.msg = m, !.content = x])
       PROVE  Good
  <2>1. [call EXCEPT !.msg = m, !.content = x] \in Request
    <3>1. x \in Texts
      BY DEF Texts
    <3> QED
      BY <3>1, <1>5, OptFacts DEF Request
  <2> QED
    BY <1>2, <1>5, <1>12, <2>1 DEF Request
<1>13. ASSUME op = "delete_message", NEW m \in MessageIds, Start(p, [call EXCEPT !.msg = m])
       PROVE  Good
  <2>1. [call EXCEPT !.msg = m] \in Request
    BY <1>5, OptFacts DEF Request
  <2> QED
    BY <1>2, <1>5, <1>13, <2>1 DEF Request
<1>14. Arguments(p, op, call)
  BY <1>4 DEF call
<1>15. Good
  BY <1>6, <1>7, <1>8, <1>9, <1>10, <1>11, <1>12, <1>13, <1>14 DEF Arguments
<1> QED
  BY <1>15 DEF Good

LEMMA BeginType ==
  ASSUME TypeInv, NEW p \in Requests, Begin(p)
  PROVE  TypeInv'
<1>1. PICK r \in Request : /\ Start(p, r)
                           /\ r.user \in Users
                           /\ r.op \in MessageOps => r.msg \in MessageIds
  BY BeginStarts
<1>2. LoadUser(r) \in Request /\ RequestOK(LoadUser(r))
  BY <1>1, LoadUserType DEF TypeInv, RequestOK
<1>3. req' \in [Requests -> Request] /\ RequestsOK'
  BY <1>1, <1>2, GoOnType DEF Start
<1> QED
  BY <1>3 DEF Begin, TypeInv, TypeOK

(* Reading rows leaves a well-typed view of their roles.                   *)
LEMMA LoadedType ==
  ASSUME TypeOK, NEW r \in Request, NEW rows
  PROVE  Loaded(r, rows) \in RoleMaps
<1>1. r.roles \in RoleMaps
  BY DEF Request
<1> QED
  BY <1>1 DEF TypeOK, MemberRow, RoleMaps, Loaded, RoleSeen, Opt

(* The lookups keep every request well-typed.                              *)
LEMMA LookupType ==
  ASSUME TypeInv, NEW p \in Requests,
         LookupChat(p) \/ LookupCaller(p) \/ LookupTarget(p) \/ LookupMessage(p)
  PROVE  TypeInv'
<1> DEFINE r == req[p]
<1>1. r \in Request /\ RequestOK(r)
  BY DEF TypeInv, TypeOK, RequestsOK
<1>2. TypeOK /\ "chat" \in Stages /\ "caller" \in Stages /\ "ready" \in Stages
  BY DEF TypeInv, Stages
<1>3. ASSUME UNCHANGED <<chats, members, messages>>, req' \in [Requests -> Request], RequestsOK'
      PROVE  TypeInv'
  BY <1>3 DEF TypeInv, TypeOK
<1> HIDE DEF r
<1>4. CASE LookupChat(p)
  <2> DEFINE code == IF ~ChatExists(r.chat) THEN 404
                     ELSE IF r.op = "delete_chat" /\ chats[r.chat].by # r.user THEN 403
                     ELSE Pass
             k == IF r.op = "update_chat" THEN "chat" ELSE "ready"
             t == IF r.oldTitle = None THEN chats[r.chat].title ELSE r.oldTitle
             seen == Loaded(r, MembersOf(r.chat))
             had == HasMembers(r.chat)
             next == [r EXCEPT !.pc = k, !.oldTitle = t, !.roles = seen, !.hadMembers = had]
  <2>1. /\ ReplyUnless(p, code, next) /\ r.op \in {"update_chat", "delete_chat"}
        /\ r.pc = "auth"
        /\ UNCHANGED <<chats, members, messages>>
    BY <1>4 DEF LookupChat, r
  <2>2. ASSUME code = Pass
        PROVE  next \in Request /\ RequestOK(next)
    <3>1. k \in Stages /\ had \in BOOLEAN
      BY <1>2 DEF HasMembers
    <3>2. t \in Opt(Titles)
      <4>1. r.chat \in ChatIds
        BY <2>2 DEF ChatExists, Pass
      <4>2. r.oldTitle \in Opt(Titles)
        BY <1>1 DEF Request
      <4> QED
        BY <4>1, <4>2, <1>2 DEF TypeOK, ChatRow
    <3>0. seen \in RoleMaps
      BY <1>1, <1>2, LoadedType DEF MembersOf
    <3> HIDE DEF k, t, seen, had
    <3>3. next \in Request
      BY <1>1, <3>0, <3>1, <3>2 DEF Request
    <3>4. next.pc # "caller" /\ next.op = r.op /\ next.user = r.user
      BY <1>1 DEF Request, k
    <3>5. RequestOK(next)
      BY <3>4, <1>1, <2>1 DEF RequestOK, MessageOps
    <3> QED
      BY <3>3, <3>5
  <2> HIDE DEF code, next
  <2>3. req' \in [Requests -> Request] /\ RequestsOK'
    BY <2>1, <2>2, ReplyUnlessType
  <2> QED
    BY <1>3, <2>1, <2>3
<1>5. CASE LookupCaller(p)
  <2> DEFINE rows == RowsOf(r.chat, r.user)
             code == CallerRefusal(r, rows)
             k == IF r.op \in {"send_message", "update_chat"} THEN "ready" ELSE "caller"
             rs == Loaded(r, rows)
             seen == Loaded(r, MembersOf(r.chat))
             next == [r EXCEPT !.pc = k, !.roles = rs]
  <2>1. /\ ReplyUnless(p, code, next)
        /\ r.op \in {"add_member", "remove_member", "update_member_role",
                     "send_message", "update_chat"}
        /\ r.pc # "idle"
        /\ UNCHANGED <<chats, members, messages>>
    BY <1>5 DEF LookupCaller, r
  <2>2. next \in Request /\ RequestOK(next)
    <3>1. k \in Stages /\ rs \in RoleMaps
      BY <1>1, <1>2, LoadedType
    <3> HIDE DEF rs
    <3>2. next \in Request
      BY <1>1, <3>1 DEF Request
    <3>3. next.pc = k /\ next.op = r.op /\ next.user = r.user
      BY <1>1 DEF Request
    <3>4. RequestOK(next)
      BY <3>3, <1>1, <2>1 DEF RequestOK, MessageOps
    <3> QED
      BY <3>2, <3>4
  <2> HIDE DEF code, next
  <2>3. req' \in [Requests -> Request] /\ RequestsOK'
    BY <2>1, <2>2, ReplyUnlessType
  <2> QED
    BY <1>3, <2>1, <2>3
<1>6. CASE LookupTarget(p)
  <2> DEFINE rows == RowsOf(r.chat, r.target)
             code == TargetRefusal(r, rows)
             rs == Loaded(r, rows)
  <2>1. PICK row \in IF rows = {} THEN {None} ELSE rows :
          ReplyUnless(p, code, [r EXCEPT !.pc = "ready", !.row = row, !.roles = rs])
    BY <1>6 DEF LookupTarget, r
  <2>2. r.pc = "caller" /\ UNCHANGED <<chats, members, messages>>
    BY <1>6 DEF LookupTarget, r
  <2> DEFINE next == [r EXCEPT !.pc = "ready", !.row = row, !.roles = rs]
  <2>3. ASSUME code = Pass
        PROVE  next \in Request /\ RequestOK(next)
    <3>1. row \in Opt(MemberIds) /\ rs \in RoleMaps
      BY <1>1, <1>2, LoadedType DEF RowsOf, Opt
    <3>2. r.op \in {"add_member", "update_member_role"} => r.role \in Roles
      BY <2>3 DEF TargetRefusal, Pass
    <3> HIDE DEF rs
    <3>3. next \in Request
      BY <1>1, <1>2, <3>1 DEF Request
    <3>4. next.pc = "ready" /\ next.op = r.op /\ next.user = r.user /\ next.role = r.role
      BY <1>1 DEF Request
    <3>5. RequestOK(next)
      BY <3>4, <3>2, <1>1, <2>2 DEF RequestOK, MessageOps
    <3> QED
      BY <3>3, <3>5
  <2> HIDE DEF code
  <2>4. req' \in [Requests -> Request] /\ RequestsOK'
    BY <2>1, <2>3, ReplyUnlessType
  <2> QED
    BY <1>3, <2>2, <2>4
<1>7. CASE LookupMessage(p)
  <2> DEFINE code == IF messages[r.msg].st = "free" THEN 404
                     ELSE IF messages[r.msg].sender # r.user THEN 403 ELSE Pass
             o == IF r.old = None THEN ColumnsOf(r.msg) ELSE r.old
             next == [r EXCEPT !.pc = "ready", !.old = o]
  <2>1. /\ ReplyUnless(p, code, next) /\ r.op \in MessageOps /\ r.pc = "auth"
        /\ UNCHANGED <<chats, members, messages>>
    BY <1>7 DEF LookupMessage, r, MessageOps
  <2>2. next \in Request /\ RequestOK(next)
    <3>1. r.msg \in MessageIds
      BY <1>1, <2>1 DEF RequestOK
    <3>2. r.old \in Opt(Columns)
      BY <1>1 DEF Request
    <3>3. o \in Columns
      BY <3>1, <3>2, <1>2 DEF TypeOK, MessageRow, ColumnsOf, Columns, Opt
    <3> HIDE DEF o
    <3>4. o \in Opt(Columns)
      BY <3>3, OptFacts
    <3>5. next \in Request
      BY <1>1, <1>2, <3>4 DEF Request
    <3>6. /\ next.pc = "ready" /\ next.op = r.op /\ next.user = r.user /\ next.msg = r.msg
          /\ next.old = o
      BY <1>1 DEF Request
    <3>7. RequestOK(next)
      BY <3>1, <3>3, <3>6, <1>1, <2>1 DEF RequestOK, MessageOps
    <3> QED
      BY <3>5, <3>7
  <2> HIDE DEF code, next
  <2>3. req' \in [Requests -> Request] /\ RequestsOK'
    BY <2>1, <2>2, ReplyUnlessType
  <2> QED
    BY <1>3, <2>1, <2>3
<1> QED
  BY <1>4, <1>5, <1>6, <1>7

(* The commits write well-typed rows.                                      *)
LEMMA CommitType ==
  ASSUME TypeInv, NEW p \in Requests,
         \/ CreateChat(p) \/ CommitUpdateChat(p) \/ CommitDeleteChat(p)
         \/ CommitAddMember(p) \/ CommitRemoveMember(p) \/ CommitUpdateRole(p)
         \/ CommitSendMessage(p) \/ CommitEditMessage(p) \/ CommitDeleteMessage(p)
  PROVE  TypeInv'
<1> DEFINE r == req[p]
<1>1. r \in Request /\ RequestOK(r)
  BY DEF TypeInv, TypeOK, RequestsOK
<1>2. /\ r.title \in Opt(Titles) /\ r.content \in Texts /\ r.user \in Opt(Users)
      /\ r.pc = "auth" \/ r.pc = "ready" => r.user \in Users
  BY <1>1 DEF Request, RequestOK
<1>3. /\ chats \in [ChatIds -> ChatRow] /\ members \in [MemberIds -> MemberRow]
      /\ messages \in [MessageIds -> MessageRow]
  BY DEF TypeInv, TypeOK
<1>4. ASSUME chats' \in [ChatIds -> ChatRow], members' \in [MemberIds -> MemberRow],
             messages' \in [MessageIds -> MessageRow], NEW code, Reply(p, code)
      PROVE  TypeInv'
  BY <1>4, ReplyType DEF TypeInv, TypeOK
<1> USE <1>3
<1>5. CASE CreateChat(p)
  <2>1. CASE \E u \in UserIds \ Users : r.list[u] > 0
    BY <1>4, <1>5, <2>1 DEF CreateChat
  <2>2. CASE ~(\E u \in UserIds \ Users : r.list[u] > 0)
    <3>1. PICK c \in ChatIds, own \in MemberIds, ids \in SUBSET MemberIds :
            \E new \in [ids -> Users \ {r.user}] : InsertChat(r, c, own, ids, new)
      BY <1>5, <2>2 DEF CreateChat
    <3>2. r.user \in Users /\ Reply(p, 201) /\ messages' = messages
      BY <1>2, <1>5, <2>2 DEF CreateChat
    <3>3. chats' \in [ChatIds -> ChatRow]
      BY <3>1, <1>2 DEF InsertChat, ChatRow
    <3>4. members' \in [MemberIds -> MemberRow]
      BY <3>1, <3>2, OptFacts DEF InsertChat, NewMember, MemberRow, Roles
    <3> QED
      BY <1>4, <3>2, <3>3, <3>4
  <2> QED
    BY <2>1, <2>2
<1>6. CASE CommitUpdateChat(p)
  <2>1. chats' \in [ChatIds -> ChatRow]
    BY <1>2, <1>6 DEF CommitUpdateChat, ChatRow
  <2> QED
    BY <1>4, <1>6, <2>1 DEF CommitUpdateChat
<1>7. CASE CommitDeleteChat(p)
  <2>1. chats' \in [ChatIds -> ChatRow]
    BY <1>7 DEF CommitDeleteChat, ChatRow
  <2> QED
    BY <1>4, <1>7, <2>1 DEF CommitDeleteChat
<1>8. CASE CommitAddMember(p)
  <2>1. r.role \in Roles
    BY <1>1, <1>8 DEF CommitAddMember, Ready, RequestOK
  <2>2. members' \in [MemberIds -> MemberRow]
    BY <1>8, <2>1, OptFacts DEF CommitAddMember, ChatExists, NewMember, MemberRow
  <2> QED
    BY <1>4, <1>8, <2>2 DEF CommitAddMember
<1>9. CASE CommitRemoveMember(p)
  <2>1. members' \in [MemberIds -> MemberRow]
    BY <1>9 DEF CommitRemoveMember, MemberRow
  <2> QED
    BY <1>4, <1>9, <2>1 DEF CommitRemoveMember
<1>10. CASE CommitUpdateRole(p)
  <2>1. r.role \in Roles
    BY <1>1, <1>10 DEF CommitUpdateRole, Ready, RequestOK
  <2>2. members' \in [MemberIds -> MemberRow]
    BY <1>10, <2>1 DEF CommitUpdateRole, MemberRow
  <2> QED
    BY <1>4, <1>10, <2>2 DEF CommitUpdateRole
<1>11. CASE CommitSendMessage(p)
  <2>1. messages' \in [MessageIds -> MessageRow]
    <3> DEFINE row == [st |-> "live", chat |-> r.chat, sender |-> r.user,
                       content |-> r.content, edited |-> FALSE, deleted |-> FALSE]
    <3>1. ASSUME ChatExists(r.chat)
          PROVE  row \in MessageRow
      BY <1>2, <3>1, OptFacts DEF ChatExists, MessageRow
    <3> HIDE DEF row
    <3>2. messages' = messages \/ (ChatExists(r.chat) /\ \E m \in MessageIds :
                                    messages' = [messages EXCEPT ![m] = row])
      BY <1>11 DEF CommitSendMessage, row
    <3> QED
      BY <3>1, <3>2
  <2> QED
    BY <1>4, <1>11, <2>1 DEF CommitSendMessage
<1>12. ASSUME NEW new \in Columns, WriteColumns(r.msg, r.old, new)
       PROVE  messages' \in [MessageIds -> MessageRow]
  <2> DEFINE m == r.msg
             x == IF new.content = r.old.content THEN messages[m].content ELSE new.content
             e == IF new.edited = r.old.edited THEN messages[m].edited ELSE new.edited
             d == IF new.deleted = r.old.deleted THEN messages[m].deleted ELSE new.deleted
             row == [messages[m] EXCEPT !.content = x, !.edited = e, !.deleted = d]
  <2>1. ASSUME m \in MessageIds
        PROVE  row \in MessageRow
    <3>1. x \in Texts /\ e \in BOOLEAN /\ d \in BOOLEAN
      BY <2>1 DEF Columns, MessageRow
    <3> HIDE DEF x, e, d
    <3> QED
      BY <2>1, <3>1 DEF MessageRow
  <2>2. messages' = [messages EXCEPT ![m] = row]
    BY <1>12 DEF WriteColumns
  <2> HIDE DEF row
  <2> QED
    BY <2>1, <2>2
<1>13. CASE CommitEditMessage(p)
  <2>1. r.old \in Columns
    BY <1>1, <1>13 DEF CommitEditMessage, Ready, RequestOK, MessageOps
  <2>2. [r.old EXCEPT !.content = r.content, !.edited = TRUE] \in Columns
    BY <1>2, <2>1 DEF Columns
  <2> QED
    BY <1>4, <1>12, <1>13, <2>2 DEF CommitEditMessage
<1>14. CASE CommitDeleteMessage(p)
  <2>1. r.old \in Columns
    BY <1>1, <1>14 DEF CommitDeleteMessage, Ready, RequestOK, MessageOps
  <2>2. [r.old EXCEPT !.content = DeletedText, !.deleted = TRUE] \in Columns
    BY <2>1 DEF Columns, Texts
  <2> QED
    BY <1>4, <1>12, <1>14, <2>2 DEF CommitDeleteMessage
<1> QED
  BY <1>5, <1>6, <1>7, <1>8, <1>9, <1>10, <1>11, <1>13, <1>14

(* The tables start empty and the slots free.                              *)
LEMMA InitType == Init => TypeInv
<1> SUFFICES ASSUME Init PROVE TypeInv
  OBVIOUS
<1>1. /\ chats \in [ChatIds -> ChatRow] /\ members \in [MemberIds -> MemberRow]
      /\ messages \in [MessageIds -> MessageRow]
  BY OptFacts DEF Init, ChatRow, MemberRow, MessageRow, FreeChat, FreeMember, FreeMessage,
                  Roles, Texts
<1>2. req \in [Requests -> Request] /\ RequestsOK
  BY NoRequestType DEF Init, RequestsOK
<1> QED
  BY <1>1, <1>2 DEF TypeInv, TypeOK

LEMMA NextType == TypeInv /\ [Next]_vars => TypeInv'
<1> SUFFICES ASSUME TypeInv, [Next]_vars PROVE TypeInv'
  OBVIOUS
<1>1. ASSUME NEW p \in Requests, DatabaseFails(p)
      PROVE  TypeInv'
  BY <1>1, ReplyType DEF DatabaseFails, TypeInv, TypeOK
<1>2. CASE UNCHANGED vars
  BY <1>2 DEF vars, TypeInv, TypeOK, RequestsOK
<1> QED
  BY <1>1, <1>2, BeginType, LookupType, CommitType DEF Next, Step

LEMMA TypeInvariant == Spec => []TypeInv
  BY InitType, NextType, PTL DEF Spec

(* Every handler keeps the tables and the sessions well-typed, whatever    *)
(* the interleaving: in particular no role a client makes up reaches the   *)
(* table, and no commit uses a message its session has not loaded.         *)
THEOREM TypeCorrect == Spec => []TypeOK
  BY TypeInvariant, PTL DEF TypeInv

-----------------------------------------------------------------------------
(* What a step may not undo.                                               *)

Quiet(p) ==
    Begin(p) \/ LookupChat(p) \/ LookupCaller(p) \/ LookupTarget(p) \/ LookupMessage(p)
    \/ DatabaseFails(p)

(* Only a commit changes the tables.                                       *)
LEMMA QuietStep ==
  ASSUME NEW p \in Requests, Quiet(p)
  PROVE  UNCHANGED <<chats, members, messages>>
  BY DEF Quiet, Begin, LookupChat, LookupCaller, LookupTarget, LookupMessage, DatabaseFails

LEMMA StepKeepsRows == TypeInv /\ [Next]_vars => ChatsStay /\ MembersStay /\ MessagesStay
<1> SUFFICES ASSUME TypeInv, [Next]_vars PROVE ChatsStay /\ MembersStay /\ MessagesStay
  OBVIOUS
<1>1. /\ chats \in [ChatIds -> ChatRow] /\ members \in [MemberIds -> MemberRow]
      /\ messages \in [MessageIds -> MessageRow]
  BY DEF TypeInv, TypeOK
<1>2. ASSUME UNCHANGED chats PROVE ChatsStay
  BY <1>2 DEF ChatsStay
<1>3. ASSUME UNCHANGED members PROVE MembersStay
  BY <1>3 DEF MembersStay
<1>4. ASSUME UNCHANGED messages PROVE MessagesStay
  BY <1>4 DEF MessagesStay
<1>5. CASE UNCHANGED vars
  BY <1>2, <1>3, <1>4, <1>5 DEF vars
<1>6. ASSUME NEW p \in Requests, Quiet(p)
      PROVE  ChatsStay /\ MembersStay /\ MessagesStay
  BY <1>2, <1>3, <1>4, <1>6, QuietStep
<1>7. ASSUME NEW p \in Requests, CreateChat(p)
      PROVE  ChatsStay /\ MembersStay /\ MessagesStay
  <2>1. UNCHANGED messages
    BY <1>7 DEF CreateChat
  <2>2. \/ UNCHANGED <<chats, members>>
        \/ \E c \in ChatIds, own \in MemberIds, ids \in SUBSET MemberIds :
             \E new \in [ids -> Users \ {req[p].user}] :
                /\ chats[c].st = "free"
                /\ \A i \in ids \cup {own} : members[i].st = "free"
                /\ InsertChat(req[p], c, own, ids, new)
    BY <1>7 DEF CreateChat
  <2>3. ChatsStay
    BY <1>1, <2>2 DEF ChatsStay, InsertChat
  <2>4. MembersStay
    BY <1>1, <2>2 DEF MembersStay, InsertChat
  <2> QED
    BY <1>4, <2>1, <2>3, <2>4
<1>8. ASSUME NEW p \in Requests, CommitUpdateChat(p) \/ CommitDeleteChat(p)
      PROVE  ChatsStay /\ MembersStay /\ MessagesStay
  <2>1. UNCHANGED <<members, messages>>
    BY <1>8 DEF CommitUpdateChat, CommitDeleteChat
  <2>2. ChatsStay
    BY <1>1, <1>8 DEF CommitUpdateChat, CommitDeleteChat, ChatsStay, ChatRow
  <2> QED
    BY <1>3, <1>4, <2>1, <2>2
<1>9. ASSUME NEW p \in Requests,
             CommitAddMember(p) \/ CommitRemoveMember(p) \/ CommitUpdateRole(p)
      PROVE  ChatsStay /\ MembersStay /\ MessagesStay
  <2>1. UNCHANGED <<chats, messages>>
    BY <1>9 DEF CommitAddMember, CommitRemoveMember, CommitUpdateRole
  <2>2. CASE CommitAddMember(p)
    BY <1>1, <1>2, <1>4, <2>1, <2>2 DEF CommitAddMember, MembersStay
  <2>3. CASE CommitRemoveMember(p)
    BY <1>1, <1>2, <1>4, <2>1, <2>3 DEF CommitRemoveMember, MembersStay, MemberRow
  <2>4. CASE CommitUpdateRole(p)
    BY <1>1, <1>2, <1>4, <2>1, <2>4 DEF CommitUpdateRole, MembersStay, MemberRow
  <2> QED
    BY <1>9, <2>2, <2>3, <2>4
<1>10. ASSUME NEW p \in Requests, CommitSendMessage(p)
       PROVE  ChatsStay /\ MembersStay /\ MessagesStay
  BY <1>1, <1>2, <1>3, <1>10 DEF CommitSendMessage, MessagesStay
<1>11. ASSUME NEW m, NEW old \in Columns, NEW new \in Columns, WriteColumns(m, old, new),
              old.deleted => new.deleted, old.edited => new.edited
       PROVE  MessagesStay
  <2> SUFFICES ASSUME NEW k \in MessageIds, messages[k].st = "live"
               PROVE  /\ messages'[k].st = "live"
                      /\ messages'[k].chat = messages[k].chat
                      /\ messages'[k].sender = messages[k].sender
                      /\ messages[k].deleted => messages'[k].deleted
                      /\ messages[k].edited => messages'[k].edited
    BY DEF MessagesStay
  <2> DEFINE x == IF new.content = old.content THEN messages[k].content ELSE new.content
             e == IF new.edited = old.edited THEN messages[k].edited ELSE new.edited
             d == IF new.deleted = old.deleted THEN messages[k].deleted ELSE new.deleted
             row == [messages[k] EXCEPT !.content = x, !.edited = e, !.deleted = d]
  <2>1. messages'[k] = messages[k] \/ messages'[k] = row
    BY <1>1, <1>11 DEF WriteColumns
  <2>2. /\ row.st = messages[k].st /\ row.chat = messages[k].chat
        /\ row.sender = messages[k].sender /\ row.deleted = d /\ row.edited = e
    <3> HIDE DEF x, e, d
    <3> QED
      BY <1>1 DEF MessageRow
  <2>3. /\ old.deleted \in BOOLEAN /\ new.deleted \in BOOLEAN
        /\ old.edited \in BOOLEAN /\ new.edited \in BOOLEAN
    BY DEF Columns
  <2>4. (messages[k].deleted => d) /\ (messages[k].edited => e)
    BY <1>11, <2>3
  <2> HIDE DEF row, e, d
  <2> QED
    BY <2>1, <2>2, <2>4
<1>12. ASSUME NEW p \in Requests, CommitEditMessage(p) \/ CommitDeleteMessage(p)
       PROVE  ChatsStay /\ MembersStay /\ MessagesStay
  <2>1. req[p].old \in Columns /\ req[p].content \in Texts
    BY <1>12 DEF CommitEditMessage, CommitDeleteMessage, Ready, TypeInv, TypeOK, RequestsOK,
                 RequestOK, MessageOps, Request
  <2> DEFINE edited == [req[p].old EXCEPT !.content = req[p].content, !.edited = TRUE]
             blank == [req[p].old EXCEPT !.content = DeletedText, !.deleted = TRUE]
  <2>2. edited \in Columns /\ edited.edited = TRUE /\ edited.deleted = req[p].old.deleted
    BY <2>1 DEF Columns
  <2>3. blank \in Columns /\ blank.deleted = TRUE /\ blank.edited = req[p].old.edited
    BY <2>1 DEF Columns, Texts
  <2>4. WriteColumns(req[p].msg, req[p].old, edited) \/ WriteColumns(req[p].msg, req[p].old, blank)
    BY <1>12 DEF CommitEditMessage, CommitDeleteMessage
  <2> HIDE DEF edited, blank
  <2>5. MessagesStay
    BY <1>11, <2>1, <2>2, <2>3, <2>4
  <2>6. UNCHANGED <<chats, members>>
    BY <1>12 DEF CommitEditMessage, CommitDeleteMessage
  <2> QED
    BY <1>2, <1>3, <2>5, <2>6
<1> QED
  BY <1>5, <1>6, <1>7, <1>8, <1>9, <1>10, <1>12 DEF Next, Step, Quiet

(* Deleted rows stay deleted and rows keep their chat and user, however    *)
(* the loads and commits of the handlers interleave.                       *)
THEOREM NothingComesBackHolds == Spec => NothingComesBack
  BY TypeInvariant, StepKeepsRows, PTL DEF Spec, NothingComesBack

-----------------------------------------------------------------------------
(* The sender of a message has been a member.                              *)

SenderInv ==
    /\ SenderWasMember
    /\ \A p \in Requests :
        Ready(p, "send_message") => WasMember(req[p].chat, req[p].user)

(* A reply leaves no request ready.                                        *)
LEMMA ReplyNotReady ==
  ASSUME TypeInv, NEW p \in Requests, NEW code, Reply(p, code), NEW q \in Requests,
         NEW op, Ready(q, op)'
  PROVE  req'[q] = req[q]
<1>1. req' = [req EXCEPT ![p] = NoRequest] /\ req'[q].pc = "ready"
  BY DEF Reply, Ready
<1> QED
  BY <1>1, NoRequestType DEF TypeInv, TypeOK

(* A send_message is ready to commit only after its caller was found to be *)
(* a member.                                                               *)
LEMMA SendReady ==
  ASSUME TypeInv, NEW p \in Requests, Begin(p) \/ Step(p) \/ DatabaseFails(p),
         NEW q \in Requests, Ready(q, "send_message")'
  PROVE  req'[q] = req[q] \/ WasMember(req'[q].chat, req'[q].user)
<1> DEFINE r == req[p]
<1>0. r \in Request /\ RequestOK(r) /\ req \in [Requests -> Request] /\ TypeOK
  BY DEF TypeInv, TypeOK, RequestsOK
<1>1. req'[q].pc = "ready" /\ req'[q].op = "send_message"
  BY DEF Ready
<1>2. ASSUME NEW code, Reply(p, code) PROVE req'[q] = req[q]
  BY <1>2, ReplyNotReady
<1>3. ASSUME NEW next, req' = [req EXCEPT ![p] = next],
             next.pc # "ready" \/ next.op # "send_message"
      PROVE  req'[q] = req[q]
  BY <1>0, <1>1, <1>3
<1> HIDE DEF r
<1>4. CASE Begin(p)
  <2>1. PICK next \in Request : req' = [req EXCEPT ![p] = LoadUser(next)]
    BY <1>4, BeginStarts DEF Start
  <2>2. LoadUser(next).pc = "auth"
    BY <1>0, LoadUserType
  <2> QED
    BY <1>3, <2>1, <2>2
<1>5. CASE LookupChat(p)
  <2> DEFINE next == [r EXCEPT !.pc = IF r.op = "update_chat" THEN "chat" ELSE "ready",
                    !.oldTitle = IF @ = None THEN chats[r.chat].title ELSE @,
                    !.roles = Loaded(r, MembersOf(r.chat)),
                    !.hadMembers = HasMembers(r.chat)]
  <2>1. /\ r.op # "send_message"
        /\ (\E code : Reply(p, code)) \/ req' = [req EXCEPT ![p] = next]
    BY <1>5 DEF LookupChat, ReplyUnless, r
  <2>2. next.op = r.op
    BY <1>0 DEF Request
  <2> QED
    BY <1>2, <1>3, <2>1, <2>2
<1>6. CASE LookupTarget(p)
  <2>1. r.op # "send_message"
    BY <1>0, <1>6 DEF LookupTarget, RequestOK, r
  <2>2. \/ \E code : Reply(p, code)
        \/ \E row, rs : req' = [req EXCEPT ![p] = [r EXCEPT !.pc = "ready", !.row = row, !.roles = rs]]
    BY <1>6 DEF LookupTarget, ReplyUnless, r
  <2>3. ASSUME NEW row, NEW rs
        PROVE  [r EXCEPT !.pc = "ready", !.row = row, !.roles = rs].op = r.op
    BY <1>0 DEF Request
  <2> QED
    BY <1>2, <1>3, <2>1, <2>2, <2>3
<1>7. CASE LookupMessage(p)
  <2> DEFINE next == [r EXCEPT !.pc = "ready", !.old = IF @ = None THEN ColumnsOf(r.msg) ELSE @]
  <2>1. /\ r.op # "send_message"
        /\ (\E code : Reply(p, code)) \/ req' = [req EXCEPT ![p] = next]
    BY <1>7 DEF LookupMessage, ReplyUnless, r
  <2>2. next.op = r.op
    BY <1>0 DEF Request
  <2> QED
    BY <1>2, <1>3, <2>1, <2>2
<1>8. CASE LookupCaller(p)
  <2> DEFINE rows == RowsOf(r.chat, r.user)
             next == [r EXCEPT
                !.pc = IF r.op \in {"send_message", "update_chat"} THEN "ready" ELSE "caller",
                !.roles = Loaded(r, rows)]
  <2>1. /\ ReplyUnless(p, CallerRefusal(r, rows), next)
        /\ UNCHANGED <<chats, members, messages>>
    BY <1>8 DEF LookupCaller, r
  <2>2. CASE CallerRefusal(r, rows) # Pass
    BY <1>2, <2>1, <2>2 DEF ReplyUnless
  <2>3. CASE CallerRefusal(r, rows) = Pass
    <3>1. rows # {}
      BY <2>3 DEF CallerRefusal, Pass
    <3>2. WasMember(r.chat, r.user)
      BY <3>1 DEF RowsOf, WasMember
    <3>3. next.chat = r.chat /\ next.user = r.user
      BY <1>0 DEF Request
    <3>4. req' = [req EXCEPT ![p] = next]
      BY <2>1, <2>3 DEF ReplyUnless
    <3> HIDE DEF next
    <3>5. req'[q] = req[q] \/ req'[q] = next
      BY <1>0, <3>4
    <3>6. WasMember(next.chat, next.user)
      BY <3>2, <3>3
    <3> QED
      BY <2>1, <3>5, <3>6 DEF WasMember
  <2> QED
    BY <2>2, <2>3
<1>9. CASE \E code : Reply(p, code)
  BY <1>2, <1>9
<1>10. ASSUME \/ CreateChat(p) \/ CommitUpdateChat(p) \/ CommitDeleteChat(p)
              \/ CommitAddMember(p) \/ CommitRemoveMember(p) \/ CommitUpdateRole(p)
              \/ CommitSendMessage(p) \/ CommitEditMessage(p) \/ CommitDeleteMessage(p)
              \/ DatabaseFails(p)
       PROVE  \E code : Reply(p, code)
  BY <1>10 DEF CreateChat, CommitUpdateChat, CommitDeleteChat, CommitAddMember,
        CommitRemoveMember, CommitUpdateRole, CommitSendMessage, CommitEditMessage,
        CommitDeleteMessage, DatabaseFails
<1> QED
  BY <1>4, <1>5, <1>6, <1>7, <1>8, <1>9, <1>10 DEF Step

(* Only send_message makes a message.                                      *)
LEMMA NewMessage ==
  ASSUME TypeInv, [Next]_vars, NEW m \in MessageIds,
         messages[m].st # "live", messages'[m].st = "live"
  PROVE  \E p \in Requests : CommitSendMessage(p)
<1>1. messages' # messages
  OBVIOUS
<1>2. PICK p \in Requests : Begin(p) \/ Step(p) \/ DatabaseFails(p)
  BY <1>1 DEF Next, vars
<1>3. ~Quiet(p)
  BY <1>1, QuietStep
<1>4. ASSUME NEW k, NEW old, NEW new, WriteColumns(k, old, new) PROVE FALSE
  <2>1. messages'[m].st = messages[m].st
    BY <1>4 DEF WriteColumns, TypeInv, TypeOK, MessageRow
  <2> QED
    BY <2>1
<1>5. ~CommitEditMessage(p) /\ ~CommitDeleteMessage(p)
  BY <1>4 DEF CommitEditMessage, CommitDeleteMessage
<1>6. ASSUME \/ CreateChat(p) \/ CommitUpdateChat(p) \/ CommitDeleteChat(p)
             \/ CommitAddMember(p) \/ CommitRemoveMember(p) \/ CommitUpdateRole(p)
      PROVE  FALSE
  BY <1>1, <1>6 DEF CreateChat, CommitUpdateChat, CommitDeleteChat, CommitAddMember,
                    CommitRemoveMember, CommitUpdateRole
<1> QED
  BY <1>2, <1>3, <1>5, <1>6 DEF Step, Quiet

LEMMA SenderStep == TypeInv /\ SenderInv /\ [Next]_vars => SenderInv'
<1> SUFFICES ASSUME TypeInv, SenderInv, [Next]_vars PROVE SenderInv'
  OBVIOUS
<1>1. ASSUME NEW c, NEW u, WasMember(c, u) PROVE WasMember(c, u)'
  BY <1>1, StepKeepsRows DEF WasMember, MembersStay
<1>2. ASSUME NEW q \in Requests, Ready(q, "send_message")'
      PROVE  WasMember(req[q].chat, req[q].user)'
  <2>1. CASE UNCHANGED vars
    BY <1>2, <2>1 DEF vars, SenderInv, Ready, WasMember
  <2>2. CASE Next
    <3>1. req'[q] = req[q] \/ WasMember(req'[q].chat, req'[q].user)
      BY <1>2, <2>2, SendReady DEF Next
    <3>2. CASE req'[q] = req[q]
      BY <1>1, <1>2, <3>2 DEF SenderInv, Ready
    <3>3. CASE WasMember(req'[q].chat, req'[q].user)
      BY <1>1, <3>3
    <3> QED
      BY <3>1, <3>2, <3>3
  <2> QED
    BY <2>1, <2>2
<1>3. SenderWasMember'
  <2> SUFFICES ASSUME NEW m \in MessageIds, messages'[m].st = "live"
               PROVE  WasMember(messages[m].chat, messages[m].sender)'
    BY DEF SenderWasMember
  <2>1. CASE messages[m].st = "live"
    <3>1. messages'[m].chat = messages[m].chat /\ messages'[m].sender = messages[m].sender
      BY <2>1, StepKeepsRows DEF MessagesStay
    <3>2. WasMember(messages[m].chat, messages[m].sender)
      BY <2>1 DEF SenderInv, SenderWasMember
    <3> QED
      BY <1>1, <3>1, <3>2
  <2>2. CASE messages[m].st # "live"
    <3>1. PICK p \in Requests : CommitSendMessage(p)
      BY <2>2, NewMessage
    <3>2. messages'[m].chat = req[p].chat /\ messages'[m].sender = req[p].user
      BY <2>2, <3>1 DEF CommitSendMessage, TypeInv, TypeOK
    <3>3. WasMember(req[p].chat, req[p].user)
      BY <3>1 DEF CommitSendMessage, SenderInv
    <3> QED
      BY <1>1, <3>2, <3>3
  <2> QED
    BY <2>1, <2>2
<1> QED
  BY <1>2, <1>3 DEF SenderInv

LEMMA SenderInit == Init => SenderInv
  BY NoRequestType DEF Init, SenderInv, SenderWasMember, FreeMessage, Ready

(* Although the check of a membership and the insertion of the message are *)
(* separate statements, no message is ever stored whose sender was not, at *)
(* some time, a member of the chat.                                        *)
THEOREM SenderWasMemberHolds == Spec => []SenderWasMember
<1>1. Spec => []SenderInv
  BY TypeInvariant, SenderInit, SenderStep, PTL DEF Spec
<1> QED
  BY <1>1, PTL DEF SenderInv

-----------------------------------------------------------------------------
(* Foreign keys.  The strengthening: the chat a row names is a chat id, so *)
(* that the chat a new row names is the one the commit has found.          *)

KeysInv ==
    /\ \A i \in MemberIds : members[i].st = "live" => ChatExists(members[i].chat)
    /\ \A m \in MessageIds : messages[m].st = "live" => ChatExists(messages[m].chat)

(* A step keeps the foreign keys when it deletes no chat that a row names  *)
(* and adds rows only to chats that are there.                             *)
LEMMA KeysKept ==
  ASSUME KeysInv,
         \A c : ChatExists(c) /\ (HasMembers(c) \/ HasMessages(c)) => ChatExists(c)',
         \A i \in MemberIds : members'[i].st = "live" =>
            \/ members[i].st = "live" /\ members'[i].chat = members[i].chat
            \/ ChatExists(members[i].chat)',
         \A m \in MessageIds : messages'[m].st = "live" =>
            \/ messages[m].st = "live" /\ messages'[m].chat = messages[m].chat
            \/ ChatExists(messages[m].chat)'
  PROVE  KeysInv'
<1>1. ASSUME NEW i \in MemberIds, members'[i].st = "live"
      PROVE  ChatExists(members[i].chat)'
  <2>1. CASE members[i].st = "live" /\ members'[i].chat = members[i].chat
    <3>1. ChatExists(members[i].chat) /\ HasMembers(members[i].chat)
      BY <2>1 DEF KeysInv, HasMembers, MembersOf
    <3> QED
      BY <2>1, <3>1
  <2> QED
    BY <1>1, <2>1
<1>2. ASSUME NEW m \in MessageIds, messages'[m].st = "live"
      PROVE  ChatExists(messages[m].chat)'
  <2>1. CASE messages[m].st = "live" /\ messages'[m].chat = messages[m].chat
    <3>1. ChatExists(messages[m].chat) /\ HasMessages(messages[m].chat)
      BY <2>1 DEF KeysInv, HasMessages
    <3> QED
      BY <2>1, <3>1
  <2> QED
    BY <1>2, <2>1
<1> QED
  BY <1>1, <1>2 DEF KeysInv

LEMMA KeysStep == TypeInv /\ KeysInv /\ [Next]_vars => KeysInv'
<1> SUFFICES ASSUME TypeInv, KeysInv, [Next]_vars PROVE KeysInv'
  OBVIOUS
<1>1. /\ chats \in [ChatIds -> ChatRow] /\ members \in [MemberIds -> MemberRow]
      /\ messages \in [MessageIds -> MessageRow]
  BY DEF TypeInv, TypeOK
<1> DEFINE ChatsKept == \A c : ChatExists(c) /\ (HasMembers(c) \/ HasMessages(c)) => ChatExists(c)'
           MembersKept == \A i \in MemberIds : members'[i].st = "live" =>
                            \/ members[i].st = "live" /\ members'[i].chat = members[i].chat
                            \/ ChatExists(members[i].chat)'
           MessagesKept == \A m \in MessageIds : messages'[m].st = "live" =>
                            \/ messages[m].st = "live" /\ messages'[m].chat = messages[m].chat
                            \/ ChatExists(messages[m].chat)'
<1>2. ASSUME ChatsKept, MembersKept, MessagesKept PROVE KeysInv'
  BY <1>2, KeysKept
<1>3. UNCHANGED chats => ChatsKept
  BY DEF ChatExists
<1>4. UNCHANGED members => MembersKept
  OBVIOUS
<1>5. UNCHANGED messages => MessagesKept
  OBVIOUS
<1> HIDE DEF ChatsKept, MembersKept, MessagesKept
<1>6. CASE UNCHANGED vars
  BY <1>2, <1>3, <1>4, <1>5, <1>6 DEF vars
<1>7. ASSUME NEW p \in Requests, Quiet(p) PROVE KeysInv'
  BY <1>2, <1>3, <1>4, <1>5, <1>7, QuietStep
<1>8. ASSUME NEW p \in Requests, CreateChat(p) PROVE KeysInv'
  <2>1. UNCHANGED messages
    BY <1>8 DEF CreateChat
  <2>2. CASE UNCHANGED <<chats, members>>
    BY <1>2, <1>3, <1>4, <1>5, <2>1, <2>2
  <2>3. ASSUME NEW c \in ChatIds, NEW own \in MemberIds, NEW ids \in SUBSET MemberIds,
               NEW new, chats[c].st = "free", InsertChat(req[p], c, own, ids, new)
        PROVE  KeysInv'
    <3>1. chats' = [chats EXCEPT ![c] = [st |-> "live", by |-> req[p].user, title |-> req[p].title]]
      BY <2>3 DEF InsertChat
    <3>2. ChatExists(c)' /\ \A d : ChatExists(d) => ChatExists(d)'
      BY <1>1, <3>1 DEF ChatExists
    <3>3. \A i \in MemberIds : members'[i] = members[i] \/ members'[i].chat = c
      BY <2>3 DEF InsertChat, NewMember
    <3>4. MembersKept
      BY <3>2, <3>3 DEF MembersKept
    <3>5. ChatsKept
      BY <3>2 DEF ChatsKept
    <3> QED
      BY <1>2, <1>5, <2>1, <3>4, <3>5
  <2>4. \/ UNCHANGED <<chats, members>>
        \/ \E c \in ChatIds, own \in MemberIds, ids \in SUBSET MemberIds :
             \E new \in [ids -> Users \ {req[p].user}] :
                chats[c].st = "free" /\ InsertChat(req[p], c, own, ids, new)
    BY <1>8 DEF CreateChat
  <2> QED
    BY <2>2, <2>3, <2>4
<1>9. ASSUME NEW p \in Requests, CommitUpdateChat(p) PROVE KeysInv'
  <2>1. UNCHANGED <<members, messages>>
    BY <1>9 DEF CommitUpdateChat
  <2>2. \A c \in ChatIds : chats'[c].st = chats[c].st
    BY <1>1, <1>9 DEF CommitUpdateChat, ChatRow
  <2>3. ChatsKept
    BY <2>2 DEF ChatsKept, ChatExists
  <2> QED
    BY <1>2, <1>4, <1>5, <2>1, <2>3
<1>10. ASSUME NEW p \in Requests, CommitDeleteChat(p) PROVE KeysInv'
  <2> DEFINE c == req[p].chat
  <2>1. UNCHANGED <<members, messages>>
    BY <1>10 DEF CommitDeleteChat
  <2>2. \/ UNCHANGED chats
        \/ ~HasMembers(c) /\ ~HasMessages(c) /\ chats' = [chats EXCEPT ![c].st = "gone"]
    BY <1>10 DEF CommitDeleteChat
  <2>3. ASSUME ~HasMembers(c), ~HasMessages(c), chats' = [chats EXCEPT ![c].st = "gone"]
        PROVE  ChatsKept
    <3>1. \A d \in ChatIds : d # c => chats'[d] = chats[d]
      BY <1>1, <2>3
    <3> QED
      BY <2>3, <3>1 DEF ChatsKept, ChatExists
  <2> QED
    BY <1>2, <1>3, <1>4, <1>5, <2>1, <2>2, <2>3
<1>11. ASSUME NEW p \in Requests,
              CommitAddMember(p) \/ CommitRemoveMember(p) \/ CommitUpdateRole(p)
       PROVE  KeysInv'
  <2>1. UNCHANGED <<chats, messages>>
    BY <1>11 DEF CommitAddMember, CommitRemoveMember, CommitUpdateRole
  <2>2. CASE CommitAddMember(p)
    <3>1. \/ UNCHANGED members
          \/ /\ ChatExists(req[p].chat)
             /\ \E i \in MemberIds :
                  members' = [members EXCEPT ![i] = NewMember(req[p].chat, req[p].target, req[p].role)]
      BY <2>2 DEF CommitAddMember
    <3>2. ChatExists(req[p].chat) => ChatExists(req[p].chat)' \/ TRUE
      OBVIOUS
    <3>3. \A i \in MemberIds :
            members'[i] = members[i]
            \/ (ChatExists(req[p].chat) /\ members'[i].chat = req[p].chat)
      BY <1>1, <3>1 DEF NewMember
    <3>4. MembersKept
      BY <2>1, <3>3 DEF MembersKept, ChatExists
    <3> QED
      BY <1>2, <1>3, <1>5, <2>1, <3>4
  <2>3. CASE CommitRemoveMember(p)
    <3>1. \A i \in MemberIds : members'[i] = members[i] \/ members'[i].st = "gone"
      BY <1>1, <2>3 DEF CommitRemoveMember, MemberRow
    <3>2. MembersKept
      BY <3>1 DEF MembersKept
    <3> QED
      BY <1>2, <1>3, <1>5, <2>1, <3>2
  <2>4. CASE CommitUpdateRole(p)
    <3>1. \A i \in MemberIds : members'[i].st = members[i].st /\ members'[i].chat = members[i].chat
      BY <1>1, <2>4 DEF CommitUpdateRole, MemberRow
    <3>2. MembersKept
      BY <3>1 DEF MembersKept
    <3> QED
      BY <1>2, <1>3, <1>5, <2>1, <3>2
  <2> QED
    BY <1>11, <2>2, <2>3, <2>4
<1>12. ASSUME NEW p \in Requests, CommitSendMessage(p) PROVE KeysInv'
  <2>1. UNCHANGED <<chats, members>>
    BY <1>12 DEF CommitSendMessage
  <2>2. \A m \in MessageIds :
          messages'[m] = messages[m]
          \/ (ChatExists(req[p].chat) /\ messages'[m].chat = req[p].chat)
    BY <1>1, <1>12 DEF CommitSendMessage
  <2>3. MessagesKept
    BY <2>1, <2>2 DEF MessagesKept, ChatExists
  <2> QED
    BY <1>2, <1>3, <1>4, <2>1, <2>3
<1>13. ASSUME NEW p \in Requests, CommitEditMessage(p) \/ CommitDeleteMessage(p) PROVE KeysInv'
  <2>1. UNCHANGED <<chats, members>>
    BY <1>13 DEF CommitEditMessage, CommitDeleteMessage
  <2>2. PICK k, old, new : WriteColumns(k, old, new)
    BY <1>13 DEF CommitEditMessage, CommitDeleteMessage
  <2>3. \A m \in MessageIds : messages'[m].st = messages[m].st /\ messages'[m].chat = messages[m].chat
    BY <1>1, <2>2 DEF WriteColumns, MessageRow
  <2>4. MessagesKept
    BY <2>3 DEF MessagesKept
  <2> QED
    BY <1>2, <1>3, <1>4, <2>1, <2>4
<1> QED
  BY <1>6, <1>7, <1>8, <1>9, <1>10, <1>11, <1>12, <1>13 DEF Next, Step, Quiet

LEMMA KeysInit == Init => KeysInv
  BY DEF Init, KeysInv, FreeMember, FreeMessage

(* No membership and no message ever refers to a chat that is not there,   *)
(* although delete_chat loads the members before it deletes, and add_member *)
(* and send_message check their caller long before they insert.            *)
THEOREM ForeignKeysHold == Spec => []ForeignKeys
<1>1. Spec => []KeysInv
  BY TypeInvariant, KeysInit, KeysStep, PTL DEF Spec
<1>2. KeysInv => ForeignKeys
  BY DEF KeysInv, ForeignKeys, ChatExists
<1> QED
  BY <1>1, <1>2, PTL

-----------------------------------------------------------------------------
(* The text of a deleted message.  A session may hold an old version of    *)
(* the columns of the message it is about.                                 *)

HasColumns(r) ==
    /\ r.msg \in MessageIds
    /\ r.old # None \/ (r.pc = "ready" /\ r.op \in MessageOps)

(* What an old version still says of the row: an edit mark is never lost,  *)
(* and a text found blank is blank until the message is marked as edited.  *)
OlderVersion(old, row) ==
    /\ row.st = "live"
    /\ old.edited => row.edited
    /\ old.content = DeletedText /\ ~row.edited => row.content = DeletedText

ColumnsAreOlder ==
    \A p \in Requests : HasColumns(req[p]) => OlderVersion(req[p].old, messages[req[p].msg])

TextInv == DeletedTextIsBlank /\ ColumnsAreOlder

(* A request gets its version of the columns from the row as it is, and    *)
(* keeps the first one it gets.                                            *)
LEMMA ColumnsLoaded ==
  ASSUME TypeInv, NEW p \in Requests, Begin(p) \/ Step(p) \/ DatabaseFails(p),
         NEW q \in Requests, HasColumns(req[q])'
  PROVE  \/ HasColumns(req[q]) /\ req'[q].msg = req[q].msg /\ req'[q].old = req[q].old
         \/ /\ UNCHANGED messages
            /\ messages[req'[q].msg].st = "live"
            /\ req'[q].old = ColumnsOf(req'[q].msg)
<1> DEFINE r == req[p]
           Same == HasColumns(req[q]) /\ req'[q].msg = req[q].msg /\ req'[q].old = req[q].old
           Fresh == /\ UNCHANGED messages
                    /\ messages[req'[q].msg].st = "live"
                    /\ req'[q].old = ColumnsOf(req'[q].msg)
<1>0. r \in Request /\ RequestOK(r) /\ req \in [Requests -> Request] /\ TypeOK
  BY DEF TypeInv, TypeOK, RequestsOK
<1>1. /\ req'[q].msg \in MessageIds
      /\ req'[q].old # None \/ (req'[q].pc = "ready" /\ req'[q].op \in MessageOps)
  BY DEF HasColumns
<1>2. req'[q] = req[q] => Same
  BY <1>1 DEF HasColumns
<1>3. ASSUME NEW code, Reply(p, code) PROVE Same
  <2>1. req'[q] = req[q] \/ req'[q] = NoRequest
    BY <1>0, <1>3 DEF Reply
  <2>2. NoRequest.old = None /\ NoRequest.pc = "idle"
    BY DEF NoRequest
  <2> QED
    BY <1>1, <1>2, <2>1, <2>2
<1>4. ASSUME NEW next, req' = [req EXCEPT ![p] = next], next.msg = r.msg, next.old = r.old,
             next.op = r.op, r.op \notin MessageOps
      PROVE  Same
  <2>1. CASE q # p
    BY <1>0, <1>2, <1>4, <2>1
  <2>2. CASE q = p
    BY <1>0, <1>1, <1>4, <2>2 DEF HasColumns
  <2> QED
    BY <2>1, <2>2
<1> HIDE DEF r, Same, Fresh
<1>5. CASE Begin(p)
  <2>1. PICK s \in Request : req' = [req EXCEPT ![p] = LoadUser(s)]
    BY <1>5, BeginStarts DEF Start
  <2> DEFINE o == IF s.msg # None /\ messages[s.msg].st = "live" /\ messages[s.msg].sender = s.user
                  THEN ColumnsOf(s.msg) ELSE None
  <2>2. LoadUser(s).old = o /\ LoadUser(s).msg = s.msg /\ LoadUser(s).pc = "auth"
    <3>1. LoadUser(s).msg = s.msg /\ LoadUser(s).pc = "auth"
      BY <1>0, LoadUserType
    <3>2. ASSUME NEW x, NEW y, NEW z
          PROVE  [s EXCEPT !.pc = "auth", !.roles = x, !.old = y, !.oldTitle = z].old = y
      BY DEF Request
    <3>3. LoadUser(s).old = o
      BY <3>2 DEF LoadUser
    <3> QED
      BY <3>1, <3>3
  <2>3. UNCHANGED messages
    BY <1>5 DEF Begin
  <2> HIDE DEF o
  <2>4. CASE q = p
    <3>1. req'[q].old = o /\ req'[q].msg = s.msg /\ o # None
      BY <1>0, <1>1, <2>1, <2>2, <2>4
    <3>2. messages[s.msg].st = "live" /\ o = ColumnsOf(s.msg)
      BY <3>1 DEF o
    <3> QED
      BY <2>3, <3>1, <3>2 DEF Fresh
  <2>5. CASE q # p
    BY <1>0, <1>2, <2>1, <2>5 DEF Same
  <2> QED
    BY <2>4, <2>5 DEF Same, Fresh
<1>6. CASE LookupChat(p)
  <2> DEFINE next == [r EXCEPT !.pc = IF r.op = "update_chat" THEN "chat" ELSE "ready",
                    !.oldTitle = IF @ = None THEN chats[r.chat].title ELSE @,
                    !.roles = Loaded(r, MembersOf(r.chat)),
                    !.hadMembers = HasMembers(r.chat)]
  <2>1. /\ r.op \in {"update_chat", "delete_chat"}
        /\ (\E code : Reply(p, code)) \/ req' = [req EXCEPT ![p] = next]
    BY <1>6 DEF LookupChat, ReplyUnless, r
  <2>2. next.op = r.op /\ next.msg = r.msg /\ next.old = r.old
    BY <1>0 DEF Request
  <2> HIDE DEF next
  <2> QED
    BY <1>3, <1>4, <2>1, <2>2 DEF Same, MessageOps
<1>7. CASE LookupCaller(p)
  <2> DEFINE next == [r EXCEPT
                !.pc = IF r.op \in {"send_message", "update_chat"} THEN "ready" ELSE "caller",
                !.roles = Loaded(r, RowsOf(r.chat, r.user))]
  <2>1. /\ r.op \in {"add_member", "remove_member", "update_member_role", "send_message",
                     "update_chat"}
        /\ (\E code : Reply(p, code)) \/ req' = [req EXCEPT ![p] = next]
    BY <1>7 DEF LookupCaller, ReplyUnless, r
  <2>2. next.op = r.op /\ next.msg = r.msg /\ next.old = r.old
    BY <1>0 DEF Request
  <2> HIDE DEF next
  <2> QED
    BY <1>3, <1>4, <2>1, <2>2 DEF Same, MessageOps
<1>8. CASE LookupTarget(p)
  <2>1. r.op \notin MessageOps
    BY <1>0, <1>8 DEF LookupTarget, RequestOK, r, MessageOps
  <2>2. \/ \E code : Reply(p, code)
        \/ \E row, rs : req' = [req EXCEPT ![p] = [r EXCEPT !.pc = "ready", !.row = row, !.roles = rs]]
    BY <1>8 DEF LookupTarget, ReplyUnless, r
  <2>3. ASSUME NEW row, NEW rs, NEW next,
               next = [r EXCEPT !.pc = "ready", !.row = row, !.roles = rs]
        PROVE  next.op = r.op /\ next.msg = r.msg /\ next.old = r.old
    BY <1>0, <2>3 DEF Request
  <2>4. ASSUME NEW row, NEW rs,
               req' = [req EXCEPT ![p] = [r EXCEPT !.pc = "ready", !.row = row, !.roles = rs]]
        PROVE  Same
    <3> DEFINE next == [r EXCEPT !.pc = "ready", !.row = row, !.roles = rs]
    <3>1. req' = [req EXCEPT ![p] = next]
      BY <2>4
    <3>2. next.op = r.op /\ next.msg = r.msg /\ next.old = r.old
      BY <2>3
    <3> HIDE DEF next
    <3> QED
      BY <1>4, <2>1, <3>1, <3>2
  <2> QED
    BY <1>3, <2>2, <2>4 DEF Same
<1>9. CASE LookupMessage(p)
  <2> DEFINE code == IF messages[r.msg].st = "free" THEN 404
                     ELSE IF messages[r.msg].sender # r.user THEN 403 ELSE Pass
             o == IF r.old = None THEN ColumnsOf(r.msg) ELSE r.old
             next == [r EXCEPT !.pc = "ready", !.old = o]
  <2>1. /\ ReplyUnless(p, code, next) /\ r.op \in MessageOps /\ r.pc = "auth"
        /\ UNCHANGED messages
    BY <1>9 DEF LookupMessage, r, MessageOps
  <2>2. next.msg = r.msg /\ next.old = o /\ r.msg \in MessageIds
    BY <1>0, <2>1 DEF Request, RequestOK
  <2>3. CASE code # Pass
    BY <1>3, <2>1, <2>3 DEF ReplyUnless, Same
  <2>4. CASE code = Pass
    <3>1. messages[r.msg].st = "live"
      BY <1>0, <2>2, <2>4 DEF TypeOK, MessageRow, Pass
    <3>2. req' = [req EXCEPT ![p] = next]
      BY <2>1, <2>4 DEF ReplyUnless
    <3> HIDE DEF next, o
    <3>3. CASE q # p
      BY <1>0, <1>2, <3>2, <3>3 DEF Same
    <3>4. CASE q = p
      <4>1. req'[q].msg = r.msg /\ req'[q].old = o
        BY <1>0, <2>2, <3>2, <3>4
      <4>2. CASE r.old = None
        BY <2>1, <3>1, <4>1, <4>2 DEF Fresh, o
      <4>3. CASE r.old # None
        BY <2>2, <3>4, <4>1, <4>3 DEF Same, o, r, HasColumns
      <4> QED
        BY <4>2, <4>3 DEF Same, Fresh
    <3> QED
      BY <3>3, <3>4
  <2> QED
    BY <2>3, <2>4
<1>10. ASSUME \/ CreateChat(p) \/ CommitUpdateChat(p) \/ CommitDeleteChat(p)
              \/ CommitAddMember(p) \/ CommitRemoveMember(p) \/ CommitUpdateRole(p)
              \/ CommitSendMessage(p) \/ CommitEditMessage(p) \/ CommitDeleteMessage(p)
              \/ DatabaseFails(p)
       PROVE  \E code : Reply(p, code)
  BY <1>10 DEF CreateChat, CommitUpdateChat, CommitDeleteChat, CommitAddMember,
        CommitRemoveMember, CommitUpdateRole, CommitSendMessage, CommitEditMessage,
        CommitDeleteMessage, DatabaseFails
<1>11. CASE \E code : Reply(p, code)
  BY <1>3, <1>11 DEF Same
<1> QED
  BY <1>5, <1>6, <1>7, <1>8, <1>9, <1>10, <1>11 DEF Step

(* What an UPDATE of changed columns leaves in the row.                    *)
LEMMA WrittenRow ==
  ASSUME TypeInv, NEW m \in MessageIds, NEW old, NEW new, WriteColumns(m, old, new)
  PROVE  /\ \A k \in MessageIds : k # m => messages'[k] = messages[k]
         /\ messages'[m].st = messages[m].st
         /\ messages'[m].content = (IF new.content = old.content THEN messages[m].content ELSE new.content)
         /\ messages'[m].edited = (IF new.edited = old.edited THEN messages[m].edited ELSE new.edited)
         /\ messages'[m].deleted = (IF new.deleted = old.deleted THEN messages[m].deleted ELSE new.deleted)
<1> DEFINE x == IF new.content = old.content THEN messages[m].content ELSE new.content
           e == IF new.edited = old.edited THEN messages[m].edited ELSE new.edited
           d == IF new.deleted = old.deleted THEN messages[m].deleted ELSE new.deleted
           row == [messages[m] EXCEPT !.content = x, !.edited = e, !.deleted = d]
<1>1. messages \in [MessageIds -> MessageRow]
  BY DEF TypeInv, TypeOK
<1>2. messages' = [messages EXCEPT ![m] = row]
  BY DEF WriteColumns
<1>3. row.st = messages[m].st /\ row.content = x /\ row.edited = e /\ row.deleted = d
  <2> HIDE DEF x, e, d
  <2> QED
    BY <1>1 DEF MessageRow
<1> HIDE DEF row, x, e, d
<1>4. messages'[m] = row /\ \A k \in MessageIds : k # m => messages'[k] = messages[k]
  BY <1>1, <1>2
<1> QED
  BY <1>3, <1>4 DEF x, e, d

(* How the row of a message may change under the sessions that loaded it.  *)
RowGoesOn(m) ==
    /\ messages[m].st = "live" => messages'[m].st = "live"
    /\ messages[m].st = "live" /\ messages[m].edited => messages'[m].edited
    /\ messages[m].st = "live" /\ messages[m].content = DeletedText /\ ~messages'[m].edited
        => messages'[m].content = DeletedText
    /\ messages'[m].deleted /\ ~messages'[m].edited => messages'[m].content = DeletedText

LEMMA RowsGoOn ==
  ASSUME TypeInv, TextInv, [Next]_vars, NEW m \in MessageIds
  PROVE  RowGoesOn(m)
<1>1. messages \in [MessageIds -> MessageRow] /\ messages[m] \in MessageRow
  BY DEF TypeInv, TypeOK
<1>2. messages[m].edited \in BOOLEAN /\ messages[m].deleted \in BOOLEAN
  BY <1>1 DEF MessageRow
<1>3. messages'[m] = messages[m] => RowGoesOn(m)
  BY DEF RowGoesOn, TextInv, DeletedTextIsBlank
<1>4. CASE UNCHANGED messages
  BY <1>3, <1>4
<1>5. ASSUME NEW p \in Requests, CommitSendMessage(p) PROVE RowGoesOn(m)
  <2>1. \/ messages'[m] = messages[m]
        \/ messages[m].st = "free" /\ messages'[m].deleted = FALSE
    BY <1>1, <1>5 DEF CommitSendMessage
  <2> QED
    BY <1>3, <2>1 DEF RowGoesOn
<1>6. ASSUME NEW p \in Requests, CommitEditMessage(p) \/ CommitDeleteMessage(p) PROVE RowGoesOn(m)
  <2> DEFINE r == req[p]
             old == r.old
             edited == [old EXCEPT !.content = r.content, !.edited = TRUE]
             blank == [old EXCEPT !.content = DeletedText, !.deleted = TRUE]
  <2>1. r.msg \in MessageIds /\ old \in Columns /\ r.pc = "ready" /\ r.op \in MessageOps
    BY <1>6 DEF CommitEditMessage, CommitDeleteMessage, Ready, TypeInv, TypeOK, RequestsOK,
                RequestOK, MessageOps
  <2>2. OlderVersion(old, messages[r.msg])
    BY <2>1 DEF TextInv, ColumnsAreOlder, HasColumns
  <2>3. old.edited \in BOOLEAN /\ old.deleted \in BOOLEAN
    BY <2>1 DEF Columns
  <2>4. /\ edited.content = r.content /\ edited.edited = TRUE /\ edited.deleted = old.deleted
        /\ blank.content = DeletedText /\ blank.edited = old.edited /\ blank.deleted = TRUE
    BY <2>1 DEF Columns
  <2>5. \/ CommitEditMessage(p) /\ WriteColumns(r.msg, old, edited)
        \/ CommitDeleteMessage(p) /\ WriteColumns(r.msg, old, blank)
    BY <1>6 DEF CommitEditMessage, CommitDeleteMessage
  <2> HIDE DEF r, edited, blank
  <2>6. CASE m # r.msg
    <3>1. messages'[m] = messages[m]
      BY <2>1, <2>5, <2>6, WrittenRow
    <3> QED
      BY <1>3, <3>1
  <2>7. CASE m = r.msg /\ WriteColumns(r.msg, old, edited)
    <3>1. messages'[m].st = messages[m].st
      BY <2>1, <2>7, WrittenRow
    <3>2. messages'[m].edited = (IF edited.edited = old.edited THEN messages[m].edited
                                 ELSE edited.edited)
      BY <2>1, <2>7, WrittenRow
    <3>3. messages'[m].edited = TRUE
      BY <1>2, <2>2, <2>3, <2>4, <2>7, <3>2 DEF OlderVersion
    <3> QED
      BY <3>1, <3>3 DEF RowGoesOn
  <2>8. CASE m = r.msg /\ WriteColumns(r.msg, old, blank)
    <3>1. messages'[m].st = messages[m].st
      BY <2>1, <2>8, WrittenRow
    <3>2. messages'[m].edited = (IF blank.edited = old.edited THEN messages[m].edited
                                 ELSE blank.edited)
      BY <2>1, <2>8, WrittenRow
    <3>3. messages'[m].content = (IF blank.content = old.content THEN messages[m].content
                                  ELSE blank.content)
      BY <2>1, <2>8, WrittenRow
    <3>4. messages'[m].edited = messages[m].edited
      BY <2>4, <3>2
    <3>5. messages[m].edited \/ messages'[m].content = DeletedText
      BY <2>2, <2>4, <2>8, <3>3 DEF OlderVersion
    <3> QED
      BY <3>1, <3>4, <3>5 DEF RowGoesOn
  <2> QED
    BY <2>5, <2>6, <2>7, <2>8
<1>7. ASSUME NEW p \in Requests,
             \/ CreateChat(p) \/ CommitUpdateChat(p) \/ CommitDeleteChat(p)
             \/ CommitAddMember(p) \/ CommitRemoveMember(p) \/ CommitUpdateRole(p)
      PROVE  UNCHANGED messages
  BY <1>7 DEF CreateChat, CommitUpdateChat, CommitDeleteChat, CommitAddMember,
              CommitRemoveMember, CommitUpdateRole
<1>8. UNCHANGED vars => UNCHANGED messages
  BY DEF vars
<1> QED
  BY <1>4, <1>5, <1>6, <1>7, <1>8, QuietStep DEF Next, Step, Quiet

LEMMA TextStep == TypeInv /\ TextInv /\ [Next]_vars => TextInv'
<1> SUFFICES ASSUME TypeInv, TextInv, [Next]_vars PROVE TextInv'
  OBVIOUS
<1>1. DeletedTextIsBlank'
  BY RowsGoOn DEF DeletedTextIsBlank, RowGoesOn
<1>2. ASSUME NEW q \in Requests, HasColumns(req[q])'
      PROVE  OlderVersion(req'[q].old, messages'[req'[q].msg])
  <2>1. CASE HasColumns(req[q]) /\ req'[q].msg = req[q].msg /\ req'[q].old = req[q].old
    <3> DEFINE m == req[q].msg
    <3>1. OlderVersion(req[q].old, messages[m]) /\ m \in MessageIds
      BY <2>1 DEF TextInv, ColumnsAreOlder, HasColumns
    <3>2. RowGoesOn(m)
      BY <3>1, RowsGoOn
    <3>3. messages[m].edited \in BOOLEAN
      BY <3>1 DEF TypeInv, TypeOK, MessageRow
    <3> QED
      BY <2>1, <3>1, <3>2, <3>3 DEF OlderVersion, RowGoesOn
  <2>2. CASE /\ UNCHANGED messages
             /\ messages[req'[q].msg].st = "live"
             /\ req'[q].old = ColumnsOf(req'[q].msg)
    BY <2>2 DEF OlderVersion, ColumnsOf
  <2>3. CASE UNCHANGED vars
    BY <1>2, <2>1, <2>3 DEF vars, HasColumns
  <2>4. CASE Next
    BY <1>2, <2>1, <2>2, <2>4, ColumnsLoaded DEF Next
  <2> QED
    BY <2>3, <2>4
<1> QED
  BY <1>1, <1>2 DEF TextInv, ColumnsAreOlder

LEMMA TextInit == Init => TextInv
<1>1. NoRequest.old = None /\ NoRequest.pc = "idle"
  BY DEF NoRequest
<1> QED
  BY <1>1 DEF Init, TextInv, DeletedTextIsBlank, ColumnsAreOlder, HasColumns, FreeMessage

(* A deleted message shows a text only if it is marked as edited, although *)
(* edit_message and delete_message write only the columns that differ from *)
(* a version they loaded any time before.                                  *)
THEOREM DeletedTextIsBlankHolds == Spec => []DeletedTextIsBlank
<1>1. Spec => []TextInv
  BY TypeInvariant, TextInit, TextStep, PTL DEF Spec
<1> QED
  BY <1>1, PTL DEF TextInv
=============================================================================
