SPECIFICATION Spec
CONSTANTS
    None = None
    Users = {u1, u2}
    UserIds = {u1, u2}
    ChatIds = {c1}
    MemberIds = {i1, i2}
    MessageIds = {m1}
    Titles = {"a"}
    Contents = {"x"}
    Requests = {p1, p2}
    Ops = {"create_chat", "update_chat", "delete_chat", "add_member", "remove_member", "update_member_role", "send_message", "edit_message", "delete_message"}
    AskedRoles = {"admin", "other"}
    MaxRepeat = 1
SYMMETRY Symmetry
INVARIANT TypeOK
INVARIANT ForeignKeys
INVARIANT SenderWasMember
INVARIANT DeletedTextIsBlank
PROPERTY NothingComesBack
