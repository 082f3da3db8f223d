SPECIFICATION Spec
CONSTANTS
    None = None
    Users = {u1, u2}
    UserIds = {u1, u2}
    ChatIds = {c1}
    MemberIds = {i1, i2, i3}
    MessageIds = {m1}
    Titles = {"a"}
    Contents = {"x"}
    Requests = {p1, p2}
    Ops = {"create_chat", "add_member", "remove_member", "update_member_role"}
    AskedRoles = {"member"}
    MaxRepeat = 1
SYMMETRY Symmetry
INVARIANT OneMembershipEach
