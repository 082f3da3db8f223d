SPECIFICATION Spec
CONSTANTS
    Sockets = {s1, s2, s3, s4}
    Users = {u1}
    Chats = {c1}
    NoSocket = NoSocket
    MaxRounds = 2
SYMMETRY Symmetry
CHECK_DEADLOCK FALSE
PROPERTY BroadcastReachesRoom
