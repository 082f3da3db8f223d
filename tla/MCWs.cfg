SPECIFICATION Spec
CONSTANTS
    Sockets = {s1, s2}
    Users = {u1}
    Chats = {c1, c2}
    NoSocket = NoSocket
    MaxRounds = 2
CHECK_DEADLOCK FALSE
INVARIANT TypeOK
INVARIANT NoGhost
INVARIANT StaysRegistered
INVARIANT PersonalKeyPresent
PROPERTY GoneIsForgotten
