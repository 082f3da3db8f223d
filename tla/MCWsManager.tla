---------------------------- MODULE MCWsManager ----------------------------
(* Instances of WsManager for TLC: sockets, users and rooms are each        *)
(* interchangeable.                                                         *)
EXTENDS WsManager, TLC

Symmetry == Permutations(Sockets) \cup Permutations(Users) \cup Permutations(Chats)
=============================================================================
