--------------------------- MODULE MCChatBackend ---------------------------
(* Instances of ChatBackend for TLC: the ids of rows and the slots are      *)
(* interchangeable, so are the users.                                       *)
EXTENDS ChatBackend, TLC

Symmetry == Permutations(Users) \cup Permutations(ChatIds)
            \cup Permutations(MemberIds) \cup Permutations(MessageIds)
            \cup Permutations(Requests)
=============================================================================
