---------------------------- MODULE MCChatRouting ----------------------------
(* A finite instance of ChatRouting: everything in it is interchangeable.   *)
EXTENDS ChatRouting, TLC

Symm == Permutations(Servers) \cup Permutations(Users) \cup Permutations(Conns) \cup Permutations(Texts)
=============================================================================
