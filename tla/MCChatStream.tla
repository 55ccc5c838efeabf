---------------------------- MODULE MCChatStream ----------------------------
EXTENDS ChatStream, TLC
Symmetry == Permutations(Users) \cup Permutations(Keys) \cup Permutations(Requests)
=============================================================================
