----------------------------- MODULE MCSdkCall -----------------------------
EXTENDS SdkCall, TLC
CONSTANTS s1
OneStep == [c \in Calls |-> s1]
Symm == Permutations(Calls) \cup Permutations(Deciders)
=============================================================================
