----------------------------- MODULE MCJniRuntime -----------------------------
(* A thread of the VM and one of the program, with two reference objects.    *)
EXTENDS JniRuntime, TLC
CONSTANTS javaThread, nativeThread, s1, s2

MCThread     == {javaThread, nativeThread}
MCJavaThread == {javaThread}
MCSlot       == {s1, s2}
MCClassKey   == {0, 1}
MCMemberKey  == {0, 1}
Symmetry     == Permutations(MCSlot)
=============================================================================
