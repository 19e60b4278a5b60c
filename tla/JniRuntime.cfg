SPECIFICATION Spec
CONSTANTS
    javaThread = javaThread
    nativeThread = nativeThread
    s1 = s1
    s2 = s2
    Thread <- MCThread
    JavaThread <- MCJavaThread
    Slot <- MCSlot
    ClassKey <- MCClassKey
    MemberKey <- MCMemberKey
    MaxRef = 4
    MaxEntry = 1
SYMMETRY Symmetry
INVARIANTS HeldValid NoLeak Balanced
