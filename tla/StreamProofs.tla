------------------------------ MODULE StreamProofs ------------------------------
(***************************************************************************)
(* Theorems about CipherStream, for chains of any length, of processors of *)
(* any block sizes, and any put area: nothing is lost, doubled or swapped  *)
(* on the way to the sink, and close() delivers all of it.                 *)
(* Theorems about ImageProber follow; it shares no state with the stream.  *)
(***************************************************************************)
EXTENDS CipherStream, ImageProber, SequenceTheorems, WellFoundedInduction, TLAPS

-----------------------------------------------------------------------------
(* Induction over the natural numbers, for a set of them.                  *)

Less == {p \in Nat \X Nat : p[1] < p[2]}

LEMMA Minimum ==
  ASSUME NEW T \in SUBSET Nat, T # {}
  PROVE  \E x \in T : \A y \in T : x <= y
<1>1. IsWellFoundedOn(Less, Nat)
  BY NatLessThanWellFounded DEF OpToRel, Less
<1>2. \E x \in T : \A y \in T : ~(<<y, x>> \in Less)
  <2>1. IsWellFoundedOn(Less, Nat) /\ T \subseteq Nat /\ T # {}
    BY <1>1
  <2> QED
    BY <2>1, WFMin
<1>3. PICK x \in T : \A y \in T : ~(<<y, x>> \in Less)
  BY <1>2
<1>4. ASSUME NEW y \in T PROVE x <= y
  <2>1. x \in Nat /\ y \in Nat /\ (<<y, x>> \in Less <=> y < x)
    BY DEF Less
  <2> QED
    BY <1>3, <2>1
<1> QED
  BY <1>4

LEMMA Induction ==
  ASSUME NEW S, 0 \in S, \A n \in Nat : n \in S => n + 1 \in S
  PROVE  \A n \in Nat : n \in S
<1> SUFFICES ASSUME Nat \ S # {} PROVE FALSE
  OBVIOUS
<1>1. PICK x \in Nat \ S : \A y \in Nat \ S : x <= y
  BY Minimum
<1>2. x # 0 /\ x - 1 \in Nat /\ x - 1 \in S
  BY <1>1
<1> QED
  BY <1>1, <1>2

(* A recursive function exists.                                            *)
Stays(step, X) == \A k \in Nat, x \in X : step[k][x] \in X

Iterates(f, n, X, base, step) ==
  f \in [0 .. n -> X] /\ f[0] = base /\ \A k \in 1 .. n : f[k] = step[k][f[k - 1]]

LEMMA Recursion ==
  ASSUME NEW X, NEW base, NEW step, NEW n, base \in X, Stays(step, X), n \in Nat
  PROVE  \E f : Iterates(f, n, X, base, step)
<1> DEFINE Is(f, m) ==
             f \in [0 .. m -> X] /\ \A k \in 0 .. m : f[k] = IF k = 0 THEN base ELSE step[k][f[k - 1]]
           S == {m \in Nat : \E f : Is(f, m)}
<1> USE DEF Stays
<1>1. 0 \in S
  <2>1. Is([k \in 0 .. 0 |-> base], 0)
    OBVIOUS
  <2> HIDE DEF Is
  <2> QED
    BY <2>1
<1>2. ASSUME NEW m \in Nat, m \in S PROVE m + 1 \in S
  <2>1. PICK f : Is(f, m)
    BY <1>2
  <2> DEFINE g == [k \in 0 .. m + 1 |-> IF k = m + 1 THEN step[k][f[m]] ELSE f[k]]
  <2>2. ASSUME NEW k \in 0 .. m + 1
        PROVE  g[k] \in X /\ g[k] = IF k = 0 THEN base ELSE step[k][g[k - 1]]
    <3>1. CASE k = m + 1
      <4>1. k # 0 /\ k - 1 = m /\ m \in 0 .. m + 1 /\ m # m + 1
        BY <3>1
      <4>2. g[k] = step[k][f[m]] /\ g[m] = f[m]
        BY <3>1, <4>1
      <4>3. f[m] \in X /\ k \in Nat
        BY <2>1, <3>1
      <4> HIDE DEF g
      <4> QED
        BY <4>1, <4>2, <4>3
    <3>2. CASE k # m + 1
      <4>1. k \in 0 .. m /\ k - 1 # m + 1 /\ (k # 0 => k - 1 \in 0 .. m)
        BY <3>2
      <4>2. f[k] \in X /\ f[k] = IF k = 0 THEN base ELSE step[k][f[k - 1]]
        BY <2>1, <4>1
      <4>3. g[k] = f[k] /\ (k # 0 => g[k - 1] = f[k - 1])
        BY <3>2, <4>1
      <4> HIDE DEF g
      <4> QED
        BY <4>2, <4>3
    <3> QED
      BY <3>1, <3>2
  <2>3. g = [k \in 0 .. m + 1 |-> g[k]]
    OBVIOUS
  <2> HIDE DEF g
  <2>4. Is(g, m + 1)
    BY <2>2, <2>3
  <2> HIDE DEF Is
  <2> QED
    BY <2>4
<1>3. n \in S
  <2> HIDE DEF S
  <2>1. \A m \in Nat : m \in S
    BY <1>1, <1>2, Induction
  <2> QED
    BY <2>1
<1>4. PICK f : Is(f, n)
  BY <1>3
<1>5. f[0] = base /\ \A k \in 1 .. n : f[k] = step[k][f[k - 1]]
  BY <1>4
<1> QED
  BY <1>4, <1>5 DEF Iterates

LEMMA InductionUpTo ==
  ASSUME NEW n \in Nat, NEW S, 0 \in S, \A k \in 1 .. n : k - 1 \in S => k \in S
  PROVE  \A k \in 0 .. n : k \in S
<1> DEFINE T == {k \in Nat : k <= n => k \in S}
<1>1. 0 \in T
  OBVIOUS
<1>2. ASSUME NEW k \in Nat, k \in T PROVE k + 1 \in T
  <2> SUFFICES ASSUME k + 1 <= n PROVE k + 1 \in S
    OBVIOUS
  <2>1. k \in S /\ k + 1 \in 1 .. n /\ (k + 1) - 1 = k
    BY <1>2
  <2> QED
    BY <2>1
<1>3. \A k \in Nat : k \in T
  <2> HIDE DEF T
  <2> QED
    BY <1>1, <1>2, Induction
<1> QED
  BY <1>3

(* What holds at first and is kept by each step holds of every value.    *)
LEMMA Iteration ==
  ASSUME NEW X, NEW f, NEW n \in Nat, f[0] \in X, \A k \in 1 .. n : f[k - 1] \in X => f[k] \in X
  PROVE  \A k \in 0 .. n : f[k] \in X
<1> DEFINE S == {k \in 0 .. n : f[k] \in X}
<1>1. 0 \in S /\ \A k \in 1 .. n : k - 1 \in S => k \in S
  OBVIOUS
<1>2. \A k \in 0 .. n : k \in S
  <2> HIDE DEF S
  <2> QED
    BY <1>1, InductionUpTo
<1> QED
  BY <1>2

-----------------------------------------------------------------------------
(* What the processors hold, and their padding.                            *)

LEMMA HeldUpToIs ==
  ASSUME NEW held \in Seq(Seq(Int))
  PROVE  /\ HeldUpTo(held) \in [0 .. Len(held) -> Seq(Int)]
         /\ HeldUpTo(held)[0] = <<>>
         /\ \A k \in 1 .. Len(held) : HeldUpTo(held)[k] = held[k] \o HeldUpTo(held)[k - 1]
<1> DEFINE X == Seq(Int)
           base == <<>>
           step == [k \in Nat |-> [x \in X |-> IF k \in DOMAIN held THEN held[k] \o x ELSE x]]
           n == Len(held)
           h == HeldUpTo(held)
<1>1. Stays(step, X) /\ base \in X /\ n \in Nat
  BY DEF Stays
<1>2. \A k \in 1 .. n : \A x \in X : step[k][x] = held[k] \o x /\ held[k] \o x \in X
  OBVIOUS
<1>3. h = CHOOSE f : f = [k \in 0 .. n |-> IF k = 0 THEN base ELSE held[k] \o f[k - 1]]
  BY DEF HeldUpTo
<1> HIDE DEF step, X, base, n, h
<1>4. PICK f : Iterates(f, n, X, base, step)
  BY <1>1, Recursion
<1> USE DEF Iterates
<1>5. f = [k \in 0 .. n |-> IF k = 0 THEN base ELSE held[k] \o f[k - 1]]
  <2>1. ASSUME NEW k \in 0 .. n, k # 0 PROVE f[k] = held[k] \o f[k - 1]
    <3>1. k \in 1 .. n /\ k - 1 \in 0 .. n
      BY <1>1, <2>1
    <3>2. f[k] = step[k][f[k - 1]] /\ f[k - 1] \in X
      BY <1>4, <2>1, <3>1
    <3> QED
      BY <1>2, <3>1, <3>2
  <2> QED
    BY <1>4, <2>1
<1>6. h = [k \in 0 .. n |-> IF k = 0 THEN base ELSE held[k] \o h[k - 1]]
  BY <1>3, <1>5
<1>7. h[0] = base /\ \A k \in 1 .. n : h[k] = held[k] \o h[k - 1]
  <2>1. \A k \in 0 .. n : h[k] = IF k = 0 THEN base ELSE held[k] \o h[k - 1]
    BY <1>6
  <2>2. 0 \in 0 .. n /\ \A k \in 1 .. n : k \in 0 .. n /\ k # 0
    BY <1>1
  <2> QED
    BY <2>1, <2>2
<1>8. \A k \in 0 .. n : h[k] \in X
  <2>1. h[0] \in X /\ \A k \in 1 .. n : h[k - 1] \in X => h[k] \in X
    BY <1>1, <1>2, <1>7
  <2> QED
    BY <1>1, <2>1, Iteration
<1>9. h \in [0 .. n -> X]
  BY <1>6, <1>8
<1> QED
  BY <1>7, <1>9 DEF X, base, n, h

-----------------------------------------------------------------------------
(* One processor.                                                          *)

LEMMA Rounding ==
  ASSUME NEW a \in Nat, NEW b \in Nat \ {0}
  PROVE  (a \div b) * b \in 0 .. a /\ a - (a \div b) * b < b
<1>1. a \div b \in Int /\ (a \div b) * b <= a /\ a - (a \div b) * b < b
  OBVIOUS
<1>2. (a \div b) * b >= 0
  OBVIOUS
<1> QED
  BY <1>1, <1>2

LEMMA Cut ==
  ASSUME NEW s \in Seq(Int), NEW n \in 0 .. Len(s)
  PROVE  /\ SubSeq(s, 1, n) \in Seq(Int) /\ SubSeq(s, n + 1, Len(s)) \in Seq(Int)
         /\ Len(SubSeq(s, n + 1, Len(s))) = Len(s) - n
         /\ SubSeq(s, 1, n) \o SubSeq(s, n + 1, Len(s)) = s
<1>1. /\ SubSeq(s, 1, n) \in Seq(Int) /\ SubSeq(s, n + 1, Len(s)) \in Seq(Int)
      /\ Len(SubSeq(s, n + 1, Len(s))) = Len(s) - n
  OBVIOUS
<1>2. SubSeq(s, 1, n) \o SubSeq(s, n + 1, Len(s)) = s
  <2> DEFINE x == SubSeq(s, 1, n)
             y == SubSeq(s, n + 1, Len(s))
             m == Len(s)
  <2>1. /\ x \in Seq(Int) /\ y \in Seq(Int) /\ Len(x) = n /\ Len(y) = m - n
        /\ m \in Nat /\ n \in 0 .. m
    OBVIOUS
  <2>2. (\A i \in 1 .. n : x[i] = s[i]) /\ \A i \in 1 .. m - n : y[i] = s[n + i]
    OBVIOUS
  <2> HIDE DEF x, y, m
  <2>3. x \o y \in Seq(Int) /\ Len(x \o y) = m
    BY <2>1
  <2>4. ASSUME NEW i \in 1 .. m PROVE (x \o y)[i] = s[i]
    <3>1. CASE i <= n
      BY <2>1, <2>2, <3>1
    <3>2. CASE i > n
      <4>1. (x \o y)[i] = y[i - n] /\ i - n \in 1 .. m - n /\ n + (i - n) = i
        BY <2>1, <3>2
      <4> QED
        BY <2>2, <4>1
    <3> QED
      BY <2>1, <3>1, <3>2
  <2>5. x \o y = s
    BY <2>3, <2>4, SeqEqual DEF m
  <2> QED
    BY <2>5 DEF x, y
<1> QED
  BY <1>1, <1>2

LEMMA Associative ==
  ASSUME NEW a \in Seq(Int), NEW b \in Seq(Int), NEW c \in Seq(Int)
  PROVE  (a \o b) \o c = a \o (b \o c) /\ a \o b \in Seq(Int)
BY SMTT(30)

LEMMA ChainFields ==
  ASSUME NEW d, ChainOK(d)
  PROVE  /\ d.processor \in Seq(Processor) /\ d.held \in Seq(Seq(Int)) /\ d.memory \in [Buffers -> Seq(Int)]
         /\ {d.swapped, d.unswapped, d.in, d.out} \subseteq Buffers /\ d.ok \in BOOLEAN
         /\ DOMAIN d.held = 1 .. Size(d) /\ DOMAIN d.processor = 1 .. Size(d) /\ Size(d) \in Nat
BY DEF ChainOK, ChainRecord, Size

(* A processor passes on what it held and what it got, but for what it     *)
(* holds now.                                                              *)
Updated(d, k, e) ==
  /\ ChainOK(e) /\ e.processor = d.processor
  /\ \A j \in 1 .. Size(d) \ {k} : e.held[j] = d.held[j]
  /\ e.ok => /\ d.ok /\ e.out = d.out
             /\ e.memory[d.out] \o e.held[k] = d.held[k] \o d.memory[d.in]

LEMMA UpdateDoes ==
  ASSUME NEW d, ChainOK(d), NEW k \in 1 .. Size(d), NEW bad
  PROVE  Updated(d, k, Update(d, k, bad))
<1> DEFINE e == Update(d, k, bad)
           body == d.held[k] \o d.memory[d.in]
           block == d.processor[k].block
           whole == (Len(body) \div block) * block
<1>1. d.held[k] \in Seq(Int) /\ d.memory[d.in] \in Seq(Int) /\ body \in Seq(Int) /\ Len(body) \in Nat
  <2>1. d.held[k] \in Seq(Int) /\ d.memory[d.in] \in Seq(Int)
    BY ChainFields
  <2>2. \A x, y \in Seq(Int) : x \o y \in Seq(Int) /\ Len(x \o y) \in Nat
    OBVIOUS
  <2> QED
    BY <2>1, <2>2
<1>2. block \in Nat \ {0}
  <2>1. d.processor[k] \in Processor
    BY ChainFields DEF Size
  <2> QED
    BY <2>1 DEF Processor
<1> DEFINE rest == SubSeq(body, whole + 1, Len(body))
           full == SubSeq(body, 1, whole)
<1>3. CASE e = d /\ ~d.ok
  BY <1>3 DEF Updated
<1>4. CASE e = [d EXCEPT !.ok = FALSE]
  <2>1. e \in ChainRecord /\ e.processor = d.processor /\ e.held = d.held /\ e.ok = FALSE
    BY <1>4 DEF ChainOK, ChainRecord
  <2> HIDE DEF e
  <2>2. ChainOK(e)
    BY <2>1 DEF ChainOK, Size
  <2> QED
    BY <2>1, <2>2 DEF e, Updated
<1>5. CASE d.ok /\ e = [d EXCEPT !.held[k] = rest, !.memory[d.out] = full]
  <2>1. /\ rest \in Seq(Int) /\ full \in Seq(Int) /\ full \o rest = body /\ Len(rest) < block
    <3>1. whole \in 0 .. Len(body) /\ Len(body) - whole < block
      BY <1>1, <1>2, Rounding
    <3> HIDE DEF whole, body
    <3> QED
      BY <1>1, <3>1, Cut
  <2> HIDE DEF rest, full
  <2>2. /\ e.processor = d.processor /\ e.held = [d.held EXCEPT ![k] = rest]
        /\ e.memory = [d.memory EXCEPT ![d.out] = full] /\ e.out = d.out /\ e.ok
        /\ e \in ChainRecord
    <3>1. d.held \in Seq(Seq(Int)) /\ k \in DOMAIN d.held /\ d.memory \in [Buffers -> Seq(Int)]
      BY ChainFields
    <3>2. [d.held EXCEPT ![k] = rest] \in Seq(Seq(Int))
      BY <2>1, <3>1
    <3>3. [d.memory EXCEPT ![d.out] = full] \in [Buffers -> Seq(Int)]
      BY <2>1, <3>1
    <3>4. e = [d EXCEPT !.held = [d.held EXCEPT ![k] = rest], !.memory = [d.memory EXCEPT ![d.out] = full]]
      BY <1>5
    <3> HIDE DEF e
    <3> QED
      BY <1>5, <3>2, <3>3, <3>4 DEF ChainOK, ChainRecord
  <2> HIDE DEF e
  <2>3. Len(e.held) = Len(d.held) /\ e.held[k] = rest /\ e.memory[d.out] = full
    BY <2>2, SMTT(30) DEF ChainOK, ChainRecord, Size
  <2>4. \A j \in 1 .. Size(d) \ {k} : e.held[j] = d.held[j]
    BY <2>2 DEF ChainOK, ChainRecord, Size
  <2>5. ChainOK(e)
    BY <2>1, <2>2, <2>3, <2>4 DEF ChainOK, Size
  <2> QED
    BY <1>5, <2>1, <2>2, <2>3, <2>4, <2>5 DEF e, Updated
<1>6. \/ e = d /\ ~d.ok
      \/ e = [d EXCEPT !.ok = FALSE]
      \/ d.ok /\ e = [d EXCEPT !.held[k] = rest, !.memory[d.out] = full]
  <2>1. CASE ~d.ok
    BY <2>1 DEF Update
  <2>2. CASE d.ok /\ (k = bad \/ (d.processor[k].strict /\ d.memory[d.in] = <<>>))
    BY <2>2, Zenon DEF Update
  <2>3. CASE d.ok /\ ~(k = bad \/ (d.processor[k].strict /\ d.memory[d.in] = <<>>))
    BY <2>3, Zenon DEF Update
  <2> QED
    BY <2>1, <2>2, <2>3
<1> QED
  BY <1>3, <1>4, <1>5, <1>6

LEMMA SwapDoes ==
  ASSUME NEW d, ChainOK(d)
  PROVE  /\ ChainOK(Swap(d)) /\ Swap(d).processor = d.processor /\ Swap(d).held = d.held
         /\ Swap(d).memory = d.memory /\ Swap(d).ok = d.ok /\ (d.ok => Swap(d).in = d.out)
<1> DEFINE out == IF d.out = d.unswapped THEN d.swapped ELSE d.unswapped
           e == Swap(d)
<1>1. out \in Buffers
  BY ChainFields
<1>3. /\ e \in ChainRecord /\ e.processor = d.processor /\ e.held = d.held /\ e.memory = d.memory
      /\ e.ok = d.ok /\ (d.ok => e.in = d.out)
  <2>1. CASE ~d.ok
    <3>1. e = d
      BY <2>1 DEF Swap
    <3> HIDE DEF e
    <3> QED
      BY <2>1, <3>1 DEF ChainOK
  <2>2. CASE d.ok
    <3>1. e = IF ~d.ok THEN d ELSE [d EXCEPT !.in = d.out, !.out = out]
      BY Zenon DEF Swap
    <3>2. e = [d EXCEPT !.in = d.out, !.out = out]
      BY <2>2, <3>1, Zenon
    <3> HIDE DEF e, out
    <3>3. d \in ChainRecord /\ d.out \in Buffers
      BY ChainFields DEF ChainOK
    <3> QED
      BY <1>1, <3>2, <3>3 DEF ChainRecord
  <2> QED
    BY <2>1, <2>2
<1> HIDE DEF e
<1>4. ChainOK(e)
  BY <1>3 DEF ChainOK, Size
<1> QED
  BY <1>3, <1>4 DEF e

LEMMA PaddingIs ==
  ASSUME NEW processor, NEW k \in Nat
  PROVE  Padding(processor, k) \in Seq(Int)
BY DEF Padding

LEMMA FinalizeDoes ==
  ASSUME NEW d, ChainOK(d), NEW k \in 1 .. Size(d), NEW bad
  PROVE  /\ ChainOK(Finalize(d, k, bad))
         /\ Finalize(d, k, bad).processor = d.processor
         /\ \A j \in 1 .. Size(d) \ {k} : Finalize(d, k, bad).held[j] = d.held[j]
         /\ Finalize(d, k, bad).ok =>
               /\ d.ok /\ Finalize(d, k, bad).out = d.out
               /\ Finalize(d, k, bad).held[k] = <<>>
               /\ Finalize(d, k, bad).memory[d.out] = d.memory[d.out] \o Remainder(d, k)
<1> DEFINE e == Finalize(d, k, bad)
           full == d.memory[d.out] \o Remainder(d, k)
<1>1. full \in Seq(Int)
  <2>1. d.held[k] \in Seq(Int) /\ d.memory[d.out] \in Seq(Int)
    BY ChainFields
  <2>2. Padding(d.processor[k], k) \in Seq(Int)
    <3>1. k \in Nat
      BY ChainFields
    <3> QED
      BY <3>1, PaddingIs
  <2>3. \A x, y, z \in Seq(Int) : x \o (y \o z) \in Seq(Int)
    OBVIOUS
  <2> QED
    BY <2>1, <2>2, <2>3 DEF Remainder
<1>2. \/ e = d /\ ~d.ok
      \/ e = [d EXCEPT !.ok = FALSE]
      \/ d.ok /\ e = [d EXCEPT !.held[k] = <<>>, !.memory[d.out] = full]
  <2>1. CASE ~d.ok
    BY <2>1 DEF Finalize
  <2>2. CASE d.ok /\ k = bad
    BY <2>2, Zenon DEF Finalize
  <2>3. CASE d.ok /\ k # bad
    BY <2>3, Zenon DEF Finalize
  <2> QED
    BY <2>1, <2>2, <2>3
<1> HIDE DEF full
<1>3. CASE e = d /\ ~d.ok
  BY <1>3
<1>4. CASE e = [d EXCEPT !.ok = FALSE]
  <2>1. e \in ChainRecord /\ e.processor = d.processor /\ e.held = d.held /\ e.ok = FALSE
    BY <1>4 DEF ChainOK, ChainRecord
  <2> HIDE DEF e
  <2>2. ChainOK(e)
    BY <2>1 DEF ChainOK, Size
  <2> QED
    BY <2>1, <2>2 DEF e
<1>5. CASE d.ok /\ e = [d EXCEPT !.held[k] = <<>>, !.memory[d.out] = full]
  <2>1. /\ e.processor = d.processor /\ e.held = [d.held EXCEPT ![k] = <<>>]
        /\ e.memory = [d.memory EXCEPT ![d.out] = full] /\ e.out = d.out /\ e.ok
        /\ e \in ChainRecord
    <3>1. d.held \in Seq(Seq(Int)) /\ k \in DOMAIN d.held /\ d.memory \in [Buffers -> Seq(Int)]
      BY ChainFields
    <3>2. [d.held EXCEPT ![k] = <<>>] \in Seq(Seq(Int))
      BY <3>1
    <3>3. [d.memory EXCEPT ![d.out] = full] \in [Buffers -> Seq(Int)]
      BY <1>1, <3>1
    <3>4. e = [d EXCEPT !.held = [d.held EXCEPT ![k] = <<>>], !.memory = [d.memory EXCEPT ![d.out] = full]]
      BY <1>5
    <3> HIDE DEF e
    <3> QED
      BY <1>5, <3>2, <3>3, <3>4 DEF ChainOK, ChainRecord
  <2> HIDE DEF e
  <2>2. Len(e.held) = Len(d.held) /\ e.held[k] = <<>> /\ e.memory[d.out] = full
    BY <2>1 DEF ChainOK, ChainRecord, Size
  <2>3. \A j \in 1 .. Size(d) \ {k} : e.held[j] = d.held[j]
    BY <2>1 DEF ChainOK, ChainRecord, Size
  <2>4. ChainOK(e)
    <3>1. d.processor[k].block \in Nat \ {0} /\ Len(<<>>) = 0
      <4>1. d.processor[k] \in Processor
        BY ChainFields DEF Size
      <4> QED
        BY <4>1 DEF Processor
    <3> QED
      BY <2>1, <2>2, <2>3, <3>1 DEF ChainOK, Size
  <2> QED
    BY <1>5, <2>1, <2>2, <2>3, <2>4 DEF e, full
<1> QED
  BY <1>2, <1>3, <1>4, <1>5

(* What a processor gets: nothing if it is the first to be finalised.      *)
Passed(d, k) == IF k = 1 THEN <<>> ELSE d.memory[d.in]

(* A processor that has got what it is passed, and is finalised.           *)
Finished(d, k, e) ==
  /\ ChainOK(e) /\ e.processor = d.processor
  /\ \A j \in 1 .. Size(d) \ {k} : e.held[j] = d.held[j]
  /\ e.ok => /\ d.ok /\ e.out = d.out /\ e.held[k] = <<>>
             /\ e.memory[d.out] = (d.held[k] \o Passed(d, k)) \o Padding(d.processor[k], k)

LEMMA FinishDoes ==
  ASSUME NEW d, ChainOK(d), NEW k \in 1 .. Size(d), NEW bad
  PROVE  Finished(d, k, Finish(d, k, bad))
<1> DEFINE u == IF k = 1 THEN [d EXCEPT !.memory[d.out] = <<>>] ELSE Update(d, k, bad)
           pad == Padding(d.processor[k], k)
<1>1. /\ ChainOK(u) /\ u.processor = d.processor
      /\ \A j \in 1 .. Size(d) \ {k} : u.held[j] = d.held[j]
      /\ u.ok => d.ok /\ u.out = d.out /\ u.memory[d.out] \o u.held[k] = d.held[k] \o Passed(d, k)
  <2>1. CASE k = 1
    <3>1. /\ u \in ChainRecord /\ u.processor = d.processor /\ u.held = d.held /\ u.ok = d.ok
          /\ u.out = d.out /\ u.memory = [d.memory EXCEPT ![d.out] = <<>>]
      <4>1. [d.memory EXCEPT ![d.out] = <<>>] \in [Buffers -> Seq(Int)]
        BY ChainFields
      <4>2. u = [d EXCEPT !.memory = [d.memory EXCEPT ![d.out] = <<>>]]
        BY <2>1
      <4> HIDE DEF u
      <4> QED
        BY <4>1, <4>2 DEF ChainOK, ChainRecord
    <3> HIDE DEF u
    <3>2. ChainOK(u)
      BY <3>1 DEF ChainOK, Size
    <3>3. u.memory[d.out] = <<>>
      BY <3>1, ChainFields
    <3>4. d.held[k] \in Seq(Int) /\ \A x \in Seq(Int) : <<>> \o x = x /\ x \o <<>> = x
      BY ChainFields
    <3> QED
      BY <2>1, <3>1, <3>2, <3>3, <3>4 DEF Passed
  <2>2. CASE k # 1
    <3>1. u = Update(d, k, bad)
      BY <2>2
    <3> HIDE DEF u
    <3> QED
      BY <2>2, <3>1, UpdateDoes, ZenonT(30) DEF Passed, Updated
  <2> QED
    BY <2>1, <2>2
<1>2. Finish(d, k, bad) = Finalize(u, k, bad)
  BY DEF Finish
<1> HIDE DEF u
<1>3. k \in 1 .. Size(u) /\ Size(u) = Size(d)
  BY <1>1 DEF Size
<1>4. u.memory[d.out] \in Seq(Int) /\ u.held[k] \in Seq(Int) /\ pad \in Seq(Int)
  <2>1. u.memory[d.out] \in Seq(Int) /\ u.held[k] \in Seq(Int) /\ k \in Nat
    BY <1>1, <1>3, ChainFields
  <2> QED
    BY <2>1, PaddingIs
<1>5. u.memory[d.out] \o Remainder(u, k) = (u.memory[d.out] \o u.held[k]) \o pad
  <2>1. Remainder(u, k) = u.held[k] \o pad
    BY <1>1 DEF Remainder
  <2>2. \A x, y, z \in Seq(Int) : x \o (y \o z) = (x \o y) \o z
    BY Associative
  <2> DEFINE a == u.memory[d.out]
             b == u.held[k]
             c == pad
  <2>3. a \in Seq(Int) /\ b \in Seq(Int) /\ c \in Seq(Int)
    BY <1>4
  <2> HIDE DEF a, b, c
  <2>4. a \o (b \o c) = (a \o b) \o c
    BY <2>2, <2>3
  <2> QED
    BY <2>1, <2>4 DEF a, b, c
<1> HIDE DEF pad
<1> DEFINE e == Finalize(u, k, bad)
<1>6. /\ ChainOK(e) /\ e.processor = u.processor /\ \A j \in 1 .. Size(d) \ {k} : e.held[j] = u.held[j]
      /\ e.ok => u.ok /\ e.out = u.out /\ e.held[k] = <<>> /\ e.memory[u.out] = u.memory[u.out] \o Remainder(u, k)
  <2>1. /\ ChainOK(e) /\ e.processor = u.processor /\ \A j \in 1 .. Size(u) \ {k} : e.held[j] = u.held[j]
        /\ e.ok => u.ok /\ e.out = u.out /\ e.held[k] = <<>>
                     /\ e.memory[u.out] = u.memory[u.out] \o Remainder(u, k)
    <3>1. ChainOK(u) /\ k \in 1 .. Size(u)
      BY <1>1, <1>3
    <3> QED
      BY <3>1, FinalizeDoes
  <2> HIDE DEF e
  <2> QED
    BY <1>3, <2>1
<1> HIDE DEF e
<1>7. e.ok => d.ok /\ e.out = d.out /\ e.held[k] = <<>>
                /\ e.memory[d.out] = (d.held[k] \o Passed(d, k)) \o pad
  BY <1>1, <1>5, <1>6
<1> QED
  BY <1>1, <1>2, <1>6, <1>7 DEF e, pad, Finished

LEMMA PadsUpToIs ==
  ASSUME NEW processor \in Seq(Processor)
  PROVE  /\ PadsUpTo(processor) \in [0 .. Len(processor) -> Seq(Int)]
         /\ PadsUpTo(processor)[0] = <<>>
         /\ \A k \in 1 .. Len(processor) :
               PadsUpTo(processor)[k] = PadsUpTo(processor)[k - 1] \o Padding(processor[k], k)
<1> DEFINE X == Seq(Int)
           base == <<>>
           step == [k \in Nat |-> [x \in X |-> x \o Padding(processor[k], k)]]
           n == Len(processor)
           h == PadsUpTo(processor)
<1>1. Stays(step, X) /\ base \in X /\ n \in Nat
  BY PaddingIs DEF Stays
<1>2. \A k \in 1 .. n : \A x \in X : step[k][x] = x \o Padding(processor[k], k) /\ x \o Padding(processor[k], k) \in X
  <2>1. ASSUME NEW k \in 1 .. n, NEW x \in X
        PROVE  step[k][x] = x \o Padding(processor[k], k) /\ x \o Padding(processor[k], k) \in X
    <3>1. k \in Nat /\ Padding(processor[k], k) \in X
      BY PaddingIs
    <3> QED
      BY <3>1
  <2> QED
    BY <2>1
<1>3. h = CHOOSE f : f = [k \in 0 .. n |-> IF k = 0 THEN base ELSE f[k - 1] \o Padding(processor[k], k)]
  BY DEF PadsUpTo
<1> HIDE DEF step, X, base, n, h
<1>4. PICK f : Iterates(f, n, X, base, step)
  BY <1>1, Recursion
<1> USE DEF Iterates
<1>5. f = [k \in 0 .. n |-> IF k = 0 THEN base ELSE f[k - 1] \o Padding(processor[k], k)]
  <2>1. ASSUME NEW k \in 0 .. n, k # 0 PROVE f[k] = f[k - 1] \o Padding(processor[k], k)
    <3>1. k \in 1 .. n /\ k - 1 \in 0 .. n
      BY <1>1, <2>1
    <3>2. f[k] = step[k][f[k - 1]] /\ f[k - 1] \in X
      BY <1>4, <2>1, <3>1
    <3> QED
      BY <1>2, <3>1, <3>2
  <2> QED
    BY <1>4, <2>1
<1>6. h = [k \in 0 .. n |-> IF k = 0 THEN base ELSE h[k - 1] \o Padding(processor[k], k)]
  BY <1>3, <1>5
<1>7. h[0] = base /\ \A k \in 1 .. n : h[k] = h[k - 1] \o Padding(processor[k], k)
  <2>1. \A k \in 0 .. n : h[k] = IF k = 0 THEN base ELSE h[k - 1] \o Padding(processor[k], k)
    BY <1>6
  <2>2. 0 \in 0 .. n /\ \A k \in 1 .. n : k \in 0 .. n /\ k # 0
    BY <1>1
  <2> QED
    BY <2>1, <2>2
<1>8. \A k \in 0 .. n : h[k] \in X
  <2>1. h[0] \in X /\ \A k \in 1 .. n : h[k - 1] \in X => h[k] \in X
    BY <1>1, <1>2, <1>7
  <2> QED
    BY <1>1, <2>1, Iteration
<1>9. h \in [0 .. n -> X]
  BY <1>6, <1>8
<1> QED
  BY <1>7, <1>9 DEF X, base, n, h
-----------------------------------------------------------------------------
(* The loops over the chain.                                               *)

Alike(c) == {d \in ChainRecord : ChainOK(d) /\ d.processor = c.processor}

LEMMA ChainOKIn ==
  ASSUME NEW d, ChainOK(d)
  PROVE  d \in ChainRecord
BY DEF ChainOK

LEMMA UpdatesIs ==
  ASSUME NEW start, ChainOK(start), Size(start) > 0, NEW bad
  PROVE  /\ Updates(start, bad)[0] = start
         /\ \A k \in 1 .. Size(start) - 1 :
               Updates(start, bad)[k] = Swap(Update(Updates(start, bad)[k - 1], k, bad))
         /\ \A k \in 0 .. Size(start) - 1 : Updates(start, bad)[k] \in Alike(start)
<1> DEFINE X == Alike(start)
           n == Size(start) - 1
           step == [k \in Nat |-> [d \in X |-> IF k \in 1 .. n THEN Swap(Update(d, k, bad)) ELSE d]]
           h == Updates(start, bad)
<1>1. start \in X /\ n \in Nat /\ n + 1 = Size(start)
  BY ChainFields DEF Alike, ChainOK
<1>2. \A k \in 1 .. n : \A d \in X : Swap(Update(d, k, bad)) \in X
  <2>1. ASSUME NEW k \in 1 .. n, NEW d \in X PROVE Swap(Update(d, k, bad)) \in X
    <3>1. ChainOK(d) /\ d.processor = start.processor /\ k \in 1 .. Size(d)
      BY <1>1 DEF Alike, Size
    <3>2. ChainOK(Update(d, k, bad)) /\ Update(d, k, bad).processor = d.processor
      <4>1. Updated(d, k, Update(d, k, bad))
        BY <3>1, UpdateDoes
      <4> QED
        BY <4>1 DEF Updated
    <3> QED
      BY <3>1, <3>2, SwapDoes, ChainOKIn DEF Alike
  <2> QED
    BY <2>1
<1>3. h = CHOOSE f : f = [k \in 0 .. n |-> IF k = 0 THEN start ELSE Swap(Update(f[k - 1], k, bad))]
  BY DEF Updates
<1>4. Stays(step, X) /\ \A k \in 1 .. n : \A d \in X : step[k][d] = Swap(Update(d, k, bad))
  <2> HIDE DEF X, n
  <2> QED
    BY <1>1, <1>2 DEF Stays
<1> HIDE DEF step, X, n, h
<1>5. PICK f : Iterates(f, n, X, start, step)
  BY <1>1, <1>4, Recursion
<1> USE DEF Iterates
<1>6. f = [k \in 0 .. n |-> IF k = 0 THEN start ELSE Swap(Update(f[k - 1], k, bad))]
  <2>1. ASSUME NEW k \in 0 .. n, k # 0 PROVE f[k] = Swap(Update(f[k - 1], k, bad))
    <3>1. k \in 1 .. n /\ k - 1 \in 0 .. n
      BY <1>1, <2>1
    <3>2. f[k] = step[k][f[k - 1]] /\ f[k - 1] \in X
      BY <1>5, <2>1, <3>1
    <3> QED
      BY <1>4, <3>1, <3>2
  <2> QED
    BY <1>5, <2>1
<1>7. h = [k \in 0 .. n |-> IF k = 0 THEN start ELSE Swap(Update(h[k - 1], k, bad))]
  BY <1>3, <1>6
<1>8. h[0] = start /\ \A k \in 1 .. n : h[k] = Swap(Update(h[k - 1], k, bad))
  <2>1. \A k \in 0 .. n : h[k] = IF k = 0 THEN start ELSE Swap(Update(h[k - 1], k, bad))
    BY <1>7
  <2>2. 0 \in 0 .. n /\ \A k \in 1 .. n : k \in 0 .. n /\ k # 0
    BY <1>1
  <2> QED
    BY <2>1, <2>2
<1>9. \A k \in 0 .. n : h[k] \in X
  <2>1. h[0] \in X /\ \A k \in 1 .. n : h[k - 1] \in X => h[k] \in X
    BY <1>1, <1>2, <1>8
  <2> QED
    BY <1>1, <2>1, Iteration
<1> QED
  BY <1>8, <1>9 DEF X, n, h

LEMMA FinishesIs ==
  ASSUME NEW start, ChainOK(start), Size(start) > 0, NEW bad
  PROVE  /\ Finishes(start, bad)[0] = start
         /\ \A k \in 1 .. Size(start) - 1 :
               Finishes(start, bad)[k] = Swap(Finish(Finishes(start, bad)[k - 1], k, bad))
         /\ \A k \in 0 .. Size(start) - 1 : Finishes(start, bad)[k] \in Alike(start)
<1> DEFINE X == Alike(start)
           n == Size(start) - 1
           step == [k \in Nat |-> [d \in X |-> IF k \in 1 .. n THEN Swap(Finish(d, k, bad)) ELSE d]]
           h == Finishes(start, bad)
<1>1. start \in X /\ n \in Nat /\ n + 1 = Size(start)
  BY ChainFields DEF Alike, ChainOK
<1>2. \A k \in 1 .. n : \A d \in X : Swap(Finish(d, k, bad)) \in X
  <2>1. ASSUME NEW k \in 1 .. n, NEW d \in X PROVE Swap(Finish(d, k, bad)) \in X
    <3>1. ChainOK(d) /\ d.processor = start.processor /\ k \in 1 .. Size(d)
      BY <1>1 DEF Alike, Size
    <3>2. ChainOK(Finish(d, k, bad)) /\ Finish(d, k, bad).processor = d.processor
      <4>1. Finished(d, k, Finish(d, k, bad))
        BY <3>1, FinishDoes
      <4> QED
        BY <4>1 DEF Finished
    <3> QED
      BY <3>1, <3>2, SwapDoes, ChainOKIn DEF Alike
  <2> QED
    BY <2>1
<1>3. h = CHOOSE f : f = [k \in 0 .. n |-> IF k = 0 THEN start ELSE Swap(Finish(f[k - 1], k, bad))]
  BY DEF Finishes
<1>4. Stays(step, X) /\ \A k \in 1 .. n : \A d \in X : step[k][d] = Swap(Finish(d, k, bad))
  <2> HIDE DEF X, n
  <2> QED
    BY <1>1, <1>2 DEF Stays
<1> HIDE DEF step, X, n, h
<1>5. PICK f : Iterates(f, n, X, start, step)
  BY <1>1, <1>4, Recursion
<1> USE DEF Iterates
<1>6. f = [k \in 0 .. n |-> IF k = 0 THEN start ELSE Swap(Finish(f[k - 1], k, bad))]
  <2>1. ASSUME NEW k \in 0 .. n, k # 0 PROVE f[k] = Swap(Finish(f[k - 1], k, bad))
    <3>1. k \in 1 .. n /\ k - 1 \in 0 .. n
      BY <1>1, <2>1
    <3>2. f[k] = step[k][f[k - 1]] /\ f[k - 1] \in X
      BY <1>5, <2>1, <3>1
    <3> QED
      BY <1>4, <3>1, <3>2
  <2> QED
    BY <1>5, <2>1
<1>7. h = [k \in 0 .. n |-> IF k = 0 THEN start ELSE Swap(Finish(h[k - 1], k, bad))]
  BY <1>3, <1>6
<1>8. h[0] = start /\ \A k \in 1 .. n : h[k] = Swap(Finish(h[k - 1], k, bad))
  <2>1. \A k \in 0 .. n : h[k] = IF k = 0 THEN start ELSE Swap(Finish(h[k - 1], k, bad))
    BY <1>7
  <2>2. 0 \in 0 .. n /\ \A k \in 1 .. n : k \in 0 .. n /\ k # 0
    BY <1>1
  <2> QED
    BY <2>1, <2>2
<1>9. \A k \in 0 .. n : h[k] \in X
  <2>1. h[0] \in X /\ \A k \in 1 .. n : h[k - 1] \in X => h[k] \in X
    BY <1>1, <1>2, <1>8
  <2> QED
    BY <1>1, <2>1, Iteration
<1> QED
  BY <1>8, <1>9 DEF X, n, h

LEMMA HeldAlike ==
  ASSUME NEW a \in Seq(Seq(Int)), NEW b \in Seq(Seq(Int)), NEW m \in Nat, m <= Len(a), m <= Len(b),
         \A j \in 1 .. m : a[j] = b[j]
  PROVE  HeldUpTo(a)[m] = HeldUpTo(b)[m]
<1> DEFINE f == HeldUpTo(a)
           g == HeldUpTo(b)
           S == {i \in 0 .. m : f[i] = g[i]}
<1>1. /\ f[0] = <<>> /\ g[0] = <<>>
      /\ \A k \in 1 .. m : f[k] = a[k] \o f[k - 1] /\ g[k] = b[k] \o g[k - 1]
  <2>1. \A k \in 1 .. m : k \in 1 .. Len(a) /\ k \in 1 .. Len(b)
    OBVIOUS
  <2> HIDE DEF f, g
  <2> QED
    BY <2>1, HeldUpToIs DEF f, g
<1> HIDE DEF f, g
<1>2. 0 \in S /\ \A k \in 1 .. m : k - 1 \in S => k \in S
  <2>1. 0 \in S
    BY <1>1
  <2>2. ASSUME NEW k \in 1 .. m, k - 1 \in S PROVE k \in S
    <3>1. f[k] = a[k] \o f[k - 1] /\ g[k] = b[k] \o g[k - 1] /\ a[k] = b[k]
      BY <1>1
    <3>2. f[k - 1] = g[k - 1] /\ k \in 0 .. m
      BY <2>2
    <3> QED
      BY <3>1, <3>2
  <2> QED
    BY <2>1, <2>2
<1>3. \A i \in 0 .. m : i \in S
  <2> HIDE DEF S
  <2> QED
    BY <1>2, InductionUpTo
<1> QED
  BY <1>3 DEF f, g

(* Concatenation, for the provers to reason about by its laws alone.       *)
Cat(x, y) == x \o y

LEMMA CatAssociative ==
  \A x, y, z \in Seq(Int) : Cat(x, Cat(y, z)) = Cat(Cat(x, y), z) /\ Cat(x, y) \in Seq(Int)
BY DEF Cat

LEMMA CatEmpty ==
  \A x \in Seq(Int) : Cat(x, <<>>) = x /\ Cat(<<>>, x) = x
BY DEF Cat

(* body is what the first k processors have passed on.                     *)
Carried(start, k, d, body) ==
  /\ d \in Alike(start) /\ \A j \in k + 1 .. Size(start) : d.held[j] = start.held[j]
  /\ d.ok => /\ start.ok
             /\ body \o HeldUpTo(d.held)[k] = HeldUpTo(start.held)[k] \o start.memory[start.in]

LEMMA CarriedOn ==
  ASSUME NEW start, ChainOK(start), NEW k \in 1 .. Size(start), NEW d, NEW bad,
         Carried(start, k - 1, d, d.memory[d.in])
  PROVE  LET e == Update(d, k, bad) IN Carried(start, k, e, e.memory[e.out])
<1> DEFINE e == Update(d, k, bad)
<1>0. ChainOK(d) /\ d.processor = start.processor /\ Size(d) = Size(start) /\ k \in 1 .. Size(d)
  BY DEF Carried, Alike, Size
<1>1. Updated(d, k, e)
  BY <1>0, UpdateDoes
<1> HIDE DEF e
<1>2. ChainOK(e) /\ e.processor = start.processor /\ Size(e) = Size(start) /\ e \in Alike(start)
  BY <1>0, <1>1 DEF Updated, Alike, Size, ChainOK
<1>3. \A j \in k + 1 .. Size(start) : e.held[j] = start.held[j]
  <2>1. ASSUME NEW j \in k + 1 .. Size(start) PROVE e.held[j] = start.held[j]
    <3>1. j \in 1 .. Size(d) \ {k} /\ j \in (k - 1) + 1 .. Size(start)
      BY <1>0, ChainFields
    <3>2. e.held[j] = d.held[j]
      BY <1>1, <3>1 DEF Updated
    <3>3. d.held[j] = start.held[j]
      BY <3>1 DEF Carried
    <3> QED
      BY <3>2, <3>3
  <2> QED
    BY <2>1
<1>4. ASSUME e.ok
      PROVE  start.ok /\ e.memory[e.out] \o HeldUpTo(e.held)[k] = HeldUpTo(start.held)[k] \o start.memory[start.in]
  <2>1. d.ok /\ e.out = d.out /\ e.memory[d.out] \o e.held[k] = d.held[k] \o d.memory[d.in]
    BY <1>1, <1>4 DEF Updated
  <2>2. start.ok /\ d.memory[d.in] \o HeldUpTo(d.held)[k - 1] = HeldUpTo(start.held)[k - 1] \o start.memory[start.in]
    BY <2>1 DEF Carried
  <2>3. d.held[k] = start.held[k]
    <3>1. k \in (k - 1) + 1 .. Size(start)
      BY ChainFields
    <3> QED
      BY <3>1 DEF Carried
  <2>4. /\ e.held \in Seq(Seq(Int)) /\ d.held \in Seq(Seq(Int)) /\ start.held \in Seq(Seq(Int))
        /\ k \in 1 .. Len(e.held) /\ k \in 1 .. Len(d.held) /\ k \in 1 .. Len(start.held)
        /\ k - 1 \in Nat /\ k - 1 <= Len(e.held) /\ k - 1 <= Len(d.held)
    <3>1. /\ e.held \in Seq(Seq(Int)) /\ d.held \in Seq(Seq(Int)) /\ start.held \in Seq(Seq(Int))
          /\ Len(e.held) = Size(start) /\ Len(d.held) = Size(start) /\ Len(start.held) = Size(start)
          /\ Size(start) \in Nat
      BY <1>0, <1>2, ChainFields DEF ChainOK
    <3> QED
      BY <3>1
  <2>5. HeldUpTo(e.held)[k - 1] = HeldUpTo(d.held)[k - 1]
    <3>1. \A j \in 1 .. k - 1 : e.held[j] = d.held[j]
      <4>1. \A j \in 1 .. k - 1 : j \in 1 .. Size(d) \ {k}
        BY <1>0, ChainFields
      <4> QED
        BY <1>1, <4>1 DEF Updated
    <3> QED
      BY <2>4, <3>1, HeldAlike
  <2>6. HeldUpTo(e.held)[k] = e.held[k] \o HeldUpTo(e.held)[k - 1]
    BY <2>4, HeldUpToIs
  <2>7. HeldUpTo(start.held)[k] = start.held[k] \o HeldUpTo(start.held)[k - 1]
    BY <2>4, HeldUpToIs
  <2> DEFINE out == e.memory[d.out]
             left == e.held[k]
             below == HeldUpTo(e.held)[k - 1]
             leftover == start.held[k]
             got == d.memory[d.in]
             before == HeldUpTo(start.held)[k - 1]
             input == start.memory[start.in]
  <2>8. {out, left, leftover, got, input} \subseteq Seq(Int)
    <3>1. d.out \in Buffers /\ d.in \in Buffers /\ start.in \in Buffers
      BY <1>0, ChainFields
    <3>2. e.memory \in [Buffers -> Seq(Int)] /\ d.memory \in [Buffers -> Seq(Int)] /\ start.memory \in [Buffers -> Seq(Int)]
      BY <1>0, <1>2, ChainFields
    <3>3. out \in Seq(Int) /\ got \in Seq(Int) /\ input \in Seq(Int)
      BY <3>1, <3>2
    <3>4. left \in Seq(Int) /\ leftover \in Seq(Int)
      BY <2>4
    <3> QED
      BY <3>3, <3>4
  <2>9. {below, before} \subseteq Seq(Int)
    <3>1. k - 1 \in 0 .. Len(e.held) /\ k - 1 \in 0 .. Len(start.held)
      BY <2>4
    <3>2. /\ HeldUpTo(e.held) \in [0 .. Len(e.held) -> Seq(Int)]
          /\ HeldUpTo(start.held) \in [0 .. Len(start.held) -> Seq(Int)]
      BY <2>4, HeldUpToIs
    <3> QED
      BY <3>1, <3>2
  <2>10. out \o left = leftover \o got /\ got \o below = before \o input
    BY <2>1, <2>2, <2>3, <2>5
  <2>11. e.memory[e.out] = out /\ HeldUpTo(e.held)[k] = left \o below /\ HeldUpTo(start.held)[k] = leftover \o before
    BY <2>1, <2>6, <2>7
  <2> HIDE DEF out, left, below, leftover, got, before
  <2>12. out \o (left \o below) = (leftover \o before) \o input
    <3> HIDE DEF input
    <3>1. Cat(out, left) = Cat(leftover, got) /\ Cat(got, below) = Cat(before, input)
      BY <2>10, Zenon DEF Cat
    <3>2. Cat(out, Cat(left, below)) = Cat(Cat(leftover, before), input)
      <4>1. /\ out \in Seq(Int) /\ left \in Seq(Int) /\ below \in Seq(Int) /\ leftover \in Seq(Int)
            /\ got \in Seq(Int) /\ before \in Seq(Int) /\ input \in Seq(Int)
        BY <2>8, <2>9
      <4> QED
        BY <3>1, <4>1, CatAssociative
    <3> QED
      BY <3>2, Zenon DEF Cat
  <2> QED
    BY <2>2, <2>11, <2>12
<1> QED
  BY <1>2, <1>3, <1>4 DEF e, Carried

LEMMA CarriedBySwap ==
  ASSUME NEW start, NEW k, NEW d, Carried(start, k, d, d.memory[d.out])
  PROVE  Carried(start, k, Swap(d), Swap(d).memory[Swap(d).in])
<1> DEFINE e == Swap(d)
<1>1. ChainOK(d) /\ d.processor = start.processor
  BY DEF Carried, Alike
<1>2. /\ ChainOK(e) /\ e.processor = d.processor /\ e.held = d.held /\ e.memory = d.memory /\ e.ok = d.ok
      /\ (d.ok => e.in = d.out)
  BY <1>1, SwapDoes
<1> HIDE DEF e
<1> QED
  BY <1>1, <1>2 DEF e, Carried, Alike, ChainOK

LEMMA UpdatesCarry ==
  ASSUME NEW start, ChainOK(start), Size(start) > 0, NEW bad
  PROVE  LET done == Update(Updates(start, bad)[Size(start) - 1], Size(start), bad)
         IN  Carried(start, Size(start), done, done.memory[done.out])
<1> DEFINE u == Updates(start, bad)
           n == Size(start) - 1
           S == {k \in 0 .. n : Carried(start, k, u[k], u[k].memory[u[k].in])}
<1>1. n \in Nat /\ n + 1 = Size(start) /\ Size(start) \in 1 .. Size(start)
  BY ChainFields
<1>2. u[0] = start /\ \A k \in 1 .. n : u[k] = Swap(Update(u[k - 1], k, bad))
  BY UpdatesIs
<1> HIDE DEF u
<1>3. 0 \in S
  <2>1. start \in Alike(start)
    BY DEF Alike, ChainOK
  <2>2. HeldUpTo(start.held)[0] = <<>> /\ start.memory[start.in] \in Seq(Int)
    BY ChainFields, HeldUpToIs
  <2>3. \A x \in Seq(Int) : x \o <<>> = <<>> \o x
    OBVIOUS
  <2>4. Carried(start, 0, start, start.memory[start.in])
    BY <2>1, <2>2, <2>3 DEF Carried
  <2> QED
    BY <1>1, <1>2, <2>4
<1>4. ASSUME NEW k \in 1 .. n, k - 1 \in S PROVE k \in S
  <2>1. k \in 1 .. Size(start) /\ Carried(start, k - 1, u[k - 1], u[k - 1].memory[u[k - 1].in])
    BY <1>1, <1>4
  <2> DEFINE e == Update(u[k - 1], k, bad)
  <2>2. Carried(start, k, e, e.memory[e.out])
    BY <2>1, CarriedOn
  <2>3. u[k] = Swap(e)
    BY <1>2
  <2> HIDE DEF e
  <2>4. Carried(start, k, u[k], u[k].memory[u[k].in])
    BY <2>2, <2>3, CarriedBySwap
  <2> QED
    BY <1>1, <2>4
<1>5. n \in S
  <2> HIDE DEF S
  <2>1. \A k \in 0 .. n : k \in S
    BY <1>1, <1>3, <1>4, InductionUpTo
  <2> QED
    BY <1>1, <2>1
<1>6. Carried(start, Size(start) - 1, u[n], u[n].memory[u[n].in])
  BY <1>5
<1> QED
  BY <1>1, <1>6, CarriedOn DEF u

(* body is all that the first k processors had, and their padding.         *)
Drained(start, k, d, body) ==
  /\ d \in Alike(start) /\ \A j \in k + 1 .. Size(start) : d.held[j] = start.held[j]
  /\ d.ok => /\ start.ok
             /\ body = HeldUpTo(start.held)[k] \o PadsUpTo(start.processor)[k]

LEMMA DrainedOn ==
  ASSUME NEW start, ChainOK(start), NEW k \in 1 .. Size(start), NEW d, NEW bad,
         Drained(start, k - 1, d, Passed(d, k))
  PROVE  LET e == Finish(d, k, bad) IN Drained(start, k, e, e.memory[e.out])
<1> DEFINE e == Finish(d, k, bad)
<1>0. ChainOK(d) /\ d.processor = start.processor /\ Size(d) = Size(start) /\ k \in 1 .. Size(d)
  BY DEF Drained, Alike, Size
<1>1. Finished(d, k, e)
  BY <1>0, FinishDoes
<1> HIDE DEF e
<1>2. ChainOK(e) /\ e.processor = start.processor /\ e \in Alike(start)
  BY <1>0, <1>1 DEF Finished, Alike, ChainOK
<1>3. \A j \in k + 1 .. Size(start) : e.held[j] = start.held[j]
  <2>1. ASSUME NEW j \in k + 1 .. Size(start) PROVE e.held[j] = start.held[j]
    <3>1. j \in 1 .. Size(d) \ {k} /\ j \in (k - 1) + 1 .. Size(start)
      BY <1>0, ChainFields
    <3>2. e.held[j] = d.held[j]
      BY <1>1, <3>1 DEF Finished
    <3>3. d.held[j] = start.held[j]
      BY <3>1 DEF Drained
    <3> QED
      BY <3>2, <3>3
  <2> QED
    BY <2>1
<1>4. ASSUME e.ok
      PROVE  start.ok /\ e.memory[e.out] = HeldUpTo(start.held)[k] \o PadsUpTo(start.processor)[k]
  <2>1. /\ d.ok /\ e.out = d.out
        /\ e.memory[d.out] = (d.held[k] \o Passed(d, k)) \o Padding(d.processor[k], k)
    BY <1>1, <1>4 DEF Finished
  <2>2. start.ok /\ Passed(d, k) = HeldUpTo(start.held)[k - 1] \o PadsUpTo(start.processor)[k - 1]
    BY <2>1 DEF Drained
  <2>3. d.held[k] = start.held[k]
    <3>1. k \in (k - 1) + 1 .. Size(start)
      BY ChainFields
    <3> QED
      BY <3>1 DEF Drained
  <2>4. /\ start.held \in Seq(Seq(Int)) /\ start.processor \in Seq(Processor)
        /\ k \in 1 .. Len(start.held) /\ k \in 1 .. Len(start.processor)
        /\ k - 1 \in 0 .. Len(start.held) /\ k - 1 \in 0 .. Len(start.processor)
    <3>1. /\ start.held \in Seq(Seq(Int)) /\ start.processor \in Seq(Processor)
          /\ Len(start.held) = Size(start) /\ Len(start.processor) = Size(start) /\ Size(start) \in Nat
      BY ChainFields DEF ChainOK, Size
    <3> QED
      BY <3>1
  <2>5. /\ HeldUpTo(start.held)[k] = start.held[k] \o HeldUpTo(start.held)[k - 1]
        /\ HeldUpTo(start.held)[k - 1] \in Seq(Int)
    BY <2>4, HeldUpToIs
  <2>6. /\ PadsUpTo(start.processor)[k] = PadsUpTo(start.processor)[k - 1] \o Padding(start.processor[k], k)
        /\ PadsUpTo(start.processor)[k - 1] \in Seq(Int)
    BY <2>4, PadsUpToIs
  <2> DEFINE leftover == start.held[k]
             before == HeldUpTo(start.held)[k - 1]
             pads == PadsUpTo(start.processor)[k - 1]
             pad == Padding(start.processor[k], k)
  <2>7. leftover \in Seq(Int) /\ before \in Seq(Int) /\ pads \in Seq(Int) /\ pad \in Seq(Int)
    <3>1. k \in Nat
      BY <2>4
    <3> QED
      BY <2>4, <2>5, <2>6, <3>1, PaddingIs
  <2>8. /\ e.memory[e.out] = (leftover \o (before \o pads)) \o pad
        /\ HeldUpTo(start.held)[k] = leftover \o before /\ PadsUpTo(start.processor)[k] = pads \o pad
    BY <1>0, <2>1, <2>2, <2>3, <2>5, <2>6
  <2> HIDE DEF leftover, before, pads, pad
  <2>9. Cat(Cat(leftover, Cat(before, pads)), pad) = Cat(Cat(leftover, before), Cat(pads, pad))
    BY <2>7, CatAssociative
  <2>10. (leftover \o (before \o pads)) \o pad = (leftover \o before) \o (pads \o pad)
    BY <2>9, Zenon DEF Cat
  <2> QED
    BY <2>2, <2>8, <2>10
<1> QED
  BY <1>2, <1>3, <1>4 DEF e, Drained

LEMMA DrainedBySwap ==
  ASSUME NEW start, NEW k \in Nat \ {0}, NEW d, Drained(start, k, d, d.memory[d.out])
  PROVE  Drained(start, k, Swap(d), Passed(Swap(d), k + 1))
<1> DEFINE e == Swap(d)
<1>1. ChainOK(d) /\ d.processor = start.processor
  BY DEF Drained, Alike
<1>2. /\ ChainOK(e) /\ e.processor = d.processor /\ e.held = d.held /\ e.memory = d.memory /\ e.ok = d.ok
      /\ (d.ok => e.in = d.out)
  BY <1>1, SwapDoes
<1> HIDE DEF e
<1>3. Passed(e, k + 1) = e.memory[e.in]
  BY DEF Passed
<1> QED
  BY <1>1, <1>2, <1>3 DEF e, Drained, Alike, ChainOK

LEMMA FinishesDrain ==
  ASSUME NEW start, ChainOK(start), Size(start) > 0, NEW bad
  PROVE  LET done == Finish(Finishes(start, bad)[Size(start) - 1], Size(start), bad)
         IN  Drained(start, Size(start), done, done.memory[done.out])
<1> DEFINE u == Finishes(start, bad)
           n == Size(start) - 1
           S == {k \in 0 .. n : Drained(start, k, u[k], Passed(u[k], k + 1))}
<1>1. n \in Nat /\ n + 1 = Size(start) /\ Size(start) \in 1 .. Size(start)
  BY ChainFields
<1>2. u[0] = start /\ \A k \in 1 .. n : u[k] = Swap(Finish(u[k - 1], k, bad))
  BY FinishesIs
<1> HIDE DEF u
<1>3. 0 \in S
  <2>1. start \in Alike(start)
    BY DEF Alike, ChainOK
  <2>2. HeldUpTo(start.held)[0] = <<>> /\ PadsUpTo(start.processor)[0] = <<>>
    BY ChainFields, HeldUpToIs, PadsUpToIs
  <2>3. Passed(start, 0 + 1) = <<>> /\ <<>> \o <<>> = <<>>
    BY DEF Passed
  <2>4. Drained(start, 0, start, Passed(start, 0 + 1))
    BY <2>1, <2>2, <2>3 DEF Drained
  <2> QED
    BY <1>1, <1>2, <2>4
<1>4. ASSUME NEW k \in 1 .. n, k - 1 \in S PROVE k \in S
  <2>1. k \in 1 .. Size(start) /\ Drained(start, k - 1, u[k - 1], Passed(u[k - 1], (k - 1) + 1)) /\ (k - 1) + 1 = k
    BY <1>1, <1>4
  <2> DEFINE e == Finish(u[k - 1], k, bad)
  <2>2. Drained(start, k, e, e.memory[e.out])
    BY <2>1, DrainedOn
  <2>3. u[k] = Swap(e) /\ k \in Nat \ {0}
    BY <1>2
  <2> HIDE DEF e
  <2>4. Drained(start, k, u[k], Passed(u[k], k + 1))
    BY <2>2, <2>3, DrainedBySwap
  <2> QED
    BY <1>1, <2>4
<1>5. n \in S
  <2> HIDE DEF S
  <2>1. \A k \in 0 .. n : k \in S
    BY <1>1, <1>3, <1>4, InductionUpTo
  <2> QED
    BY <1>1, <2>1
<1>6. Drained(start, Size(start) - 1, u[n], Passed(u[n], Size(start)))
  BY <1>1, <1>5
<1> QED
  BY <1>1, <1>6, DrainedOn DEF u

-----------------------------------------------------------------------------
(* The chain as a whole.                                                   *)

HeldIn(c) == HeldUpTo(c.held)[Size(c)]
PadsOf(c) == PadsUpTo(c.processor)[Size(c)]

LEMMA HeldInIs ==
  ASSUME NEW c, ChainOK(c)
  PROVE  HeldIn(c) \in Seq(Int) /\ PadsOf(c) \in Seq(Int)
<1>1. /\ c.held \in Seq(Seq(Int)) /\ c.processor \in Seq(Processor)
      /\ Size(c) \in 0 .. Len(c.held) /\ Size(c) \in 0 .. Len(c.processor)
  BY ChainFields DEF ChainOK, Size
<1> QED
  BY <1>1, HeldUpToIs, PadsUpToIs DEF HeldIn, PadsOf

(* What each operation does, with r its outcome.                           *)
Outcomes(c, r) ==
  /\ ChainOK(r.chain) /\ r.chain.processor = c.processor /\ r.chain.ok \in BOOLEAN
  /\ r.output \in Seq(Int)

LEMMA ChainUpdateDoes ==
  ASSUME NEW c, ChainOK(c), Size(c) > 0, NEW input \in Seq(Int), NEW bad
  PROVE  LET r == ChainUpdate(c, input, bad)
         IN  /\ Outcomes(c, r)
             /\ r.chain.ok => r.output \o HeldIn(r.chain) = HeldIn(c) \o input
<1> DEFINE r == ChainUpdate(c, input, bad)
<1>1. CASE input = <<>>
  <2> DEFINE d == [c EXCEPT !.ok = TRUE]
  <2>1. r = [chain |-> d, output |-> <<>>]
    BY <1>1 DEF ChainUpdate, Outcome
  <2>2. d \in ChainRecord /\ d.held = c.held /\ d.processor = c.processor /\ d.ok
    BY DEF ChainOK, ChainRecord
  <2> HIDE DEF d
  <2>3. ChainOK(d) /\ HeldIn(d) = HeldIn(c)
    BY <2>2 DEF ChainOK, Size, HeldIn
  <2>4. \A x \in Seq(Int) : <<>> \o x = x \o <<>>
    OBVIOUS
  <2>5. HeldIn(c) \in Seq(Int)
    BY HeldInIs
  <2> HIDE DEF r
  <2>6. r.chain = d /\ r.output = <<>>
    BY <2>1
  <2>7. Outcomes(c, r)
    <3>1. <<>> \in Seq(Int) /\ d.ok \in BOOLEAN /\ d.processor = c.processor
      BY <2>2, <2>3, ChainFields
    <3> QED
      BY <2>3, <2>6, <3>1 DEF Outcomes
  <2>8. r.output \o HeldIn(r.chain) = HeldIn(c) \o input
    BY <1>1, <2>3, <2>4, <2>5, <2>6
  <2> QED
    BY <2>7, <2>8 DEF r
<1>2. CASE input # <<>>
  <2> DEFINE start == Reset([c EXCEPT !.memory["input"] = input, !.ok = TRUE], "input")
             n == Size(c)
             done == Update(Updates(start, bad)[n - 1], n, bad)
  <2>1. r = Outcome(done, done.memory[done.out])
    BY <1>2 DEF ChainUpdate
  <2>2. /\ start \in ChainRecord /\ start.held = c.held /\ start.processor = c.processor /\ start.ok
        /\ start.memory[start.in] = input
    <3>1. /\ c.memory \in [Buffers -> Seq(Int)] /\ "input" \in Buffers /\ c.unswapped \in Buffers
          /\ c \in ChainRecord
      BY ChainFields DEF Buffers, ChainOK
    <3>2. start = [c EXCEPT !.memory = [c.memory EXCEPT !["input"] = input], !.ok = TRUE, !.in = "input", !.out = c.unswapped]
      BY <3>1 DEF Reset, ChainRecord
    <3>3. [c.memory EXCEPT !["input"] = input] \in [Buffers -> Seq(Int)] /\ [c.memory EXCEPT !["input"] = input]["input"] = input
      BY <3>1
    <3> HIDE DEF start
    <3> QED
      BY <3>1, <3>2, <3>3 DEF ChainRecord
  <2> HIDE DEF start
  <2>3. ChainOK(start) /\ HeldIn(start) = HeldIn(c) /\ Size(start) = n
    BY <2>2 DEF ChainOK, Size, HeldIn
  <2>4. Carried(start, n, done, done.memory[done.out])
    BY <2>3, UpdatesCarry
  <2> HIDE DEF done
  <2>5. ChainOK(done) /\ done.processor = c.processor /\ Size(done) = n
    BY <2>2, <2>4 DEF Carried, Alike, Size
  <2> HIDE DEF r
  <2>6. r.chain = done /\ r.output = IF done.ok THEN done.memory[done.out] ELSE <<>>
    BY <2>1 DEF Outcome
  <2>7. done.memory[done.out] \in Seq(Int) /\ done.ok \in BOOLEAN
    BY <2>5, ChainFields
  <2>8. Outcomes(c, r)
    BY <2>5, <2>6, <2>7 DEF Outcomes
  <2>9. done.ok => done.memory[done.out] \o HeldIn(done) = HeldIn(start) \o input
    BY <2>2, <2>3, <2>4, <2>5 DEF Carried, HeldIn
  <2> QED
    BY <2>3, <2>6, <2>8, <2>9 DEF r
<1> QED
  BY <1>1, <1>2

LEMMA SetOutDoes ==
  ASSUME NEW d, ChainOK(d), NEW a \in Buffers, NEW b \in Buffers
  PROVE  LET e == SetOut(d, a, b)
         IN  ChainOK(e) /\ e.processor = d.processor /\ e.held = d.held /\ e.ok = d.ok
<1> DEFINE e == SetOut(d, a, b)
<1>1. d \in ChainRecord /\ "none" \in Buffers
  BY DEF ChainOK, Buffers
<1>2. e = [d EXCEPT !.swapped = a, !.unswapped = b, !.in = "none", !.out = b]
  BY <1>1 DEF SetOut, Reset, ChainRecord
<1> HIDE DEF e
<1>3. e \in ChainRecord /\ e.processor = d.processor /\ e.held = d.held /\ e.ok = d.ok
  BY <1>1, <1>2 DEF ChainRecord
<1>4. ChainOK(e)
  BY <1>3 DEF ChainOK, Size
<1> QED
  BY <1>3, <1>4 DEF e

LEMMA ChainFinalizeDoes ==
  ASSUME NEW c, ChainOK(c), Size(c) > 0, NEW bad
  PROVE  LET r == ChainFinalize(c, bad)
         IN  /\ Outcomes(c, r)
             /\ r.chain.ok => r.output = HeldIn(c) \o PadsOf(c)
<1> DEFINE r == ChainFinalize(c, bad)
           good0 == [c EXCEPT !.ok = TRUE]
           start == SetOut(good0, "final", "pair")
           n == Size(c)
           done == Finish(Finishes(start, bad)[n - 1], n, bad)
           after == SetOut(done, c.swapped, c.unswapped)
<1>1. r = Outcome(after, done.memory[done.out])
  BY DEF ChainFinalize
<1>2. ChainOK(good0) /\ good0.processor = c.processor /\ good0.held = c.held /\ good0.ok
  <2>1. good0 \in ChainRecord /\ good0.processor = c.processor /\ good0.held = c.held /\ good0.ok
    BY DEF ChainOK, ChainRecord
  <2> HIDE DEF good0
  <2> QED
    BY <2>1 DEF ChainOK, Size
<1>3. ChainOK(start) /\ start.processor = c.processor /\ start.held = c.held /\ start.ok
  <2> HIDE DEF good0
  <2>1. "final" \in Buffers /\ "pair" \in Buffers
    BY DEF Buffers
  <2> QED
    BY <1>2, <2>1, SetOutDoes
<1> HIDE DEF start
<1>4. HeldIn(start) = HeldIn(c) /\ PadsOf(start) = PadsOf(c) /\ Size(start) = n
  BY <1>3 DEF Size, HeldIn, PadsOf
<1>5. Drained(start, n, done, done.memory[done.out])
  BY <1>3, <1>4, FinishesDrain
<1> HIDE DEF done
<1>6. ChainOK(done) /\ done.processor = c.processor
  BY <1>3, <1>5 DEF Drained, Alike
<1>7. ChainOK(after) /\ after.processor = c.processor /\ after.ok = done.ok
  <2>1. c.swapped \in Buffers /\ c.unswapped \in Buffers
    BY ChainFields
  <2> QED
    BY <1>6, <2>1, SetOutDoes
<1> HIDE DEF after, r
<1>8. r.chain = after /\ r.output = IF after.ok THEN done.memory[done.out] ELSE <<>>
  BY <1>1 DEF Outcome
<1>9. done.memory[done.out] \in Seq(Int) /\ done.ok \in BOOLEAN
  BY <1>6, ChainFields
<1>10. Outcomes(c, r)
  BY <1>7, <1>8, <1>9 DEF Outcomes
<1>11. done.ok => done.memory[done.out] = HeldIn(c) \o PadsOf(c)
  BY <1>4, <1>5 DEF Drained, HeldIn, PadsOf
<1> QED
  BY <1>7, <1>8, <1>10, <1>11 DEF r

LEMMA NewIs ==
  ASSUME NEW processors \in Seq(Processor)
  PROVE  LET c == New(processors)
         IN  ChainOK(c) /\ c.processor = processors /\ HeldIn(c) = <<>>
<1> DEFINE c == New(processors)
           none == [k \in DOMAIN processors |-> <<>>]
           memory == [b \in Buffers |-> <<>>]
<1>1. c = [processor |-> processors, held |-> none, memory |-> memory,
           swapped |-> "in", unswapped |-> "out", in |-> "none", out |-> "out", ok |-> TRUE]
  BY DEF New
<1>2. none \in Seq(Seq(Int)) /\ Len(none) = Len(processors) /\ \A k \in 1 .. Len(processors) : none[k] = <<>>
  <2>1. DOMAIN processors = 1 .. Len(processors) /\ Len(processors) \in Nat /\ <<>> \in Seq(Int)
    OBVIOUS
  <2> QED
    BY <2>1
<1>3. memory \in [Buffers -> Seq(Int)] /\ {"in", "out", "none"} \subseteq Buffers
  BY DEF Buffers
<1> HIDE DEF none, memory, c
<1>4. c \in ChainRecord /\ c.processor = processors /\ c.held = none
  BY <1>1, <1>2, <1>3 DEF ChainRecord
<1>5. ChainOK(c)
  <2>1. ASSUME NEW k \in 1 .. Size(c) PROVE Len(c.held[k]) < c.processor[k].block
    <3>1. c.held[k] = <<>> /\ c.processor[k] \in Processor
      BY <1>2, <1>4 DEF Size
    <3>2. c.processor[k].block \in Nat \ {0} /\ Len(<<>>) = 0
      BY <3>1 DEF Processor
    <3> QED
      BY <3>1, <3>2
  <2> QED
    BY <1>2, <1>4, <2>1 DEF ChainOK, Size
<1>6. HeldIn(c) = <<>>
  <2> DEFINE n == Len(none)
             f == HeldUpTo(none)
             S == {k \in 0 .. n : f[k] = <<>>}
  <2>1. n \in Nat /\ f[0] = <<>> /\ \A k \in 1 .. n : f[k] = none[k] \o f[k - 1]
    <3>1. Len(none) \in Nat
      BY <1>2
    <3> QED
      BY <1>2, <3>1, HeldUpToIs
  <2> HIDE DEF f
  <2>2. 0 \in S
    BY <2>1
  <2>3. ASSUME NEW k \in 1 .. n, k - 1 \in S PROVE k \in S
    <3>1. f[k] = none[k] \o f[k - 1] /\ k \in 0 .. n /\ k \in 1 .. Len(processors)
      <4>1. n = Len(processors)
        BY <1>2
      <4> HIDE DEF n
      <4>2. f[k] = none[k] \o f[k - 1]
        BY <2>1, Zenon
      <4>3. k \in 0 .. n /\ k \in 1 .. Len(processors)
        BY <2>1, <4>1
      <4> QED
        BY <4>2, <4>3
    <3>2. none[k] = <<>> /\ f[k - 1] = <<>> /\ <<>> \o <<>> = <<>>
      BY <1>2, <2>3, <3>1
    <3> QED
      BY <3>1, <3>2
  <2>4. \A k \in 0 .. n : k \in S
    <3> HIDE DEF S, n
    <3> QED
      BY <2>1, <2>2, <2>3, InductionUpTo
  <2>5. f[n] = <<>>
    BY <2>1, <2>4
  <2> QED
    BY <1>2, <1>4, <2>5 DEF HeldIn, Size, f
<1> QED
  BY <1>4, <1>5, <1>6 DEF c

-----------------------------------------------------------------------------
(* The stream.                                                             *)

StreamRecord == [area : Seq(Int), chain : ChainRecord, sink : Seq(Int), takes : BOOLEAN, ok : BOOLEAN]

Stream(s) == s \in StreamRecord /\ ChainOK(s.chain) /\ Size(s.chain) > 0

(* Unless something was lost, what was accepted is where it belongs.       *)
Flow(s, w) == s.ok /\ s.takes => s.sink \o HeldIn(s.chain) \o s.area = w

LEMMA FaultFields ==
  ASSUME NEW f \in Faults
  PROVE  f.write \in BOOLEAN /\ f.flush \in BOOLEAN /\ f.writeLast \in BOOLEAN
<1>1. NoFault.write \in BOOLEAN /\ NoFault.flush \in BOOLEAN /\ NoFault.writeLast \in BOOLEAN
  BY DEF NoFault
<1>2. ASSUME f \in ProcessorFaults PROVE f.write \in BOOLEAN /\ f.flush \in BOOLEAN /\ f.writeLast \in BOOLEAN
  <2>1. PICK k : f = [NoFault EXCEPT !.update = k] \/ f = [NoFault EXCEPT !.finalize = k]
    BY <1>2, Zenon DEF ProcessorFaults
  <2> QED
    BY <1>1, <2>1 DEF NoFault
<1>3. ASSUME f \in SinkFaults PROVE f.write \in BOOLEAN /\ f.flush \in BOOLEAN /\ f.writeLast \in BOOLEAN
  BY <1>3 DEF SinkFaults, NoFault
<1>4. f = NoFault \/ f \in ProcessorFaults \/ f \in SinkFaults
  BY DEF Faults
<1> QED
  BY <1>1, <1>2, <1>3, <1>4

LEMMA WriteDoes ==
  ASSUME NEW s, Stream(s), s.ok, NEW r, Outcomes(s.chain, r), NEW lost \in BOOLEAN, throws \in BOOLEAN
  PROVE  LET e == Write(s, r, lost)
         IN  /\ Stream(e) /\ e.chain = r.chain /\ e.area = s.area
             /\ e.ok /\ e.takes => s.takes /\ r.chain.ok /\ e.sink = s.sink \o r.output
<1> DEFINE leftover == r.chain.ok /\ s.takes /\ ~lost
           sink1 == IF leftover THEN s.sink \o r.output ELSE s.sink
           takes1 == s.takes /\ (r.chain.ok => ~lost)
           ok1 == r.chain.ok /\ (leftover \/ ~throws)
           e == Write(s, r, lost)
<1>1. s \in StreamRecord /\ s.sink \in Seq(Int) /\ s.takes \in BOOLEAN /\ r.output \in Seq(Int)
      /\ r.chain \in ChainRecord /\ ChainOK(r.chain) /\ Size(r.chain) = Size(s.chain) /\ Size(s.chain) > 0
  BY DEF Stream, StreamRecord, Outcomes, ChainOK, Size
<1>2. sink1 \in Seq(Int)
  BY <1>1
<1>3. takes1 \in BOOLEAN /\ ok1 \in BOOLEAN
  OBVIOUS
<1>4. ok1 /\ takes1 => s.takes /\ r.chain.ok /\ sink1 = s.sink \o r.output
  BY Zenon
<1>5. e = [s EXCEPT !.chain = r.chain, !.sink = sink1, !.takes = takes1, !.ok = ok1]
  BY Zenon DEF Write
<1> HIDE DEF sink1, takes1, ok1, e, leftover
<1>6. e \in StreamRecord /\ e.chain = r.chain /\ e.area = s.area /\ e.sink = sink1 /\ e.takes = takes1 /\ e.ok = ok1
  BY <1>1, <1>2, <1>3, <1>5 DEF StreamRecord
<1>7. Stream(e)
  BY <1>1, <1>6 DEF Stream
<1> QED
  BY <1>4, <1>6, <1>7 DEF e

LEMMA StreamFields ==
  ASSUME NEW s, Stream(s)
  PROVE  /\ s.area \in Seq(Int) /\ s.sink \in Seq(Int) /\ s.takes \in BOOLEAN /\ s.ok \in BOOLEAN
         /\ ChainOK(s.chain) /\ Size(s.chain) > 0
         /\ HeldIn(s.chain) \in Seq(Int) /\ PadsOf(s.chain) \in Seq(Int)
<1>1. ChainOK(s.chain)
  BY DEF Stream
<1>2. HeldIn(s.chain) \in Seq(Int) /\ PadsOf(s.chain) \in Seq(Int)
  BY <1>1, HeldInIs
<1> QED
  BY <1>2 DEF Stream, StreamRecord

(* An operation of the stream that may move bytes on, and loses none.      *)
Moves(s, w, e) ==
  /\ Stream(e) /\ Flow(e, w) /\ e.chain.processor = s.chain.processor
  /\ (e.area = s.area \/ e.area = <<>>)

LEMMA ProcessBufferDoes ==
  ASSUME NEW s, Stream(s), s.ok, NEW w, Flow(s, w), NEW f \in Faults, throws \in BOOLEAN
  PROVE  LET e == ProcessBuffer(s, f) IN Moves(s, w, e) /\ (e.ok => e.area = <<>>)
<1> DEFINE e == ProcessBuffer(s, f)
           r == ChainUpdate(s.chain, s.area, f.update)
           d == Write(s, r, f.write)
<1>1. Outcomes(s.chain, r) /\ (r.chain.ok => r.output \o HeldIn(r.chain) = HeldIn(s.chain) \o s.area)
  BY StreamFields, ChainUpdateDoes, ZenonT(30)
<1> HIDE DEF r
<1>2. /\ Stream(d) /\ d.chain = r.chain /\ d.area = s.area
      /\ d.ok /\ d.takes => s.takes /\ r.chain.ok /\ d.sink = s.sink \o r.output
  BY <1>1, FaultFields, WriteDoes
<1>3. e = IF d.ok THEN [d EXCEPT !.area = <<>>] ELSE d
  BY DEF ProcessBuffer, r
<1> HIDE DEF d, e
<1>4. r.chain.processor = s.chain.processor /\ r.output \in Seq(Int) /\ HeldIn(r.chain) \in Seq(Int)
  BY <1>1, HeldInIs DEF Outcomes
<1>5. CASE ~d.ok
  <2>1. e = d
    BY <1>3, <1>5
  <2> QED
    BY <1>2, <1>4, <1>5, <2>1 DEF e, Moves, Flow
<1>6. CASE d.ok
  <2>1. e = [d EXCEPT !.area = <<>>] /\ d \in StreamRecord /\ <<>> \in Seq(Int)
    BY <1>2, <1>3, <1>6 DEF Stream
  <2>2. /\ e \in StreamRecord /\ e.area = <<>> /\ e.chain = d.chain /\ e.sink = d.sink
        /\ e.takes = d.takes /\ e.ok = d.ok
    BY <2>1 DEF StreamRecord
  <2>3. Stream(e)
    BY <1>2, <2>2 DEF Stream
  <2>4. ASSUME e.ok, e.takes PROVE e.sink \o HeldIn(e.chain) \o e.area = w
    <3> DEFINE sink0 == s.sink
               out == r.output
               held == HeldIn(r.chain)
               held0 == HeldIn(s.chain)
               area0 == s.area
    <3>1. sink0 \in Seq(Int) /\ out \in Seq(Int) /\ held \in Seq(Int) /\ held0 \in Seq(Int) /\ area0 \in Seq(Int)
      BY <1>4, StreamFields
    <3>2. e.sink = sink0 \o out /\ HeldIn(e.chain) = held /\ e.area = <<>>
      BY <1>2, <2>2, <2>4
    <3>3. out \o held = held0 \o area0 /\ sink0 \o held0 \o area0 = w
      BY <1>1, <1>2, <2>2, <2>4 DEF Flow
    <3> HIDE DEF sink0, out, held, held0, area0
    <3>4. Cat(out, held) = Cat(held0, area0) /\ Cat(Cat(sink0, held0), area0) = w
      BY <3>3, Zenon DEF Cat
    <3>5. Cat(Cat(Cat(sink0, out), held), <<>>) = w
      BY <3>1, <3>4, CatAssociative, CatEmpty
    <3>6. ((sink0 \o out) \o held) \o <<>> = w
      BY <3>5, Zenon DEF Cat
    <3> QED
      BY <3>2, <3>6
  <2>5. Moves(s, w, e)
    BY <1>2, <1>4, <2>2, <2>3, <2>4 DEF Moves, Flow
  <2> QED
    BY <2>2, <2>5 DEF e
<1>7. d.ok \in BOOLEAN
  BY <1>2, StreamFields
<1> QED
  BY <1>5, <1>6, <1>7

LEMMA FlushSinkDoes ==
  ASSUME NEW s, Stream(s), NEW w, Flow(s, w), NEW f \in Faults, throws \in BOOLEAN
  PROVE  LET e == FlushSink(s, f)
         IN  Moves(s, w, e) /\ e.area = s.area /\ (e.ok => s.ok)
<1> DEFINE e == FlushSink(s, f)
           takes1 == s.takes /\ ~f.flush
           ok1 == (s.takes /\ ~f.flush) \/ ~throws
<1>1. CASE ~s.ok
  <2>1. e = s
    BY <1>1 DEF FlushSink
  <2> HIDE DEF e
  <2> QED
    BY <1>1, <2>1 DEF e, Moves
<1>2. CASE s.ok
  <2>1. e = [s EXCEPT !.takes = takes1, !.ok = ok1]
    BY <1>2, Zenon DEF FlushSink
  <2>2. takes1 \in BOOLEAN /\ ok1 \in BOOLEAN /\ (takes1 => s.takes) /\ s \in StreamRecord
    BY DEF Stream
  <2> HIDE DEF takes1, ok1, e
  <2>3. /\ e \in StreamRecord /\ e.area = s.area /\ e.chain = s.chain /\ e.sink = s.sink
        /\ e.takes = takes1 /\ e.ok = ok1
    BY <2>1, <2>2 DEF StreamRecord
  <2>4. Stream(e)
    BY <2>3 DEF Stream
  <2>5. Flow(e, w)
    BY <1>2, <2>2, <2>3 DEF Flow
  <2> QED
    BY <1>2, <2>3, <2>4, <2>5 DEF e, Moves
<1>3. s.ok \in BOOLEAN
  BY StreamFields
<1> QED
  BY <1>1, <1>2, <1>3

LEMMA SyncDoes ==
  ASSUME NEW s, Stream(s), s.ok, NEW w, Flow(s, w), NEW f \in Faults, throws \in BOOLEAN
  PROVE  LET e == Sync(s, f)
         IN  Moves(s, w, e) /\ (e.ok => e.area = <<>>)
<1> DEFINE d == IF s.area = <<>> THEN s ELSE ProcessBuffer(s, f)
           e == Sync(s, f)
<1>1. Moves(s, w, d) /\ (d.ok => d.area = <<>>)
  <2>1. CASE s.area = <<>>
    <3>1. d = s
      BY <2>1
    <3> HIDE DEF d
    <3> QED
      BY <2>1, <3>1 DEF Moves
  <2>2. CASE s.area # <<>>
    BY <2>2, ProcessBufferDoes
  <2> QED
    BY <2>1, <2>2
<1>2. e = FlushSink(d, f)
  BY DEF Sync
<1> HIDE DEF d, e
<1>3. Moves(d, w, e) /\ e.area = d.area /\ (e.ok => d.ok)
  <2>1. Stream(d) /\ Flow(d, w)
    BY <1>1 DEF Moves
  <2> QED
    BY <1>2, <2>1, FlushSinkDoes
<1> QED
  BY <1>1, <1>3 DEF e, Moves

LEMMA FinalizeStreamDoes ==
  ASSUME NEW s, Stream(s), s.ok, NEW w \in Seq(Int), Flow(s, w), NEW f \in Faults, throws \in BOOLEAN
  PROVE  LET e == FinalizeStream(s, f)
         IN  /\ Stream(e) /\ e.chain.processor = s.chain.processor
             /\ (e.area = s.area \/ e.area = <<>>)
             /\ e.ok /\ e.takes => e.sink = w \o PadsOf(e.chain)
<1> DEFINE d == Sync(s, f)
           r == ChainFinalize(d.chain, f.finalize)
           e == FinalizeStream(s, f)
<1>1. Moves(s, w, d) /\ (d.ok => d.area = <<>>)
  BY SyncDoes
<1>2. e = IF d.ok THEN Write(d, r, f.writeLast) ELSE d
  BY DEF FinalizeStream, FinalizeAfter
<1> HIDE DEF d, e
<1>3. Stream(d) /\ Flow(d, w) /\ d.chain.processor = s.chain.processor /\ (d.area = s.area \/ d.area = <<>>)
  BY <1>1 DEF Moves
<1>4. d.ok \in BOOLEAN
  BY <1>3, StreamFields
<1>5. CASE ~d.ok
  <2>1. e = d
    BY <1>2, <1>5
  <2> QED
    BY <1>3, <1>5, <2>1 DEF e
<1>6. CASE d.ok
  <2>1. Outcomes(d.chain, r) /\ (r.chain.ok => r.output = HeldIn(d.chain) \o PadsOf(d.chain))
    BY <1>3, StreamFields, ChainFinalizeDoes
  <2> HIDE DEF r
  <2>2. e = Write(d, r, f.writeLast)
    BY <1>2, <1>6
  <2>3. /\ Stream(e) /\ e.chain = r.chain /\ e.area = d.area
        /\ e.ok /\ e.takes => d.takes /\ r.chain.ok /\ e.sink = d.sink \o r.output
    <3>1. Stream(d) /\ d.ok /\ Outcomes(d.chain, r) /\ f.writeLast \in BOOLEAN /\ throws \in BOOLEAN
      BY <1>3, <1>6, <2>1, FaultFields
    <3> QED
      BY <2>2, <3>1, WriteDoes, ZenonT(30)
  <2>4. r.chain.processor = d.chain.processor /\ PadsOf(e.chain) = PadsOf(d.chain)
    BY <2>1, <2>3 DEF Outcomes, PadsOf, Size
  <2>5. ASSUME e.ok, e.takes PROVE e.sink = w \o PadsOf(e.chain)
    <3> DEFINE sink0 == d.sink
               held0 == HeldIn(d.chain)
               pads == PadsOf(d.chain)
    <3>1. sink0 \in Seq(Int) /\ held0 \in Seq(Int) /\ pads \in Seq(Int)
      BY <1>3, StreamFields
    <3>2. e.sink = sink0 \o (held0 \o pads) /\ sink0 \o held0 \o <<>> = w
      BY <1>1, <1>3, <1>6, <2>1, <2>3, <2>5 DEF Flow
    <3> HIDE DEF sink0, held0, pads
    <3>3. Cat(Cat(sink0, held0), <<>>) = w
      BY <3>2, Zenon DEF Cat
    <3>4. Cat(sink0, Cat(held0, pads)) = Cat(w, pads)
      BY <3>1, <3>3, CatAssociative, CatEmpty
    <3>5. sink0 \o (held0 \o pads) = w \o pads
      BY <3>4, Zenon DEF Cat
    <3> QED
      BY <2>4, <3>2, <3>5 DEF pads
  <2> QED
    BY <1>3, <2>3, <2>4, <2>5 DEF e
<1> QED
  BY <1>4, <1>5, <1>6

-----------------------------------------------------------------------------
(* The actions.                                                            *)

LEMMA HeldAndPads ==
  Held = HeldIn(chain) /\ Pads = PadsOf(chain) /\ Held' = HeldIn(chain') /\ Pads' = PadsOf(chain')
BY DEF Held, Pads, HeldIn, PadsOf

LEMMA Sizes ==
  ASSUME NEW c, ChainOK(c)
  PROVE  \A k \in DOMAIN c.processor : Len(c.held[k]) < c.processor[k].block
BY ChainFields DEF ChainOK

(* What is to be shown of a step that leaves the stream as e.              *)
LEMMA After ==
  ASSUME NEW e, Stream(e), Becomes(e), Call, IInv,
         {open', good', gone', closed'} \subseteq BOOLEAN, ~(open' /\ closed'), throws' = throws,
         written' \in Seq(Int), Len(written') <= MaxBytes, Len(e.area) <= BufferSize,
         failures' = 0 /\ open' /\ e.takes => e.sink \o HeldIn(e.chain) \o e.area = written',
         failures' = 0 /\ closed' /\ e.takes => e.sink = written' \o PadsOf(e.chain)
  PROVE  IInv'
<1>1. /\ area' = e.area /\ chain' = e.chain /\ sink' = e.sink /\ takes' = e.takes
      /\ failures' = IF e.ok THEN failures ELSE failures + 1
  BY DEF Becomes
<1>2. /\ area' \in Seq(Int) /\ sink' \in Seq(Int) /\ takes' \in BOOLEAN
      /\ ChainOK(chain') /\ Size(chain') > 0
  BY <1>1, StreamFields
<1>3. failures' \in 0 .. MaxFailures /\ throws' \in BOOLEAN
  BY <1>1, BoundsAssumption DEF Call, IInv, InOrder, TypeOK
<1>4. StreamInv'
  BY <1>2 DEF StreamInv
<1>5. TypeOK'
  BY <1>1, <1>2, <1>3, Sizes DEF TypeOK
<1>6. InOrder' /\ Complete'
  BY <1>1, <1>5, HeldAndPads DEF InOrder, Complete
<1> QED
  BY <1>4, <1>6 DEF IInv

LEMMA Unmoved ==
  ASSUME IInv, {good', gone'} \subseteq BOOLEAN,
         UNCHANGED <<open, stream, throws, written, failures, closed>>
  PROVE  IInv'
<1>1. area' = area /\ chain' = chain /\ sink' = sink /\ takes' = takes
  BY DEF stream
<1>2. Held' = Held /\ Pads' = Pads
  BY <1>1, HeldAndPads
<1>3. StreamInv'
  BY <1>1 DEF IInv, StreamInv
<1>4. TypeOK'
  BY <1>1 DEF IInv, InOrder, TypeOK
<1>5. InOrder' /\ Complete'
  BY <1>1, <1>2, <1>4 DEF IInv, InOrder, Complete
<1> QED
  BY <1>3, <1>5 DEF IInv

LEMMA NowIs ==
  ASSUME IInv, open
  PROVE  /\ Stream(Now) /\ Now.ok /\ Now.area = area /\ Now.chain = chain /\ Now.sink = sink /\ Now.takes = takes
         /\ throws \in BOOLEAN /\ ~closed /\ Len(area) <= BufferSize
         /\ \E w \in Seq(Int) : Flow(Now, w) /\ (failures = 0 => w = written)
<1>1. Now.ok /\ Now.area = area /\ Now.chain = chain /\ Now.sink = sink /\ Now.takes = takes
  BY DEF Now
<1>2. /\ area \in Seq(Int) /\ sink \in Seq(Int) /\ written \in Seq(Int) /\ takes \in BOOLEAN
      /\ ChainOK(chain) /\ Size(chain) > 0 /\ throws \in BOOLEAN /\ ~closed /\ Len(area) <= BufferSize
  BY DEF IInv, StreamInv, InOrder, TypeOK
<1>3. Stream(Now)
  <2>1. chain \in ChainRecord
    BY <1>2, ChainOKIn
  <2>2. Now \in StreamRecord
    BY <1>2, <2>1 DEF Now, StreamRecord
  <2> QED
    BY <1>1, <1>2, <2>2 DEF Stream
<1>4. \E w \in Seq(Int) : Flow(Now, w) /\ (failures = 0 => w = written)
  <2>1. CASE failures = 0
    <3>1. Flow(Now, written)
      BY <1>1, <2>1, HeldAndPads DEF Flow, IInv, InOrder
    <3> QED
      BY <1>2, <3>1
  <2>2. CASE failures # 0
    <3> DEFINE w == sink \o HeldIn(chain) \o area
    <3>1. w \in Seq(Int)
      <4>1. HeldIn(chain) \in Seq(Int) /\ \A x, y, z \in Seq(Int) : x \o y \o z \in Seq(Int)
        BY <1>2, HeldInIs
      <4> QED
        BY <1>2, <4>1
    <3>2. Flow(Now, w)
      BY <1>1 DEF Flow
    <3> HIDE DEF w
    <3> QED
      BY <2>2, <3>1, <3>2
  <2> QED
    BY <2>1, <2>2
<1> QED
  BY <1>1, <1>2, <1>3, <1>4

LEMMA OpenKeeps ==
  ASSUME IInv, Open
  PROVE  IInv'
<1>1. PICK processors \in Chains, initialized \in BOOLEAN :
         /\ ~gone /\ open' = TRUE /\ area' = <<>> /\ chain' = New(processors)
         /\ sink' = <<>> /\ takes' = TRUE /\ throws' \in {FALSE, SinkFails}
         /\ good' = (initialized \/ good) /\ failures' = IF initialized THEN 0 ELSE 1
         /\ written' = <<>> /\ closed' = FALSE /\ gone' = gone
  BY DEF Open, OpenWith
<1>2. processors \in Seq(Processor) /\ Len(processors) > 0
  BY ChainsAssumption
<1>3. ChainOK(chain') /\ HeldIn(chain') = <<>> /\ Size(chain') > 0
  BY <1>1, <1>2, NewIs DEF Size
<1>4. StreamInv'
  <2>1. area' \in Seq(Int) /\ sink' \in Seq(Int) /\ written' \in Seq(Int)
    BY <1>1
  <2> QED
    BY <1>3, <2>1 DEF StreamInv
<1>5. TypeOK'
  <2>1. failures' \in 0 .. MaxFailures
    BY <1>1, BoundsAssumption
  <2>2. {open', takes', throws', good', gone', closed'} \subseteq BOOLEAN
    BY <1>1, FaultsAssumption DEF IInv, InOrder, TypeOK
  <2>3. Len(area') <= BufferSize /\ Len(written') <= MaxBytes /\ ~(open' /\ closed')
    BY <1>1, BufferAssumption, BoundsAssumption
  <2> QED
    BY <1>3, <2>1, <2>2, <2>3, Sizes DEF TypeOK
<1>6. sink' \o Held' \o area' = written'
  <2>1. <<>> \o <<>> \o <<>> = <<>>
    OBVIOUS
  <2> QED
    BY <1>1, <1>3, <2>1, HeldAndPads
<1>7. InOrder' /\ Complete'
  BY <1>1, <1>5, <1>6 DEF InOrder, Complete
<1> QED
  BY <1>4, <1>7 DEF IInv

LEMMA AppendIs ==
  ASSUME NEW x \in Seq(Int), NEW b \in Int
  PROVE  Append(x, b) = x \o <<b>> /\ Append(x, b) \in Seq(Int) /\ Len(Append(x, b)) = Len(x) + 1
OBVIOUS

LEMMA PutKeeps ==
  ASSUME IInv, Put
  PROVE  IInv'
<1> DEFINE byte == Len(written) + 1
           s(f) == IF Len(area) < BufferSize THEN Now ELSE ProcessBuffer(Now, f)
           t(f) == IF s(f).ok THEN [s(f) EXCEPT !.area = Append(@, byte)] ELSE s(f)
<1>1. PICK through \in BOOLEAN, f \in Faults :
         /\ Call /\ open /\ Len(written) < MaxBytes /\ Becomes(t(f))
         /\ written' = IF s(f).ok THEN Append(written, byte) ELSE written
         /\ good' = (good /\ (s(f).ok \/ ~through))
         /\ open' = open /\ throws' = throws /\ gone' = gone /\ closed' = closed
  BY DEF Put, PutWith
<1> DEFINE d == s(f)
           e == t(f)
<1>2. PICK w \in Seq(Int) : Flow(Now, w) /\ (failures = 0 => w = written)
  BY <1>1, NowIs
<1>3. /\ Stream(d) /\ Flow(d, w) /\ Len(d.area) <= BufferSize
      /\ (d.ok => Len(d.area) < BufferSize)
  <2>1. CASE Len(area) < BufferSize
    <3>1. d = Now /\ Now.area = area
      BY <1>1, <2>1, NowIs
    <3> HIDE DEF d
    <3> QED
      BY <1>1, <1>2, <2>1, <3>1, NowIs
  <2>2. CASE ~(Len(area) < BufferSize)
    <3>1. d = ProcessBuffer(Now, f)
      BY <2>2
    <3> HIDE DEF d
    <3>2. Moves(Now, w, d) /\ (d.ok => d.area = <<>>)
      BY <1>1, <1>2, <3>1, NowIs, ProcessBufferDoes
    <3>3. Len(<<>>) < BufferSize /\ Len(<<>>) <= BufferSize
      BY BufferAssumption
    <3>4. Now.area = area /\ Len(area) <= BufferSize
      BY <1>1, NowIs
    <3> QED
      BY <3>2, <3>3, <3>4 DEF Moves
  <2> QED
    BY <2>1, <2>2
<1>4. e = IF d.ok THEN [d EXCEPT !.area = Append(@, byte)] ELSE d
  OBVIOUS
<1>5. written \in Seq(Int) /\ byte \in Int /\ {good, gone} \subseteq BOOLEAN /\ Len(written) <= MaxBytes
  BY DEF IInv, StreamInv, InOrder, TypeOK
<1>6. /\ open' /\ closed' = FALSE /\ throws' = throws /\ {good', gone'} \subseteq BOOLEAN
      /\ written' = IF d.ok THEN Append(written, byte) ELSE written
      /\ Becomes(e) /\ Call /\ Len(written) < MaxBytes
  <2>1. ~closed /\ open
    BY <1>1, NowIs
  <2>2. d.ok \in BOOLEAN
    BY <1>3, StreamFields
  <2>3. /\ open' /\ closed' = FALSE /\ throws' = throws /\ gone' = gone
        /\ good' = (good /\ (d.ok \/ ~through))
    BY <1>1, <2>1, <1>5 DEF IInv, InOrder, TypeOK
  <2>4. written' = (IF d.ok THEN Append(written, byte) ELSE written) /\ Becomes(e) /\ Call /\ Len(written) < MaxBytes
    BY <1>1
  <2> HIDE DEF d, e, byte
  <2> QED
    BY <1>5, <2>3, <2>4
<1> HIDE DEF d, e, s, t, byte
<1>7. d.ok \in BOOLEAN /\ d \in StreamRecord
  BY <1>3, StreamFields DEF Stream
<1>8. CASE ~d.ok
  <2>1. e = d /\ written' = written
    BY <1>4, <1>6, <1>8
  <2>2. failures' # 0
    BY <1>6, <1>8, <2>1, BoundsAssumption DEF Becomes, IInv, InOrder, TypeOK
  <2> QED
    BY <1>3, <1>5, <1>6, <2>1, <2>2, After
<1>9. CASE d.ok
  <2> DEFINE longer == Append(d.area, byte)
  <2>1. /\ longer = d.area \o <<byte>> /\ longer \in Seq(Int) /\ Len(longer) = Len(d.area) + 1
        /\ Append(written, byte) = written \o <<byte>> /\ Append(written, byte) \in Seq(Int)
        /\ Len(Append(written, byte)) = Len(written) + 1
    BY <1>3, <1>5, StreamFields, AppendIs
  <2>2. e = [d EXCEPT !.area = longer]
    BY <1>4, <1>7, <1>9 DEF StreamRecord
  <2> HIDE DEF longer
  <2>3. /\ e \in StreamRecord /\ e.area = longer /\ e.chain = d.chain /\ e.sink = d.sink
        /\ e.takes = d.takes /\ e.ok = d.ok
    BY <1>7, <2>1, <2>2 DEF StreamRecord
  <2>4. Stream(e)
    BY <1>3, <2>3 DEF Stream
  <2>5. ASSUME failures' = 0, e.takes PROVE e.sink \o HeldIn(e.chain) \o e.area = written'
    <3>1. failures = 0
      BY <1>6, <1>9, <2>3, <2>5 DEF Becomes
    <3> DEFINE sink0 == d.sink
               held0 == HeldIn(d.chain)
               area0 == d.area
               one == <<byte>>
    <3>2. sink0 \o held0 \o area0 = written
      BY <1>2, <1>3, <1>9, <2>3, <2>5, <3>1 DEF Flow
    <3>3. sink0 \in Seq(Int) /\ held0 \in Seq(Int) /\ area0 \in Seq(Int) /\ one \in Seq(Int)
      BY <1>3, <1>5, StreamFields
    <3>4. e.sink \o HeldIn(e.chain) \o e.area = (sink0 \o held0) \o (area0 \o one) /\ written' = written \o one
      BY <1>6, <1>9, <2>1, <2>3
    <3> HIDE DEF sink0, held0, area0, one
    <3>5. Cat(Cat(sink0, held0), area0) = written
      BY <3>2, Zenon DEF Cat
    <3>6. Cat(Cat(sink0, held0), Cat(area0, one)) = Cat(written, one)
      BY <3>3, <3>5, CatAssociative
    <3>7. (sink0 \o held0) \o (area0 \o one) = written \o one
      BY <3>6, Zenon DEF Cat
    <3> QED
      BY <3>4, <3>7
  <2>6. Len(e.area) <= BufferSize /\ Len(written') <= MaxBytes /\ written' \in Seq(Int)
    <3>1. Len(d.area) \in Nat /\ Len(written) \in Nat
      BY <1>3, <1>5, StreamFields
    <3> QED
      BY <1>3, <1>6, <1>9, <2>1, <2>3, <3>1, BufferAssumption, BoundsAssumption
  <2> QED
    BY <1>6, <2>4, <2>5, <2>6, After
<1> QED
  BY <1>7, <1>8, <1>9

LEMMA FlushKeeps ==
  ASSUME IInv, Flush
  PROVE  IInv'
<1>1. PICK f \in Faults :
         /\ Call /\ open /\ good /\ Becomes(Sync(Now, f)) /\ good' = Sync(Now, f).ok
         /\ open' = open /\ throws' = throws /\ gone' = gone /\ written' = written /\ closed' = closed
  BY DEF Flush
<1> DEFINE e == Sync(Now, f)
<1>2. PICK w \in Seq(Int) : Flow(Now, w) /\ (failures = 0 => w = written)
  BY <1>1, NowIs
<1>3. Moves(Now, w, e) /\ Len(Now.area) <= BufferSize /\ ~closed
  BY <1>1, <1>2, NowIs, SyncDoes
<1> HIDE DEF e
<1>4. Stream(e) /\ Flow(e, w) /\ Len(e.area) <= BufferSize
  <2>1. Len(<<>>) <= BufferSize
    BY BufferAssumption
  <2> QED
    BY <1>3, <2>1 DEF Moves
<1>5. e.ok \in BOOLEAN
  BY <1>4, StreamFields
<1>6. Becomes(e) /\ good' = e.ok /\ open' /\ closed' = FALSE /\ throws' = throws /\ gone' = gone /\ written' = written
  BY <1>1, <1>3 DEF e, IInv, InOrder, TypeOK
<1>7. ASSUME failures' = 0, e.takes PROVE e.sink \o HeldIn(e.chain) \o e.area = written'
  <2>1. e.ok /\ failures = 0
    BY <1>5, <1>6, <1>7, BoundsAssumption DEF Becomes, IInv, InOrder, TypeOK
  <2> QED
    BY <1>2, <1>4, <1>6, <1>7, <2>1 DEF Flow
<1>8. written' \in Seq(Int) /\ Len(written') <= MaxBytes /\ {open', good', gone', closed'} \subseteq BOOLEAN
  BY <1>1, <1>5, <1>6 DEF IInv, StreamInv, InOrder, TypeOK
<1> QED
  BY <1>1, <1>4, <1>6, <1>7, <1>8, After

(* close(), called or in the destructor.                                   *)
LEMMA Closes ==
  ASSUME IInv, Call, open, NEW f \in Faults,
         Becomes(FinalizeStream(Now, f)), open' = ~FinalizeStream(Now, f).ok,
         closed' = FinalizeStream(Now, f).ok,
         throws' = throws, good' = good, gone' \in BOOLEAN, written' = written
  PROVE  IInv'
<1> DEFINE e == FinalizeStream(Now, f)
<1>1. PICK w \in Seq(Int) : Flow(Now, w) /\ (failures = 0 => w = written)
  BY NowIs
<1>2. /\ Stream(e) /\ (e.area = Now.area \/ e.area = <<>>)
      /\ e.ok /\ e.takes => e.sink = w \o PadsOf(e.chain)
  BY <1>1, NowIs, FinalizeStreamDoes
<1>3. Becomes(e) /\ open' = ~e.ok /\ closed' = e.ok
  OBVIOUS
<1> HIDE DEF e
<1>4. e.ok \in BOOLEAN
  BY <1>2, StreamFields
<1>5. Len(e.area) <= BufferSize
  <2>1. Len(<<>>) <= BufferSize /\ Len(Now.area) <= BufferSize
    BY BufferAssumption, NowIs
  <2> QED
    BY <1>2, <2>1
<1>6. failures' = 0 => e.ok /\ failures = 0
  BY <1>3, <1>4, BoundsAssumption DEF Becomes, IInv, InOrder, TypeOK
<1>7. failures' = 0 /\ open' /\ e.takes => e.sink \o HeldIn(e.chain) \o e.area = written'
  BY <1>3, <1>6
<1>8. failures' = 0 /\ closed' /\ e.takes => e.sink = written' \o PadsOf(e.chain)
  BY <1>1, <1>2, <1>6
<1>9. /\ written' \in Seq(Int) /\ Len(written') <= MaxBytes /\ ~(open' /\ closed')
      /\ {open', good', gone', closed'} \subseteq BOOLEAN
  BY <1>3, <1>4 DEF IInv, StreamInv, InOrder, TypeOK
<1> QED
  BY <1>2, <1>3, <1>5, <1>7, <1>8, <1>9, After

LEMMA CloseKeeps ==
  ASSUME IInv, Close
  PROVE  IInv'
<1>1. PICK f \in Faults :
         /\ Call /\ open /\ Becomes(FinalizeStream(Now, f))
         /\ open' = ~FinalizeStream(Now, f).ok /\ closed' = FinalizeStream(Now, f).ok
         /\ throws' = throws /\ good' = good /\ gone' = gone /\ written' = written
  BY DEF Close
<1>2. gone' \in BOOLEAN
  BY <1>1 DEF IInv, InOrder, TypeOK
<1> QED
  BY <1>1, <1>2, Closes

LEMMA DestroyKeeps ==
  ASSUME IInv, Destroy
  PROVE  IInv'
<1> DEFINE s(f) == IF open THEN FinalizeStream(Now, f) ELSE Now
<1>1. PICK f \in Faults :
         /\ Call /\ gone' = TRUE /\ Becomes(s(f))
         /\ open' = (open /\ ~s(f).ok) /\ closed' = (closed \/ (open /\ s(f).ok))
         /\ throws' = throws /\ good' = good /\ written' = written
  BY DEF Destroy
<1>2. CASE open
  <2> DEFINE e == FinalizeStream(Now, f)
  <2>1. s(f) = e
    BY <1>2
  <2>2. ~closed /\ e.ok \in BOOLEAN
    <3>1. PICK w \in Seq(Int) : Flow(Now, w)
      BY <1>2, NowIs
    <3>2. Stream(e)
      BY <1>2, <3>1, NowIs, FinalizeStreamDoes
    <3> HIDE DEF e
    <3> QED
      BY <1>2, <3>2, NowIs, StreamFields
  <2> HIDE DEF e
  <2>3. /\ Becomes(e) /\ open' = ~e.ok /\ closed' = e.ok /\ Call /\ gone' \in BOOLEAN
        /\ throws' = throws /\ good' = good /\ written' = written
    <3> HIDE DEF s
    <3>1. /\ Call /\ gone' = TRUE /\ Becomes(e)
          /\ open' = (open /\ ~e.ok) /\ closed' = (closed \/ (open /\ e.ok))
          /\ throws' = throws /\ good' = good /\ written' = written
      BY <1>1, <2>1
    <3>2. open' = ~e.ok
      BY <1>2, <2>2, <3>1
    <3>3. closed' = e.ok
      BY <1>2, <2>2, <3>1
    <3> QED
      BY <3>1, <3>2, <3>3
  <2> QED
    BY <1>2, <2>3, Closes DEF e
<1>3. CASE ~open
  <2>1. s(f) = Now
    BY <1>3
  <2>2. Becomes(Now) /\ open' = (open /\ ~Now.ok) /\ closed' = (closed \/ (open /\ Now.ok))
    BY <1>1, <2>1
  <2>3. area' = area /\ chain' = chain /\ sink' = sink /\ takes' = takes /\ failures' = failures
    BY <2>2 DEF Becomes, Now
  <2>4. open \in BOOLEAN /\ closed \in BOOLEAN /\ good \in BOOLEAN
    BY DEF IInv, InOrder, TypeOK
  <2>5. open' = open /\ closed' = closed
    BY <1>3, <2>2, <2>4
  <2> HIDE DEF s
  <2> QED
    BY <1>1, <2>3, <2>4, <2>5, Unmoved DEF stream
<1>4. open \in BOOLEAN
  BY DEF IInv, InOrder, TypeOK
<1> QED
  BY <1>2, <1>3, <1>4

-----------------------------------------------------------------------------
(* Theorems *)

LEMMA InitKeeps == Init => IInv
<1> SUFFICES ASSUME Init PROVE IInv
  OBVIOUS
<1>1. <<>> \in Seq(Processor) /\ <<>> \in Seq(Int)
  OBVIOUS
<1>2. ChainOK(chain)
  BY <1>1, NewIs DEF Init
<1>3. StreamInv
  BY <1>1, <1>2 DEF StreamInv, Init
<1>4. TypeOK
  <2>1. 0 \in 0 .. MaxFailures /\ Len(<<>>) <= BufferSize /\ Len(<<>>) <= MaxBytes
    BY BoundsAssumption, BufferAssumption
  <2> QED
    BY <1>2, <2>1, Sizes DEF TypeOK, Init
<1> QED
  BY <1>3, <1>4 DEF IInv, InOrder, Complete, Init

LEMMA NextKeeps == IInv /\ [Next]_vars => IInv'
<1> SUFFICES ASSUME IInv, [Next]_vars PROVE IInv'
  OBVIOUS
<1>0. {good, gone} \subseteq BOOLEAN
  BY DEF IInv, InOrder, TypeOK
<1>1. CASE OpenNothing
  BY <1>0, <1>1, Unmoved DEF OpenNothing
<1>2. CASE CallClosed
  BY <1>0, <1>2, Unmoved DEF CallClosed
<1>3. CASE Clear
  BY <1>0, <1>3, Unmoved DEF Clear
<1>4. CASE UNCHANGED vars
  BY <1>0, <1>4, Unmoved DEF vars
<1> QED
  BY <1>1, <1>2, <1>3, <1>4, OpenKeeps, PutKeeps, FlushKeeps, CloseKeeps, DestroyKeeps DEF Next

(* Whatever the chain, its blocks and the size of the put area: while      *)
(* nothing failed, the sink, the processors and the put area hold exactly  *)
(* the bytes that were accepted, once and in order.                        *)
THEOREM NothingLostOnTheWay == Spec => []InOrder
<1>1. IInv => InOrder
  BY DEF IInv
<1> QED
  BY <1>1, InitKeeps, NextKeeps, PTL DEF Spec

(* A close() that nothing failed before or in has delivered every byte     *)
(* that was accepted, followed by the padding of every processor in turn.  *)
THEOREM CloseDelivers == Spec => []Complete
<1>1. IInv => Complete
  BY DEF IInv
<1> QED
  BY <1>1, InitKeeps, NextKeeps, PTL DEF Spec

-----------------------------------------------------------------------------
(* ImageProber: the format named is the content's and the header read is   *)
(* the image's, for any formats and contents.                              *)

(* The largest of finitely many numbers exists.                            *)
LEMMA Bounded ==
  ASSUME NEW s, NEW n \in Nat, \A i \in 1 .. n : s[i] \in Nat
  PROVE  \E b \in Nat : \A i \in 1 .. n : s[i] <= b
<1> DEFINE S == {k \in Nat : k <= n => \E b \in Nat : \A i \in 1 .. k : s[i] <= b}
<1>1. 0 \in S
  <2>1. \A i \in 1 .. 0 : s[i] <= 0
    OBVIOUS
  <2> QED
    BY <2>1
<1>2. ASSUME NEW k \in Nat, k \in S PROVE k + 1 \in S
  <2> SUFFICES ASSUME k + 1 <= n PROVE \E b \in Nat : \A i \in 1 .. k + 1 : s[i] <= b
    OBVIOUS
  <2>1. PICK b \in Nat : \A i \in 1 .. k : s[i] <= b
    BY <1>2
  <2>2. s[k + 1] \in Nat
    OBVIOUS
  <2>3. b + s[k + 1] \in Nat /\ \A i \in 1 .. k + 1 : s[i] <= b + s[k + 1]
    <3>1. b + s[k + 1] \in Nat
      BY <2>2
    <3>2. ASSUME NEW i \in 1 .. k + 1 PROVE s[i] <= b + s[k + 1]
      <4>1. CASE i = k + 1
        BY <4>1, <2>2
      <4>2. CASE i # k + 1
        <5>1. i \in 1 .. k /\ s[i] \in Nat
          BY <4>2
        <5> QED
          BY <5>1, <2>1, <2>2
      <4> QED
        BY <4>1, <4>2
    <3> QED
      BY <3>1, <3>2
  <2> QED
    BY <2>3
<1>3. n \in S
  <2> HIDE DEF S
  <2>1. \A m \in Nat : m \in S
    BY <1>1, <1>2, Induction
  <2> QED
    BY <2>1
<1> QED
  BY <1>3

LEMMA Largest ==
  ASSUME NEW F, IsFiniteSet(F), F # {}, NEW size, \A f \in F : size[f] \in Nat
  PROVE  Max({size[f] : f \in F}) \in Nat /\ \A f \in F : size[f] <= Max({size[f2] : f2 \in F})
<1> DEFINE T == {size[f] : f \in F}
           B == {b \in Nat : \A x \in T : x <= b}
<1>1. T \subseteq Nat /\ T # {}
  OBVIOUS
<1>2. PICK e \in Seq(F) : \A f \in F : \E i \in 1 .. Len(e) : e[i] = f
  BY DEF IsFiniteSet
<1>3. B # {}
  <2> DEFINE s == [i \in 1 .. Len(e) |-> size[e[i]]]
  <2>1. Len(e) \in Nat /\ \A i \in 1 .. Len(e) : e[i] \in F
    BY <1>2
  <2>2. \A i \in 1 .. Len(e) : s[i] = size[e[i]] /\ s[i] \in Nat
    BY <2>1
  <2> HIDE DEF s
  <2>3. PICK b \in Nat : \A i \in 1 .. Len(e) : s[i] <= b
    BY <2>1, <2>2, Bounded
  <2>4. ASSUME NEW f \in F PROVE size[f] <= b
    <3>1. PICK i \in 1 .. Len(e) : e[i] = f
      BY <1>2
    <3>2. s[i] = size[e[i]] /\ s[i] <= b
      BY <2>2, <2>3
    <3> QED
      BY <3>1, <3>2
  <2> QED
    BY <2>4
<1>4. PICK m \in B : \A b \in B : m <= b
  <2>1. B \in SUBSET Nat
    OBVIOUS
  <2> HIDE DEF B
  <2> QED
    BY <1>3, <2>1, Minimum
<1>5. m \in Nat /\ \A x \in T : x <= m
  BY <1>4
<1>6. m \in T
  <2> SUFFICES ASSUME m \notin T PROVE FALSE
    OBVIOUS
  <2>1. \A x \in T : x < m /\ x \in Nat
    <3> HIDE DEF T, B
    <3> QED
      BY <1>1, <1>5
  <2>2. PICK x \in T : TRUE
    BY <1>1
  <2>3. m - 1 \in Nat /\ \A y \in T : y <= m - 1
    <3> HIDE DEF T, B
    <3> QED
      BY <2>1, <2>2, <1>5
  <2>4. m - 1 \in B
    BY <2>3
  <2> HIDE DEF T, B
  <2> QED
    BY <1>4, <1>5, <2>4
<1>7. Max(T) \in T /\ \A y \in T : Max(T) >= y
  <2> HIDE DEF T, B
  <2>1. \E y \in T : \A z \in T : y >= z
    BY <1>1, <1>5, <1>6
  <2> QED
    BY <2>1 DEF Max
<1>8. Max(T) \in Nat /\ \A f \in F : size[f] <= Max(T)
  <2>1. \A f \in F : size[f] \in T
    OBVIOUS
  <2> HIDE DEF T, B
  <2> QED
    BY <1>1, <1>7, <2>1
<1> QED
  BY <1>8

(* What is read of a format is typed, and no magic is longer than the      *)
(* longest.                                                                *)
LEMMA Abouts ==
  ASSUME NEW f \in Format
  PROVE  /\ About[f].lead \in Seq(Byte) /\ Len(About[f].lead) \in Nat
         /\ About[f].trail \in Seq(Byte) /\ Len(About[f].trail) \in Nat
         /\ About[f].signature \in Seq(Byte) /\ Len(About[f].signature) \in Nat
         /\ About[f].needed \in Nat /\ About[f].skip \in Nat
         /\ Total(f) \in Nat /\ Total(f) = Len(About[f].lead) + Len(About[f].trail)
<1>1. /\ About[f].lead \in Seq(Byte) /\ About[f].trail \in Seq(Byte)
      /\ About[f].signature \in Seq(Byte) /\ About[f].needed \in Nat /\ About[f].skip \in Nat
  BY AboutAssumption
<1>2. \A s \in Seq(Byte) : Len(s) \in Nat
  OBVIOUS
<1>3. /\ Len(About[f].lead) \in Nat /\ Len(About[f].trail) \in Nat
      /\ Len(About[f].signature) \in Nat
  BY <1>1, <1>2
<1>4. Total(f) = Len(About[f].lead) + Len(About[f].trail)
  BY DEF Total
<1>5. Total(f) \in Nat
  <2>1. \A a, b \in Nat : a + b \in Nat
    OBVIOUS
  <2> QED
    BY <1>3, <1>4, <2>1, Zenon
<1> QED
  BY <1>1, <1>3, <1>4, <1>5, Zenon

LEMMA Maxima ==
  /\ MaxLead \in Nat /\ MaxTrail \in Nat
  /\ \A f \in Format : Len(About[f].lead) <= MaxLead /\ Len(About[f].trail) <= MaxTrail
<1>1. MaxLead \in Nat /\ \A f \in Format : Len(About[f].lead) <= MaxLead
  <2> DEFINE size == [f \in Format |-> Len(About[f].lead)]
             T == {size[f] : f \in Format}
  <2>1. T = {Len(About[f].lead) : f \in Format} /\ \A f \in Format : size[f] = Len(About[f].lead)
    OBVIOUS
  <2>2. \A f \in Format : size[f] \in Nat
    BY Abouts
  <2> HIDE DEF size
  <2>3. Max(T) \in Nat /\ \A f \in Format : size[f] <= Max(T)
    BY <2>2, FormatAssumption, Largest
  <2> HIDE DEF T
  <2> QED
    BY <2>1, <2>3 DEF MaxLead
<1>2. MaxTrail \in Nat /\ \A f \in Format : Len(About[f].trail) <= MaxTrail
  <2> DEFINE size == [f \in Format |-> Len(About[f].trail)]
             T == {size[f] : f \in Format}
  <2>1. T = {Len(About[f].trail) : f \in Format} /\ \A f \in Format : size[f] = Len(About[f].trail)
    OBVIOUS
  <2>2. \A f \in Format : size[f] \in Nat
    BY Abouts
  <2> HIDE DEF size
  <2>3. Max(T) \in Nat /\ \A f \in Format : size[f] <= Max(T)
    BY <2>2, FormatAssumption, Largest
  <2> HIDE DEF T
  <2> QED
    BY <2>1, <2>3 DEF MaxTrail
<1> QED
  BY <1>1, <1>2

(* Beginnings and endings, byte by byte. *)
Begins(s, t) == Len(s) <= Len(t) /\ \A i \in 1 .. Len(s) : t[i] = s[i]
Ends(s, t)   == Len(s) <= Len(t) /\ \A i \in 1 .. Len(s) : t[Len(t) - Len(s) + i] = s[i]

LEMMA FirstIs ==
  ASSUME NEW s \in Seq(Byte), NEW n \in 0 .. Len(s)
  PROVE  /\ First(n, s) \in Seq(Byte) /\ Len(First(n, s)) = n
         /\ \A i \in 1 .. n : First(n, s)[i] = s[i]
BY DEF First

LEMMA FinalIs ==
  ASSUME NEW s \in Seq(Byte), NEW n \in 0 .. Len(s)
  PROVE  /\ Final(n, s) \in Seq(Byte) /\ Len(Final(n, s)) = n
         /\ \A i \in 1 .. n : Final(n, s)[i] = s[Len(s) - n + i]
<1>1. Len(s) - n + 1 \in 1 .. Len(s) + 1 /\ Len(s) - (Len(s) - n + 1) + 1 = n
  OBVIOUS
<1> QED
  BY <1>1 DEF Final

(* Two strings of bytes of the same length that agree are the same.        *)
LEMMA SameBytes ==
  ASSUME NEW s \in Seq(Byte), NEW t \in Seq(Byte), Len(s) = Len(t), \A i \in 1 .. Len(s) : s[i] = t[i]
  PROVE  s = t
BY SeqEqual

LEMMA PrefixIs ==
  ASSUME NEW s \in Seq(Byte), NEW t \in Seq(Byte)
  PROVE  IsPrefix(s, t) <=> Begins(s, t)
<1>1. CASE Len(s) <= Len(t)
  <2>1. Len(s) \in 0 .. Len(s) /\ Len(s) \in 0 .. Len(t)
    BY <1>1
  <2>2. First(Len(s), s) = s
    BY <2>1, FirstIs, SameBytes
  <2>3. IsPrefix(s, t) <=> First(Len(s), s) = First(Len(s), t)
    BY <1>1 DEF IsPrefix, First
  <2>4. (\A i \in 1 .. Len(s) : t[i] = s[i]) => First(Len(s), t) = s
    BY <2>1, FirstIs, SameBytes
  <2>5. First(Len(s), t) = s => \A i \in 1 .. Len(s) : t[i] = s[i]
    BY <2>1, FirstIs
  <2> QED
    BY <1>1, <2>2, <2>3, <2>4, <2>5 DEF Begins
<1>2. CASE ~(Len(s) <= Len(t))
  BY <1>2 DEF IsPrefix, Begins
<1> QED
  BY <1>1, <1>2

LEMMA SuffixIs ==
  ASSUME NEW s \in Seq(Byte), NEW t \in Seq(Byte)
  PROVE  IsSuffix(s, t) <=> Ends(s, t)
<1>1. \A u \in Seq(Byte) : /\ Reverse(u) \in Seq(Byte) /\ Len(Reverse(u)) = Len(u)
                          /\ \A i \in 1 .. Len(u) : Reverse(u)[i] = u[(Len(u) - i) + 1]
  BY DEF Reverse
<1>2. IsSuffix(s, t) <=> Begins(Reverse(s), Reverse(t))
  BY <1>1, PrefixIs DEF IsSuffix
<1>3. ASSUME Len(s) <= Len(t)
      PROVE  (\A i \in 1 .. Len(s) : Reverse(t)[i] = Reverse(s)[i])
             <=> \A i \in 1 .. Len(s) : t[Len(t) - Len(s) + i] = s[i]
  <2>1. ASSUME NEW i \in 1 .. Len(s)
        PROVE  /\ Reverse(s)[i] = s[(Len(s) - i) + 1]
               /\ Reverse(t)[i] = t[Len(t) - Len(s) + ((Len(s) - i) + 1)]
    <3>1. i \in 1 .. Len(t) /\ Len(t) - Len(s) + ((Len(s) - i) + 1) = (Len(t) - i) + 1
      BY <1>3
    <3> QED
      BY <1>1, <3>1
  <2>2. \A i \in 1 .. Len(s) : (Len(s) - i) + 1 \in 1 .. Len(s) /\ (Len(s) - ((Len(s) - i) + 1)) + 1 = i
    OBVIOUS
  <2>3. ASSUME \A i \in 1 .. Len(s) : Reverse(t)[i] = Reverse(s)[i], NEW i \in 1 .. Len(s)
        PROVE  t[Len(t) - Len(s) + i] = s[i]
    <3> DEFINE j == (Len(s) - i) + 1
    <3>1. j \in 1 .. Len(s) /\ (Len(s) - j) + 1 = i
      BY <2>2
    <3> HIDE DEF j
    <3>2. Reverse(t)[j] = Reverse(s)[j] /\ Reverse(s)[j] = s[i] /\ Reverse(t)[j] = t[Len(t) - Len(s) + i]
      BY <2>1, <2>3, <3>1
    <3> QED
      BY <3>2
  <2>4. ASSUME \A i \in 1 .. Len(s) : t[Len(t) - Len(s) + i] = s[i], NEW i \in 1 .. Len(s)
        PROVE  Reverse(t)[i] = Reverse(s)[i]
    BY <2>1, <2>2, <2>4
  <2> QED
    BY <2>3, <2>4
<1> QED
  BY <1>1, <1>2, <1>3 DEF Begins, Ends

(* Two strings of two parts each, of the same lengths. *)
LEMMA PartsOf ==
  ASSUME NEW a \in Seq(Byte), NEW b \in Seq(Byte), NEW c \in Seq(Byte), NEW d \in Seq(Byte),
         Len(a) = Len(c), Len(b) = Len(d), a \o b = c \o d
  PROVE  a = c /\ b = d
<1>1. /\ \A i \in 1 .. Len(a) : (a \o b)[i] = a[i] /\ (c \o d)[i] = c[i]
      /\ \A i \in 1 .. Len(b) : (a \o b)[Len(a) + i] = b[i] /\ (c \o d)[Len(a) + i] = d[i]
  BY SMTT(30)
<1>2. (\A i \in 1 .. Len(a) : a[i] = c[i]) /\ (\A i \in 1 .. Len(b) : b[i] = d[i])
  BY <1>1, Zenon
<1> QED
  BY <1>2, SameBytes

LEMMA PartsLength ==
  ASSUME NEW a \in Seq(Byte), NEW b \in Seq(Byte)
  PROVE  /\ Len(a \o b) = Len(a) + Len(b) /\ (a \o b = << >> <=> Len(a) + Len(b) = 0)
         /\ a \o b \in Seq(Byte)
         /\ \A i \in 1 .. Len(a) : (a \o b)[i] = a[i]
         /\ \A i \in 1 .. Len(b) : (a \o b)[Len(a) + i] = b[i]
OBVIOUS

(* What the sizes of f cut of a key of g as long, and that it is all of it. *)
LEMMA CutIs ==
  ASSUME NEW f \in Format, NEW g \in SameSize(f)
  PROVE  /\ KeyOf(g) \in Seq(Byte) /\ Len(KeyOf(g)) = Total(f) /\ g \in Format
         /\ LeadIn(f, g) \in Seq(Byte) /\ Len(LeadIn(f, g)) = Len(About[f].lead)
         /\ TrailIn(f, g) \in Seq(Byte) /\ Len(TrailIn(f, g)) = Len(About[f].trail)
         /\ KeyOf(g) = LeadIn(f, g) \o TrailIn(f, g)
<1> DEFINE k == KeyOf(g)
           m == Len(About[f].lead)
           n == Len(About[f].trail)
           a == First(m, k)
           b == Final(n, k)
<1>1. g \in Format /\ Total(g) = Total(f)
  BY DEF SameSize
<1>2. m \in Nat /\ n \in Nat /\ Total(f) = m + n
  BY Abouts
<1>3. k \in Seq(Byte) /\ Len(k) = Total(f)
  BY <1>1, Abouts, PartsLength, ZenonT(30) DEF KeyOf
<1>4. LeadIn(f, g) = a /\ TrailIn(f, g) = b
  BY DEF LeadIn, TrailIn
<1> HIDE DEF k, m, n
<1>5. m \in 0 .. Len(k) /\ n \in 0 .. Len(k) /\ Len(k) = m + n
  BY <1>2, <1>3
<1>6. /\ a \in Seq(Byte) /\ Len(a) = m /\ \A i \in 1 .. m : a[i] = k[i]
      /\ b \in Seq(Byte) /\ Len(b) = n /\ \A i \in 1 .. n : b[i] = k[Len(k) - n + i]
  BY <1>3, <1>5, FirstIs, FinalIs
<1> HIDE DEF a, b
<1>7. /\ a \o b \in Seq(Byte) /\ Len(a \o b) = m + n
      /\ \A i \in 1 .. m : (a \o b)[i] = a[i]
      /\ \A i \in 1 .. n : (a \o b)[m + i] = b[i]
  BY <1>6, PartsLength, Zenon
<1>8. ASSUME NEW i \in 1 .. Len(k) PROVE k[i] = (a \o b)[i]
  <2>1. CASE i \in 1 .. m
    BY <1>6, <1>7, <2>1
  <2>2. CASE i \notin 1 .. m
    <3> DEFINE j == i - m
    <3>1. j \in 1 .. n /\ m + j = i /\ Len(k) - n + j = i
      BY <1>2, <1>5, <2>2
    <3> HIDE DEF j
    <3> QED
      BY <1>6, <1>7, <3>1
  <2> QED
    BY <2>1, <2>2
<1>9. k = a \o b
  BY <1>3, <1>5, <1>7, <1>8, SameBytes
<1> QED
  BY <1>1, <1>3, <1>4, <1>6, <1>9 DEF k, m, n

(* A format fits bytes that begin and end with a key cut at its sizes, if  *)
(* there is anything to cut.                                               *)
Fits(f, bytes) ==
  /\ Total(f) \in 1 .. Len(bytes)
  /\ \E g \in SameSize(f) : Begins(LeadIn(f, g), bytes) /\ Ends(TrailIn(f, g), bytes)

LEMMA FittingIs ==
  ASSUME NEW bytes \in Seq(Byte), NEW f \in Format
  PROVE  f \in Fitting(bytes) <=> Fits(f, bytes)
<1> DEFINE l == About[f].lead
           t == About[f].trail
           K == First(Len(l), bytes) \o Final(Len(t), bytes)
<1>1. /\ l \in Seq(Byte) /\ t \in Seq(Byte) /\ Len(l) \in Nat /\ Len(t) \in Nat
      /\ Total(f) = Len(l) + Len(t)
  BY Abouts
<1>2. f \in Fitting(bytes) <=> Total(f) <= Len(bytes) /\ K \in Keys
  BY DEF Fitting
<1>4. ASSUME Total(f) <= Len(bytes)
      PROVE  K \in Keys <=>
                Total(f) # 0 /\ \E g \in SameSize(f) : Begins(LeadIn(f, g), bytes) /\ Ends(TrailIn(f, g), bytes)
  <2> DEFINE a == First(Len(l), bytes)
             b == Final(Len(t), bytes)
  <2>1. Len(l) \in 0 .. Len(bytes) /\ Len(t) \in 0 .. Len(bytes)
    <3> HIDE DEF l, t
    <3> QED
      BY <1>1, <1>4
  <2>0. \A g \in SameSize(f) :
           /\ LeadIn(f, g) \in Seq(Byte) /\ Len(LeadIn(f, g)) = Len(l)
           /\ TrailIn(f, g) \in Seq(Byte) /\ Len(TrailIn(f, g)) = Len(t)
           /\ KeyOf(g) = LeadIn(f, g) \o TrailIn(f, g)
    BY CutIs
  <2> HIDE DEF l, t, K
  <2>2. /\ a \in Seq(Byte) /\ Len(a) = Len(l) /\ \A i \in 1 .. Len(l) : a[i] = bytes[i]
        /\ b \in Seq(Byte) /\ Len(b) = Len(t) /\ \A i \in 1 .. Len(t) : b[i] = bytes[Len(bytes) - Len(t) + i]
    BY <1>1, <2>1, FirstIs, FinalIs
  <2>3. K = a \o b
    BY DEF K
  <2> HIDE DEF a, b
  <2>4. ASSUME NEW s \in Seq(Byte), Len(s) = Len(l) PROVE Begins(s, bytes) <=> a = s
    <3>1. (\A i \in 1 .. Len(s) : bytes[i] = s[i]) => a = s
      BY <2>2, <2>4, SameBytes
    <3> QED
      BY <2>1, <2>2, <2>4, <3>1 DEF Begins
  <2>5. ASSUME NEW s \in Seq(Byte), Len(s) = Len(t) PROVE Ends(s, bytes) <=> b = s
    <3>1. (\A i \in 1 .. Len(s) : bytes[Len(bytes) - Len(s) + i] = s[i]) => b = s
      BY <2>2, <2>5, SameBytes
    <3> QED
      BY <2>1, <2>2, <2>5, <3>1 DEF Ends
  <2>6. Len(K) = Total(f) /\ (K = << >> <=> Total(f) = 0)
    <3>1. Len(K) = Len(a) + Len(b) /\ (K = << >> <=> Len(a) + Len(b) = 0)
      BY <2>2, <2>3, PartsLength, Zenon
    <3> QED
      BY <1>1, <2>2, <3>1, Zenon
  <2>7. K \in Keys <=> K # << >> /\ \E g \in Format : K = KeyOf(g)
    BY DEF Keys
  <2>8. ASSUME NEW g \in Format, K = KeyOf(g) PROVE g \in SameSize(f)
    <3>1. Len(KeyOf(g)) = Total(g)
      BY Abouts, PartsLength, ZenonT(30) DEF KeyOf
    <3> QED
      BY <2>6, <2>8, <3>1 DEF SameSize
  <2>9. ASSUME NEW g \in SameSize(f)
        PROVE  K = KeyOf(g) <=> Begins(LeadIn(f, g), bytes) /\ Ends(TrailIn(f, g), bytes)
    <3> DEFINE c == LeadIn(f, g)
               d == TrailIn(f, g)
    <3>1. /\ c \in Seq(Byte) /\ Len(c) = Len(l) /\ d \in Seq(Byte) /\ Len(d) = Len(t)
          /\ KeyOf(g) = c \o d
      BY <2>0
    <3> HIDE DEF c, d
    <3>2. a \o b = c \o d => a = c /\ b = d
      <4> HAVE a \o b = c \o d
      <4>1. /\ a \in Seq(Byte) /\ b \in Seq(Byte) /\ c \in Seq(Byte) /\ d \in Seq(Byte)
            /\ Len(a) = Len(c) /\ Len(b) = Len(d)
        BY <2>2, <3>1
      <4> QED
        BY <4>1, PartsOf
    <3>3. K = KeyOf(g) <=> a \o b = c \o d
      BY <2>3, <3>1, Zenon
    <3>4. (Begins(c, bytes) <=> a = c) /\ (Ends(d, bytes) <=> b = d)
      BY <2>4, <2>5, <3>1
    <3> QED
      BY <3>2, <3>3, <3>4, Zenon DEF c, d
  <2>10. (\E g \in Format : K = KeyOf(g)) <=> \E g \in SameSize(f) : K = KeyOf(g)
    BY <2>8 DEF SameSize
  <2> QED
    BY <2>6, <2>7, <2>9, <2>10, Zenon
<1>5. Total(f) \in Nat /\ Len(bytes) \in Nat
  <2>1. Len(bytes) \in Nat
    OBVIOUS
  <2> QED
    BY <2>1, Abouts, Zenon
<1> HIDE DEF K, l, t
<1>6. Total(f) \in 1 .. Len(bytes) <=> Total(f) # 0 /\ Total(f) <= Len(bytes)
  BY <1>5
<1> QED
  BY <1>2, <1>4, <1>6, Zenon DEF Fits

(* identify(span) names a format that fits, and none only if none does.    *)
LEMMA IdentifyIs ==
  ASSUME NEW bytes \in Seq(Byte), NEW h \in Identify(bytes)
  PROVE  \/ h = None /\ \A f \in Format : ~Fits(f, bytes)
         \/ h \in Format /\ Fits(h, bytes)
<1>1. Fitting(bytes) \subseteq Format
  BY DEF Fitting
<1>2. CASE Fitting(bytes) = {}
  BY <1>2, FittingIs DEF Identify
<1>3. CASE Fitting(bytes) # {}
  <2>1. h \in Fitting(bytes)
    BY <1>3 DEF Identify
  <2> QED
    BY <1>1, <2>1, FittingIs
<1> QED
  BY <1>2, <1>3

(* What the judger reads of a stream: a buffer full of bytes, the stream's *)
(* own in front, the zeros that it lacks at the end.                       *)
Padded(bytes) ==
  bytes \o Zeros(IF Len(bytes) < MaxLead + MaxTrail THEN MaxLead + MaxTrail - Len(bytes) ELSE 0)

LEMMA PaddedIs ==
  ASSUME NEW bytes \in Seq(Byte)
  PROVE  /\ Padded(bytes) \in Seq(Byte) /\ Len(Padded(bytes)) >= MaxLead + MaxTrail
         /\ \A i \in 1 .. Len(bytes) : Padded(bytes)[i] = bytes[i]
         /\ \A i \in Len(bytes) + 1 .. Len(Padded(bytes)) : Padded(bytes)[i] = 0
         /\ Len(Padded(bytes)) =
               IF Len(bytes) < MaxLead + MaxTrail THEN MaxLead + MaxTrail ELSE Len(bytes)
<1> DEFINE n == IF Len(bytes) < MaxLead + MaxTrail THEN MaxLead + MaxTrail - Len(bytes) ELSE 0
           z == Zeros(n)
<1>1. MaxLead \in Nat /\ MaxTrail \in Nat /\ Len(bytes) \in Nat
  BY Maxima
<1>2. n \in Nat /\ Len(bytes) + n =
         IF Len(bytes) < MaxLead + MaxTrail THEN MaxLead + MaxTrail ELSE Len(bytes)
  BY <1>1
<1>3. Padded(bytes) = bytes \o z
  BY DEF Padded
<1> HIDE DEF n
<1>4. z \in Seq(Byte) /\ Len(z) = n /\ \A i \in 1 .. n : z[i] = 0
  BY <1>2, ByteAssumption DEF Zeros
<1> HIDE DEF z
<1>5. /\ bytes \o z \in Seq(Byte) /\ Len(bytes \o z) = Len(bytes) + n
      /\ \A i \in 1 .. Len(bytes) : (bytes \o z)[i] = bytes[i]
      /\ \A i \in 1 .. n : (bytes \o z)[Len(bytes) + i] = z[i]
  BY <1>4, PartsLength, Zenon
<1>6. ASSUME NEW i \in Len(bytes) + 1 .. Len(bytes) + n PROVE (bytes \o z)[i] = 0
  <2>1. i - Len(bytes) \in 1 .. n /\ Len(bytes) + (i - Len(bytes)) = i
    BY <1>1, <1>2
  <2> QED
    BY <1>4, <1>5, <2>1
<1>7. Len(bytes) + n >= MaxLead + MaxTrail
  BY <1>1, <1>2
<1> QED
  BY <1>2, <1>3, <1>5, <1>6, <1>7

LEMMA LeadIs ==
  ASSUME kept \in Seq(Byte), Len(kept) = MaxLead + MaxTrail, NEW bytes \in Seq(Byte)
  PROVE  /\ ReadLead(bytes) \in Seq(Byte) /\ Len(ReadLead(bytes)) = MaxLead
         /\ \A i \in 1 .. MaxLead : i <= Len(bytes) => ReadLead(bytes)[i] = bytes[i]
<1> DEFINE n == Least(Len(bytes), MaxLead)
           a == First(n, bytes)
           b == SubSeq(kept, n + 1, MaxLead)
<1>1. MaxLead \in Nat /\ MaxTrail \in Nat
  BY Maxima, Zenon
<1>2. n \in 0 .. Len(bytes) /\ n \in 0 .. MaxLead /\ \A i \in 1 .. MaxLead : i <= Len(bytes) => i \in 1 .. n
  BY <1>1 DEF Least
<1>3. ReadLead(bytes) = a \o b
  BY DEF ReadLead
<1> HIDE DEF n
<1>4. a \in Seq(Byte) /\ Len(a) = n /\ \A i \in 1 .. n : a[i] = bytes[i]
  BY <1>2, FirstIs
<1>5. b \in Seq(Byte) /\ Len(b) = MaxLead - n
  BY <1>1, <1>2
<1> HIDE DEF a, b
<1>6. a \o b \in Seq(Byte) /\ Len(a \o b) = MaxLead /\ \A i \in 1 .. n : (a \o b)[i] = a[i]
  <2>1. /\ a \o b \in Seq(Byte) /\ Len(a \o b) = Len(a) + Len(b)
        /\ \A i \in 1 .. Len(a) : (a \o b)[i] = a[i]
    BY <1>4, <1>5, PartsLength, Zenon
  <2>2. n + (MaxLead - n) = MaxLead
    BY <1>1, <1>2
  <2> QED
    BY <1>4, <1>5, <2>1, <2>2, Zenon
<1> QED
  BY <1>2, <1>3, <1>4, <1>6, Zenon

LEMMA TrailIs ==
  ASSUME NEW bytes \in Seq(Byte)
  PROVE  /\ ReadTrail(bytes) \in Seq(Byte) /\ Len(ReadTrail(bytes)) = MaxTrail
         /\ Len(bytes) < MaxLead => \A i \in 1 .. MaxTrail : ReadTrail(bytes)[i] = 0
         /\ Len(bytes) >= MaxLead =>
               \A i \in 1 .. MaxTrail :
                  ReadTrail(bytes)[i] = Padded(bytes)[Len(Padded(bytes)) - MaxTrail + i]
<1> DEFINE r == RollBack(bytes)
           a == Final(r, bytes)
           b == Zeros(MaxTrail - r)
           p == Padded(bytes)
<1>1. MaxLead \in Nat /\ MaxTrail \in Nat /\ Len(bytes) \in Nat
  BY Maxima
<1>2. /\ r \in 0 .. Len(bytes) /\ r \in 0 .. MaxTrail
      /\ Len(bytes) < MaxLead => r = 0
      /\ Len(bytes) >= MaxLead /\ Len(bytes) < MaxLead + MaxTrail => Len(bytes) - r = MaxLead
      /\ Len(bytes) >= MaxLead + MaxTrail => r = MaxTrail
  BY <1>1 DEF RollBack, Least
<1>3. ReadTrail(bytes) = a \o b
  BY DEF ReadTrail
<1>8. /\ \A i \in 1 .. Len(bytes) : p[i] = bytes[i]
      /\ \A i \in Len(bytes) + 1 .. Len(p) : p[i] = 0
      /\ Len(p) = IF Len(bytes) < MaxLead + MaxTrail THEN MaxLead + MaxTrail ELSE Len(bytes)
  BY PaddedIs
<1> HIDE DEF r, p
<1>4. a \in Seq(Byte) /\ Len(a) = r /\ \A i \in 1 .. r : a[i] = bytes[Len(bytes) - r + i]
  BY <1>2, FinalIs
<1>5. b \in Seq(Byte) /\ Len(b) = MaxTrail - r /\ \A i \in 1 .. MaxTrail - r : b[i] = 0
  BY <1>1, <1>2, ByteAssumption DEF Zeros
<1> HIDE DEF a, b
<1>6. /\ a \o b \in Seq(Byte) /\ Len(a \o b) = MaxTrail
      /\ \A i \in 1 .. r : (a \o b)[i] = a[i]
      /\ \A i \in 1 .. MaxTrail - r : (a \o b)[r + i] = b[i]
  <2>1. /\ a \o b \in Seq(Byte) /\ Len(a \o b) = Len(a) + Len(b)
        /\ \A i \in 1 .. Len(a) : (a \o b)[i] = a[i]
        /\ \A i \in 1 .. Len(b) : (a \o b)[Len(a) + i] = b[i]
    BY <1>4, <1>5, PartsLength, Zenon
  <2>2. r + (MaxTrail - r) = MaxTrail
    BY <1>1, <1>2
  <2> QED
    BY <1>4, <1>5, <2>1, <2>2
<1>7. ASSUME NEW i \in 1 .. MaxTrail, i > r PROVE (a \o b)[i] = 0
  <2>1. i - r \in 1 .. MaxTrail - r /\ r + (i - r) = i
    BY <1>1, <1>2, <1>7
  <2> QED
    BY <1>5, <1>6, <2>1
<1>9. ASSUME Len(bytes) < MaxLead, NEW i \in 1 .. MaxTrail PROVE (a \o b)[i] = 0
  <2>1. r = 0 /\ i > r
    BY <1>2, <1>9
  <2> QED
    BY <1>7, <2>1
<1>10. ASSUME Len(bytes) >= MaxLead, NEW i \in 1 .. MaxTrail
       PROVE  (a \o b)[i] = p[Len(p) - MaxTrail + i]
  <2> DEFINE j == Len(p) - MaxTrail + i
  <2>1. CASE i <= r
    <3>1. i \in 1 .. r /\ j \in 1 .. Len(bytes) /\ Len(bytes) - r + i = j
      BY <1>1, <1>2, <1>8, <1>10, <2>1
    <3> HIDE DEF j
    <3>2. (a \o b)[i] = bytes[j] /\ p[j] = bytes[j]
      BY <1>4, <1>6, <1>8, <3>1
    <3> QED
      BY <3>2 DEF j
  <2>2. CASE ~(i <= r)
    <3>1. i > r /\ j \in Len(bytes) + 1 .. Len(p)
      BY <1>1, <1>2, <1>8, <1>10, <2>2
    <3> HIDE DEF j
    <3>2. (a \o b)[i] = 0 /\ p[j] = 0
      BY <1>7, <1>8, <3>1
    <3> QED
      BY <3>2 DEF j
  <2> QED
    BY <2>1, <2>2
<1> QED
  BY <1>3, <1>6, <1>9, <1>10 DEF p

(* A stream that is read without an error is judged as its padded content, *)
(* a shorter one by what it has, with zeros at the end.                    *)
LEMMA KeptIs ==
  ASSUME kept \in Seq(Byte), Len(kept) = MaxLead + MaxTrail, NEW bytes \in Seq(Byte),
         NEW k, k = ReadLead(bytes) \o ReadTrail(bytes)
  PROVE  /\ k \in Seq(Byte) /\ Len(k) = MaxLead + MaxTrail
         /\ Len(bytes) >= MaxLead => \A f \in Format : Fits(f, k) <=> Fits(f, Padded(bytes))
         /\ Len(bytes) < MaxLead =>
               /\ \A i \in 1 .. Len(bytes) : k[i] = bytes[i]
               /\ \A i \in 1 .. MaxTrail : k[MaxLead + i] = 0
<1> DEFINE a == ReadLead(bytes)
           b == ReadTrail(bytes)
           p == Padded(bytes)
<1>1. MaxLead \in Nat /\ MaxTrail \in Nat /\ Len(bytes) \in Nat
  BY Maxima
<1>2. /\ a \in Seq(Byte) /\ Len(a) = MaxLead
      /\ \A i \in 1 .. MaxLead : i <= Len(bytes) => a[i] = bytes[i]
  BY LeadIs, Zenon
<1>3. /\ b \in Seq(Byte) /\ Len(b) = MaxTrail
      /\ Len(bytes) < MaxLead => \A i \in 1 .. MaxTrail : b[i] = 0
      /\ Len(bytes) >= MaxLead => \A i \in 1 .. MaxTrail : b[i] = p[Len(p) - MaxTrail + i]
  BY TrailIs, Zenon
<1>4. k = a \o b
  OBVIOUS
<1>9. /\ p \in Seq(Byte) /\ Len(p) >= MaxLead + MaxTrail /\ Len(p) \in Nat
      /\ \A i \in 1 .. Len(bytes) : p[i] = bytes[i]
  <2>1. /\ p \in Seq(Byte) /\ Len(p) >= MaxLead + MaxTrail
        /\ \A i \in 1 .. Len(bytes) : p[i] = bytes[i]
    BY PaddedIs
  <2> QED
    BY <2>1
<1> HIDE DEF a, b, p
<1>5. /\ a \o b \in Seq(Byte) /\ Len(a \o b) = MaxLead + MaxTrail
      /\ \A i \in 1 .. MaxLead : (a \o b)[i] = a[i]
      /\ \A i \in 1 .. MaxTrail : (a \o b)[MaxLead + i] = b[i]
  BY <1>2, <1>3, PartsLength, ZenonT(30)
<1>6. /\ k \in Seq(Byte) /\ Len(k) = MaxLead + MaxTrail
      /\ \A i \in 1 .. MaxLead : k[i] = a[i]
      /\ \A i \in 1 .. MaxTrail : k[MaxLead + i] = b[i]
  BY <1>4, <1>5, Zenon
<1>7. ASSUME Len(bytes) >= MaxLead, NEW f \in Format
      PROVE  Fits(f, k) <=> Fits(f, p)
  <2>1. /\ Len(About[f].lead) \in Nat /\ Len(About[f].trail) \in Nat
        /\ Total(f) = Len(About[f].lead) + Len(About[f].trail)
        /\ Len(About[f].lead) <= MaxLead /\ Len(About[f].trail) <= MaxTrail
    BY Abouts, Maxima, Zenon
  <2>3. ASSUME NEW i \in 1 .. MaxLead PROVE k[i] = p[i]
    <3>1. i \in 1 .. Len(bytes) /\ i <= Len(bytes)
      BY <1>1, <1>7
    <3> QED
      BY <1>2, <1>6, <1>9, <3>1, Zenon
  <2>4. \A i \in 1 .. MaxTrail : k[MaxLead + i] = p[Len(p) - MaxTrail + i]
    BY <1>3, <1>6, <1>7
  <2>5. ASSUME NEW l \in Seq(Byte), Len(l) <= MaxLead PROVE Begins(l, k) <=> Begins(l, p)
    <3>1. \A i \in 1 .. Len(l) : i \in 1 .. MaxLead
      BY <1>1, <2>5
    <3>2. Len(l) <= Len(k) /\ Len(l) <= Len(p)
      BY <1>1, <1>6, <1>9, <2>5
    <3> QED
      BY <2>3, <3>1, <3>2 DEF Begins
  <2>6. ASSUME NEW t \in Seq(Byte), Len(t) <= MaxTrail PROVE Ends(t, k) <=> Ends(t, p)
    <3>1. ASSUME NEW i \in 1 .. Len(t)
          PROVE  k[Len(k) - Len(t) + i] = p[Len(p) - Len(t) + i]
      <4> DEFINE j == MaxTrail - Len(t) + i
      <4>1. /\ j \in 1 .. MaxTrail /\ MaxLead + j = Len(k) - Len(t) + i
            /\ Len(p) - MaxTrail + j = Len(p) - Len(t) + i
        BY <1>1, <1>6, <1>9, <2>6
      <4> HIDE DEF j
      <4>2. k[MaxLead + j] = p[Len(p) - MaxTrail + j]
        BY <2>4, <4>1
      <4> QED
        BY <4>1, <4>2, Zenon
    <3>2. Len(t) <= Len(k) /\ Len(t) <= Len(p)
      BY <1>1, <1>6, <1>9, <2>6
    <3> QED
      BY <3>1, <3>2 DEF Ends
  <2>7. Total(f) \in 1 .. Len(k) <=> Total(f) \in 1 .. Len(p)
    <3> DEFINE m == Len(About[f].lead)
               n == Len(About[f].trail)
    <3>1. m \in Nat /\ n \in Nat /\ Total(f) = m + n /\ m <= MaxLead /\ n <= MaxTrail
      BY <2>1
    <3>2. Len(k) = MaxLead + MaxTrail /\ Len(p) >= MaxLead + MaxTrail
      BY <1>6, <1>9
    <3> HIDE DEF m, n
    <3> QED
      BY <1>1, <1>9, <3>1, <3>2
  <2>8. ASSUME NEW g \in SameSize(f)
        PROVE  /\ Begins(LeadIn(f, g), k) <=> Begins(LeadIn(f, g), p)
               /\ Ends(TrailIn(f, g), k) <=> Ends(TrailIn(f, g), p)
    <3>1. /\ LeadIn(f, g) \in Seq(Byte) /\ Len(LeadIn(f, g)) <= MaxLead
          /\ TrailIn(f, g) \in Seq(Byte) /\ Len(TrailIn(f, g)) <= MaxTrail
      BY <2>1, CutIs
    <3> QED
      BY <2>5, <2>6, <3>1
  <2> QED
    BY <2>7, <2>8, Zenon DEF Fits
<1>8. ASSUME Len(bytes) < MaxLead
      PROVE  /\ \A i \in 1 .. Len(bytes) : k[i] = bytes[i]
             /\ \A i \in 1 .. MaxTrail : k[MaxLead + i] = 0
  <2>1. \A i \in 1 .. Len(bytes) : i \in 1 .. MaxLead /\ i <= Len(bytes)
    BY <1>1, <1>8
  <2> QED
    BY <1>2, <1>3, <1>6, <1>8, <2>1, Zenon
<1> QED
  BY <1>6, <1>7, <1>8 DEF p

(* The answer to bytes that fit no format, or the one that is named. *)
Named(h, bytes) ==
  \/ h = None /\ \A f \in Format : ~Fits(f, bytes)
  \/ h \in Format /\ Fits(h, bytes)

LEMMA NamedIs ==
  ASSUME NEW bytes \in Seq(Byte), NEW h, Named(h, bytes)
  PROVE  IF h = None
         THEN \A f \in Format : \A g \in SameSize(f) :
                 Total(f) \in 1 .. Len(bytes) => ~Spells(f, g, bytes)
         ELSE \E g \in SameSize(h) : Spells(h, g, bytes)
<1>1. ASSUME NEW f \in Format, NEW g \in SameSize(f)
      PROVE  Spells(f, g, bytes) <=> Begins(LeadIn(f, g), bytes) /\ Ends(TrailIn(f, g), bytes)
  <2>1. LeadIn(f, g) \in Seq(Byte) /\ TrailIn(f, g) \in Seq(Byte)
    BY CutIs
  <2> QED
    BY <2>1, PrefixIs, SuffixIs, Zenon DEF Spells
<1> QED
  BY <1>1, RegisteredAssumption, Zenon DEF Named, Fits

(* The answer to a stream too short, whose bytes and no more are in front  *)
(* of the buffer, with zeros at its end.                                   *)
Blank(f, g) == TrailIn(f, g) = Zeros(Len(About[f].trail))

LEMMA NamedShort ==
  ASSUME NEW k \in Seq(Byte), Len(k) = MaxLead + MaxTrail, NEW bytes \in Seq(Byte),
         Len(bytes) < MaxLead, \A i \in 1 .. Len(bytes) : k[i] = bytes[i],
         \A i \in 1 .. MaxTrail : k[MaxLead + i] = 0, NEW h, Named(h, k)
  PROVE  IF h = None
         THEN \A f \in Format : \A g \in SameSize(f) :
                 Total(f) > 0 /\ Blank(f, g) => ~IsPrefix(LeadIn(f, g), bytes)
         ELSE \E g \in SameSize(h) :
                 Blank(h, g) /\ (IsPrefix(LeadIn(h, g), bytes) \/ IsPrefix(bytes, LeadIn(h, g)))
<1>1. MaxLead \in Nat /\ MaxTrail \in Nat /\ Len(bytes) \in Nat
  BY Maxima
<1>2. ASSUME NEW f \in Format, NEW g \in SameSize(f)
      PROVE  /\ Blank(f, g) <=> Ends(TrailIn(f, g), k)
             /\ IsPrefix(LeadIn(f, g), bytes) => Begins(LeadIn(f, g), k)
             /\ Begins(LeadIn(f, g), k) =>
                   IsPrefix(LeadIn(f, g), bytes) \/ IsPrefix(bytes, LeadIn(f, g))
             /\ Total(f) > 0 <=> Total(f) \in 1 .. Len(k)
  <2> DEFINE l == LeadIn(f, g)
             t == TrailIn(f, g)
             z == Zeros(Len(About[f].trail))
  <2>1. /\ l \in Seq(Byte) /\ Len(l) \in Nat /\ Len(l) <= MaxLead
        /\ t \in Seq(Byte) /\ Len(t) \in Nat /\ Len(t) <= MaxTrail
        /\ Total(f) \in Nat /\ Total(f) = Len(l) + Len(t) /\ Len(About[f].trail) = Len(t)
    BY CutIs, Abouts, Maxima
  <2>2. Blank(f, g) <=> t = z
    BY DEF Blank
  <2> HIDE DEF l, t
  <2>3. z \in Seq(Byte) /\ Len(z) = Len(t) /\ \A i \in 1 .. Len(t) : z[i] = 0
    BY <2>1, ByteAssumption DEF Zeros
  <2> HIDE DEF z
  <2>4. ASSUME NEW i \in 1 .. Len(t) PROVE k[Len(k) - Len(t) + i] = 0
    <3> DEFINE j == MaxTrail - Len(t) + i
    <3>1. j \in 1 .. MaxTrail /\ MaxLead + j = Len(k) - Len(t) + i
      BY <1>1, <2>1
    <3> HIDE DEF j
    <3>2. k[MaxLead + j] = 0
      BY <3>1
    <3> QED
      BY <3>1, <3>2, Zenon
  <2>5. t = z <=> Ends(t, k)
    <3>1. (\A i \in 1 .. Len(t) : t[i] = 0) => t = z
      BY <2>1, <2>3, SameBytes
    <3>2. Len(t) <= Len(k)
      BY <1>1, <2>1
    <3> QED
      BY <2>3, <2>4, <3>1, <3>2 DEF Ends
  <2>6. (IsPrefix(l, bytes) <=> Begins(l, bytes)) /\ (IsPrefix(bytes, l) <=> Begins(bytes, l))
    BY <2>1, PrefixIs, Zenon
  <2>7. Begins(l, bytes) => Begins(l, k)
    BY <1>1, <2>1 DEF Begins
  <2>8. Begins(l, k) => Begins(l, bytes) \/ Begins(bytes, l)
    BY <1>1, <2>1 DEF Begins
  <2>9. Total(f) > 0 <=> Total(f) \in 1 .. Len(k)
    BY <1>1, <2>1
  <2> QED
    BY <2>2, <2>5, <2>6, <2>7, <2>8, <2>9, Zenon DEF l, t
<1> QED
  BY <1>2, RegisteredAssumption, Zenon DEF Named, Fits

(* The steps. *)
LEMMA ProbeStarts == ProbeInit => ProbeIInv
<1> SUFFICES ASSUME ProbeInit PROVE ProbeIInv
  OBVIOUS
<1>1. /\ Zeros(MaxLead + MaxTrail) \in Seq(Byte)
      /\ Len(Zeros(MaxLead + MaxTrail)) = MaxLead + MaxTrail
  BY Maxima, ByteAssumption DEF Zeros
<1>2. ProbeTypeOK
  BY <1>1 DEF ProbeInit, ProbeTypeOK
<1> QED
  BY <1>2 DEF ProbeInit, ProbeIInv, Answers, Identified, NamedByShort, HeaderInStream, ExtractInv

LEMMA ProbeStreamKeeps ==
  ASSUME ProbeIInv, NEW bytes \in File, NEW isFile \in BOOLEAN, ProbeStream(bytes, isFile)
  PROVE  ProbeIInv'
<1>1. bytes \in Seq(Byte) /\ Len(bytes) \in Nat
  BY ByteAssumption
<1>2. /\ data' = bytes /\ source' = "stream" /\ header' = None
      /\ kept' = ReadLead(bytes) \o ReadTrail(bytes) /\ hint' \in Identify(kept')
  BY DEF ProbeStream
<1>3. kept \in Seq(Byte) /\ Len(kept) = MaxLead + MaxTrail
  BY DEF ProbeIInv, Answers, ProbeTypeOK
<1>4. /\ kept' \in Seq(Byte) /\ Len(kept') = MaxLead + MaxTrail
      /\ Len(bytes) >= MaxLead => \A f \in Format : Fits(f, kept') <=> Fits(f, Padded(bytes))
      /\ Len(bytes) < MaxLead =>
            /\ \A i \in 1 .. Len(bytes) : kept'[i] = bytes[i]
            /\ \A i \in 1 .. MaxTrail : kept'[MaxLead + i] = 0
  BY <1>1, <1>2, <1>3, KeptIs, Zenon
<1>5. Named(hint', kept')
  BY <1>2, <1>4, IdentifyIs, Zenon DEF Named
<1>6. hint' \in Format \cup {None}
  BY <1>5 DEF Named
<1>7. Len(bytes) >= MaxLead => Named(hint', Padded(bytes))
  BY <1>4, <1>5, Zenon DEF Named
<1>8. MaxLead \in Nat /\ MaxTrail \in Nat
  BY Maxima, Zenon
<1>9. Judged(bytes) \in Nat /\ (Len(bytes) >= MaxLead => Judged(bytes) >= MaxLead)
  BY <1>1, <1>8 DEF Judged
<1>10. /\ pc' \in {"extracting", "done"} /\ position' \in Nat /\ failed' \in BOOLEAN
       /\ pc' = "extracting" => hint' \in Format /\ (~failed' => position' >= MaxLead)
  <2>1. CASE Handled(hint')
    <3>1. hint' \in Format /\ About[hint'].skip \in Nat
      BY <2>1, RegisteredAssumption, Abouts, Zenon DEF Handled
    <3>2. /\ pc' = "extracting" /\ position' = Judged(bytes) + About[hint'].skip
          /\ failed' = (Len(bytes) < MaxLead \/ (~isFile /\ position' > Len(bytes)))
      BY <2>1 DEF ProbeStream
    <3>3. position' \in Nat /\ (~failed' => position' >= MaxLead)
      <4> DEFINE skip == About[hint'].skip
                 from == Judged(bytes)
      <4>1. skip \in Nat /\ position' = from + skip /\ (~failed' => ~(Len(bytes) < MaxLead))
        BY <3>1, <3>2, Zenon
      <4>2. from \in Nat /\ (Len(bytes) >= MaxLead => from >= MaxLead)
        BY <1>9
      <4> HIDE DEF skip, from
      <4> QED
        BY <1>1, <1>8, <4>1, <4>2
    <3>4. failed' \in BOOLEAN
      BY <3>2
    <3> QED
      BY <3>1, <3>2, <3>3, <3>4
  <2>2. CASE ~Handled(hint')
    BY <2>2 DEF ProbeStream
  <2> QED
    BY <2>1, <2>2
<1>11. ProbeTypeOK'
  BY <1>2, <1>4, <1>6, <1>10 DEF ProbeTypeOK
<1>12. Identified'
  <2>1. Len(bytes) >= MaxLead =>
          IF hint' = None
          THEN \A f \in Format : \A g \in SameSize(f) :
                  Total(f) \in 1 .. Len(Padded(bytes)) => ~Spells(f, g, Padded(bytes))
          ELSE \E g \in SameSize(hint') : Spells(hint', g, Padded(bytes))
    BY <1>1, <1>7, PaddedIs, NamedIs, Zenon
  <2>2. source' # "memory" /\ Content' = Padded(bytes)
    BY <1>2 DEF Content, Padded
  <2> QED
    BY <1>2, <2>1, <2>2, Zenon DEF Identified
<1>14. NamedByShort'
  <2>1. Len(bytes) < MaxLead =>
          IF hint' = None
          THEN \A f \in Format : \A g \in SameSize(f) :
                  Total(f) > 0 /\ Blank(f, g) => ~IsPrefix(LeadIn(f, g), bytes)
          ELSE \E g \in SameSize(hint') :
                  Blank(hint', g) /\ (IsPrefix(LeadIn(hint', g), bytes) \/ IsPrefix(bytes, LeadIn(hint', g)))
    BY <1>1, <1>4, <1>5, NamedShort, Zenon
  <2> QED
    BY <1>2, <2>1, Zenon DEF NamedByShort, Blank
<1>13. HeaderInStream' /\ ExtractInv'
  BY <1>2, <1>10 DEF HeaderInStream, ExtractInv
<1> QED
  BY <1>11, <1>12, <1>13, <1>14 DEF ProbeIInv, Answers

(* The place of the signature in memory is a position in it. *)
LEMMA FromMemoryIs ==
  ASSUME data' \in Seq(Byte), NEW f \in Format
  PROVE  FromMemory(f) = None \/ FromMemory(f) \in Seq(Byte)
<1>1. CASE Occurrences(f) = {}
  BY <1>1 DEF FromMemory
<1>2. CASE Occurrences(f) # {}
  <2> DEFINE O == Occurrences(f)
  <2>1. About[f].skip \in Nat /\ About[f].needed \in Nat /\ Len(About[f].signature) \in Nat
    BY Abouts, Zenon
  <2>2. O \in SUBSET Nat
    BY <2>1 DEF Occurrences
  <2>3. Min(O) \in Nat
    <3> HIDE DEF O
    <3>1. \E x \in O : \A y \in O : x <= y
      BY <1>2, <2>2, Minimum DEF O
    <3> QED
      BY <2>2, <3>1 DEF Min
  <2> DEFINE i == Min(O) + Len(About[f].signature)
             e == Least(Len(data'), i + About[f].needed)
  <2>4. i \in Nat
    <3> HIDE DEF O
    <3> QED
      BY <2>1, <2>3
  <2>5. FromMemory(f) = None \/ (Len(data') > i /\ FromMemory(f) = SubSeq(data', i + 1, e))
    BY <1>2 DEF FromMemory
  <2> HIDE DEF i
  <2>6. e \in Nat /\ e <= Len(data')
    BY <2>1, <2>4 DEF Least
  <2> HIDE DEF e
  <2>7. SubSeq(data', i + 1, e) \in Seq(Byte)
    BY <2>4, <2>6
  <2> QED
    BY <2>5, <2>7
<1> QED
  BY <1>1, <1>2

LEMMA ProbeMemoryKeeps ==
  ASSUME ProbeIInv, NEW bytes \in File, ProbeMemory(bytes)
  PROVE  ProbeIInv'
<1>1. bytes \in Seq(Byte)
  BY ByteAssumption
<1>2. /\ data' = bytes /\ source' = "memory" /\ hint' \in Identify(bytes) /\ kept' = kept
      /\ position' = 0 /\ failed' = FALSE /\ pc' = "done"
      /\ header' = IF Handled(hint') THEN FromMemory(hint') ELSE None
  BY DEF ProbeMemory
<1>3. Named(hint', bytes)
  BY <1>1, <1>2, IdentifyIs, Zenon DEF Named
<1>4. hint' \in Format \cup {None}
  BY <1>3 DEF Named
<1>5. header' = None \/ header' \in Seq(Byte)
  <2>1. CASE Handled(hint')
    <3>1. hint' \in Format /\ data' \in Seq(Byte)
      BY <1>1, <1>2, <2>1, RegisteredAssumption DEF Handled
    <3> QED
      BY <1>2, <2>1, <3>1, FromMemoryIs
  <2>2. CASE ~Handled(hint')
    BY <1>2, <2>2
  <2> QED
    BY <2>1, <2>2
<1>6. ProbeTypeOK'
  BY <1>2, <1>4, <1>5 DEF ProbeIInv, Answers, ProbeTypeOK
<1>7. Identified'
  <2>1. IF hint' = None
        THEN \A f \in Format : \A g \in SameSize(f) :
                Total(f) \in 1 .. Len(bytes) => ~Spells(f, g, bytes)
        ELSE \E g \in SameSize(hint') : Spells(hint', g, bytes)
    BY <1>1, <1>3, NamedIs, Zenon
  <2>2. Content' = bytes
    BY <1>2 DEF Content
  <2> QED
    BY <1>2, <2>1, <2>2, Zenon DEF Identified
<1>9. NamedByShort'
  BY <1>2 DEF NamedByShort
<1>8. HeaderInStream' /\ ExtractInv'
  BY <1>2 DEF HeaderInStream, ExtractInv
<1> QED
  BY <1>6, <1>7, <1>8, <1>9 DEF ProbeIInv, Answers

(* A part of a string of bytes. *)
LEMMA PartIs ==
  ASSUME NEW s \in Seq(Byte), NEW p \in Nat, NEW n \in Nat, p + n <= Len(s)
  PROVE  /\ SubSeq(s, p + 1, p + n) \in Seq(Byte) /\ Len(SubSeq(s, p + 1, p + n)) = n
         /\ \A i \in 1 .. n : SubSeq(s, p + 1, p + n)[i] = s[p + i]
<1> DEFINE m == p + 1
           e == p + n
<1>1. m \in Int /\ e \in Int /\ \A i \in m .. e : s[i] \in Byte
  OBVIOUS
<1>2. e - m + 1 = n /\ (n = 0 <=> ~(m <= e)) /\ \A i \in 1 .. n : m + i - 1 = p + i
  OBVIOUS
<1> HIDE DEF m, e
<1>3. /\ SubSeq(s, m, e) \in Seq(Byte)
      /\ Len(SubSeq(s, m, e)) = IF m <= e THEN e - m + 1 ELSE 0
      /\ \A i \in 1 .. e - m + 1 : SubSeq(s, m, e)[i] = s[m + i - 1]
  BY <1>1, SubSeqProperties
<1>4. Len(SubSeq(s, m, e)) = n /\ \A i \in 1 .. n : SubSeq(s, m, e)[i] = s[p + i]
  BY <1>2, <1>3, Zenon
<1> QED
  BY <1>3, <1>4 DEF m, e

LEMMA ExtractKeeps == ProbeIInv /\ Extract => ProbeIInv'
<1> SUFFICES ASSUME ProbeIInv, Extract PROVE ProbeIInv'
  OBVIOUS
<1> DEFINE size   == Len(About[hint].signature)
           needed == About[hint].needed
           sign   == About[hint].signature
<1>1. /\ pc = "extracting" /\ kept' = kept /\ data' = data /\ source' = source
      /\ failed' = failed /\ hint' = hint
  BY DEF Extract
<1>2. source = "stream" /\ hint \in Format /\ header = None /\ (~failed => position >= MaxLead)
  BY <1>1 DEF ProbeIInv, ExtractInv
<1>3. size \in Nat /\ needed \in Nat /\ sign \in Seq(Byte)
  BY <1>2, Abouts, Zenon
<1>4. position \in Nat /\ MaxLead \in Nat
  BY Maxima DEF ProbeIInv, Answers, ProbeTypeOK
<1>5. data \in Seq(Byte) /\ Len(data) \in Nat
  <2>1. data \in Seq(Byte)
    <3>1. data \in File \/ data = << >>
      BY DEF ProbeIInv, Answers, ProbeTypeOK
    <3>2. << >> \in Seq(Byte)
      OBVIOUS
    <3> QED
      BY <3>1, <3>2, ByteAssumption, Zenon
  <2> QED
    BY <2>1
<1>6. /\ pc' \in {"extracting", "done"} /\ position' \in Nat
      /\ pc' = "extracting" => header' = header /\ (~failed => position' >= MaxLead)
      /\ \/ header' = header
         \/ /\ header' = BytesAt(position + size, needed)
            /\ Readable(position, size) /\ Readable(position + size, needed)
            /\ BytesAt(position, size) = sign
  <2>1. CASE AtEnd(position, size) /\ pc' = "done" /\ UNCHANGED <<position, header>>
    BY <1>4, <2>1
  <2>2. CASE position' = position + size /\ UNCHANGED <<pc, header>>
    <3> HIDE DEF size, needed, sign
    <3> QED
      BY <1>1, <1>2, <1>3, <1>4, <2>2
  <2>3. CASE /\ Readable(position, size) /\ IsSignature(BytesAt(position, size))
             /\ IF Readable(position + size, needed)
                THEN header' = BytesAt(position + size, needed) ELSE UNCHANGED header
             /\ pc' = "done" /\ UNCHANGED position
    BY <1>4, <2>3 DEF IsSignature
  <2> QED
    BY <2>1, <2>2, <2>3, Zenon DEF Extract
<1>7. header' = header \/ /\ header' \in Seq(Byte) /\ Len(header') = needed
                          /\ \E i \in MaxLead .. Len(data) :
                                IsPrefix(sign \o header', SubSeq(data, i + 1, Len(data)))
  <2> SUFFICES ASSUME header' = BytesAt(position + size, needed), Readable(position, size),
                      Readable(position + size, needed), BytesAt(position, size) = sign
               PROVE  /\ header' \in Seq(Byte) /\ Len(header') = needed
                      /\ \E i \in MaxLead .. Len(data) :
                            IsPrefix(sign \o header', SubSeq(data, i + 1, Len(data)))
    BY <1>6
  <2>1. ~failed /\ position + size <= Len(data) /\ position + size + needed <= Len(data)
    BY DEF Readable
  <2>2. sign = SubSeq(data, position + 1, position + size)
    BY DEF BytesAt
  <2>3. header' = SubSeq(data, position + size + 1, position + size + needed)
    BY DEF BytesAt
  <2>4. Len(sign) = size
    OBVIOUS
  <2> HIDE DEF size, needed, sign
  <2> DEFINE rest == SubSeq(data, position + 1, Len(data))
  <2>5. /\ rest \in Seq(Byte) /\ Len(rest) = Len(data) - position
        /\ \A i \in 1 .. Len(data) - position : rest[i] = data[position + i]
    <3> DEFINE n == Len(data) - position
    <3>1. n \in Nat /\ position + n <= Len(data) /\ Len(data) = position + n
      BY <1>3, <1>4, <1>5, <2>1
    <3>2. rest = SubSeq(data, position + 1, position + n)
      BY <3>1, Zenon
    <3> HIDE DEF n, rest
    <3>3. rest \in Seq(Byte) /\ Len(rest) = n /\ \A i \in 1 .. n : rest[i] = data[position + i]
      BY <1>4, <1>5, <3>1, <3>2, PartIs, Zenon
    <3> QED
      BY <3>3 DEF n
  <2>6. \A i \in 1 .. size : sign[i] = data[position + i]
    <3>1. position + size <= Len(data)
      BY <2>1
    <3>2. \A i \in 1 .. size : SubSeq(data, position + 1, position + size)[i] = data[position + i]
      BY <1>3, <1>4, <1>5, <3>1, PartIs
    <3> QED
      BY <2>2, <3>2, Zenon
  <2>7. /\ header' \in Seq(Byte) /\ Len(header') = needed
        /\ \A i \in 1 .. needed : header'[i] = data[position + size + i]
    <3> DEFINE p == position + size
    <3>1. p \in Nat /\ p + needed <= Len(data) /\ needed \in Nat
      BY <1>3, <1>4, <2>1
    <3>2. header' = SubSeq(data, p + 1, p + needed)
      BY <2>3
    <3> HIDE DEF p
    <3>3. /\ SubSeq(data, p + 1, p + needed) \in Seq(Byte)
          /\ Len(SubSeq(data, p + 1, p + needed)) = needed
          /\ \A i \in 1 .. needed : SubSeq(data, p + 1, p + needed)[i] = data[p + i]
      BY <1>5, <3>1, PartIs, Zenon
    <3>4. /\ header' \in Seq(Byte) /\ Len(header') = needed
          /\ \A i \in 1 .. needed : header'[i] = data[p + i]
      BY <3>2, <3>3, Zenon
    <3> QED
      BY <3>4 DEF p
  <2> DEFINE read == sign \o header'
  <2>8. /\ read \in Seq(Byte) /\ Len(read) = size + needed
        /\ \A i \in 1 .. size : read[i] = sign[i]
        /\ \A i \in 1 .. needed : read[size + i] = header'[i]
    <3>1. /\ Len(read) = Len(sign) + Len(header') /\ read \in Seq(Byte)
          /\ \A i \in 1 .. Len(sign) : read[i] = sign[i]
          /\ \A i \in 1 .. Len(header') : read[Len(sign) + i] = header'[i]
      BY <1>3, <2>7, PartsLength, Zenon
    <3> HIDE DEF read
    <3> QED
      BY <2>4, <2>7, <3>1, Zenon
  <2>9. ASSUME NEW i \in 1 .. size + needed PROVE rest[i] = read[i]
    <3> HIDE DEF rest, read
    <3>1. i \in 1 .. Len(data) - position
      BY <1>3, <1>4, <1>5, <2>1
    <3>2. CASE i <= size
      <4>1. i \in 1 .. size
        BY <1>3, <3>2
      <4> QED
        BY <2>5, <2>6, <2>8, <3>1, <4>1, Zenon
    <3>3. CASE ~(i <= size)
      <4> DEFINE j == i - size
      <4>1. j \in 1 .. needed /\ size + j = i /\ position + size + j = position + i
        BY <1>3, <1>4, <3>3
      <4> HIDE DEF j
      <4>2. read[i] = header'[j] /\ header'[j] = data[position + i]
        BY <2>7, <2>8, <4>1, Zenon
      <4> QED
        BY <2>5, <3>1, <4>2, Zenon
    <3> QED
      BY <3>2, <3>3
  <2> HIDE DEF rest, read
  <2>10. Begins(read, rest)
    BY <1>3, <1>4, <1>5, <2>1, <2>5, <2>8, <2>9 DEF Begins
  <2>11. IsPrefix(read, rest)
    BY <2>5, <2>8, <2>10, PrefixIs, Zenon
  <2>12. position \in MaxLead .. Len(data)
    BY <1>2, <1>3, <1>4, <1>5, <2>1
  <2> QED
    BY <2>7, <2>11, <2>12 DEF rest, read
<1> HIDE DEF size, needed, sign
<1>8. ProbeTypeOK'
  BY <1>1, <1>2, <1>6, <1>7 DEF ProbeIInv, Answers, ProbeTypeOK
<1>9. Identified' /\ NamedByShort'
  <2>1. Identified /\ NamedByShort /\ pc # "idle"
    BY <1>1 DEF ProbeIInv, Answers
  <2>2. UNCHANGED <<data, source, hint>> /\ Content' = Content
    BY <1>1 DEF Content
  <2> QED
    BY <2>1, <2>2, Zenon DEF Identified, NamedByShort
<1>10. HeaderInStream'
  BY <1>1, <1>2, <1>7, Zenon DEF HeaderInStream, needed, sign
<1>11. ExtractInv'
  BY <1>1, <1>2, <1>6 DEF ExtractInv
<1> QED
  BY <1>8, <1>9, <1>10, <1>11 DEF ProbeIInv, Answers

LEMMA ReturnKeeps == ProbeIInv /\ Return => ProbeIInv'
<1> SUFFICES ASSUME ProbeIInv, Return PROVE ProbeIInv'
  OBVIOUS
<1>1. ProbeTypeOK'
  BY DEF ProbeIInv, Answers, ProbeTypeOK, Return
<1>2. Identified' /\ NamedByShort' /\ HeaderInStream' /\ ExtractInv'
  BY DEF Identified, NamedByShort, HeaderInStream, ExtractInv, Return
<1> QED
  BY <1>1, <1>2 DEF ProbeIInv, Answers

(* For any formats, any contents and any calls before: of memory, and of a *)
(* stream no shorter than the longest leading signature, the format named  *)
(* is one whose sizes cut from the content the key of a format with as     *)
(* many magic bytes (its own, where no other has as many), and none is     *)
(* named only when there is none; of a shorter stream, the format named    *)
(* begins as the stream does, as far as it goes; and a header read from a  *)
(* stream follows a signature of its format.                               *)
THEOREM AnswersAreInContent == ProbeSpec => []Answers
<1>1. ProbeIInv /\ UNCHANGED probeVars => ProbeIInv'
  <2> SUFFICES ASSUME ProbeIInv, UNCHANGED probeVars PROVE ProbeIInv'
    OBVIOUS
  <2>1. UNCHANGED <<pc, kept, data, source, position, failed, hint, header>> /\ Content' = Content
    BY DEF probeVars, Content
  <2>2. Identified' /\ NamedByShort'
    BY <2>1, Zenon DEF ProbeIInv, Answers, Identified, NamedByShort
  <2>3. ProbeTypeOK' /\ HeaderInStream' /\ ExtractInv'
    BY <2>1 DEF ProbeIInv, Answers, ProbeTypeOK, HeaderInStream, ExtractInv
  <2> QED
    BY <2>2, <2>3 DEF ProbeIInv, Answers
<1>2. ProbeIInv /\ [ProbeNext]_probeVars => ProbeIInv'
  <2> SUFFICES ASSUME ProbeIInv, [ProbeNext]_probeVars PROVE ProbeIInv'
    OBVIOUS
  <2>1. CASE \E bytes \in File : ProbeMemory(bytes)
    BY <2>1, ProbeMemoryKeeps
  <2>2. CASE \E bytes \in File, isFile \in BOOLEAN : ProbeStream(bytes, isFile)
    BY <2>2, ProbeStreamKeeps
  <2>3. CASE Extract
    BY <2>3, ExtractKeeps
  <2>4. CASE Spin \/ UNCHANGED probeVars
    BY <1>1, <2>4 DEF Spin
  <2>5. CASE Return
    BY <2>5, ReturnKeeps
  <2> QED
    BY <2>1, <2>2, <2>3, <2>4, <2>5 DEF ProbeNext
<1>3. ProbeIInv => Answers
  BY DEF ProbeIInv
<1> QED
  BY <1>2, <1>3, ProbeStarts, PTL DEF ProbeSpec

=================================================================================
