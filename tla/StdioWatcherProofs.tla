-------------------------- MODULE StdioWatcherProofs --------------------------
(***************************************************************************)
(* Theorems about StdioWatcher, for any number of watchers over the two    *)
(* standard descriptors and any number of start() calls.                   *)
(***************************************************************************)
EXTENDS StdioWatcher, WellFoundedInduction, SequenceTheorems, TLAPS

-----------------------------------------------------------------------------
(* Stacks and free descriptors.                                            *)

(* What pushing an element makes of a sequence. *)
LEMMA Pushed ==
  ASSUME NEW S, NEW s \in Seq(S), NEW w \in S
  PROVE  /\ <<w>> \o s \in Seq(S) /\ Len(<<w>> \o s) = Len(s) + 1
         /\ (<<w>> \o s)[1] = w /\ Head(<<w>> \o s) = w /\ <<w>> \o s # <<>>
         /\ \A i \in 1 .. Len(s) : (<<w>> \o s)[i + 1] = s[i]
<1>1. <<w>> \in Seq(S) /\ Len(<<w>>) = 1 /\ <<w>>[1] = w
  OBVIOUS
<1> QED
  BY <1>1

(* What popping one makes of it. *)
LEMMA Popped ==
  ASSUME NEW S, NEW s \in Seq(S), s # <<>>
  PROVE  \E m \in Nat :
            /\ Tail(s) \in Seq(S) /\ Len(s) = m + 1 /\ Len(Tail(s)) = m
            /\ DOMAIN s = 1 .. m + 1 /\ DOMAIN Tail(s) = 1 .. m
            /\ Head(s) = s[1] /\ \A i \in 1 .. m : Tail(s)[i] = s[i + 1]
            /\ IF Tail(s) = <<>> THEN m = 0 ELSE m > 0 /\ Head(Tail(s)) = s[2]
<1> DEFINE m == Len(s) - 1
<1>1. m \in Nat /\ Len(s) = m + 1 /\ Head(s) = s[1] /\ DOMAIN s = 1 .. m + 1
  OBVIOUS
<1>2. /\ Tail(s) \in Seq(S) /\ Len(Tail(s)) = m /\ DOMAIN Tail(s) = 1 .. m
      /\ \A i \in 1 .. m : Tail(s)[i] = s[i + 1]
  OBVIOUS
<1>3. Tail(s) = <<>> => m = 0
  BY <1>2
<1>4. Tail(s) # <<>> => m > 0 /\ Head(Tail(s)) = s[2]
  OBVIOUS
<1> HIDE DEF m
<1> QED
  BY <1>1, <1>2, <1>3, <1>4

(* There is a least number in a set of numbers. *)
LEMMA LeastOf ==
  ASSUME NEW T, T \subseteq Nat, T # {}
  PROVE  \E x \in T : \A y \in T : x <= y
<1> DEFINE R == OpToRel(<, Nat)
<1>1. IsWellFoundedOn(R, Nat)
  BY NatLessThanWellFounded
<1>2. \A x, y \in Nat : y < x => <<y, x>> \in R
  BY DEF OpToRel
<1> HIDE DEF R
<1>3. PICK x \in T : \A y \in T : ~(<<y, x>> \in R)
  BY <1>1, WFMin, Zenon
<1>4. \A y \in T : ~(y < x)
  <2> SUFFICES ASSUME NEW y \in T, y < x PROVE FALSE
    OBVIOUS
  <2>1. <<y, x>> \in R
    BY <1>2, Zenon
  <2> QED
    BY <1>3, <2>1, Zenon
<1>5. \A y \in T : x <= y
  BY <1>4
<1> QED
  BY <1>5, Zenon

(* The lowest free descriptor is a descriptor, and free. *)
LEMMA LowestIsFree ==
  ASSUME NEW table, Room(table)
  PROVE  Lowest(table) \in Fd /\ table[Lowest(table)] = Free
<1> DEFINE frees == {n \in Fd : table[n] = Free}
<1>1. frees \subseteq Nat /\ frees # {}
  BY BoundsAssumption DEF Room, Fd
<1>2. \E x \in frees : \A y \in frees : x <= y
  BY <1>1, LeastOf
<1>3. \E n \in Fd : table[n] = Free /\ \A m \in Fd : table[m] = Free => n <= m
  BY <1>2
<1> QED
  BY <1>3 DEF Lowest

(* The targets differ. *)
LEMMA Targets ==
  /\ \A v, w \in Watcher : ReadEnd(v) # WriteEnd(w) /\ ReadEnd(v) # Free /\ WriteEnd(v) # Free
  /\ \A v, w \in Watcher : (ReadEnd(v) = ReadEnd(w) \/ WriteEnd(v) = WriteEnd(w)) => v = w
  /\ \A d \in 0 .. 2 : \A w \in Watcher :
        Device(d) # Free /\ Device(d) # ReadEnd(w) /\ Device(d) # WriteEnd(w)
BY DEF ReadEnd, WriteEnd, Free, Device

(* Zero, one and two are descriptors; no other is a handle but those above. *)
LEMMA Numbers == /\ Std = {1, 2} /\ Std \subseteq Fd /\ 0 \in Fd /\ NoHandle = 0
                 /\ \A n \in Fd : n > 2 <=> n \notin {0, 1, 2}
                 /\ \A n \in Fd \ Std : n # NoHandle => n > 2
BY BoundsAssumption DEF Std, Fd, NoHandle

-----------------------------------------------------------------------------
(* What the invariant says of a state.                                     *)

(* The write ends and devices that standard descriptors refer to. *)
LEMMA Addressees ==
  ASSUME DescriptorsOK, NEW d \in Std
  PROVE  /\ Addressee(d) # Free
         /\ \A w \in Watcher : Addressee(d) # ReadEnd(w)
<1>1. CASE stack[d] = <<>>
  <2>1. d \in 0 .. 2 /\ Addressee(d) = Device(d)
    BY <1>1 DEF Addressee, Std
  <2>2. Device(d) # Free /\ \A w \in Watcher : Device(d) # ReadEnd(w)
    BY DEF Device, Free, ReadEnd
  <2> QED
    BY <2>1, <2>2
<1>2. CASE stack[d] # <<>>
  <2>1. stack[d] \in Seq(Watcher)
    BY DEF DescriptorsOK
  <2>2. Head(stack[d]) \in Watcher
    BY <1>2, <2>1
  <2> QED
    BY <1>2, <2>2, Targets DEF Addressee
<1> QED
  BY <1>1, <1>2

(* A kept descriptor refers to a write end or a device. *)
LEMMA Kept ==
  ASSUME IInv, NEW w \in Watcher, origin[w] # NoHandle
  PROVE  /\ origin[w] \in Fd /\ origin[w] > 2 /\ fd[origin[w]] # Free
         /\ \A v \in Watcher : fd[origin[w]] # ReadEnd(v) /\ reader[v] # origin[w]
                               /\ writer[v] # origin[w]
         /\ \A v \in Watcher \ {w} : origin[v] # origin[w]
<1>1. origin[w] \in Fd \ Std /\ mode[w] \in Std
  BY DEF IInv, DescriptorsOK
<1>2. origin[w] \in Fd /\ origin[w] > 2
  BY <1>1, Numbers
<1>3. fd[origin[w]] # Free /\ \A v \in Watcher : fd[origin[w]] # ReadEnd(v)
  <2>1. CASE On(w)
    <3> DEFINE s == stack[mode[w]]
    <3>1. s \in Seq(Watcher)
      BY <1>1 DEF IInv, DescriptorsOK
    <3>2. PICK i \in DOMAIN s : s[i] = w
      BY <2>1 DEF On, ToSet
    <3>3. fd[origin[w]] = IF i < Len(s) THEN WriteEnd(s[i + 1]) ELSE Device(mode[w])
      BY <1>1, <3>2 DEF IInv, ChainInv
    <3>4. CASE i < Len(s)
      <4>1. s[i + 1] \in Watcher
        BY <3>1, <3>2, <3>4
      <4> QED
        BY <3>3, <3>4, <4>1, Targets
    <3>5. CASE ~(i < Len(s))
      BY <1>1, <3>3, <3>5, Targets DEF Std
    <3> QED
      BY <3>4, <3>5
  <2>2. CASE ~On(w)
    <3>1. fd[origin[w]] = Addressee(mode[w])
      BY <1>1, <2>2 DEF IInv, ChainInv, TableInv
    <3> QED
      BY <1>1, <3>1, Addressees DEF IInv
  <2> QED
    BY <2>1, <2>2
<1>4. \A v \in Watcher : reader[v] # origin[w]
  <2> SUFFICES ASSUME NEW v \in Watcher, reader[v] = origin[w] PROVE FALSE
    OBVIOUS
  <2>1. fd[reader[v]] = ReadEnd(v)
    BY DEF IInv, DescriptorsOK
  <2> QED
    BY <1>3, <2>1
<1>5. \A v \in Watcher : writer[v] # origin[w] /\ (v # w => origin[v] # origin[w])
  BY DEF IInv, TableInv
<1> QED
  BY <1>2, <1>3, <1>4, <1>5

(* The ends of a pipe are beyond the standard descriptors, too. *)
LEMMA Ends ==
  ASSUME IInv, NEW w \in Watcher
  PROVE  /\ reader[w] # NoHandle => reader[w] \in Fd /\ reader[w] > 2 /\ fd[reader[w]] = ReadEnd(w)
         /\ writer[w] # NoHandle => writer[w] \in Fd /\ writer[w] > 2 /\ fd[writer[w]] = WriteEnd(w)
         /\ reader[w] \in Fd \ Std /\ writer[w] \in Fd \ Std /\ origin[w] \in Fd \ Std
<1>1. reader[w] \in Fd \ Std /\ writer[w] \in Fd \ Std /\ origin[w] \in Fd \ Std
  BY DEF IInv, DescriptorsOK
<1> QED
  BY <1>1, Numbers DEF IInv, DescriptorsOK

(* A free descriptor is nobody's handle and not a standard one. *)
LEMMA FreeIsNobodys ==
  ASSUME IInv, NEW n \in Fd, fd[n] = Free
  PROVE  /\ n > 2
         /\ \A w \in Watcher : origin[w] # n /\ reader[w] # n /\ writer[w] # n
<1>1. n \notin Std
  BY Addressees DEF IInv, TableInv
<1>2. n # 0
  <2>1. fd[0] = Device(0) /\ Device(0) # Free
    BY DEF IInv, TableInv, Device, Free
  <2> QED
    BY <2>1
<1>3. n > 2
  BY <1>1, <1>2, Numbers
<1> QED
  BY <1>3, Kept, Ends, Targets, Numbers

-----------------------------------------------------------------------------
(* Steps that leave the descriptors alone.                                 *)

(* They keep what the invariant says of the table. *)
LEMMA TableUndisturbed ==
  ASSUME DescriptorsOK, TableInv, ChainInv, UNCHANGED <<mode, fd, handles, stack>>,
         owner' \in [Watcher -> {"rest", "restore", "close", "join", "keep", "pipe", "redirect", "spawn"}]
  PROVE  DescriptorsOK' /\ TableInv' /\ ChainInv' /\ \A w \in Watcher : On(w)' = On(w)
<1> USE DEF handles
<1>1. \A w \in Watcher : On(w)' = On(w)
  BY DEF On
<1>2. \A d \in Std : Addressee(d)' = Addressee(d)
  BY DEF Addressee
<1>3. DescriptorsOK'
  BY DEF DescriptorsOK
<1>4. TableInv'
  BY <1>2 DEF TableInv
<1>5. ChainInv'
  BY <1>1 DEF ChainInv
<1> QED
  BY <1>1, <1>3, <1>4, <1>5

(* A call leaves the others of its descriptor where they are. *)
LEMMA CallKeeps == ASSUME IInv, NEW w \in Watcher, NEW again \in BOOLEAN, Call(w, again) PROVE IInv'
<1>1. /\ owner[w] = "rest" /\ owner' = [owner EXCEPT ![w] = "restore"]
      /\ UNCHANGED <<mode, fd, handles, stack>>
      /\ \A v \in Rivals(w) : owner[v] = "rest" /\ (origin[v] # NoHandle => On(v))
      /\ On(w) => Head(stack[mode[w]]) = w
  BY DEF Call, MayCall, Goto
<1>2. DescriptorsOK' /\ TableInv' /\ ChainInv' /\ \A v \in Watcher : On(v)' = On(v)
  <2>1. owner' \in [Watcher -> {"rest", "restore", "close", "join", "keep", "pipe", "redirect", "spawn"}]
    BY <1>1 DEF IInv, DescriptorsOK
  <2> QED
    BY <1>1, <2>1, TableUndisturbed DEF IInv
<1>3. /\ owner'[w] = "restore" /\ \A v \in Watcher \ {w} : owner'[v] = owner[v]
  BY <1>1 DEF IInv, DescriptorsOK
<1>4. StageInv'
  BY <1>1, <1>2, <1>3 DEF IInv, StageInv, handles
<1>5. DisciplineInv'
  <2> SUFFICES ASSUME NEW u \in Watcher, Engaged(u)'
               PROVE  /\ \A v \in Rivals(u)' : ~Engaged(v)'
                      /\ On(u)' => Head(stack[mode[u]])' = u
    BY DEF DisciplineInv
  <2>1. \A v \in Watcher : Rivals(v)' = Rivals(v) /\ (v # w => Engaged(v)' = Engaged(v))
    BY <1>1, <1>2, <1>3 DEF Rivals, Engaged, handles
  <2>2. \A v \in Rivals(w) : ~Engaged(v)
    BY <1>1 DEF Engaged
  <2>3. CASE u = w
    BY <1>1, <1>2, <2>1, <2>2, <2>3 DEF Rivals
  <2>4. CASE u # w
    <3>1. Engaged(u) /\ \A v \in Rivals(u) : ~Engaged(v)
      BY <2>1, <2>4 DEF IInv, DisciplineInv
    <3>2. w \notin Rivals(u)
      BY <2>2, <2>4, <3>1 DEF Rivals
    <3> QED
      BY <1>1, <1>2, <2>1, <3>1, <3>2 DEF IInv, DisciplineInv, Rivals
  <2> QED
    BY <2>3, <2>4
<1> QED
  BY <1>2, <1>4, <1>5 DEF IInv

(* The owner of a watcher that is engaged goes on; nobody else is affected. *)
LEMMA DisciplineKept ==
  ASSUME IInv, NEW w \in Watcher, Engaged(w), mode' = mode,
         \A v \in Watcher \ {w} : owner'[v] = owner[v] /\ origin'[v] = origin[v] /\ On(v)' = On(v),
         \A d \in Std \ {mode[w]} : stack'[d] = stack[d],
         On(w)' => Head(stack'[mode[w]]) = w
  PROVE  DisciplineInv'
<1> SUFFICES ASSUME NEW u \in Watcher, Engaged(u)'
             PROVE  /\ \A v \in Rivals(u)' : ~Engaged(v)'
                    /\ On(u)' => Head(stack[mode[u]])' = u
  BY DEF DisciplineInv
<1>1. \A v \in Watcher : Rivals(v)' = Rivals(v) /\ (v # w => Engaged(v)' = Engaged(v))
  BY DEF Rivals, Engaged
<1>2. \A v \in Rivals(w) : ~Engaged(v)
  BY DEF IInv, DisciplineInv
<1>3. CASE u = w
  BY <1>1, <1>2, <1>3 DEF Rivals
<1>4. CASE u # w
  <2>1. Engaged(u) /\ \A v \in Rivals(u) : ~Engaged(v)
    BY <1>1, <1>4 DEF IInv, DisciplineInv
  <2>2. w \notin Rivals(u)
    BY <1>2, <1>4, <2>1 DEF Rivals
  <2>3. mode[u] \in Std \ {mode[w]}
    BY <1>4, <2>2 DEF Rivals, IInv, DescriptorsOK
  <2> QED
    BY <1>1, <1>4, <2>1, <2>2, <2>3 DEF IInv, DisciplineInv, Rivals
<1> QED
  BY <1>3, <1>4

(* A start() that throws, or returns, leaves its descriptor to itself. *)
LEMMA ThrowKeeps == ASSUME IInv, NEW w \in Watcher, Throw(w) \/ Spawn(w) PROVE IInv'
<1>1. /\ owner[w] \in {"pipe", "redirect", "spawn"} /\ owner' = [owner EXCEPT ![w] = "rest"]
      /\ UNCHANGED <<mode, fd, handles, stack>>
  BY DEF Throw, Spawn, SpawnAs, Goto
<1>2. DescriptorsOK' /\ TableInv' /\ ChainInv' /\ \A v \in Watcher : On(v)' = On(v)
  <2>1. owner' \in [Watcher -> {"rest", "restore", "close", "join", "keep", "pipe", "redirect", "spawn"}]
    BY <1>1 DEF IInv, DescriptorsOK
  <2> QED
    BY <1>1, <2>1, TableUndisturbed DEF IInv
<1>3. /\ owner'[w] = "rest" /\ \A v \in Watcher \ {w} : owner'[v] = owner[v]
  BY <1>1 DEF IInv, DescriptorsOK
<1>4. StageInv'
  BY <1>1, <1>2, <1>3 DEF IInv, StageInv, handles
<1>5. Engaged(w) /\ (On(w) => Head(stack[mode[w]]) = w)
  BY <1>1 DEF IInv, DisciplineInv, Engaged
<1>6. DisciplineInv'
  BY <1>1, <1>2, <1>3, <1>5, DisciplineKept DEF handles
<1> QED
  BY <1>2, <1>4, <1>6 DEF IInv

(* The workers and the writers have nothing to do with the descriptors. *)
LEMMA OthersKeep ==
  ASSUME IInv, UNCHANGED <<mode, fd, handles, owner, stack>>
  PROVE  IInv'
<1>1. DescriptorsOK' /\ TableInv' /\ ChainInv' /\ \A v \in Watcher : On(v)' = On(v)
  BY TableUndisturbed DEF IInv, DescriptorsOK
<1>2. StageInv'
  BY <1>1 DEF IInv, StageInv, handles
<1>3. DisciplineInv'
  BY <1>1 DEF IInv, DisciplineInv, Engaged, Rivals, handles
<1> QED
  BY <1>1, <1>2, <1>3 DEF IInv
-----------------------------------------------------------------------------
(* stop(), step by step.                                                   *)

(* A descriptor that nobody keeps is closed. *)
LEMMA EndClosed ==
  ASSUME IInv, NEW n \in Fd, n > 2, fd' = [fd EXCEPT ![n] = Free],
         UNCHANGED <<mode, origin, stack>>, \A v \in Watcher : origin[v] # n,
         owner' \in [Watcher -> {"rest", "restore", "close", "join", "keep", "pipe", "redirect", "spawn"}],
         {reader', writer'} \subseteq [Watcher -> Fd \ Std],
         \A v \in Watcher : reader'[v] = IF reader[v] = n THEN NoHandle ELSE reader[v],
         \A v \in Watcher : writer'[v] = IF writer[v] = n THEN NoHandle ELSE writer[v]
  PROVE  DescriptorsOK' /\ TableInv' /\ ChainInv' /\ \A w \in Watcher : On(w)' = On(w)
<1>1. fd' \in [Fd -> Target] /\ fd'[n] = Free /\ \A m \in Fd \ {n} : fd'[m] = fd[m]
  BY DEF IInv, DescriptorsOK, Target
<1>2. \A w \in Watcher : On(w)' = On(w)
  BY DEF On
<1>3. \A d \in Std : Addressee(d)' = Addressee(d)
  BY DEF Addressee
<1>4. DescriptorsOK'
  <2>1. \A w \in Watcher : /\ reader'[w] # NoHandle => fd'[reader'[w]] = ReadEnd(w)
                           /\ writer'[w] # NoHandle => fd'[writer'[w]] = WriteEnd(w)
    BY <1>1, Ends
  <2> QED
    BY <1>1, <2>1 DEF IInv, DescriptorsOK
<1>5. TableInv'
  <2>1. fd'[0] = Device(0) /\ \A d \in Std : fd'[d] = Addressee(d)'
    BY <1>1, <1>3, Numbers DEF IInv, TableInv
  <2>2. ASSUME NEW m \in Fd, m > 2, fd'[m] # Free
        PROVE  \E w \in Watcher : m \in {origin'[w], reader'[w], writer'[w]}
    <3>1. m # n /\ fd[m] # Free
      BY <1>1, <2>2
    <3>2. PICK w \in Watcher : m \in {origin[w], reader[w], writer[w]}
      BY <2>2, <3>1 DEF IInv, TableInv
    <3> QED
      BY <3>1, <3>2
  <2>3. \A v, w \in Watcher : origin'[v] # NoHandle =>
            origin'[v] # writer'[w] /\ (v # w => origin'[v] # origin'[w])
    BY DEF IInv, TableInv
  <2> QED
    BY <2>1, <2>2, <2>3 DEF TableInv
<1>6. ChainInv'
  <2>1. \A w \in Watcher : origin[w] # NoHandle => fd'[origin[w]] = fd[origin[w]]
    BY <1>1, Kept
  <2>2. ASSUME NEW d \in Std, NEW i \in DOMAIN stack[d]
        PROVE  fd'[origin[stack[d][i]]] = fd[origin[stack[d][i]]]
    <3>1. stack[d][i] \in Watcher /\ origin[stack[d][i]] # NoHandle
      BY DEF IInv, DescriptorsOK, ToSet
    <3> QED
      BY <2>1, <3>1
  <2>3. \A w \in Watcher : fd'[mode[w]] = fd[mode[w]]
    <3>1. \A w \in Watcher : mode[w] \in Fd \ {n}
      BY Numbers DEF IInv, DescriptorsOK
    <3> QED
      BY <1>1, <3>1
  <2> QED
    BY <1>2, <2>1, <2>2, <2>3 DEF IInv, ChainInv
<1> QED
  BY <1>2, <1>4, <1>5, <1>6

(* What is left of the stack of a descriptor when a watcher that is on top *)
(* of it, or not on, is taken off.                                         *)
Rest(w) == IF On(w) THEN Tail(stack[mode[w]]) ELSE stack[mode[w]]

(* It is what was there, without the watcher, and what is on top of it is  *)
(* what the watcher has kept.                                              *)
LEMMA Below ==
  ASSUME IInv, NEW w \in Watcher, origin[w] # NoHandle,
         On(w) => Head(stack[mode[w]]) = w
  PROVE  /\ Rest(w) \in Seq(Watcher) /\ IsInjective(Rest(w))
         /\ ToSet(Rest(w)) = ToSet(stack[mode[w]]) \ {w}
         /\ fd[origin[w]] = IF Rest(w) = <<>> THEN Device(mode[w]) ELSE WriteEnd(Head(Rest(w)))
         /\ \A i \in DOMAIN Rest(w) : fd[origin[Rest(w)[i]]] =
                IF i < Len(Rest(w)) THEN WriteEnd(Rest(w)[i + 1]) ELSE Device(mode[w])
<1> DEFINE d == mode[w]
           s == stack[d]
           t == Rest(w)
<1>1. d \in Std /\ s \in Seq(Watcher) /\ IsInjective(s)
  BY DEF IInv, DescriptorsOK
<1>2. \A i \in DOMAIN s : fd[origin[s[i]]] = IF i < Len(s) THEN WriteEnd(s[i + 1]) ELSE Device(d)
  BY <1>1 DEF IInv, ChainInv
<1>3. CASE ~On(w)
  <2>1. t = s /\ w \notin ToSet(s)
    BY <1>3 DEF On, Rest
  <2>2. fd[origin[w]] = Addressee(d)
    BY <1>1, <1>3 DEF IInv, ChainInv, TableInv
  <2> QED
    BY <1>1, <1>2, <2>1, <2>2 DEF Addressee
<1>4. CASE On(w)
  <2>1. s # <<>> /\ Head(s) = w /\ t = Tail(s)
    BY <1>4 DEF On, ToSet, Rest
  <2> HIDE DEF s, t
  <2>2. PICK m \in Nat :
            /\ t \in Seq(Watcher) /\ Len(s) = m + 1 /\ Len(t) = m
            /\ DOMAIN s = 1 .. m + 1 /\ DOMAIN t = 1 .. m
            /\ w = s[1] /\ \A i \in 1 .. m : t[i] = s[i + 1]
            /\ IF t = <<>> THEN m = 0 ELSE m > 0 /\ Head(t) = s[2]
    <3>1. \E m \in Nat :
             /\ Tail(s) \in Seq(Watcher) /\ Len(s) = m + 1 /\ Len(Tail(s)) = m
             /\ DOMAIN s = 1 .. m + 1 /\ DOMAIN Tail(s) = 1 .. m
             /\ Head(s) = s[1] /\ \A i \in 1 .. m : Tail(s)[i] = s[i + 1]
             /\ IF Tail(s) = <<>> THEN m = 0 ELSE m > 0 /\ Head(Tail(s)) = s[2]
      BY <1>1, <2>1, Popped, Zenon
    <3> QED
      BY <2>1, <3>1
  <2>3. 1 \in DOMAIN s
    BY <2>2
  <2>4. \A i \in DOMAIN t : i + 1 \in DOMAIN s /\ i + 1 # 1 /\ t[i] = s[i + 1]
    BY <2>2
  <2>5. IsInjective(t)
    <3>1. ASSUME NEW i \in DOMAIN t, NEW j \in DOMAIN t, t[i] = t[j] PROVE i = j
      <4>1. i + 1 \in DOMAIN s /\ j + 1 \in DOMAIN s /\ s[i + 1] = s[j + 1]
        BY <2>4, <3>1
      <4>2. i + 1 = j + 1
        BY <1>1, <4>1 DEF IsInjective
      <4> QED
        BY <2>2, <4>2
    <3> QED
      BY <3>1 DEF IsInjective
  <2>6. ToSet(t) = ToSet(s) \ {w}
    <3>1. \A i \in DOMAIN t : t[i] \in ToSet(s)
      BY <2>4 DEF ToSet
    <3>2. \A i \in DOMAIN t : t[i] # w
      <4> SUFFICES ASSUME NEW i \in DOMAIN t, t[i] = w PROVE FALSE
        OBVIOUS
      <4>1. i + 1 \in DOMAIN s /\ i + 1 # 1 /\ s[i + 1] = s[1]
        BY <2>2, <2>4
      <4> QED
        BY <1>1, <2>3, <4>1 DEF IsInjective
    <3>4. ASSUME NEW i \in DOMAIN s PROVE i = 1 \/ (i - 1 \in DOMAIN t /\ t[i - 1] = s[i])
      <4>1. i = 1 \/ (i - 1 \in DOMAIN t /\ (i - 1) + 1 = i)
        BY <2>2
      <4>2. i - 1 \in DOMAIN t => t[i - 1] = s[(i - 1) + 1]
        BY <2>4
      <4> QED
        BY <4>1, <4>2
    <3>5. \A v \in ToSet(s) : v = w \/ v \in ToSet(t)
      <4>1. w = s[1]
        BY <2>2
      <4>2. \A i \in DOMAIN s : s[i] = w \/ s[i] \in ToSet(t)
        BY <3>4, <4>1 DEF ToSet
      <4> QED
        BY <4>2 DEF ToSet
    <3>6. \A v \in ToSet(t) : v \in ToSet(s) /\ v # w
      BY <3>1, <3>2 DEF ToSet
    <3> QED
      BY <3>5, <3>6
  <2>7. fd[origin[w]] = IF t = <<>> THEN Device(d) ELSE WriteEnd(Head(t))
    <3> HIDE DEF d
    <3>1. fd[origin[s[1]]] = IF 1 < Len(s) THEN WriteEnd(s[1 + 1]) ELSE Device(d)
      BY <1>2, <2>3
    <3>2. fd[origin[w]] = fd[origin[s[1]]]
      BY <2>2
    <3>3. IF t = <<>> THEN ~(1 < Len(s)) ELSE 1 < Len(s) /\ Head(t) = s[1 + 1]
      BY <2>2
    <3> QED
      BY <3>1, <3>2, <3>3
  <2>8. ASSUME NEW i \in DOMAIN t
        PROVE  fd[origin[t[i]]] = IF i < Len(t) THEN WriteEnd(t[i + 1]) ELSE Device(d)
    <3> HIDE DEF d
    <3>1. fd[origin[s[i + 1]]] = IF i + 1 < Len(s) THEN WriteEnd(s[(i + 1) + 1]) ELSE Device(d)
      BY <1>2, <2>4
    <3>2. (i < Len(t) <=> i + 1 < Len(s)) /\ (i < Len(t) => i + 1 \in DOMAIN t)
      BY <2>2
    <3>3. t[i] = s[i + 1] /\ (i < Len(t) => t[i + 1] = s[(i + 1) + 1])
      BY <2>4, <3>2
    <3> QED
      BY <3>1, <3>2, <3>3
  <2> QED
    BY <2>2, <2>5, <2>6, <2>7, <2>8 DEF s, t
<1> QED
  BY <1>3, <1>4

(* What is put back is what the descriptor is to refer to from then on. *)
LEMMA RestoreKeeps ==
  ASSUME IInv, NEW w \in Watcher, Restore(w)
  PROVE  IInv' /\ ~On(w)' /\ \A v \in Watcher \ {w} : On(v)' = On(v)
<1> DEFINE d == mode[w]
           o == origin[w]
<1>1. /\ owner[w] = "restore" /\ owner' = [owner EXCEPT ![w] = "close"]
      /\ fd' = IF o = NoHandle THEN fd ELSE Closed([fd EXCEPT ![d] = fd[o]], o)
      /\ origin' = [origin EXCEPT ![w] = NoHandle]
      /\ stack' = IF On(w) THEN [stack EXCEPT ![d] = Tail(@)] ELSE stack
      /\ UNCHANGED <<mode, reader, writer>>
  BY DEF Restore, RestoreTo, Goto
<1>2. /\ d \in Std /\ d \in Fd /\ ~(d > 2) /\ d # 0
  BY Numbers DEF IInv, DescriptorsOK, Std
<1>3. /\ owner'[w] = "close" /\ \A v \in Watcher \ {w} : owner'[v] = owner[v]
      /\ origin'[w] = NoHandle /\ \A v \in Watcher \ {w} : origin'[v] = origin[v]
      /\ owner' \in [Watcher -> {"rest", "restore", "close", "join", "keep", "pipe", "redirect", "spawn"}]
  BY <1>1 DEF IInv, DescriptorsOK
<1>4. Engaged(w) /\ (\A v \in Rivals(w) : ~Engaged(v)) /\ (On(w) => Head(stack[d]) = w)
  BY <1>1 DEF IInv, DisciplineInv, Engaged
<1>5. CASE o = NoHandle
  <2>1. ~On(w)
    BY <1>5 DEF On, IInv, DescriptorsOK
  <2>2. UNCHANGED <<mode, fd, handles, stack>>
    BY <1>1, <1>5, <2>1 DEF handles, IInv, DescriptorsOK
  <2>3. DescriptorsOK' /\ TableInv' /\ ChainInv' /\ \A v \in Watcher : On(v)' = On(v)
    BY <1>3, <2>2, TableUndisturbed DEF IInv
  <2>4. StageInv'
    BY <1>1, <1>3, <1>5, <2>3 DEF IInv, StageInv
  <2>5. DisciplineInv'
    BY <1>1, <1>3, <1>4, <2>2, <2>3, DisciplineKept
  <2> QED
    BY <2>1, <2>3, <2>4, <2>5 DEF IInv
<1>6. CASE o # NoHandle
  <2> DEFINE s == stack[d]
             t == Rest(w)
  <2>1. /\ o \in Fd /\ o > 2 /\ o # d /\ o # 0 /\ \A e \in Std : o # e
        /\ \A v \in Watcher : reader[v] # o /\ writer[v] # o
        /\ \A v \in Watcher \ {w} : origin[v] # o
    BY <1>2, <1>6, Kept, Numbers
  <2>2. /\ t \in Seq(Watcher) /\ IsInjective(t) /\ ToSet(t) = ToSet(s) \ {w}
        /\ fd[o] = IF t = <<>> THEN Device(d) ELSE WriteEnd(Head(t))
        /\ \A i \in DOMAIN t : fd[origin[t[i]]] =
               IF i < Len(t) THEN WriteEnd(t[i + 1]) ELSE Device(d)
    BY <1>4, <1>6, Below
  <2>3. /\ stack' \in [Std -> Seq(Watcher)] /\ stack'[d] = t
        /\ \A e \in Std \ {d} : stack'[e] = stack[e]
    <3>1. stack \in [Std -> Seq(Watcher)] /\ t \in Seq(Watcher)
      BY <2>2 DEF IInv, DescriptorsOK
    <3>2. stack' = [stack EXCEPT ![d] = t]
      BY <1>1, <1>2, <3>1 DEF Rest
    <3> HIDE DEF t
    <3> QED
      BY <1>2, <3>1, <3>2
  <2> HIDE DEF t, s
  <2>4. /\ fd' \in [Fd -> Target] /\ fd'[d] = fd[o] /\ fd'[o] = Free
        /\ \A m \in Fd \ {d, o} : fd'[m] = fd[m]
    <3>1. fd \in [Fd -> Target] /\ Free \in Target
      BY DEF IInv, DescriptorsOK, Target
    <3>2. fd' = [[fd EXCEPT ![d] = fd[o]] EXCEPT ![o] = Free]
      BY <1>1, <1>6 DEF Closed
    <3> HIDE DEF d, o
    <3>3. [fd EXCEPT ![d] = fd[o]] \in [Fd -> Target]
      BY <1>2, <2>1, <3>1
    <3> QED
      BY <1>2, <2>1, <3>1, <3>2, <3>3
  <2>5. \A v \in Watcher : v # w /\ mode[v] = d /\ origin[v] # NoHandle => On(v)
    BY <1>4 DEF Rivals, Engaged
  <2>6. \A v \in Watcher \ {w} : On(v)' = On(v)
    <3> SUFFICES ASSUME NEW v \in Watcher \ {w} PROVE On(v)' = On(v)
      OBVIOUS
    <3>1. mode[v] \in Std /\ mode'[v] = mode[v]
      BY <1>1 DEF IInv, DescriptorsOK
    <3>2. CASE mode[v] = d
      BY <2>2, <2>3, <3>1, <3>2 DEF On, s
    <3>3. CASE mode[v] # d
      BY <2>3, <3>1, <3>3 DEF On
    <3> QED
      BY <3>2, <3>3
  <2>7. ~On(w)'
    BY <1>1, <2>2, <2>3 DEF On
  <2>8. \A v \in Watcher : v # w /\ origin[v] # NoHandle =>
            origin'[v] = origin[v] /\ fd'[origin'[v]] = fd[origin[v]]
    BY <1>2, <1>3, <2>1, <2>4, Kept
  <2>9. \A e \in Std : \A i \in DOMAIN stack'[e] :
            stack'[e][i] \in Watcher \ {w} /\ mode[stack'[e][i]] = e /\ origin[stack'[e][i]] # NoHandle
    <3> SUFFICES ASSUME NEW e \in Std, NEW i \in DOMAIN stack'[e], NEW v, v = stack'[e][i]
                 PROVE  v \in Watcher \ {w} /\ mode[v] = e /\ origin[v] # NoHandle
      OBVIOUS
    <3>1. v \in ToSet(stack[e])
      <4>1. v \in ToSet(stack'[e])
        BY DEF ToSet
      <4> QED
        BY <2>2, <2>3, <4>1 DEF s
    <3>2. v \in Watcher /\ mode[v] = e /\ origin[v] # NoHandle
      <4>1. stack[e] \in Seq(Watcher)
        BY DEF IInv, DescriptorsOK
      <4>2. v \in Watcher
        BY <3>1, <4>1 DEF ToSet
      <4> QED
        BY <3>1, <4>2 DEF IInv, DescriptorsOK
    <3>3. v # w
      <4>1. v = w => e = d
        BY <3>2
      <4>2. e = d => v \in ToSet(t)
        BY <2>3 DEF ToSet
      <4> QED
        BY <2>2, <4>1, <4>2
    <3> QED
      BY <3>2, <3>3
  <2>10. DescriptorsOK'
    <3>1. origin' \in [Watcher -> Fd \ Std]
      BY <1>1, Numbers DEF IInv, DescriptorsOK
    <3>2. \A v \in Watcher : /\ reader[v] # NoHandle => fd'[reader[v]] = ReadEnd(v)
                             /\ writer[v] # NoHandle => fd'[writer[v]] = WriteEnd(v)
      BY <1>2, <2>1, <2>4, Ends
    <3>3. \A e \in Std : IsInjective(stack'[e])
      BY <2>2, <2>3 DEF IInv, DescriptorsOK
    <3>4. \A e \in Std : \A v \in ToSet(stack'[e]) : mode[v] = e /\ origin'[v] # NoHandle
      BY <1>3, <2>9 DEF ToSet
    <3>5. mode' \in [Watcher -> Std] /\ {origin', reader', writer'} \subseteq [Watcher -> Fd \ Std]
      BY <1>1, <3>1 DEF IInv, DescriptorsOK
    <3>6. \A v \in Watcher : /\ reader'[v] # NoHandle => fd'[reader'[v]] = ReadEnd(v)
                             /\ writer'[v] # NoHandle => fd'[writer'[v]] = WriteEnd(v)
      BY <1>1, <3>2
    <3>7. \A e \in Std : \A v \in ToSet(stack'[e]) : mode'[v] = e /\ origin'[v] # NoHandle
      BY <1>1, <3>4
    <3> QED
      BY <1>3, <2>3, <2>4, <3>3, <3>5, <3>6, <3>7 DEF DescriptorsOK
  <2>11. StageInv'
    <3>1. \A v \in Watcher \ {w} : On(v)' = On(v) /\ owner'[v] = owner[v] /\ origin'[v] = origin[v]
      BY <1>3, <2>6
    <3> QED
      BY <1>1, <1>3, <3>1 DEF IInv, StageInv
  <2>12. DisciplineInv'
    BY <1>1, <1>3, <1>4, <2>3, <2>6, <2>7, DisciplineKept
  <2>13. TableInv'
    <3>1. \A e \in Std : fd'[e] = IF stack'[e] = <<>> THEN Device(e) ELSE WriteEnd(Head(stack'[e]))
      <4> SUFFICES ASSUME NEW e \in Std
                   PROVE  fd'[e] = IF stack'[e] = <<>> THEN Device(e) ELSE WriteEnd(Head(stack'[e]))
        OBVIOUS
      <4>1. CASE e = d
        BY <2>2, <2>3, <2>4, <4>1
      <4>2. CASE e # d
        BY <2>1, <2>3, <2>4, <4>2, Numbers DEF IInv, TableInv, Addressee
      <4> QED
        BY <4>1, <4>2
    <3>2. \A e \in Std : fd'[e] = Addressee(e)'
      BY <3>1 DEF Addressee
    <3>3. fd'[0] = Device(0)
      BY <1>2, <2>1, <2>4, Numbers DEF IInv, TableInv
    <3>4. ASSUME NEW m \in Fd, m > 2, fd'[m] # Free
          PROVE  \E v \in Watcher : m \in {origin'[v], reader'[v], writer'[v]}
      <4>1. m # o /\ fd[m] # Free
        BY <1>2, <2>4, <3>4
      <4>2. PICK v \in Watcher : m \in {origin[v], reader[v], writer[v]}
        BY <3>4, <4>1 DEF IInv, TableInv
      <4> QED
        BY <1>1, <1>3, <4>1, <4>2
    <3>5. \A v, u \in Watcher : origin'[v] # NoHandle =>
              origin'[v] # writer'[u] /\ (v # u => origin'[v] # origin'[u])
      BY <1>1, <1>3 DEF IInv, TableInv
    <3> QED
      BY <3>2, <3>3, <3>4, <3>5 DEF TableInv
  <2>14. ChainInv'
    <3>1. ASSUME NEW e \in Std, NEW i \in DOMAIN stack'[e]
          PROVE  fd'[origin'[stack'[e][i]]] =
                     IF i < Len(stack'[e]) THEN WriteEnd(stack'[e][i + 1]) ELSE Device(e)
      <4>1. fd'[origin'[stack'[e][i]]] = fd[origin[stack'[e][i]]]
        BY <2>8, <2>9
      <4>2. CASE e = d
        <5>1. i \in DOMAIN t /\ stack'[e] = t
          BY <2>3, <4>2
        <5> QED
          BY <2>2, <4>1, <4>2, <5>1
      <4>3. CASE e # d
        <5>1. i \in DOMAIN stack[e] /\ stack'[e] = stack[e]
          BY <2>3, <4>3
        <5> QED
          BY <4>1, <5>1 DEF IInv, ChainInv
      <4> QED
        BY <4>2, <4>3
    <3>2. \A v \in Watcher : origin'[v] # NoHandle /\ ~On(v)' => fd'[origin'[v]] = fd'[mode'[v]]
      <4> SUFFICES ASSUME NEW v \in Watcher, origin'[v] # NoHandle, ~On(v)'
                   PROVE  fd'[origin'[v]] = fd'[mode'[v]]
        OBVIOUS
      <4>1. v # w /\ ~On(v) /\ origin[v] # NoHandle
        BY <1>3, <2>6
      <4>2. mode[v] # d /\ mode[v] \in Fd /\ mode[v] # o /\ mode'[v] = mode[v]
        BY <1>1, <2>1, <2>5, <4>1, Numbers DEF IInv, DescriptorsOK
      <4>3. fd[origin[v]] = fd[mode[v]]
        BY <4>1 DEF IInv, ChainInv
      <4> QED
        BY <2>4, <2>8, <4>1, <4>2, <4>3
    <3> QED
      BY <3>1, <3>2 DEF ChainInv
  <2> QED
    BY <2>6, <2>7, <2>10, <2>11, <2>12, <2>13, <2>14 DEF IInv
<1> QED
  BY <1>5, <1>6

(* Only the write end that stop() closes is gone. *)
LEMMA CloseWriterKeeps == ASSUME IInv, NEW w \in Watcher, CloseWriter(w) PROVE IInv'
<1>1. /\ owner[w] = "close" /\ owner' = [owner EXCEPT ![w] = "join"]
      /\ fd' = Closed(fd, writer[w]) /\ writer' = [writer EXCEPT ![w] = NoHandle]
      /\ UNCHANGED <<mode, origin, reader, stack>>
  BY DEF CloseWriter, CloseWriterIn, Goto
<1>2. owner' \in [Watcher -> {"rest", "restore", "close", "join", "keep", "pipe", "redirect", "spawn"}]
  BY <1>1 DEF IInv, DescriptorsOK
<1>3. \A v \in Watcher : writer'[v] = IF v = w THEN NoHandle ELSE writer[v]
  BY <1>1 DEF IInv, DescriptorsOK
<1>4. DescriptorsOK' /\ TableInv' /\ ChainInv' /\ \A v \in Watcher : On(v)' = On(v)
  <2>1. CASE writer[w] = NoHandle
    <3>1. UNCHANGED <<mode, fd, handles, stack>>
      BY <1>1, <2>1 DEF Closed, handles, IInv, DescriptorsOK
    <3> QED
      BY <1>2, <3>1, TableUndisturbed DEF IInv
  <2>2. CASE writer[w] # NoHandle
    <3> DEFINE n == writer[w]
    <3>1. n \in Fd /\ n > 2 /\ fd[n] = WriteEnd(w) /\ fd' = [fd EXCEPT ![n] = Free]
      BY <1>1, <2>2, Ends DEF Closed
    <3>2. \A v \in Watcher : writer[v] = n => v = w
      BY <2>2, <3>1, Ends, Targets
    <3>3. \A v \in Watcher : reader[v] # n /\ origin[v] # n
      BY <2>2, <3>1, Ends, Targets, Kept
    <3>4. \A v \in Watcher : writer'[v] = IF writer[v] = n THEN NoHandle ELSE writer[v]
      BY <1>3, <3>2
    <3>5. {reader', writer'} \subseteq [Watcher -> Fd \ Std]
      BY <1>1, Numbers DEF IInv, DescriptorsOK
    <3>6. \A v \in Watcher : reader'[v] = IF reader[v] = n THEN NoHandle ELSE reader[v]
      BY <1>1, <3>3
    <3> HIDE DEF n
    <3> QED
      BY <1>1, <1>2, <3>1, <3>3, <3>4, <3>5, <3>6, EndClosed
  <2> QED
    BY <2>1, <2>2
<1>5. owner'[w] = "join" /\ \A v \in Watcher \ {w} : owner'[v] = owner[v]
  BY <1>1 DEF IInv, DescriptorsOK
<1>6. StageInv'
  BY <1>1, <1>3, <1>4, <1>5 DEF IInv, StageInv
<1>7. Engaged(w) /\ (On(w) => Head(stack[mode[w]]) = w)
  BY <1>1 DEF IInv, DisciplineInv, Engaged
<1>8. DisciplineInv'
  BY <1>1, <1>4, <1>5, <1>7, DisciplineKept
<1> QED
  BY <1>4, <1>6, <1>8 DEF IInv

(* Only the read end is gone that stop() closes after the worker. *)
LEMMA JoinKeeps == ASSUME IInv, NEW w \in Watcher, Join(w) PROVE IInv'
<1>1. /\ owner[w] = "join" /\ owner' = [owner EXCEPT ![w] = IF starting[w] THEN "keep" ELSE "rest"]
      /\ fd' = Closed(fd, reader[w]) /\ reader' = [reader EXCEPT ![w] = NoHandle]
      /\ UNCHANGED <<mode, origin, writer, stack>>
  BY DEF Join, JoinWhen, Goto
<1>2. owner' \in [Watcher -> {"rest", "restore", "close", "join", "keep", "pipe", "redirect", "spawn"}]
  BY <1>1 DEF IInv, DescriptorsOK
<1>3. \A v \in Watcher : reader'[v] = IF v = w THEN NoHandle ELSE reader[v]
  BY <1>1 DEF IInv, DescriptorsOK
<1>4. DescriptorsOK' /\ TableInv' /\ ChainInv' /\ \A v \in Watcher : On(v)' = On(v)
  <2>1. CASE reader[w] = NoHandle
    <3>1. UNCHANGED <<mode, fd, handles, stack>>
      BY <1>1, <2>1 DEF Closed, handles, IInv, DescriptorsOK
    <3> QED
      BY <1>2, <3>1, TableUndisturbed DEF IInv
  <2>2. CASE reader[w] # NoHandle
    <3> DEFINE n == reader[w]
    <3>1. n \in Fd /\ n > 2 /\ fd[n] = ReadEnd(w) /\ fd' = [fd EXCEPT ![n] = Free]
      BY <1>1, <2>2, Ends DEF Closed
    <3>2. \A v \in Watcher : reader[v] = n => v = w
      BY <2>2, <3>1, Ends, Targets
    <3>3. \A v \in Watcher : writer[v] # n /\ origin[v] # n
      BY <2>2, <3>1, Ends, Targets, Kept
    <3>4. \A v \in Watcher : reader'[v] = IF reader[v] = n THEN NoHandle ELSE reader[v]
      BY <1>3, <3>2
    <3>5. {reader', writer'} \subseteq [Watcher -> Fd \ Std]
      BY <1>1, Numbers DEF IInv, DescriptorsOK
    <3>6. \A v \in Watcher : writer'[v] = IF writer[v] = n THEN NoHandle ELSE writer[v]
      BY <1>1, <3>3
    <3> HIDE DEF n
    <3> QED
      BY <1>1, <1>2, <3>1, <3>3, <3>4, <3>5, <3>6, EndClosed
  <2> QED
    BY <2>1, <2>2
<1>5. owner'[w] \in {"keep", "rest"} /\ \A v \in Watcher \ {w} : owner'[v] = owner[v]
  BY <1>1 DEF IInv, DescriptorsOK
<1>6. StageInv'
  BY <1>1, <1>3, <1>4, <1>5 DEF IInv, StageInv
<1>7. Engaged(w) /\ (On(w) => Head(stack[mode[w]]) = w)
  BY <1>1 DEF IInv, DisciplineInv, Engaged
<1>8. DisciplineInv'
  BY <1>1, <1>4, <1>5, <1>7, DisciplineKept
<1> QED
  BY <1>4, <1>6, <1>8 DEF IInv
-----------------------------------------------------------------------------
(* start(), step by step.                                                  *)

(* What start() keeps is what the descriptor refers to. *)
LEMMA KeepKeeps == ASSUME IInv, NEW w \in Watcher, Keep(w) PROVE IInv'
<1> DEFINE n == Lowest(fd)
<1>1. /\ owner[w] = "keep" /\ owner' = [owner EXCEPT ![w] = "pipe"]
      /\ fd' = [fd EXCEPT ![n] = fd[mode[w]]] /\ origin' = [origin EXCEPT ![w] = n]
      /\ UNCHANGED <<mode, reader, writer, stack>>
  BY DEF Keep, Goto, Opened
<1>2. n \in Fd /\ fd[n] = Free
  BY LowestIsFree DEF Keep
<1>3. n > 2 /\ \A v \in Watcher : origin[v] # n /\ reader[v] # n /\ writer[v] # n
  BY <1>2, FreeIsNobodys
<1> HIDE DEF n
<1>4. /\ fd' \in [Fd -> Target] /\ fd'[n] = fd[mode[w]] /\ \A m \in Fd \ {n} : fd'[m] = fd[m]
      /\ \A d \in Std : fd'[d] = fd[d]
  BY <1>1, <1>2, <1>3, Numbers DEF IInv, DescriptorsOK
<1>5. /\ owner'[w] = "pipe" /\ \A v \in Watcher \ {w} : owner'[v] = owner[v]
      /\ origin'[w] = n /\ \A v \in Watcher \ {w} : origin'[v] = origin[v]
  BY <1>1 DEF IInv, DescriptorsOK
<1>6. origin[w] = NoHandle /\ ~On(w)
  <2>1. origin[w] = NoHandle
    BY <1>1 DEF IInv, StageInv
  <2> QED
    BY <2>1 DEF On, IInv, DescriptorsOK
<1>7. \A v \in Watcher : On(v)' = On(v)
  BY <1>1 DEF On
<1>8. n \in Fd \ Std /\ n # NoHandle
  BY <1>2, <1>3, Numbers
<1>9. DescriptorsOK'
  <2>1. origin' \in [Watcher -> Fd \ Std]
    BY <1>1, <1>8 DEF IInv, DescriptorsOK
  <2>2. \A v \in Watcher : /\ reader[v] # NoHandle => fd'[reader[v]] = ReadEnd(v)
                           /\ writer[v] # NoHandle => fd'[writer[v]] = WriteEnd(v)
    BY <1>3, <1>4, Ends
  <2>3. \A d \in Std : \A v \in ToSet(stack[d]) : mode[v] = d /\ origin'[v] # NoHandle
    BY <1>5, <1>8 DEF IInv, DescriptorsOK, ToSet
  <2>4. owner' \in [Watcher -> {"rest", "restore", "close", "join", "keep", "pipe", "redirect", "spawn"}]
    BY <1>1 DEF IInv, DescriptorsOK
  <2> QED
    BY <1>1, <1>4, <2>1, <2>2, <2>3, <2>4 DEF IInv, DescriptorsOK
<1>10. StageInv'
  <2>1. reader[w] = NoHandle /\ writer[w] = NoHandle
    BY <1>1 DEF IInv, StageInv
  <2> QED
    BY <1>1, <1>5, <1>6, <1>7, <1>8, <2>1 DEF IInv, StageInv
<1>11. DisciplineInv'
  <2>1. Engaged(w)
    BY <1>1 DEF Engaged
  <2> QED
    BY <1>1, <1>5, <1>6, <1>7, <2>1, DisciplineKept
<1>12. TableInv'
  <2>1. fd'[0] = Device(0) /\ \A d \in Std : fd'[d] = Addressee(d)'
    BY <1>1, <1>3, <1>4, Numbers DEF IInv, TableInv, Addressee
  <2>2. ASSUME NEW m \in Fd, m > 2, fd'[m] # Free
        PROVE  \E v \in Watcher : m \in {origin'[v], reader'[v], writer'[v]}
    <3>1. CASE m = n
      BY <1>5, <3>1
    <3>2. CASE m # n
      <4>1. PICK v \in Watcher : m \in {origin[v], reader[v], writer[v]}
        BY <1>4, <2>2, <3>2 DEF IInv, TableInv
      <4>2. v = w => m # origin[v]
        BY <1>6, <2>2, Numbers
      <4> QED
        BY <1>1, <1>5, <4>1, <4>2
    <3> QED
      BY <3>1, <3>2
  <2>3. \A v, u \in Watcher : origin'[v] # NoHandle =>
            origin'[v] # writer'[u] /\ (v # u => origin'[v] # origin'[u])
    BY <1>1, <1>3, <1>5 DEF IInv, TableInv
  <2> QED
    BY <2>1, <2>2, <2>3 DEF TableInv
<1>13. ChainInv'
  <2>1. \A v \in Watcher : v # w /\ origin[v] # NoHandle =>
            origin'[v] = origin[v] /\ fd'[origin'[v]] = fd[origin[v]]
    BY <1>3, <1>4, <1>5, Kept
  <2>2. ASSUME NEW d \in Std, NEW i \in DOMAIN stack[d]
        PROVE  fd'[origin'[stack[d][i]]] = fd[origin[stack[d][i]]]
    <3>1. stack[d][i] \in Watcher /\ origin[stack[d][i]] # NoHandle
      BY DEF IInv, DescriptorsOK, ToSet
    <3> QED
      BY <1>6, <2>1, <3>1
  <2>3. \A v \in Watcher : mode[v] \in Std
    BY DEF IInv, DescriptorsOK
  <2>4. \A v \in Watcher : origin'[v] # NoHandle /\ ~On(v) => fd'[origin'[v]] = fd'[mode[v]]
    <3> SUFFICES ASSUME NEW v \in Watcher, origin'[v] # NoHandle, ~On(v)
                 PROVE  fd'[origin'[v]] = fd'[mode[v]]
      OBVIOUS
    <3>1. CASE v = w
      BY <1>4, <1>5, <2>3, <3>1
    <3>2. CASE v # w
      BY <1>4, <1>5, <2>1, <2>3, <3>2 DEF IInv, ChainInv
    <3> QED
      BY <3>1, <3>2
  <2> QED
    BY <1>1, <1>7, <2>2, <2>4 DEF IInv, ChainInv
<1> QED
  BY <1>9, <1>10, <1>11, <1>12, <1>13 DEF IInv

(* A pipe takes two descriptors that nobody has. *)
LEMMA MakePipeKeeps == ASSUME IInv, NEW w \in Watcher, MakePipe(w) PROVE IInv'
<1> DEFINE a == Lowest(fd)
           half == Opened(fd, ReadEnd(w))
           b == Lowest(half)
<1>1. /\ owner[w] = "pipe" /\ owner' = [owner EXCEPT ![w] = "redirect"]
      /\ half = [fd EXCEPT ![a] = ReadEnd(w)] /\ fd' = [half EXCEPT ![b] = WriteEnd(w)]
      /\ reader' = [reader EXCEPT ![w] = a] /\ writer' = [writer EXCEPT ![w] = b]
      /\ UNCHANGED <<mode, origin, stack>>
  BY DEF MakePipe, MakePipeOf, Goto, Opened
<1>2. a \in Fd /\ fd[a] = Free /\ b \in Fd /\ half[b] = Free
  BY LowestIsFree DEF MakePipe, MakePipeOf
<1> HIDE DEF a, b, half
<1>3. a # b /\ fd[b] = Free
  BY <1>1, <1>2, Targets DEF IInv, DescriptorsOK
<1>4. /\ a > 2 /\ \A v \in Watcher : origin[v] # a /\ reader[v] # a /\ writer[v] # a
      /\ b > 2 /\ \A v \in Watcher : origin[v] # b /\ reader[v] # b /\ writer[v] # b
  BY <1>2, <1>3, FreeIsNobodys
<1>5. /\ fd' \in [Fd -> Target] /\ fd'[a] = ReadEnd(w) /\ fd'[b] = WriteEnd(w)
      /\ \A m \in Fd \ {a, b} : fd'[m] = fd[m]
  <2>1. fd \in [Fd -> Target] /\ ReadEnd(w) \in Target /\ WriteEnd(w) \in Target
    BY DEF IInv, DescriptorsOK, Target
  <2>2. half \in [Fd -> Target]
    BY <1>1, <1>2, <2>1
  <2> QED
    BY <1>1, <1>2, <1>3, <2>1, <2>2
<1>6. fd'[0] = fd[0] /\ \A d \in Std : fd'[d] = fd[d]
  BY <1>4, <1>5, Numbers
<1>7. /\ owner'[w] = "redirect" /\ \A v \in Watcher \ {w} : owner'[v] = owner[v]
      /\ reader'[w] = a /\ \A v \in Watcher \ {w} : reader'[v] = reader[v]
      /\ writer'[w] = b /\ \A v \in Watcher \ {w} : writer'[v] = writer[v]
  BY <1>1 DEF IInv, DescriptorsOK
<1>8. \A v \in Watcher : On(v)' = On(v)
  BY <1>1 DEF On
<1>9. a \in Fd \ Std /\ a # NoHandle /\ b \in Fd \ Std /\ b # NoHandle
  BY <1>2, <1>4, Numbers
<1>10. reader[w] = NoHandle /\ writer[w] = NoHandle /\ origin[w] # NoHandle /\ ~On(w)
  BY <1>1 DEF IInv, StageInv
<1>11. DescriptorsOK'
  <2>1. {reader', writer'} \subseteq [Watcher -> Fd \ Std]
    BY <1>1, <1>9 DEF IInv, DescriptorsOK
  <2>2. \A v \in Watcher : /\ reader'[v] # NoHandle => fd'[reader'[v]] = ReadEnd(v)
                           /\ writer'[v] # NoHandle => fd'[writer'[v]] = WriteEnd(v)
    BY <1>4, <1>5, <1>7, Ends
  <2>3. owner' \in [Watcher -> {"rest", "restore", "close", "join", "keep", "pipe", "redirect", "spawn"}]
    BY <1>1 DEF IInv, DescriptorsOK
  <2>4. mode' \in [Watcher -> Std] /\ stack' \in [Std -> Seq(Watcher)]
    BY <1>1 DEF IInv, DescriptorsOK
  <2>5. {origin', reader', writer'} \subseteq [Watcher -> Fd \ Std]
    BY <1>1, <2>1 DEF IInv, DescriptorsOK
  <2>6. \A d \in Std : /\ IsInjective(stack'[d])
                       /\ \A v \in ToSet(stack'[d]) : mode'[v] = d /\ origin'[v] # NoHandle
    BY <1>1 DEF IInv, DescriptorsOK
  <2> QED
    BY <1>5, <2>2, <2>3, <2>4, <2>5, <2>6 DEF DescriptorsOK
<1>12. StageInv'
  BY <1>1, <1>7, <1>8, <1>9, <1>10 DEF IInv, StageInv
<1>13. DisciplineInv'
  <2>1. Engaged(w)
    BY <1>1 DEF Engaged
  <2> QED
    BY <1>1, <1>7, <1>8, <1>10, <2>1, DisciplineKept
<1>14. TableInv'
  <2>1. fd'[0] = Device(0) /\ \A d \in Std : fd'[d] = Addressee(d)'
    BY <1>1, <1>6 DEF IInv, TableInv, Addressee
  <2>2. ASSUME NEW m \in Fd, m > 2, fd'[m] # Free
        PROVE  \E v \in Watcher : m \in {origin'[v], reader'[v], writer'[v]}
    <3>1. CASE m \in {a, b}
      BY <1>7, <3>1
    <3>2. CASE m \notin {a, b}
      <4>1. PICK v \in Watcher : m \in {origin[v], reader[v], writer[v]}
        BY <1>5, <2>2, <3>2 DEF IInv, TableInv
      <4>2. v = w => m = origin[v]
        BY <1>10, <2>2, <4>1, Numbers
      <4> QED
        BY <1>1, <1>7, <4>1, <4>2
    <3> QED
      BY <3>1, <3>2
  <2>3. \A v, u \in Watcher : origin'[v] # NoHandle =>
            origin'[v] # writer'[u] /\ (v # u => origin'[v] # origin'[u])
    BY <1>1, <1>4, <1>7 DEF IInv, TableInv
  <2> QED
    BY <2>1, <2>2, <2>3 DEF TableInv
<1>15. ChainInv'
  <2>1. \A v \in Watcher : origin[v] # NoHandle => fd'[origin[v]] = fd[origin[v]]
    BY <1>4, <1>5, Kept
  <2>2. ASSUME NEW d \in Std, NEW i \in DOMAIN stack[d]
        PROVE  fd'[origin[stack[d][i]]] = fd[origin[stack[d][i]]]
    <3>1. stack[d][i] \in Watcher /\ origin[stack[d][i]] # NoHandle
      BY DEF IInv, DescriptorsOK, ToSet
    <3> QED
      BY <2>1, <3>1
  <2>3. \A v \in Watcher : fd'[mode[v]] = fd[mode[v]]
    BY <1>6 DEF IInv, DescriptorsOK
  <2>4. \A v \in Watcher : origin[v] # NoHandle /\ ~On(v) => fd'[origin[v]] = fd'[mode[v]]
    BY <2>1, <2>3 DEF IInv, ChainInv
  <2>5. \A d \in Std : \A i \in DOMAIN stack[d] : fd'[origin[stack[d][i]]] =
            IF i < Len(stack[d]) THEN WriteEnd(stack[d][i + 1]) ELSE Device(d)
    BY <2>2 DEF IInv, ChainInv
  <2>6. \A v \in Watcher : origin'[v] # NoHandle /\ ~On(v)' => fd'[origin'[v]] = fd'[mode'[v]]
    BY <1>1, <1>8, <2>4
  <2>7. \A d \in Std : \A i \in DOMAIN stack'[d] : fd'[origin'[stack'[d][i]]] =
            IF i < Len(stack'[d]) THEN WriteEnd(stack'[d][i + 1]) ELSE Device(d)
    BY <1>1, <2>5
  <2> QED
    BY <2>6, <2>7 DEF ChainInv
<1> QED
  BY <1>11, <1>12, <1>13, <1>14, <1>15 DEF IInv

(* A watcher that comes on has kept what the descriptor referred to. *)
LEMMA RedirectKeeps ==
  ASSUME IInv, NEW w \in Watcher, Redirect(w)
  PROVE  IInv' /\ On(w)' /\ \A v \in Watcher \ {w} : On(v)' = On(v)
<1> DEFINE d == mode[w]
           s == stack[d]
<1>1. /\ owner[w] = "redirect" /\ owner' = [owner EXCEPT ![w] = "spawn"]
      /\ fd' = [fd EXCEPT ![d] = fd[writer[w]]] /\ stack' = [stack EXCEPT ![d] = <<w>> \o s]
      /\ UNCHANGED <<mode, origin, reader, writer>>
  BY DEF Redirect, Goto, handles
<1>2. d \in Std /\ s \in Seq(Watcher) /\ d \in Fd /\ ~(d > 2) /\ d # 0
  BY Numbers DEF IInv, DescriptorsOK, Std
<1>3. origin[w] # NoHandle /\ writer[w] # NoHandle /\ ~On(w)
  BY <1>1 DEF IInv, StageInv
<1>4. fd[writer[w]] = WriteEnd(w) /\ fd[origin[w]] = fd[d] /\ fd[d] = Addressee(d)
  BY <1>2, <1>3, Ends DEF IInv, ChainInv, TableInv
<1>5. Engaged(w) /\ \A v \in Rivals(w) : ~Engaged(v)
  BY <1>1 DEF IInv, DisciplineInv, Engaged
<1>6. \A v \in Watcher : v # w /\ mode[v] = d /\ origin[v] # NoHandle => On(v)
  BY <1>5 DEF Rivals, Engaged
<1>7. /\ fd' \in [Fd -> Target] /\ fd'[d] = WriteEnd(w) /\ \A m \in Fd \ {d} : fd'[m] = fd[m]
  <2>1. fd \in [Fd -> Target] /\ WriteEnd(w) \in Target
    BY DEF IInv, DescriptorsOK, Target
  <2> QED
    BY <1>1, <1>2, <1>4, <2>1
<1>8. /\ stack' \in [Std -> Seq(Watcher)] /\ stack'[d] = <<w>> \o s
      /\ \A e \in Std \ {d} : stack'[e] = stack[e]
  <2>1. stack \in [Std -> Seq(Watcher)] /\ <<w>> \o s \in Seq(Watcher)
    BY <1>2, Pushed DEF IInv, DescriptorsOK
  <2> QED
    BY <1>1, <1>2, <2>1
<1>9. owner'[w] = "spawn" /\ \A v \in Watcher \ {w} : owner'[v] = owner[v]
  BY <1>1 DEF IInv, DescriptorsOK
<1> DEFINE new == <<w>> \o s
<1>10. /\ new \in Seq(Watcher) /\ Len(new) = Len(s) + 1 /\ new[1] = w /\ Head(new) = w /\ new # <<>>
       /\ \A i \in 1 .. Len(s) : new[i + 1] = s[i]
  BY <1>2, Pushed
<1>11. stack'[d] = new
  BY <1>8
<1> HIDE DEF new
<1>12. DOMAIN new = 1 .. Len(s) + 1 /\ DOMAIN s = 1 .. Len(s) /\ Len(s) \in Nat
  BY <1>2, <1>10
<1>13. \A i \in DOMAIN new : i = 1 \/ (i - 1 \in DOMAIN s /\ new[i] = s[i - 1] /\ new[i] # w)
  <2> SUFFICES ASSUME NEW i \in DOMAIN new, i # 1
               PROVE  i - 1 \in DOMAIN s /\ new[i] = s[i - 1] /\ new[i] # w
    OBVIOUS
  <2>1. i - 1 \in 1 .. Len(s) /\ (i - 1) + 1 = i
    BY <1>12
  <2>2. new[i] = s[i - 1]
    BY <1>10, <2>1
  <2>3. s[i - 1] # w
    BY <1>3, <1>12, <2>1 DEF On, ToSet
  <2> QED
    BY <1>12, <2>1, <2>2, <2>3
<1>14. ToSet(new) = ToSet(s) \cup {w}
  <2>1. \A v \in ToSet(new) : v \in ToSet(s) \cup {w}
    BY <1>10, <1>13 DEF ToSet
  <2>2. w \in ToSet(new)
    BY <1>10, <1>12 DEF ToSet
  <2>3. \A i \in DOMAIN s : i + 1 \in DOMAIN new /\ new[i + 1] = s[i]
    BY <1>10, <1>12
  <2>4. \A v \in ToSet(s) : v \in ToSet(new)
    BY <2>3 DEF ToSet
  <2> QED
    BY <2>1, <2>2, <2>4
<1>15. \A v \in Watcher \ {w} : On(v)' = On(v)
  <2> SUFFICES ASSUME NEW v \in Watcher \ {w} PROVE On(v)' = On(v)
    OBVIOUS
  <2>1. mode[v] \in Std /\ mode'[v] = mode[v]
    BY <1>1 DEF IInv, DescriptorsOK
  <2>2. CASE mode[v] = d
    BY <1>11, <1>14, <2>1, <2>2 DEF On
  <2>3. CASE mode[v] # d
    BY <1>8, <2>1, <2>3 DEF On
  <2> QED
    BY <2>2, <2>3
<1>16. On(w)'
  BY <1>1, <1>11, <1>14 DEF On
<1>17. DescriptorsOK'
  <2>1. \A v \in Watcher : /\ reader[v] # NoHandle => fd'[reader[v]] = ReadEnd(v)
                           /\ writer[v] # NoHandle => fd'[writer[v]] = WriteEnd(v)
    BY <1>2, <1>7, Ends
  <2>2. owner' \in [Watcher -> {"rest", "restore", "close", "join", "keep", "pipe", "redirect", "spawn"}]
    BY <1>1 DEF IInv, DescriptorsOK
  <2>3. IsInjective(new)
    <3>1. IsInjective(s)
      BY <1>2 DEF IInv, DescriptorsOK
    <3>2. ASSUME NEW i \in DOMAIN new, NEW j \in DOMAIN new, new[i] = new[j] PROVE i = j
      <4>1. i = 1 <=> new[i] = w
        BY <1>10, <1>13
      <4>2. j = 1 <=> new[j] = w
        BY <1>10, <1>13
      <4>3. CASE i # 1 /\ j # 1
        <5>1. i - 1 \in DOMAIN s /\ j - 1 \in DOMAIN s /\ s[i - 1] = s[j - 1]
          BY <1>13, <3>2, <4>3
        <5>2. i - 1 = j - 1
          BY <3>1, <5>1 DEF IsInjective
        <5> QED
          BY <1>12, <5>1, <5>2
      <4> QED
        BY <3>2, <4>1, <4>2, <4>3
    <3> QED
      BY <3>2 DEF IsInjective
  <2>4. \A v \in ToSet(new) : mode[v] = d /\ origin[v] # NoHandle
    BY <1>2, <1>3, <1>14 DEF IInv, DescriptorsOK
  <2>5. \A e \in Std : /\ IsInjective(stack'[e])
                       /\ \A v \in ToSet(stack'[e]) : mode[v] = e /\ origin[v] # NoHandle
    <3> SUFFICES ASSUME NEW e \in Std
                 PROVE  /\ IsInjective(stack'[e])
                        /\ \A v \in ToSet(stack'[e]) : mode[v] = e /\ origin[v] # NoHandle
      OBVIOUS
    <3>1. CASE e = d
      BY <1>11, <2>3, <2>4, <3>1
    <3>2. CASE e # d
      BY <1>8, <3>2 DEF IInv, DescriptorsOK
    <3> QED
      BY <3>1, <3>2
  <2>6. mode' \in [Watcher -> Std] /\ {origin', reader', writer'} \subseteq [Watcher -> Fd \ Std]
    BY <1>1 DEF IInv, DescriptorsOK
  <2> QED
    BY <1>1, <1>7, <1>8, <2>1, <2>2, <2>5, <2>6 DEF DescriptorsOK
<1>18. StageInv'
  <2>1. \A v \in Watcher \ {w} : On(v)' = On(v) /\ owner'[v] = owner[v]
    BY <1>9, <1>15
  <2> QED
    BY <1>1, <1>3, <1>9, <2>1 DEF IInv, StageInv
<1>19. DisciplineInv'
  <2>1. Head(stack'[mode[w]]) = w
    BY <1>10, <1>11
  <2> QED
    BY <1>1, <1>5, <1>8, <1>9, <1>15, <2>1, DisciplineKept
<1>20. TableInv'
  <2>1. Addressee(d)' = WriteEnd(w)
    <3>1. stack'[d] # <<>> /\ Head(stack'[d]) = w
      BY <1>10, <1>11
    <3> QED
      BY <1>1, <3>1 DEF Addressee
  <2>2. \A e \in Std : fd'[e] = IF stack'[e] = <<>> THEN Device(e) ELSE WriteEnd(Head(stack'[e]))
    <3> SUFFICES ASSUME NEW e \in Std
                 PROVE  fd'[e] = IF stack'[e] = <<>> THEN Device(e) ELSE WriteEnd(Head(stack'[e]))
      OBVIOUS
    <3>1. CASE e = d
      BY <1>7, <1>10, <1>11, <3>1
    <3>2. CASE e # d
      BY <1>7, <1>8, <3>2, Numbers DEF IInv, TableInv, Addressee
    <3> QED
      BY <3>1, <3>2
  <2>3. \A e \in Std : fd'[e] = Addressee(e)'
    BY <2>2 DEF Addressee
  <2>4. fd'[0] = Device(0)
    BY <1>2, <1>7, Numbers DEF IInv, TableInv
  <2>5. \A m \in Fd : m > 2 /\ fd'[m] # Free => \E v \in Watcher : m \in {origin[v], reader[v], writer[v]}
    BY <1>2, <1>7 DEF IInv, TableInv
  <2>6. \A v, u \in Watcher : origin[v] # NoHandle =>
            origin[v] # writer[u] /\ (v # u => origin[v] # origin[u])
    BY DEF IInv, TableInv
  <2> QED
    BY <1>1, <2>3, <2>4, <2>5, <2>6 DEF TableInv
<1>21. ChainInv'
  <2>1. \A v \in Watcher : origin[v] # NoHandle => fd'[origin[v]] = fd[origin[v]]
    BY <1>2, <1>7, Kept
  <2>2. ASSUME NEW e \in Std, NEW i \in DOMAIN stack'[e]
        PROVE  fd'[origin[stack'[e][i]]] =
                   IF i < Len(stack'[e]) THEN WriteEnd(stack'[e][i + 1]) ELSE Device(e)
    <3>1. CASE e # d
      <4>1. stack'[e] = stack[e] /\ stack[e][i] \in Watcher /\ origin[stack[e][i]] # NoHandle
        BY <1>8, <2>2, <3>1 DEF IInv, DescriptorsOK, ToSet
      <4> QED
        BY <2>1, <2>2, <4>1 DEF IInv, ChainInv
    <3>2. CASE e = d /\ i = 1
      <4>1. fd'[origin[new[1]]] = Addressee(d)
        BY <1>3, <1>4, <1>10, <2>1
      <4>2. CASE s = <<>>
        <5>1. Len(new) = 1
          BY <1>2, <1>10, <4>2
        <5> QED
          BY <1>10, <1>11, <3>2, <4>1, <4>2, <5>1 DEF Addressee
      <4>3. CASE s # <<>>
        <5>1. Len(s) >= 1 /\ Head(s) = s[1]
          BY <1>2, <4>3
        <5>2. 1 < Len(new) /\ new[1 + 1] = s[1]
          BY <1>10, <1>12, <5>1
        <5> QED
          BY <1>11, <3>2, <4>1, <4>3, <5>1, <5>2 DEF Addressee
      <4> QED
        BY <4>2, <4>3
    <3>3. CASE e = d /\ i # 1
      <4> DEFINE j == i - 1
      <4>1. j \in DOMAIN s /\ new[i] = s[j]
        BY <1>11, <1>13, <2>2, <3>3
      <4>2. s[j] \in Watcher /\ origin[s[j]] # NoHandle
        BY <1>2, <4>1 DEF IInv, DescriptorsOK, ToSet
      <4>3. fd'[origin[s[j]]] = IF j < Len(s) THEN WriteEnd(s[j + 1]) ELSE Device(d)
        BY <1>2, <2>1, <4>1, <4>2 DEF IInv, ChainInv
      <4>4. (i < Len(new) <=> j < Len(s)) /\ j + 1 = i /\ (j < Len(s) => i \in 1 .. Len(s))
        BY <1>10, <1>11, <1>12, <2>2, <3>3
      <4> HIDE DEF j, s
      <4>5. j < Len(s) => new[i + 1] = s[j + 1]
        BY <1>10, <4>4
      <4> QED
        BY <1>11, <3>3, <4>1, <4>3, <4>4, <4>5
    <3> QED
      BY <3>1, <3>2, <3>3
  <2>3. \A v \in Watcher : origin[v] # NoHandle /\ ~On(v)' => fd'[origin[v]] = fd'[mode[v]]
    <3> SUFFICES ASSUME NEW v \in Watcher, origin[v] # NoHandle, ~On(v)'
                 PROVE  fd'[origin[v]] = fd'[mode[v]]
      OBVIOUS
    <3>1. v # w /\ ~On(v)
      BY <1>15, <1>16
    <3>2. mode[v] # d /\ mode[v] \in Fd
      BY <1>6, <3>1, Numbers DEF IInv, DescriptorsOK
    <3>3. fd[origin[v]] = fd[mode[v]]
      BY <3>1 DEF IInv, ChainInv
    <3> QED
      BY <1>7, <2>1, <3>2, <3>3
  <2>4. \A v \in Watcher : origin'[v] # NoHandle /\ ~On(v)' => fd'[origin'[v]] = fd'[mode'[v]]
    BY <1>1, <2>3
  <2>5. \A e \in Std : \A i \in DOMAIN stack'[e] : fd'[origin'[stack'[e][i]]] =
            IF i < Len(stack'[e]) THEN WriteEnd(stack'[e][i + 1]) ELSE Device(e)
    <3>1. origin' = origin
      BY <1>1
    <3> QED
      BY <2>2, <3>1
  <2> QED
    BY <2>4, <2>5 DEF ChainInv
<1> QED
  BY <1>15, <1>16, <1>17, <1>18, <1>19, <1>20, <1>21 DEF IInv

-----------------------------------------------------------------------------
(* The invariant.                                                          *)

(* The invariant holds when no watcher was started, ... *)
LEMMA InitHolds == Init => IInv
<1> SUFFICES ASSUME Init PROVE IInv
  OBVIOUS
<1> USE DEF Init
<1>1. \A w \in Watcher : mode[w] \in Std /\ stack[mode[w]] = <<>> /\ ~On(w)
  BY ModesAssumption DEF On, ToSet
<1>2. \A n \in Fd : n < 3 => n \in 0 .. 2
  BY DEF Fd
<1>3. fd \in [Fd -> Target] /\ \A n \in Fd : fd[n] = IF n < 3 THEN Device(n) ELSE Free
  BY <1>2 DEF Standard, Target
<1>4. DescriptorsOK
  <2>1. {origin, reader, writer} \subseteq [Watcher -> Fd \ Std]
    BY Numbers
  <2>2. \A d \in Std : stack[d] = <<>> /\ IsInjective(stack[d]) /\ ToSet(stack[d]) = {}
    BY DEF IsInjective, ToSet
  <2>3. mode \in [Watcher -> Std] /\ stack \in [Std -> Seq(Watcher)]
    BY ModesAssumption
  <2>4. \A w \in Watcher : reader[w] = NoHandle /\ writer[w] = NoHandle /\ owner[w] = "rest"
    OBVIOUS
  <2>5. owner \in [Watcher -> {"rest", "restore", "close", "join", "keep", "pipe", "redirect", "spawn"}]
    OBVIOUS
  <2> QED
    BY <1>3, <2>1, <2>2, <2>3, <2>4, <2>5 DEF DescriptorsOK
<1>5. StageInv
  BY DEF StageInv
<1>6. DisciplineInv
  BY DEF DisciplineInv, Engaged
<1>7. TableInv
  <2>1. fd[0] = Device(0) /\ \A d \in Std : fd[d] = Device(d) /\ stack[d] = <<>>
    BY <1>3, Numbers DEF Std
  <2>2. \A n \in Fd : n > 2 => fd[n] = Free
    BY <1>3, Numbers DEF Fd
  <2> QED
    BY <2>1, <2>2 DEF TableInv, Addressee
<1>8. ChainInv
  BY DEF ChainInv
<1> QED
  BY <1>4, <1>5, <1>6, <1>7, <1>8 DEF IInv

(* ... every step keeps it, ... *)
LEMMA NextKeeps == IInv /\ [Next]_vars => IInv'
<1> SUFFICES ASSUME IInv, [Next]_vars PROVE IInv'
  OBVIOUS
<1>1. CASE UNCHANGED vars
  BY <1>1, OthersKeep DEF vars, handles
<1>2. ASSUME NEW w \in Watcher, NEW again \in BOOLEAN, Call(w, again) PROVE IInv'
  BY <1>2, CallKeeps
<1>3. ASSUME NEW w \in Watcher, OwnerStep(w) \/ Throw(w) PROVE IInv'
  BY <1>3, RestoreKeeps, CloseWriterKeeps, JoinKeeps, KeepKeeps, MakePipeKeeps, RedirectKeeps, ThrowKeeps
     DEF OwnerStep
<1>4. ASSUME NEW w \in Watcher, WorkerStep(w) PROVE IInv'
  <2>1. UNCHANGED <<mode, fd, handles, owner, stack>>
    BY <1>4 DEF WorkerStep, ReadSome, Hand, End, EndWhen
  <2> QED
    BY <2>1, OthersKeep
<1>5. ASSUME NEW d \in Std, Write(d) PROVE IInv'
  <2>1. UNCHANGED <<mode, fd, handles, owner, stack>>
    BY <1>5 DEF Write
  <2> QED
    BY <2>1, OthersKeep
<1> QED
  BY <1>1, <1>2, <1>3, <1>4, <1>5 DEF Next

(* ... and so it always holds. *)
LEMMA Invariant == Spec => []IInv
<1>1. Init => IInv
  BY InitHolds
<1>2. IInv /\ [Next]_vars => IInv'
  BY NextKeeps
<1> QED
  BY <1>1, <1>2, PTL DEF Spec

(* When nobody is on, every call has returned and a failed start() was     *)
(* stopped, the descriptors of the process are what they were and no more: *)
(* whatever watchers there were, over one descriptor or two, in whatever   *)
(* order they were started and stopped, and wherever a start() failed.     *)
THEOREM DescriptorsRestored == Spec => []Restored
<1>1. IInv => Restored
  <2> SUFFICES ASSUME IInv, \A w \in Watcher : owner[w] = "rest" /\ origin[w] = NoHandle
               PROVE  fd = Standard
    BY DEF Restored
  <2>1. \A w \in Watcher : reader[w] = NoHandle /\ writer[w] = NoHandle
    BY DEF IInv, StageInv
  <2>2. \A n \in Fd : n > 2 => fd[n] = Free
    <3> SUFFICES ASSUME NEW n \in Fd, n > 2, fd[n] # Free PROVE FALSE
      OBVIOUS
    <3>1. \E w \in Watcher : n \in {origin[w], reader[w], writer[w]}
      BY DEF IInv, TableInv
    <3>2. n # NoHandle
      BY Numbers
    <3> QED
      BY <2>1, <3>1, <3>2
  <2>3. \A d \in Std : stack[d] = <<>>
    <3> SUFFICES ASSUME NEW d \in Std, stack[d] # <<>> PROVE FALSE
      OBVIOUS
    <3>1. stack[d] \in Seq(Watcher)
      BY DEF IInv, DescriptorsOK
    <3>2. stack[d][1] \in Watcher /\ stack[d][1] \in ToSet(stack[d])
      BY <3>1 DEF ToSet
    <3> QED
      BY <3>2 DEF IInv, DescriptorsOK
  <2>4. fd[0] = Device(0) /\ \A d \in Std : fd[d] = Device(d)
    BY <2>3 DEF IInv, TableInv, Addressee
  <2>5. \A n \in Fd : fd[n] = IF n < 3 THEN Device(n) ELSE Free
    BY <2>2, <2>4 DEF Fd, Std
  <2>6. fd \in [Fd -> Target]
    BY DEF IInv, DescriptorsOK
  <2> QED
    BY <2>5, <2>6 DEF Standard
<1>2. Spec => []IInv
  BY Invariant
<1> QED
  BY <1>1, <1>2, PTL
-----------------------------------------------------------------------------
(* What arrives.                                                           *)

(* Reading from a pipe does not change what was received, *)
LEMMA Taken ==
  ASSUME NEW d \in Seq(Nat), NEW p \in Seq(Nat), NEW n \in 0 .. Len(p)
  PROVE  /\ d \o SubSeq(p, 1, n) \o SubSeq(p, n + 1, Len(p)) = d \o <<>> \o p
         /\ SubSeq(p, 1, n) \in Seq(Nat) /\ Len(SubSeq(p, 1, n)) = n
         /\ SubSeq(p, n + 1, Len(p)) \in Seq(Nat) /\ Len(SubSeq(p, n + 1, Len(p))) = Len(p) - n
<1> DEFINE front == SubSeq(p, 1, n)
           back == SubSeq(p, n + 1, Len(p))
<1>1. front \in Seq(Nat) /\ Len(front) = n
  OBVIOUS
<1>2. back \in Seq(Nat) /\ Len(back) = Len(p) - n
  OBVIOUS
<1>3. front \o back = p
  <2>1. Len(p) \in Nat /\ n \in Int
    OBVIOUS
  <2>2. 1 \in 1 .. Len(p) + 1 /\ n \in 1 - 1 .. Len(p) /\ Len(p) \in n .. Len(p)
    BY <2>1
  <2> QED
    BY <2>2, ConcatAdjacentSubSeq, SubSeqFull
<1> HIDE DEF front, back
<1>4. d \o <<>> = d
  BY ConcatEmptySeq
<1>5. (d \o front) \o back = d \o (front \o back)
  <2>1. front \in Seq(Nat) /\ back \in Seq(Nat)
    BY <1>1, <1>2
  <2>2. \A s, t \in Seq(Nat) : (d \o s) \o t = d \o (s \o t)
    BY ConcatAssociative
  <2> QED
    BY <2>1, <2>2
<1>6. d \o front \o back = d \o <<>> \o p
  BY <1>3, <1>4, <1>5
<1> QED
  BY <1>1, <1>2, <1>6 DEF front, back

(* nor does handing on what was read, *)
LEMMA Handed ==
  ASSUME NEW S, NEW d \in Seq(S), NEW c \in Seq(S), NEW p \in Seq(S)
  PROVE  (d \o c) \o <<>> \o p = d \o c \o p
<1>1. d \o c \in Seq(S)
  BY ConcatProperties
<1> QED
  BY <1>1, ConcatEmptySeq

(* One byte more is one more for its addressee. *)
LEMMA OneMore ==
  ASSUME NEW got \in Seq(Nat), NEW t, NEW a,
         addressed \in Seq(Target), a \in Target, addressed' = Append(addressed, a),
         Exactly(got, t)
  PROVE  /\ a = t => (\A i, j \in DOMAIN Append(got, Len(addressed) + 1) :
                         i < j => Append(got, Len(addressed) + 1)[i] < Append(got, Len(addressed) + 1)[j])
                     /\ ToSet(Append(got, Len(addressed) + 1)) = {n \in DOMAIN addressed' : addressed'[n] = t}
         /\ a # t => ToSet(got) = {n \in DOMAIN addressed' : addressed'[n] = t}
<1> DEFINE m == Len(addressed) + 1
           more == Append(got, m)
<1>1. /\ m \in Nat /\ DOMAIN addressed = 1 .. m - 1 /\ DOMAIN addressed' = 1 .. m
      /\ addressed'[m] = a /\ \A n \in 1 .. m - 1 : addressed'[n] = addressed[n]
  OBVIOUS
<1>2. /\ more \in Seq(Nat) /\ DOMAIN more = 1 .. Len(got) + 1 /\ DOMAIN got = 1 .. Len(got)
      /\ Len(got) \in Nat
      /\ more[Len(got) + 1] = m /\ \A i \in 1 .. Len(got) : more[i] = got[i]
  BY <1>1
<1> HIDE DEF m, more
<1>3. \A i \in DOMAIN got : got[i] \in 1 .. m - 1
  BY <1>1 DEF Exactly, ToSet
<1>4. \A i, j \in DOMAIN more : i < j => more[i] < more[j]
  <2> SUFFICES ASSUME NEW i \in DOMAIN more, NEW j \in DOMAIN more, i < j PROVE more[i] < more[j]
    OBVIOUS
  <2>1. i \in DOMAIN got /\ more[i] = got[i]
    BY <1>2
  <2>2. CASE j = Len(got) + 1
    <3>1. more[j] = m /\ got[i] \in 1 .. m - 1
      BY <1>2, <1>3, <2>1, <2>2
    <3> QED
      BY <1>1, <2>1, <3>1
  <2>3. CASE j # Len(got) + 1
    <3>1. j \in DOMAIN got /\ more[j] = got[j]
      BY <1>2, <2>3
    <3> QED
      BY <2>1, <3>1 DEF Exactly
  <2> QED
    BY <2>2, <2>3
<1>5. ToSet(more) = ToSet(got) \cup {m}
  <2>1. \A i \in DOMAIN more : more[i] = m \/ (i \in DOMAIN got /\ more[i] = got[i])
    BY <1>2
  <2>2. \A i \in DOMAIN got : i \in DOMAIN more /\ more[i] = got[i]
    BY <1>2
  <2>3. m \in ToSet(more)
    <3>1. Len(got) + 1 \in DOMAIN more
      BY <1>2
    <3> QED
      BY <1>2, <3>1 DEF ToSet
  <2>4. \A x \in ToSet(more) : x \in ToSet(got) \cup {m}
    BY <2>1 DEF ToSet
  <2>5. \A x \in ToSet(got) : x \in ToSet(more)
    BY <2>2 DEF ToSet
  <2> QED
    BY <2>3, <2>4, <2>5
<1>6. ToSet(got) = {n \in 1 .. m - 1 : addressed[n] = t}
  BY <1>1 DEF Exactly
<1>7. a = t => {n \in DOMAIN addressed' : addressed'[n] = t} = ToSet(got) \cup {m}
  BY <1>1, <1>6
<1>8. a # t => {n \in DOMAIN addressed' : addressed'[n] = t} = ToSet(got)
  BY <1>1, <1>6
<1> QED
  BY <1>4, <1>5, <1>7, <1>8 DEF m, more

-----------------------------------------------------------------------------
(* The workers.                                                            *)

(* A watcher that keeps no descriptor is off, *)
LEMMA OffWithoutOrigin ==
  ASSUME IInv, NEW w \in Watcher, origin[w] = NoHandle
  PROVE  ~On(w)
BY DEF On, IInv, DescriptorsOK

(* and one that has a write end has it open. *)
LEMMA WriterOpen ==
  ASSUME IInv, NEW w \in Watcher, writer[w] # NoHandle
  PROVE  HasWriter(w)
BY Ends DEF HasWriter

(* Only MakePipe() opens a write end of a pipe that had none. *)
LEMMA NoNewWriter ==
  ASSUME IInv, NEW w \in Watcher, OwnerStep(w), NEW v \in Watcher,
         v # w \/ owner[w] # "pipe", HasWriter(v)'
  PROVE  HasWriter(v)
<1>1. PICK n \in Fd : fd'[n] = WriteEnd(v)
  BY DEF HasWriter
<1> SUFFICES \E m \in Fd : fd[m] = WriteEnd(v)
  BY DEF HasWriter
<1>2. fd \in [Fd -> Target] /\ mode[w] \in Fd /\ origin[w] \in Fd /\ writer[w] \in Fd /\ reader[w] \in Fd
  BY Numbers DEF IInv, DescriptorsOK
<1>3. WriteEnd(v) # Free /\ WriteEnd(v) # ReadEnd(w) /\ (v # w => WriteEnd(v) # WriteEnd(w))
  BY Targets
<1>4. CASE Restore(w)
  <2>1. fd' = IF origin[w] = NoHandle THEN fd
              ELSE [[fd EXCEPT ![mode[w]] = fd[origin[w]]] EXCEPT ![origin[w]] = Free]
    BY <1>4 DEF Restore, RestoreTo, Closed
  <2>2. fd'[n] = Free \/ fd'[n] = fd[origin[w]] \/ fd'[n] = fd[n]
    <3>1. CASE origin[w] = NoHandle
      BY <2>1, <3>1
    <3>2. CASE origin[w] # NoHandle
      <4> DEFINE put == [fd EXCEPT ![mode[w]] = fd[origin[w]]]
      <4>1. put \in [Fd -> Target] /\ (put[n] = fd[origin[w]] \/ put[n] = fd[n])
        BY <1>2
      <4>2. fd' = [put EXCEPT ![origin[w]] = Free]
        BY <2>1, <3>2
      <4> HIDE DEF put
      <4> QED
        BY <4>1, <4>2
    <3> QED
      BY <3>1, <3>2
  <2> QED
    BY <1>1, <1>2, <1>3, <2>2
<1>5. CASE CloseWriter(w) \/ Join(w)
  <2>1. fd'[n] = Free \/ fd'[n] = fd[n]
    BY <1>2, <1>5 DEF CloseWriter, CloseWriterIn, Join, JoinWhen, Closed
  <2> QED
    BY <1>1, <1>3, <2>1
<1>6. CASE Keep(w)
  <2>1. fd' = [fd EXCEPT ![Lowest(fd)] = fd[mode[w]]]
    BY <1>6 DEF Keep, Opened
  <2>2. fd'[n] = fd[mode[w]] \/ fd'[n] = fd[n]
    BY <1>2, <2>1
  <2> QED
    BY <1>1, <1>2, <2>2
<1>7. CASE MakePipe(w)
  <2> DEFINE half == Opened(fd, ReadEnd(w))
  <2>1. v # w
    BY <1>7 DEF MakePipe, MakePipeOf, Goto
  <2>2. half = [fd EXCEPT ![Lowest(fd)] = ReadEnd(w)] /\ fd' = [half EXCEPT ![Lowest(half)] = WriteEnd(w)]
    BY <1>7 DEF MakePipe, MakePipeOf, Opened
  <2> HIDE DEF half
  <2>3. half[n] = ReadEnd(w) \/ half[n] = fd[n]
    BY <1>2, <2>2
  <2>4. DOMAIN half = Fd
    BY <1>2, <2>2
  <2>5. fd'[n] = WriteEnd(w) \/ fd'[n] = half[n]
    BY <2>2, <2>4
  <2> QED
    BY <1>1, <1>3, <2>1, <2>3, <2>5
<1>8. CASE Redirect(w)
  <2>1. fd' = [fd EXCEPT ![mode[w]] = fd[writer[w]]]
    BY <1>8 DEF Redirect
  <2>2. fd'[n] = fd[writer[w]] \/ fd'[n] = fd[n]
    BY <1>2, <2>1
  <2> QED
    BY <1>1, <1>2, <2>2
<1>9. CASE Spawn(w)
  BY <1>1, <1>9 DEF Spawn, SpawnAs
<1> QED
  BY <1>4, <1>5, <1>6, <1>7, <1>8, <1>9 DEF OwnerStep

(* The others are not affected by what the owner of a watcher does. *)
LEMMA OthersWork ==
  ASSUME IInv, WorkerInv, NEW w \in Watcher, NEW v \in Watcher, v # w,
         owner'[v] = owner[v], worker'[v] = worker[v], writer'[v] = writer[v],
         pipe'[v] = pipe[v], chunk'[v] = chunk[v], On(v)' = On(v), HasWriter(v)' => HasWriter(v)
  PROVE  WorkerOK(v)'
BY DEF WorkerInv, WorkerOK

(* An owner's step but Join() leaves the bytes where they are. *)
LEMMA OwnerWorks ==
  ASSUME IInv, TypeOK, WorkerInv, NEW w \in Watcher,
         OwnerStep(w) \/ Throw(w) \/ \E again \in BOOLEAN : Call(w, again)
  PROVE  WorkerInv'
<1>1. \A v \in Watcher \ {w} : /\ owner'[v] = owner[v] /\ worker'[v] = worker[v]
                               /\ writer'[v] = writer[v] /\ pipe'[v] = pipe[v] /\ chunk'[v] = chunk[v]
  <2>1. owner' = [owner EXCEPT ![w] = owner'[w]] /\ worker' = [worker EXCEPT ![w] = worker'[w]]
    BY DEF TypeOK, DescriptorsOK, OwnerStep, Throw, Call, Restore, RestoreTo, CloseWriter, CloseWriterIn,
           Join, JoinWhen, Keep, MakePipe, MakePipeOf, Redirect, Spawn, SpawnAs, Goto
  <2>2. writer' = [writer EXCEPT ![w] = writer'[w]] /\ pipe' = [pipe EXCEPT ![w] = pipe'[w]] /\ chunk' = chunk
    BY DEF TypeOK, DescriptorsOK, OwnerStep, Throw, Call, Restore, RestoreTo, CloseWriter, CloseWriterIn,
           Join, JoinWhen, Keep, MakePipe, MakePipeOf, Redirect, Spawn, SpawnAs, handles
  <2> QED
    BY <2>1, <2>2 DEF TypeOK, DescriptorsOK
<1>2. \A v \in Watcher \ {w} : On(v)' = On(v)
  <2>1. CASE Restore(w)
    BY <2>1, RestoreKeeps
  <2>2. CASE Redirect(w)
    BY <2>2, RedirectKeeps
  <2>3. CASE ~Restore(w) /\ ~Redirect(w)
    <3>1. UNCHANGED <<mode, stack>>
      BY <2>3 DEF OwnerStep, Throw, Call, CloseWriter, CloseWriterIn, Join, JoinWhen, Keep, MakePipe,
                  MakePipeOf, Spawn, SpawnAs
    <3> QED
      BY <3>1 DEF On
  <2> QED
    BY <2>1, <2>2, <2>3
<1>3. \A v \in Watcher : (v # w \/ owner[w] # "pipe") /\ HasWriter(v)' => HasWriter(v)
  <2>1. CASE OwnerStep(w)
    BY <2>1, NoNewWriter
  <2>2. CASE ~OwnerStep(w)
    BY <2>2 DEF Throw, Call, HasWriter
  <2> QED
    BY <2>1, <2>2
<1>4. \A v \in Watcher \ {w} : WorkerOK(v)'
  BY <1>1, <1>2, <1>3, OthersWork
<1>5. WorkerOK(w)'
  <2>0. WorkerOK(w)
    BY DEF WorkerInv
  <2>1. ASSUME NEW again \in BOOLEAN, Call(w, again) PROVE WorkerOK(w)'
    <3>1. /\ owner[w] = "rest" /\ owner'[w] = "restore" /\ UNCHANGED <<writer, worker, pipe, chunk>>
          /\ On(w)' = On(w)
      BY <2>1 DEF Call, Goto, TypeOK, DescriptorsOK, handles, On
    <3> QED
      BY <1>3, <2>0, <3>1 DEF WorkerOK
  <2>2. CASE Restore(w)
    <3>1. owner[w] = "restore" /\ owner'[w] = "close" /\ UNCHANGED <<worker, pipe, chunk>>
      BY <2>2 DEF Restore, RestoreTo, Goto, TypeOK, DescriptorsOK
    <3>2. ~On(w)'
      BY <2>2, RestoreKeeps
    <3> QED
      BY <1>3, <2>0, <3>1, <3>2 DEF WorkerOK
  <2>3. CASE CloseWriter(w)
    <3>1. /\ owner[w] = "close" /\ owner'[w] = "join" /\ UNCHANGED <<worker, pipe, chunk>>
          /\ On(w)' = On(w)
      BY <2>3 DEF CloseWriter, CloseWriterIn, Goto, TypeOK, DescriptorsOK, On
    <3>2. ~On(w)
      BY <3>1, OffWithoutOrigin DEF IInv, StageInv
    <3> QED
      BY <1>3, <2>0, <3>1, <3>2 DEF WorkerOK
  <2>4. CASE Join(w)
    <3>1. /\ owner[w] = "join" /\ owner'[w] \in {"keep", "rest"} /\ worker'[w] = "none" /\ pipe'[w] = <<>>
          /\ worker[w] # "handling" /\ chunk' = chunk /\ On(w)' = On(w)
      BY <2>4 DEF Join, JoinWhen, Goto, TypeOK, DescriptorsOK, On
    <3>2. ~On(w)
      BY <3>1, OffWithoutOrigin DEF IInv, StageInv
    <3> QED
      BY <2>0, <3>1, <3>2 DEF WorkerOK
  <2>5. CASE Keep(w)
    <3>1. /\ owner[w] = "keep" /\ owner'[w] = "pipe" /\ UNCHANGED <<worker, pipe, chunk>>
          /\ On(w)' = On(w)
      BY <2>5 DEF Keep, Goto, TypeOK, DescriptorsOK, On
    <3>2. ~On(w)
      BY <3>1, OffWithoutOrigin DEF IInv, StageInv
    <3> QED
      BY <2>0, <3>1, <3>2 DEF WorkerOK
  <2>6. CASE MakePipe(w) \/ Throw(w)
    <3>1. /\ owner[w] \in {"pipe", "redirect"} /\ owner'[w] \in {"redirect", "rest"}
          /\ UNCHANGED <<worker, pipe, chunk>> /\ On(w)' = On(w)
      BY <2>6 DEF MakePipe, MakePipeOf, Throw, Goto, TypeOK, DescriptorsOK, On
    <3>2. ~On(w)
      BY <3>1 DEF IInv, StageInv
    <3> QED
      BY <2>0, <3>1, <3>2 DEF WorkerOK
  <2>7. CASE Redirect(w)
    <3>1. /\ owner[w] = "redirect" /\ owner'[w] = "spawn" /\ UNCHANGED <<writer, worker, pipe, chunk>>
      BY <2>7 DEF Redirect, Goto, TypeOK, DescriptorsOK, handles
    <3>2. On(w)' /\ writer[w] # NoHandle
      BY <2>7, <3>1, RedirectKeeps DEF IInv, StageInv
    <3> QED
      BY <2>0, <3>1, <3>2 DEF WorkerOK
  <2>8. CASE Spawn(w)
    <3>1. /\ owner[w] = "spawn" /\ owner'[w] = "rest" /\ worker'[w] = "reading"
          /\ UNCHANGED <<writer, pipe, chunk>> /\ On(w)' = On(w)
      BY <2>8 DEF Spawn, SpawnAs, Goto, TypeOK, DescriptorsOK, handles, On
    <3> QED
      BY <2>0, <3>1 DEF WorkerOK
  <2> QED
    BY <2>1, <2>2, <2>3, <2>4, <2>5, <2>6, <2>7, <2>8 DEF OwnerStep
<1> QED
  BY <1>4, <1>5 DEF WorkerInv

(* So does the end of a worker: nobody can write to its pipe any more. *)
LEMMA EndWorks ==
  ASSUME IInv, TypeOK, WorkerInv, NEW w \in Watcher, End(w)
  PROVE  WorkerInv'
<1>1. /\ worker[w] = "reading" /\ pipe[w] = <<>> /\ ~HasWriter(w)
      /\ worker'[w] = "ended" /\ \A v \in Watcher \ {w} : worker'[v] = worker[v]
      /\ UNCHANGED <<mode, fd, handles, owner, stack, pipe, chunk>>
  BY DEF End, EndWhen, TypeOK
<1>2. \A v \in Watcher : On(v)' = On(v) /\ HasWriter(v)' = HasWriter(v)
  BY <1>1 DEF On, HasWriter
<1>3. ~On(w)
  BY <1>1, WriterOpen DEF WorkerInv, WorkerOK
<1>4. WorkerOK(w)'
  BY <1>1, <1>2, <1>3 DEF WorkerInv, WorkerOK, handles
<1>5. \A v \in Watcher \ {w} : WorkerOK(v)'
  BY <1>1, <1>2, OthersWork DEF handles
<1> QED
  BY <1>4, <1>5 DEF WorkerInv

(* What a worker reads, and what it hands over, moves on. *)
LEMMA ReadWorks ==
  ASSUME IInv, TypeOK, WorkerInv, Conserved, NEW w \in Watcher, ReadSome(w) \/ Hand(w)
  PROVE  /\ WorkerInv' /\ Conserved'
         /\ {pipe', chunk', delivered'} \subseteq [Watcher -> Seq(Nat)]
         /\ worker' \in [Watcher -> {"none", "reading", "handling", "ended"}]
         /\ \A v \in Watcher : Len(pipe'[v]) <= Capacity /\ Len(chunk'[v]) <= Chunk
<1> DEFINE c == chunk[w]
           p == pipe[w]
<1>1. c \in Seq(Nat) /\ p \in Seq(Nat) /\ delivered[w] \in Seq(Nat) /\ Len(p) \in Nat /\ Len(c) \in Nat
  BY DEF TypeOK
<1>2. /\ UNCHANGED <<mode, fd, handles, owner, stack, device, addressed>>
      /\ worker[w] \in {"reading", "handling"} /\ worker' \in [Watcher -> {"none", "reading", "handling", "ended"}]
      /\ \A v \in Watcher \ {w} : /\ worker'[v] = worker[v] /\ pipe'[v] = pipe[v]
                                  /\ chunk'[v] = chunk[v] /\ delivered'[v] = delivered[v]
  BY DEF ReadSome, Hand, TypeOK
<1>3. /\ worker'[w] = "handling" \/ (worker'[w] = "reading" /\ chunk'[w] = <<>>)
      /\ {pipe', chunk', delivered'} \subseteq [Watcher -> Seq(Nat)]
      /\ Len(pipe'[w]) <= Len(p) /\ Len(chunk'[w]) <= Chunk
      /\ delivered'[w] \o chunk'[w] \o pipe'[w] = delivered[w] \o c \o p
  <2>1. CASE ReadSome(w)
    <3> DEFINE n == IF Len(p) < Chunk THEN Len(p) ELSE Chunk
    <3>1. n \in 0 .. Len(p) /\ n <= Chunk
      BY <1>1, BoundsAssumption
    <3>2. /\ chunk' = [chunk EXCEPT ![w] = SubSeq(p, 1, n)]
          /\ pipe' = [pipe EXCEPT ![w] = SubSeq(p, n + 1, Len(p))]
          /\ worker' = [worker EXCEPT ![w] = "handling"] /\ delivered' = delivered /\ c = <<>>
      BY <2>1 DEF ReadSome, WorkerInv, WorkerOK
    <3> HIDE DEF n
    <3>3. /\ SubSeq(p, 1, n) \in Seq(Nat) /\ Len(SubSeq(p, 1, n)) = n
          /\ SubSeq(p, n + 1, Len(p)) \in Seq(Nat) /\ Len(SubSeq(p, n + 1, Len(p))) = Len(p) - n
          /\ delivered[w] \o SubSeq(p, 1, n) \o SubSeq(p, n + 1, Len(p)) = delivered[w] \o <<>> \o p
      <4> HIDE DEF c, p
      <4> QED
        BY <1>1, <3>1, Taken
    <3>4. /\ chunk'[w] = SubSeq(p, 1, n) /\ pipe'[w] = SubSeq(p, n + 1, Len(p)) /\ worker'[w] = "handling"
      BY <3>2 DEF TypeOK
    <3>5. {pipe', chunk', delivered'} \subseteq [Watcher -> Seq(Nat)]
      BY <3>2, <3>3 DEF TypeOK
    <3>6. Len(pipe'[w]) <= Len(p) /\ Len(chunk'[w]) <= Chunk
      BY <1>1, <3>1, <3>3, <3>4
    <3>7. delivered'[w] \o chunk'[w] \o pipe'[w] = delivered[w] \o c \o p
      BY <3>2, <3>3, <3>4
    <3> QED
      BY <3>4, <3>5, <3>6, <3>7
  <2>2. CASE Hand(w)
    <3>1. /\ delivered' = [delivered EXCEPT ![w] = @ \o c] /\ chunk' = [chunk EXCEPT ![w] = <<>>]
          /\ worker' = [worker EXCEPT ![w] = "reading"] /\ pipe' = pipe
      BY <2>2 DEF Hand
    <3>2. delivered[w] \o c \in Seq(Nat) /\ <<>> \in Seq(Nat) /\ Len(<<>>) = 0
      BY <1>1
    <3>3. /\ delivered'[w] = delivered[w] \o c /\ chunk'[w] = <<>> /\ worker'[w] = "reading" /\ pipe'[w] = p
      BY <3>1 DEF TypeOK
    <3>4. {pipe', chunk', delivered'} \subseteq [Watcher -> Seq(Nat)]
      BY <3>1, <3>2 DEF TypeOK
    <3>5. Len(pipe'[w]) <= Len(p) /\ Len(chunk'[w]) <= Chunk
      BY <1>1, <3>2, <3>3, BoundsAssumption
    <3>7. (delivered[w] \o c) \o <<>> \o p = delivered[w] \o c \o p
      BY <1>1, Handed
    <3> QED
      BY <3>3, <3>4, <3>5, <3>7
  <2> QED
    BY <2>1, <2>2
<1>4. \A v \in Watcher : On(v)' = On(v) /\ HasWriter(v)' = HasWriter(v)
  BY <1>2 DEF On, HasWriter
<1>5. WorkerInv'
  <2>1. WorkerOK(w)'
    BY <1>2, <1>3, <1>4 DEF WorkerInv, WorkerOK, handles
  <2>2. \A v \in Watcher \ {w} : WorkerOK(v)'
    BY <1>2, <1>4, OthersWork DEF handles
  <2> QED
    BY <2>1, <2>2 DEF WorkerInv
<1>6. Conserved'
  <2>1. \A v \in Watcher : Received(v)' = Received(v)
    BY <1>2, <1>3 DEF Received
  <2>2. \A v \in Watcher : Exactly(Received(v), WriteEnd(v))'
    BY <1>2, <2>1 DEF Conserved, Exactly
  <2>3. \A d \in Std : Exactly(device[d], Device(d))'
    BY <1>2 DEF Conserved, Exactly
  <2> QED
    BY <2>2, <2>3 DEF Conserved
<1>7. \A v \in Watcher : Len(pipe'[v]) <= Capacity /\ Len(chunk'[v]) <= Chunk
  <2> SUFFICES ASSUME NEW v \in Watcher PROVE Len(pipe'[v]) <= Capacity /\ Len(chunk'[v]) <= Chunk
    OBVIOUS
  <2>1. CASE v = w
    <3>1. Len(p) <= Capacity /\ Len(pipe'[w]) \in Nat
      BY <1>3 DEF TypeOK
    <3> QED
      BY <1>1, <1>3, <2>1, <3>1, BoundsAssumption
  <2>2. CASE v # w
    BY <1>2, <2>2 DEF TypeOK
  <2> QED
    BY <2>1, <2>2
<1> QED
  BY <1>2, <1>3, <1>5, <1>6, <1>7

(* A byte that is written goes to its addressee. *)
LEMMA WriteWorks ==
  ASSUME IInv, TypeOK, WorkerInv, Conserved, NEW d \in Std, Write(d)
  PROVE  /\ WorkerInv' /\ Conserved'
         /\ {pipe', chunk', delivered'} \subseteq [Watcher -> Seq(Nat)]
         /\ device' \in [Std -> Seq(Nat)] /\ addressed' \in Seq(Target)
         /\ \A v \in Watcher : Len(pipe'[v]) <= Capacity
<1> DEFINE byte == Len(addressed) + 1
           a == Addressee(d)
<1>1. /\ UNCHANGED <<mode, fd, handles, owner, worker, chunk, stack, delivered>>
      /\ addressed' = Append(addressed, a)
  BY DEF Write
<1>2. /\ IF fd[d].kind = "write"
         THEN /\ Len(pipe[fd[d].of]) < Capacity
              /\ pipe' = [pipe EXCEPT ![fd[d].of] = Append(@, byte)]
              /\ device' = device
         ELSE /\ device' = [device EXCEPT ![d] = Append(@, byte)]
              /\ pipe' = pipe
  BY DEF Write
<1>3. fd[d] = a /\ a \in Target /\ addressed \in Seq(Target) /\ byte \in Nat
  BY Numbers DEF IInv, TableInv, DescriptorsOK, TypeOK
<1>4. addressed' \in Seq(Target)
  BY <1>1, <1>3
<1>5. \A v \in Watcher : On(v)' = On(v) /\ HasWriter(v)' = HasWriter(v)
  BY <1>1 DEF On, HasWriter
<1>6. \A v \in Watcher : Received(v) \in Seq(Nat) /\ Exactly(Received(v), WriteEnd(v))
  BY DEF TypeOK, Received, Conserved
<1>7. \A e \in Std : device[e] \in Seq(Nat) /\ Exactly(device[e], Device(e))
  BY DEF TypeOK, Conserved
<1> DEFINE For(t) == {n \in DOMAIN addressed' : addressed'[n] = t}
           Rising(got) == \A i, j \in DOMAIN got : i < j => got[i] < got[j]
<1>8. ASSUME NEW got \in Seq(Nat), NEW t, Exactly(got, t)
      PROVE  /\ a = t => Rising(Append(got, byte)) /\ ToSet(Append(got, byte)) = For(t)
             /\ a # t => Rising(got) /\ ToSet(got) = For(t)
  <2>1. Rising(got)
    BY <1>8 DEF Exactly
  <2> HIDE DEF a
  <2> QED
    BY <1>1, <1>3, <1>8, <2>1, OneMore
<1> HIDE DEF For, Rising
<1>9. CASE stack[d] = <<>>
  <2>1. a = Device(d) /\ a.kind # "write"
    BY <1>9 DEF Addressee, Device
  <2>2. device' = [device EXCEPT ![d] = Append(@, byte)] /\ pipe' = pipe
    BY <1>2, <1>3, <2>1
  <2>3. /\ device' \in [Std -> Seq(Nat)] /\ device'[d] = Append(device[d], byte)
        /\ \A e \in Std \ {d} : device'[e] = device[e]
    <3>1. Append(device[d], byte) \in Seq(Nat)
      BY <1>3, <1>7
    <3> HIDE DEF byte
    <3> QED
      BY <2>2, <3>1 DEF TypeOK
  <2>4. WorkerInv'
    BY <1>1, <1>5, <2>2 DEF WorkerInv, WorkerOK, handles
  <2>5. \A v \in Watcher : Exactly(Received(v), WriteEnd(v))'
    <3> SUFFICES ASSUME NEW v \in Watcher PROVE Exactly(Received(v), WriteEnd(v))'
      OBVIOUS
    <3>1. Received(v)' = Received(v)
      BY <1>1, <2>2 DEF Received
    <3>2. a # WriteEnd(v)
      BY <2>1, Targets DEF Std
    <3>3. Rising(Received(v)) /\ ToSet(Received(v)) = For(WriteEnd(v))
      BY <1>6, <1>8, <3>2
    <3> QED
      BY <3>1, <3>3 DEF Exactly, For, Rising
  <2>6. \A e \in Std : Exactly(device[e], Device(e))'
    <3> SUFFICES ASSUME NEW e \in Std PROVE Exactly(device[e], Device(e))'
      OBVIOUS
    <3>1. device[e] \in Seq(Nat) /\ Exactly(device[e], Device(e))
      BY <1>7
    <3>2. CASE e = d
      <4>1. Rising(Append(device[e], byte)) /\ ToSet(Append(device[e], byte)) = For(Device(e))
        BY <1>8, <2>1, <3>1, <3>2
      <4> HIDE DEF byte
      <4> QED
        BY <2>3, <3>2, <4>1 DEF Exactly, For, Rising
    <3>3. CASE e # d
      <4>1. a # Device(e)
        BY <2>1, <3>3 DEF Device
      <4>2. Rising(device[e]) /\ ToSet(device[e]) = For(Device(e))
        BY <1>8, <3>1, <4>1
      <4> QED
        BY <2>3, <3>3, <4>2 DEF Exactly, For, Rising
    <3> QED
      BY <3>2, <3>3
  <2>7. Conserved'
    BY <2>5, <2>6 DEF Conserved
  <2> QED
    BY <1>1, <1>4, <2>2, <2>3, <2>4, <2>7 DEF TypeOK
<1>10. CASE stack[d] # <<>>
  <2>1. PICK u \in Watcher : On(u) /\ u = Head(stack[d])
    <3>1. stack[d] \in Seq(Watcher) /\ stack[d][1] = Head(stack[d]) /\ 1 \in DOMAIN stack[d]
      BY <1>10 DEF IInv, DescriptorsOK
    <3>2. stack[d][1] \in Watcher /\ stack[d][1] \in ToSet(stack[d])
      BY <3>1 DEF ToSet
    <3> QED
      BY <3>1, <3>2 DEF On, IInv, DescriptorsOK
  <2>2. a = WriteEnd(u) /\ a.kind = "write" /\ a.of = u
    BY <1>10, <2>1 DEF Addressee, WriteEnd
  <2>3. Len(pipe[u]) < Capacity /\ pipe' = [pipe EXCEPT ![u] = Append(@, byte)] /\ device' = device
    BY <1>2, <1>3, <2>2
  <2>4. /\ pipe' \in [Watcher -> Seq(Nat)] /\ pipe'[u] = Append(pipe[u], byte)
        /\ \A v \in Watcher \ {u} : pipe'[v] = pipe[v]
    <3>1. Append(pipe[u], byte) \in Seq(Nat)
      BY <1>3, <2>1 DEF TypeOK
    <3> HIDE DEF byte
    <3> QED
      BY <2>1, <2>3, <3>1 DEF TypeOK
  <2>5. \A v \in Watcher : Len(pipe'[v]) <= Capacity
    <3>1. Len(pipe'[u]) = Len(pipe[u]) + 1 /\ Len(pipe[u]) \in Nat
      BY <1>3, <2>1, <2>4 DEF TypeOK
    <3>2. Len(pipe'[u]) <= Capacity
      BY <2>3, <3>1, BoundsAssumption
    <3> QED
      BY <2>4, <3>2 DEF TypeOK
  <2>6. WorkerInv'
    <3>1. WorkerOK(u)'
      BY <1>1, <1>5, <2>1 DEF WorkerInv, WorkerOK, handles
    <3>2. \A v \in Watcher \ {u} : WorkerOK(v)'
      BY <1>1, <1>5, <2>1, <2>4, OthersWork DEF handles
    <3> QED
      BY <3>1, <3>2 DEF WorkerInv
  <2>7. \A v \in Watcher : Exactly(Received(v), WriteEnd(v))'
    <3> SUFFICES ASSUME NEW v \in Watcher PROVE Exactly(Received(v), WriteEnd(v))'
      OBVIOUS
    <3>1. CASE v = u
      <4>1. Received(v)' = Append(Received(v), byte)
        <5> DEFINE x == delivered[u]
                   y == chunk[u]
                   z == pipe[u]
        <5>1. x \in Seq(Nat) /\ y \in Seq(Nat) /\ z \in Seq(Nat) /\ byte \in Nat
          BY <1>3, <2>1 DEF TypeOK
        <5> HIDE DEF byte, x, y, z
        <5>2. x \o y \o Append(z, byte) = Append(x \o y \o z, byte)
          BY <5>1
        <5> QED
          BY <1>1, <2>4, <3>1, <5>2 DEF Received, x, y, z
      <4>2. Rising(Append(Received(v), byte)) /\ ToSet(Append(Received(v), byte)) = For(WriteEnd(v))
        BY <1>6, <1>8, <2>2, <3>1
      <4> HIDE DEF byte
      <4> QED
        BY <4>1, <4>2 DEF Exactly, For, Rising
    <3>2. CASE v # u
      <4>1. Received(v)' = Received(v)
        BY <1>1, <2>4, <3>2 DEF Received
      <4>2. a # WriteEnd(v)
        BY <2>1, <2>2, <3>2, Targets
      <4>3. Rising(Received(v)) /\ ToSet(Received(v)) = For(WriteEnd(v))
        BY <1>6, <1>8, <4>2
      <4> QED
        BY <4>1, <4>3 DEF Exactly, For, Rising
    <3> QED
      BY <3>1, <3>2
  <2>8. \A e \in Std : Exactly(device[e], Device(e))'
    <3> SUFFICES ASSUME NEW e \in Std PROVE Exactly(device[e], Device(e))'
      OBVIOUS
    <3>1. a # Device(e)
      BY <2>1, <2>2, Targets DEF Std
    <3>2. device[e] \in Seq(Nat) /\ Exactly(device[e], Device(e))
      BY <1>7
    <3>3. Rising(device[e]) /\ ToSet(device[e]) = For(Device(e))
      BY <1>8, <3>1, <3>2
    <3> QED
      BY <2>3, <3>3 DEF Exactly, For, Rising
  <2>9. Conserved'
    BY <2>7, <2>8 DEF Conserved
  <2> QED
    BY <1>1, <1>4, <2>3, <2>4, <2>5, <2>6, <2>9 DEF TypeOK
<1> QED
  BY <1>9, <1>10

(* The owners leave the bytes where they are; the pipe that goes when the  *)
(* worker has ended is empty.                                              *)
LEMMA OwnerLeaves ==
  ASSUME IInv, TypeOK, WorkerInv, Conserved, NEW w \in Watcher,
         OwnerStep(w) \/ Throw(w) \/ (\E again \in BOOLEAN : Call(w, again)) \/ End(w)
  PROVE  /\ Conserved'
         /\ {pipe', chunk', delivered'} \subseteq [Watcher -> Seq(Nat)]
         /\ device' \in [Std -> Seq(Nat)] /\ addressed' \in Seq(Target)
         /\ worker' \in [Watcher -> {"none", "reading", "handling", "ended"}]
         /\ \A v \in Watcher : Len(pipe'[v]) <= Capacity /\ Len(chunk'[v]) <= Chunk
<1>1. UNCHANGED <<chunk, delivered, device, addressed>>
  BY DEF OwnerStep, Throw, Call, Restore, RestoreTo, CloseWriter, CloseWriterIn, Join, JoinWhen, Keep,
         MakePipe, MakePipeOf, Redirect, Spawn, SpawnAs, End, EndWhen
<1>2. pipe' = pipe \/ (Join(w) /\ pipe' = [pipe EXCEPT ![w] = <<>>])
  BY DEF OwnerStep, Throw, Call, Restore, RestoreTo, CloseWriter, CloseWriterIn, Join, JoinWhen, Keep,
         MakePipe, MakePipeOf, Redirect, Spawn, SpawnAs, End, EndWhen
<1>3. Join(w) => pipe[w] = <<>>
  BY DEF Join, JoinWhen, Goto, WorkerInv, WorkerOK
<1>4. pipe' = pipe
  BY <1>2, <1>3 DEF TypeOK
<1>5. worker' \in [Watcher -> {"none", "reading", "handling", "ended"}]
  BY DEF OwnerStep, Throw, Call, Restore, RestoreTo, CloseWriter, CloseWriterIn, Join, JoinWhen, Keep,
         MakePipe, MakePipeOf, Redirect, Spawn, SpawnAs, End, EndWhen, TypeOK
<1>6. \A v \in Watcher : Received(v)' = Received(v)
  BY <1>1, <1>4 DEF Received
<1>7. Conserved'
  <2>1. \A v \in Watcher : Exactly(Received(v), WriteEnd(v))'
    BY <1>1, <1>6 DEF Conserved, Exactly
  <2>2. \A d \in Std : Exactly(device[d], Device(d))'
    BY <1>1 DEF Conserved, Exactly
  <2> QED
    BY <2>1, <2>2 DEF Conserved
<1> QED
  BY <1>1, <1>4, <1>5, <1>7 DEF TypeOK

(* Nothing has been written at first, ... *)
LEMMA BytesInit == Init => BytesInv
<1> SUFFICES ASSUME Init PROVE BytesInv
  OBVIOUS
<1>1. IInv
  BY InitHolds
<1>2. TypeOK
  <2>1. /\ {pipe, chunk, delivered} \subseteq [Watcher -> Seq(Nat)] /\ device \in [Std -> Seq(Nat)]
        /\ addressed \in Seq(Target)
        /\ worker \in [Watcher -> {"none", "reading", "handling", "ended"}]
    BY DEF Init
  <2>2. \A w \in Watcher : Len(pipe[w]) = 0 /\ Len(chunk[w]) = 0
    BY DEF Init
  <2> QED
    BY <1>1, <2>1, <2>2, BoundsAssumption DEF TypeOK, IInv
<1>3. WorkerInv
  <2>1. \A w \in Watcher : ~On(w)
    BY <1>1, OffWithoutOrigin DEF Init
  <2> QED
    BY <2>1 DEF WorkerInv, WorkerOK, Init
<1>4. Conserved
  <2>1. addressed = <<>> /\ DOMAIN addressed = {}
    BY DEF Init
  <2>2. \A t : Exactly(<<>>, t)
    BY <2>1 DEF Exactly, ToSet
  <2>3. \A w \in Watcher : Received(w) = <<>>
    BY DEF Received, Init
  <2>4. \A d \in Std : device[d] = <<>>
    BY DEF Init
  <2> QED
    BY <2>2, <2>3, <2>4 DEF Conserved
<1> QED
  BY <1>1, <1>2, <1>3, <1>4 DEF BytesInv

(* ... and no step loses a byte. *)
LEMMA BytesNext == BytesInv /\ [Next]_vars => BytesInv'
<1> SUFFICES ASSUME BytesInv, [Next]_vars PROVE BytesInv'
  OBVIOUS
<1> USE DEF BytesInv
<1>1. IInv'
  BY NextKeeps
<1>2. DescriptorsOK'
  BY <1>1 DEF IInv
<1>3. CASE UNCHANGED vars
  <2>1. TypeOK'
    BY <1>2, <1>3 DEF TypeOK, vars
  <2>2. WorkerInv'
    BY <1>3 DEF WorkerInv, WorkerOK, On, HasWriter, vars, handles
  <2>3. Conserved'
    BY <1>3 DEF Conserved, Received, Exactly, vars
  <2> QED
    BY <1>1, <2>1, <2>2, <2>3
<1>4. ASSUME NEW w \in Watcher, OwnerStep(w) \/ Throw(w) \/ \E again \in BOOLEAN : Call(w, again)
      PROVE  BytesInv'
  <2>1. TypeOK' /\ Conserved'
    BY <1>2, <1>4, OwnerLeaves DEF TypeOK
  <2>2. WorkerInv'
    BY <1>4, OwnerWorks
  <2> QED
    BY <1>1, <2>1, <2>2
<1>5. ASSUME NEW w \in Watcher, End(w) PROVE BytesInv'
  <2>1. TypeOK' /\ Conserved'
    BY <1>2, <1>5, OwnerLeaves DEF TypeOK
  <2>2. WorkerInv'
    BY <1>5, EndWorks
  <2> QED
    BY <1>1, <2>1, <2>2
<1>6. ASSUME NEW w \in Watcher, ReadSome(w) \/ Hand(w) PROVE BytesInv'
  <2>1. UNCHANGED <<device, addressed>>
    BY <1>6 DEF ReadSome, Hand
  <2>2. TypeOK' /\ WorkerInv' /\ Conserved'
    BY <1>2, <1>6, <2>1, ReadWorks DEF TypeOK
  <2> QED
    BY <1>1, <2>2
<1>7. ASSUME NEW d \in Std, Write(d) PROVE BytesInv'
  <2>1. UNCHANGED <<worker, chunk>>
    BY <1>7 DEF Write
  <2>2. TypeOK' /\ WorkerInv' /\ Conserved'
    BY <1>2, <1>7, <2>1, WriteWorks DEF TypeOK
  <2> QED
    BY <1>1, <2>2
<1> QED
  BY <1>3, <1>4, <1>5, <1>6, <1>7 DEF Next, WorkerStep

(* Whatever is written to a standard descriptor reaches the watcher that   *)
(* was on when it was written, or the device, once and in order, through   *)
(* any sequence of starts, stops and failed starts; and a watcher that is  *)
(* off has handed over all of its bytes by the time that stop() returns.   *)
THEOREM NoByteLost == Spec => []NothingLost
<1>1. Init => BytesInv
  BY BytesInit
<1>2. BytesInv /\ [Next]_vars => BytesInv'
  BY BytesNext
<1>3. BytesInv => NothingLost
  <2> SUFFICES ASSUME BytesInv, NEW w \in Watcher, owner[w] = "rest", ~On(w)
               PROVE  Exactly(delivered[w], WriteEnd(w))
    BY DEF BytesInv, NothingLost, StopDelivers
  <2>1. pipe[w] = <<>> /\ chunk[w] = <<>> /\ delivered[w] \in Seq(Nat)
    BY DEF BytesInv, WorkerInv, WorkerOK, TypeOK
  <2>2. Received(w) = delivered[w]
    BY <2>1 DEF Received
  <2> QED
    BY <2>2 DEF BytesInv, Conserved
<1> QED
  BY <1>1, <1>2, <1>3, PTL DEF Spec
===============================================================================
