------------------------ MODULE DelegateParserProofs ------------------------
(***************************************************************************)
(* Theorems about the two components a program hands its functions and its *)
(* options to.                                                             *)
(*                                                                         *)
(* Delegate, for any invoking threads, any callables and any number of     *)
(* listeners: who an invocation calls, in which order, and who it never    *)
(* calls, while the owner goes on changing the list.                       *)
(*                                                                         *)
(* ArgParser, for any options, any parts of values and any arguments: what *)
(* parse() answers, and the value every option then has.                   *)
(***************************************************************************)
EXTENDS Delegate, ArgParser, WellFoundedInduction, TLAPS

-----------------------------------------------------------------------------
(* Lists.                                                                  *)

(* What a list without its k-th element is. *)
LEMMA Removed ==
  ASSUME NEW S, NEW list \in Seq(S), NEW k \in DOMAIN list
  PROVE  LET shorter == RemoveAt(list, k)
         IN  /\ shorter \in Seq(S)
             /\ Len(shorter) = Len(list) - 1
             /\ \A j \in DOMAIN shorter : shorter[j] = IF j < k THEN list[j] ELSE list[j + 1]
<1> DEFINE front == SubSeq(list, 1, k - 1)
           back == SubSeq(list, k + 1, Len(list))
<1>1. k \in 1 .. Len(list) /\ Len(list) \in Nat
  OBVIOUS
<1>2. front \in Seq(S) /\ Len(front) = k - 1 /\ \A j \in 1 .. k - 1 : front[j] = list[j]
  BY <1>1
<1>3. /\ back \in Seq(S) /\ Len(back) = Len(list) - k
      /\ \A j \in 1 .. Len(list) - k : back[j] = list[k + j]
  BY <1>1
<1> HIDE DEF front, back
<1> DEFINE joined == front \o back
<1>4. /\ joined \in Seq(S) /\ Len(joined) = Len(front) + Len(back)
      /\ DOMAIN joined = 1 .. Len(front) + Len(back)
      /\ \A j \in 1 .. Len(front) : joined[j] = front[j]
      /\ \A j \in 1 .. Len(back) : joined[Len(front) + j] = back[j]
  <2>1. front \in Seq(S) /\ back \in Seq(S)
    BY <1>2, <1>3
  <2> QED
    BY <2>1
<1>5. RemoveAt(list, k) = joined
  BY DEF RemoveAt, front, back
<1> HIDE DEF joined
<1>6. Len(front) + Len(back) = Len(list) - 1
  BY <1>1, <1>2, <1>3
<1>7. ASSUME NEW j \in 1 .. Len(list) - 1
      PROVE  joined[j] = IF j < k THEN list[j] ELSE list[j + 1]
  <2>1. CASE j < k
    BY <1>1, <1>2, <1>4, <2>1
  <2>2. CASE ~(j < k)
    <3> DEFINE i == j - (k - 1)
    <3>1. i \in 1 .. Len(back) /\ Len(front) + i = j /\ k + i = j + 1
      BY <1>1, <1>2, <1>3, <2>2
    <3> HIDE DEF i
    <3>2. joined[Len(front) + i] = list[k + i]
      BY <1>3, <1>4, <3>1
    <3> QED
      BY <2>2, <3>1, <3>2
  <2> QED
    BY <2>1, <2>2
<1> QED
  BY <1>4, <1>5, <1>6, <1>7

(* Without(list, i) keeps the order and forgets i, which only one listener has. *)
LEMMA WithoutForgets ==
  ASSUME NEW list \in Seq(Listener), Increasing(list), NEW i \in Ids(list)
  PROVE  /\ Without(list, i) \in Seq(Listener)
         /\ Increasing(Without(list, i))
         /\ Ids(Without(list, i)) = Ids(list) \ {i}
<1> DEFINE k == CHOOSE k \in DOMAIN list : list[k].id = i
           shorter == RemoveAt(list, k)
<1>1. k \in DOMAIN list /\ list[k].id = i
  BY DEF Ids
<1> HIDE DEF k
<1>2. /\ shorter \in Seq(Listener) /\ Len(shorter) = Len(list) - 1
      /\ \A j \in DOMAIN shorter : shorter[j] = IF j < k THEN list[j] ELSE list[j + 1]
  BY <1>1, Removed
<1> HIDE DEF shorter
<1>3. Without(list, i) = shorter
  BY DEF Without, k, shorter
<1>4. /\ DOMAIN list = 1 .. Len(list) /\ DOMAIN shorter = 1 .. Len(list) - 1
      /\ Len(list) \in Nat /\ k \in 1 .. Len(list)
      /\ \A j \in DOMAIN list : list[j].id \in Nat
  <2>1. DOMAIN list = 1 .. Len(list) /\ Len(list) \in Nat
    OBVIOUS
  <2>2. DOMAIN shorter = 1 .. Len(list) - 1
    BY <1>2
  <2>3. \A j \in DOMAIN list : list[j] \in Listener
    OBVIOUS
  <2> QED
    BY <1>1, <2>1, <2>2, <2>3 DEF Listener, Id
<1>5. Increasing(shorter)
  <2> SUFFICES ASSUME NEW a \in DOMAIN shorter, NEW b \in DOMAIN shorter, a < b
               PROVE  shorter[a].id < shorter[b].id
    BY DEF Increasing
  <2> DEFINE from(j) == IF j < k THEN j ELSE j + 1
  <2>1. /\ from(a) \in DOMAIN list /\ shorter[a] = list[from(a)]
        /\ from(b) \in DOMAIN list /\ shorter[b] = list[from(b)]
        /\ from(a) < from(b)
    BY <1>2, <1>4
  <2> QED
    BY <2>1 DEF Increasing
<1>6. ASSUME NEW j \in DOMAIN shorter PROVE shorter[j].id \in Ids(list) \ {i}
  <2>1. CASE j < k
    <3>1. shorter[j] = list[j] /\ j \in DOMAIN list /\ list[j].id < list[k].id
      BY <1>2, <1>4, <2>1 DEF Increasing
    <3> QED
      BY <1>1, <1>4, <3>1 DEF Ids
  <2>2. CASE ~(j < k)
    <3>1. /\ shorter[j] = list[j + 1] /\ j + 1 \in DOMAIN list
          /\ k < j + 1
      BY <1>2, <1>4, <2>2
    <3>2. list[k].id < list[j + 1].id
      BY <1>1, <3>1 DEF Increasing
    <3> QED
      BY <1>1, <1>4, <3>1, <3>2 DEF Ids
  <2> QED
    BY <2>1, <2>2
<1>7. ASSUME NEW j \in DOMAIN list, list[j].id # i PROVE list[j].id \in Ids(shorter)
  <2>1. CASE j < k
    BY <1>2, <1>4, <2>1 DEF Ids
  <2>2. CASE j > k
    <3>1. j - 1 \in DOMAIN shorter /\ shorter[j - 1] = list[j]
      BY <1>2, <1>4, <2>2
    <3> QED
      BY <3>1 DEF Ids
  <2> QED
    BY <1>1, <1>4, <1>7, <2>1, <2>2
<1> QED
  BY <1>2, <1>3, <1>5, <1>6, <1>7, SMTT(30) DEF Ids

(* A list with newer listeners at its end. *)
LEMMA Extended ==
  ASSUME NEW list \in Seq(Listener), Increasing(list),
         NEW n \in Nat, Ids(list) \subseteq 1 .. n,
         NEW tail \in Seq(Listener), \A k \in DOMAIN tail : tail[k].id = n + k
  PROVE  /\ list \o tail \in Seq(Listener)
         /\ Increasing(list \o tail)
         /\ Ids(list \o tail) = Ids(list) \cup (n + 1 .. n + Len(tail))
<1> DEFINE longer == list \o tail
<1>1. /\ Len(list) \in Nat /\ DOMAIN list = 1 .. Len(list)
      /\ Len(tail) \in Nat /\ DOMAIN tail = 1 .. Len(tail)
  OBVIOUS
<1>2. /\ longer \in Seq(Listener) /\ DOMAIN longer = 1 .. Len(list) + Len(tail)
      /\ \A j \in 1 .. Len(list) : longer[j] = list[j]
      /\ \A k \in 1 .. Len(tail) : longer[Len(list) + k] = tail[k]
      /\ \A j \in 1 .. Len(list) + Len(tail) : j > Len(list) => longer[j] = tail[j - Len(list)]
  OBVIOUS
<1> HIDE DEF longer
<1>3. \A j \in DOMAIN list : list[j].id \in 1 .. n
  BY DEF Ids
<1>4. \A j \in DOMAIN longer : longer[j].id = IF j <= Len(list) THEN list[j].id ELSE n + (j - Len(list))
  <2> TAKE j \in DOMAIN longer
  <2>1. CASE j <= Len(list)
    BY <1>1, <1>2, <2>1
  <2>2. CASE ~(j <= Len(list))
    <3>1. j - Len(list) \in DOMAIN tail /\ longer[j] = tail[j - Len(list)]
      BY <1>1, <1>2, <2>2
    <3> QED
      BY <3>1, <2>2
  <2> QED
    BY <2>1, <2>2
<1>5. Increasing(longer)
  BY <1>1, <1>2, <1>3, <1>4 DEF Increasing
<1>6. Ids(longer) \subseteq Ids(list) \cup (n + 1 .. n + Len(tail))
  BY <1>1, <1>2, <1>4 DEF Ids
<1>7. Ids(list) \subseteq Ids(longer)
  BY <1>1, <1>2 DEF Ids
<1>8. ASSUME NEW i \in n + 1 .. n + Len(tail) PROVE i \in Ids(longer)
  <2> DEFINE k == i - n
  <2>1. k \in 1 .. Len(tail) /\ n + k = i /\ Len(list) + k \in 1 .. Len(list) + Len(tail)
    BY <1>1
  <2> HIDE DEF k
  <2>2. longer[Len(list) + k].id = i
    BY <1>1, <1>2, <2>1
  <2> QED
    BY <1>2, <2>1, <2>2 DEF Ids
<1> QED
  BY <1>2, <1>5, <1>6, <1>7, <1>8 DEF longer

-----------------------------------------------------------------------------
(* The owner's steps: the invocations go on with what they have.           *)

LEMMA ReaderUndisturbed ==
  ASSUME WalkInv, UNCHANGED <<invocation, history>> PROVE WalkInv'
BY DEF WalkInv, Walk, invocation, history, Increasing, Ids

LEMMA AddKeeps ==
  ASSUME IInv, NEW functions \in Seq(Function), NEW token \in BOOLEAN, Add(functions, token)
  PROVE  IInv'
<1> USE DEF IInv, TypeOK
<1> DEFINE ids == counter + 1 .. counter + Len(functions)
<1>1. Len(functions) \in Nat /\ counter \in Nat /\ ids \subseteq Id
  BY BoundAssumption DEF Add, Id
<1>2. /\ listeners' \in Seq(Listener)
      /\ Increasing(listeners')
      /\ Ids(listeners') = Ids(listeners) \cup ids
  <2>1. Ids(listeners) \subseteq 1 .. counter
    BY DEF ListInv
  <2> DEFINE tail == [k \in 1 .. Len(functions) |-> [id |-> counter + k, function |-> functions[k]]]
  <2>2. tail \in Seq(Listener) /\ Len(tail) = Len(functions) /\ \A k \in DOMAIN tail : tail[k].id = counter + k
    <3>1. \A k \in 1 .. Len(functions) : [id |-> counter + k, function |-> functions[k]] \in Listener
      BY <1>1, BoundAssumption DEF Add, Listener, Id
    <3> QED
      BY <1>1, <3>1
  <2>3. Increasing(listeners) /\ listeners' = listeners \o tail
    BY DEF Add, ListInv
  <2> HIDE DEF tail
  <2>4. /\ listeners \o tail \in Seq(Listener)
        /\ Increasing(listeners \o tail)
        /\ Ids(listeners \o tail) = Ids(listeners) \cup (counter + 1 .. counter + Len(tail))
    <3>1. listeners \in Seq(Listener) /\ counter \in Nat
      OBVIOUS
    <3> HIDE DEF IInv, TypeOK
    <3> QED
      BY <2>1, <2>2, <2>3, <3>1, Extended, Zenon
  <2> QED
    BY <2>2, <2>3, <2>4
<1>3. /\ pending' = ids /\ dropping' = None /\ counter' = counter + Len(functions)
      /\ tokens' \subseteq tokens \cup ids /\ UNCHANGED <<subscribed, removed>>
  BY DEF Add, Quiet
<1>4. TypeOK'
  BY <1>1, <1>2, <1>3 DEF Add, invocation, history
<1>5. ListInv'
  <2>1. /\ Ids(listeners') \cup removed' \cup tokens' \cup ({dropping'} \ {None}) \subseteq 1 .. counter'
        /\ pending' \cup subscribed' \subseteq Ids(listeners')
    BY <1>1, <1>2, <1>3 DEF ListInv
  <2>2. (removed' \cup {dropping'}) \cap Ids(listeners') = {}
    <3>1. removed \cap ids = {} /\ None \notin ids
      BY <1>1, NoneAssumption DEF ListInv
    <3>2. dropping = None
      BY DEF Add, Quiet
    <3> QED
      BY <1>2, <1>3, <3>1, <3>2 DEF ListInv
  <2> QED
    BY <1>2, <2>1, <2>2 DEF ListInv, Increasing, Ids
<1>6. ArrayInv'
  BY DEF Add, ArrayInv, Increasing, Ids
<1> QED
  BY <1>4, <1>5, <1>6, ReaderUndisturbed DEF Add

LEMMA DropTokenKeeps == ASSUME IInv, DropToken PROVE IInv'
<1> USE DEF IInv, TypeOK
<1> PICK i \in tokens :
      /\ Quiet
      /\ tokens' = tokens \ {i}
      /\ IF alive /\ i \in Ids(listeners)
           THEN /\ listeners' = Without(listeners, i)
                /\ dropping' = i
                /\ subscribed' = subscribed \ {i}
           ELSE UNCHANGED <<listeners, dropping, subscribed>>
      /\ UNCHANGED <<readable, counter, alive, pending, invocation, removed, history>>
  BY DEF DropToken
<1>1. CASE alive /\ i \in Ids(listeners)
  <2>1. /\ listeners' \in Seq(Listener)
        /\ Increasing(listeners')
        /\ Ids(listeners') = Ids(listeners) \ {i}
    BY <1>1, WithoutForgets DEF ListInv
  <2>2. TypeOK'
    BY <1>1, <2>1 DEF invocation, history
  <2>3. ListInv'
    <3>1. pending = {} /\ pending' = {} /\ dropping' = i /\ subscribed' = subscribed \ {i}
      BY <1>1 DEF Quiet
    <3>2. /\ Ids(listeners') \cup removed' \cup tokens' \cup ({dropping'} \ {None}) \subseteq 1 .. counter'
          /\ pending' \cup subscribed' \subseteq Ids(listeners')
          /\ (removed' \cup {dropping'}) \cap Ids(listeners') = {}
      BY <2>1, <3>1 DEF ListInv
    <3> QED
      BY <2>1, <3>2 DEF ListInv, Increasing, Ids
  <2>4. ArrayInv'
    BY <1>1 DEF ArrayInv, Increasing, Ids
  <2> QED
    BY <2>2, <2>3, <2>4, ReaderUndisturbed
<1>2. CASE ~(alive /\ i \in Ids(listeners))
  <2>1. TypeOK'
    BY <1>2 DEF invocation, history
  <2>2. ListInv' /\ ArrayInv'
    BY <1>2 DEF ListInv, ArrayInv
  <2> QED
    BY <2>1, <2>2, ReaderUndisturbed
<1> QED
  BY <1>1, <1>2

LEMMA PublishKeeps == ASSUME IInv, Publish PROVE IInv'
<1> USE DEF IInv, TypeOK, Publish, PublishAs
<1>1. TypeOK'
  BY DEF invocation, history
<1>2. ListInv' /\ ArrayInv'
  <2>1. /\ Increasing(readable') /\ Increasing(listeners')
        /\ Ids(readable') = Ids(listeners) /\ Ids(listeners') = Ids(listeners)
    BY DEF ListInv, Increasing, Ids
  <2>2. /\ pending' = {} /\ dropping' = None /\ counter' = counter /\ tokens' = tokens
        /\ subscribed' = subscribed \cup pending
        /\ removed' \subseteq removed \cup ({dropping} \ {None})
    OBVIOUS
  <2>3. None \notin Ids(listeners)
    BY NoneAssumption DEF ListInv
  <2>4. /\ Ids(listeners') \cup removed' \cup tokens' \cup ({dropping'} \ {None}) \subseteq 1 .. counter'
        /\ pending' \cup subscribed' \subseteq Ids(listeners')
        /\ (removed' \cup {dropping'}) \cap Ids(listeners') = {}
    BY <2>1, <2>2, <2>3 DEF ListInv
  <2> QED
    BY <2>1, <2>4 DEF ListInv, ArrayInv, Increasing, Ids
<1> QED
  BY <1>1, <1>2, ReaderUndisturbed

LEMMA PublishThrowsKeeps == ASSUME IInv, PublishThrows PROVE IInv'
<1>1. TypeOK'
  BY DEF IInv, TypeOK, PublishThrows, invocation, history
<1>2. ListInv' /\ ArrayInv'
  BY DEF IInv, PublishThrows, ListInv, ArrayInv, Increasing, Ids
<1> QED
  BY <1>1, <1>2, ReaderUndisturbed DEF IInv, PublishThrows

LEMMA DestroyKeeps == ASSUME IInv, Destroy PROVE IInv'
<1>1. TypeOK'
  BY DEF IInv, TypeOK, Destroy, invocation, history
<1>2. ListInv' /\ ArrayInv'
  BY DEF IInv, Destroy, ListInv, ArrayInv, Increasing, Ids
<1> QED
  BY <1>1, <1>2, ReaderUndisturbed DEF IInv, Destroy
-----------------------------------------------------------------------------
(* The invokers' steps: the owner and the other invocations are left alone. *)

LEMMA OwnerUndisturbed ==
  ASSUME ListInv, ArrayInv, UNCHANGED <<owner, subscribed, removed>>
  PROVE  ListInv' /\ ArrayInv'
BY DEF ListInv, ArrayInv, owner, Increasing, Ids

LEMMA OneWalks ==
  ASSUME WalkInv, NEW t \in Invoker, Walk(t)',
         \A u \in Invoker \ {t} :
            /\ buffer'[u] = buffer[u] /\ due'[u] = due[u] /\ over'[u] = over[u]
            /\ called'[u] = called[u] /\ pc'[u] = pc[u] /\ pos'[u] = pos[u]
  PROVE  WalkInv'
<1> SUFFICES ASSUME NEW u \in Invoker, u # t PROVE Walk(u)'
  BY DEF WalkInv
<1> QED
  BY DEF WalkInv, Walk, Increasing, Ids

(* The type invariant, said of one invocation. *)
LEMMA TypesOf ==
  ASSUME TypeOK, NEW t \in Invoker
  PROVE  /\ buffer[t] \in Seq(Listener) /\ DOMAIN buffer[t] = 1 .. Len(buffer[t])
         /\ called[t] \in Seq(Id) /\ DOMAIN called[t] = 1 .. Len(called[t])
         /\ Len(buffer[t]) \in Nat /\ Len(called[t]) \in Nat /\ pos[t] \in Nat
         /\ \A k \in DOMAIN buffer[t] : buffer[t][k] \in Listener
<1>1. buffer[t] \in Seq(Listener) /\ called[t] \in Seq(Id) /\ pos[t] \in Nat
  BY DEF TypeOK
<1> QED
  BY <1>1

LEMMA LoadKeeps == ASSUME IInv, NEW t \in Invoker, Load(t) PROVE IInv'
<1> USE DEF IInv
<1>1. TypeOK'
  BY DEF Load, Goto, TypeOK, owner
<1>2. Walk(t)'
  <2>1. /\ buffer'[t] = readable /\ due'[t] = subscribed /\ over'[t] = removed
        /\ pc'[t] = "next" /\ called'[t] = called[t] /\ pos'[t] = pos[t] /\ pc[t] = "idle"
    BY DEF Load, Goto, TypeOK
  <2>2. Len(called[t]) = 0 /\ pos[t] = 1 /\ DOMAIN called[t] = {} /\ Len(readable) \in Nat
    BY <2>1, TypesOf DEF WalkInv, Walk, TypeOK
  <2> QED
    BY <2>1, <2>2 DEF Walk, ArrayInv
<1>3. WalkInv'
  BY <1>2, OneWalks DEF Load, Goto, TypeOK
<1> QED
  BY <1>1, <1>3, OwnerUndisturbed DEF Load

LEMMA CallKeeps == ASSUME IInv, NEW t \in Invoker, Call(t) PROVE IInv'
<1> USE DEF IInv
<1> DEFINE k == pos[t]
           i == buffer[t][k].id
<1>1. /\ k \in DOMAIN buffer[t] /\ Len(called[t]) + 1 = k
      /\ pc[t] = "next" /\ i \in Id
  BY TypesOf DEF Call, IsCallable, Goto, WalkInv, Walk, Listener
<1>2. /\ pc'[t] = "calling" /\ called'[t] = Append(called[t], i)
      /\ buffer' = buffer /\ due' = due /\ over' = over /\ pos' = pos
  BY DEF Call, Goto, TypeOK
<1>3. /\ called'[t] \in Seq(Id) /\ Len(called'[t]) = k
      /\ \A j \in DOMAIN called'[t] : called'[t][j] = IF j = k THEN i ELSE called[t][j]
      /\ DOMAIN called'[t] = 1 .. k
  BY <1>1, <1>2, TypesOf
<1>4. TypeOK'
  BY <1>3 DEF Call, Goto, TypeOK, owner
<1>5. Walk(t)'
  <2>1. \A j \in DOMAIN called'[t] : called'[t][j] = buffer[t][j].id
    BY <1>1, <1>3, TypesOf DEF WalkInv, Walk
  <2> QED
    BY <1>1, <1>2, <1>3, <2>1, TypesOf DEF WalkInv, Walk, Increasing, Ids
<1>6. WalkInv'
  BY <1>5, OneWalks DEF Call, Goto, TypeOK
<1> QED
  BY <1>4, <1>6, OwnerUndisturbed DEF Call

LEMMA ExhaustedKeeps == ASSUME IInv, NEW t \in Invoker, Exhausted(t) PROVE IInv'
<1> USE DEF IInv
<1>1. TypeOK'
  BY DEF Exhausted, Goto, TypeOK, owner, history, Outcome
<1>2. Walk(t)'
  <2>1. /\ pc[t] = "next" /\ pc'[t] \in {"done", "bad_function_call"}
        /\ UNCHANGED <<buffer, pos, called, due, over>>
    BY DEF Exhausted, Goto, TypeOK, history
  <2>2. ~AllowEmpty => Len(called[t]) = Len(buffer[t])
    <3>1. ASSUME ~AllowEmpty, pos[t] \in DOMAIN buffer[t] PROVE FALSE
      BY <3>1, TypesOf, HandlerAssumption DEF Exhausted, IsCallable, Listener, Function
    <3> QED
      BY <2>1, <3>1, TypesOf DEF WalkInv, Walk
  <2> QED
    BY <2>1, <2>2 DEF WalkInv, Walk, Increasing, Ids
<1>3. WalkInv'
  BY <1>2, OneWalks DEF Exhausted, Goto, TypeOK, history
<1> QED
  BY <1>1, <1>3, OwnerUndisturbed DEF Exhausted

LEMMA HandlerReturnsKeeps == ASSUME IInv, NEW t \in Invoker, HandlerReturns(t) PROVE IInv'
<1> USE DEF IInv
<1>1. TypeOK'
  BY DEF HandlerReturns, Goto, TypeOK, owner, history, Outcome
<1>2. Walk(t)'
  <2>1. /\ pc[t] = "calling" /\ pc'[t] \in {"done", "next"} /\ pos'[t] = pos[t] + 1
        /\ UNCHANGED <<buffer, called, due, over>>
        /\ pc'[t] = "done" => ~IsCallable(t, pos[t] + 1)
    BY DEF HandlerReturns, Goto, TypeOK, history
  <2>2. pc'[t] = "done" /\ ~AllowEmpty => Len(called[t]) = Len(buffer[t])
    <3>1. ASSUME ~AllowEmpty, ~IsCallable(t, pos[t] + 1), pos[t] + 1 \in DOMAIN buffer[t] PROVE FALSE
      BY <3>1, TypesOf, HandlerAssumption DEF IsCallable, Listener, Function
    <3> QED
      BY <2>1, <3>1, TypesOf DEF WalkInv, Walk
  <2> QED
    BY <2>1, <2>2 DEF WalkInv, Walk, Increasing, Ids
<1>3. WalkInv'
  BY <1>2, OneWalks DEF HandlerReturns, Goto, TypeOK, history
<1> QED
  BY <1>1, <1>3, OwnerUndisturbed DEF HandlerReturns

LEMMA HandlerThrowsKeeps == ASSUME IInv, NEW t \in Invoker, HandlerThrows(t) PROVE IInv'
<1> USE DEF IInv
<1>1. TypeOK'
  BY DEF HandlerThrows, Goto, TypeOK, owner, history, Outcome
<1>2. Walk(t)'
  BY DEF HandlerThrows, Goto, TypeOK, history, WalkInv, Walk, Increasing, Ids
<1>3. WalkInv'
  BY <1>2, OneWalks DEF HandlerThrows, Goto, TypeOK, history
<1> QED
  BY <1>1, <1>3, OwnerUndisturbed DEF HandlerThrows

LEMMA AgainKeeps == ASSUME IInv, NEW t \in Invoker, Again(t) PROVE IInv'
<1> USE DEF IInv
<1>1. TypeOK'
  BY DEF Again, TypeOK, owner
<1>2. Walk(t)'
  <2>1. /\ pc'[t] = "idle" /\ buffer'[t] = <<>> /\ pos'[t] = 1 /\ called'[t] = <<>>
        /\ due'[t] = {} /\ over'[t] = {}
    BY DEF Again, TypeOK
  <2> QED
    BY <2>1 DEF Walk, Increasing, Ids
<1>3. WalkInv'
  BY <1>2, OneWalks DEF Again, TypeOK
<1> QED
  BY <1>1, <1>3, OwnerUndisturbed DEF Again
-----------------------------------------------------------------------------
(* The inductive invariant.                                                *)

LEMMA InitHolds == Init => IInv
<1> SUFFICES ASSUME Init PROVE IInv
  OBVIOUS
<1>1. TypeOK
  BY BoundAssumption DEF Init, TypeOK
<1>2. ListInv /\ ArrayInv
  BY NoneAssumption DEF Init, ListInv, ArrayInv, Increasing, Ids
<1>3. WalkInv
  BY DEF Init, WalkInv, Walk, Increasing, Ids
<1> QED
  BY <1>1, <1>2, <1>3 DEF IInv

LEMMA StutterKeeps == IInv /\ UNCHANGED vars => IInv'
BY ReaderUndisturbed, OwnerUndisturbed DEF IInv, TypeOK, vars, owner, invocation, history

LEMMA Invariant == Spec => []IInv
<1>1. ASSUME IInv, OwnerStep PROVE IInv'
  <2> USE <1>1
  <2>1. \A f, g \in Function : <<f>> \in Seq(Function) /\ <<f, g>> \in Seq(Function)
    OBVIOUS
  <2>2. CASE AddListener
    BY <2>1, <2>2, AddKeeps DEF AddListener
  <2>3. CASE AddHandler
    BY <2>1, <2>3, AddKeeps DEF AddHandler
  <2>4. CASE AddDelegate
    BY <2>1, <2>4, AddKeeps DEF AddDelegate
  <2> QED
    BY <2>2, <2>3, <2>4, DropTokenKeeps, PublishKeeps, PublishThrowsKeeps, DestroyKeeps DEF OwnerStep
<1>2. ASSUME IInv, NEW t \in Invoker, InvokerStep(t) PROVE IInv'
  BY <1>2, LoadKeeps, CallKeeps, ExhaustedKeeps, HandlerReturnsKeeps, HandlerThrowsKeeps, AgainKeeps
  DEF InvokerStep
<1>3. IInv /\ [Next]_vars => IInv'
  BY <1>1, <1>2, StutterKeeps DEF Next
<1> QED
  BY <1>3, InitHolds, PTL DEF Spec

-----------------------------------------------------------------------------
(* The theorems.                                                           *)

(* An invocation calls its listeners in the order of their subscription,    *)
(* each once, and never one whose removal had returned before it began.     *)
THEOREM CallsOnlySubscribers == Spec => []OnlySubscribers
<1>1. IInv => OnlySubscribers
  <2> SUFFICES ASSUME IInv, NEW t \in Invoker
               PROVE  /\ ToSet(called[t]) \cap over[t] = {}
                      /\ \A i, j \in DOMAIN called[t] : i < j => called[t][i] < called[t][j]
    BY DEF IInv, OnlySubscribers
  <2>1. \A k \in DOMAIN called[t] : k \in DOMAIN buffer[t] /\ called[t][k] = buffer[t][k].id
    BY TypesOf DEF IInv, WalkInv, Walk
  <2>2. ToSet(called[t]) \subseteq Ids(buffer[t])
    BY <2>1 DEF ToSet, Ids
  <2> QED
    BY <2>1, <2>2 DEF IInv, WalkInv, Walk, Increasing
<1> QED
  BY <1>1, Invariant, PTL

(* Where no empty function is ever subscribed, an invocation that ran to    *)
(* its end called everyone who was subscribed when it began.  With an empty *)
(* function in the array it would stop there, and miss those behind it.     *)
THEOREM NobodyMissed ==
  ASSUME ~AllowEmpty
  PROVE  Spec => []EveryoneCalled
<1>1. IInv => EveryoneCalled
  <2> SUFFICES ASSUME IInv, NEW t \in Invoker, pc[t] = "done"
               PROVE  due[t] \subseteq ToSet(called[t])
    BY DEF EveryoneCalled
  <2>1. \A k \in DOMAIN buffer[t] : k \in DOMAIN called[t] /\ called[t][k] = buffer[t][k].id
    BY TypesOf DEF IInv, WalkInv, Walk
  <2>2. Ids(buffer[t]) \subseteq ToSet(called[t])
    BY <2>1 DEF ToSet, Ids
  <2> QED
    BY <2>2 DEF IInv, WalkInv, Walk
<1> QED
  BY <1>1, Invariant, PTL

-----------------------------------------------------------------------------
(* Induction over the natural numbers, for a set of them.                  *)

Less == {p \in Nat \X Nat : p[1] < p[2]}

LEMMA Minimum ==
  ASSUME NEW T \in SUBSET Nat, T # {}
  PROVE  \E x \in T : \A y \in T : x <= y
<1>1. IsWellFoundedOn(Less, Nat)
  BY NatLessThanWellFounded DEF OpToRel, Less
<1>2. \E x \in T : \A y \in T : ~(<<y, x>> \in Less)
  <2>1. IsWellFoundedOn(Less, Nat) /\ T \subseteq Nat /\ T # {}
    BY <1>1
  <2> QED
    BY <2>1, WFMin
<1>3. PICK x \in T : \A y \in T : ~(<<y, x>> \in Less)
  BY <1>2
<1>4. ASSUME NEW y \in T PROVE x <= y
  <2>1. x \in Nat /\ y \in Nat /\ (<<y, x>> \in Less <=> y < x)
    BY DEF Less
  <2> QED
    BY <1>3, <2>1
<1> QED
  BY <1>4

LEMMA Induction ==
  ASSUME NEW S, 0 \in S, \A n \in Nat : n \in S => n + 1 \in S
  PROVE  \A n \in Nat : n \in S
<1> SUFFICES ASSUME Nat \ S # {} PROVE FALSE
  OBVIOUS
<1>1. PICK x \in Nat \ S : \A y \in Nat \ S : x <= y
  BY Minimum
<1>2. x # 0 /\ x - 1 \in Nat /\ x - 1 \in S
  BY <1>1
<1> QED
  BY <1>1, <1>2

(* A recursive function exists.                                            *)
Stays(step, X) == \A k \in Nat, x \in X : step[k][x] \in X

Iterates(f, n, X, base, step) ==
  f \in [0 .. n -> X] /\ f[0] = base /\ \A k \in 1 .. n : f[k] = step[k][f[k - 1]]

LEMMA Recursion ==
  ASSUME NEW X, NEW base, NEW step, NEW n, base \in X, Stays(step, X), n \in Nat
  PROVE  \E f : Iterates(f, n, X, base, step)
<1> DEFINE Is(f, m) ==
             f \in [0 .. m -> X] /\ \A k \in 0 .. m : f[k] = IF k = 0 THEN base ELSE step[k][f[k - 1]]
           S == {m \in Nat : \E f : Is(f, m)}
<1> USE DEF Stays
<1>1. 0 \in S
  <2>1. Is([k \in 0 .. 0 |-> base], 0)
    OBVIOUS
  <2> HIDE DEF Is
  <2> QED
    BY <2>1
<1>2. ASSUME NEW m \in Nat, m \in S PROVE m + 1 \in S
  <2>1. PICK f : Is(f, m)
    BY <1>2
  <2> DEFINE g == [k \in 0 .. m + 1 |-> IF k = m + 1 THEN step[k][f[m]] ELSE f[k]]
  <2>2. ASSUME NEW k \in 0 .. m + 1
        PROVE  g[k] \in X /\ g[k] = IF k = 0 THEN base ELSE step[k][g[k - 1]]
    <3>1. CASE k = m + 1
      <4>1. k # 0 /\ k - 1 = m /\ m \in 0 .. m + 1 /\ m # m + 1
        BY <3>1
      <4>2. g[k] = step[k][f[m]] /\ g[m] = f[m]
        BY <3>1, <4>1
      <4>3. f[m] \in X /\ k \in Nat
        BY <2>1, <3>1
      <4> HIDE DEF g
      <4> QED
        BY <4>1, <4>2, <4>3
    <3>2. CASE k # m + 1
      <4>1. k \in 0 .. m /\ k - 1 # m + 1 /\ (k # 0 => k - 1 \in 0 .. m)
        BY <3>2
      <4>2. f[k] \in X /\ f[k] = IF k = 0 THEN base ELSE step[k][f[k - 1]]
        BY <2>1, <4>1
      <4>3. g[k] = f[k] /\ (k # 0 => g[k - 1] = f[k - 1])
        BY <3>2, <4>1
      <4> HIDE DEF g
      <4> QED
        BY <4>2, <4>3
    <3> QED
      BY <3>1, <3>2
  <2>3. g = [k \in 0 .. m + 1 |-> g[k]]
    OBVIOUS
  <2> HIDE DEF g
  <2>4. Is(g, m + 1)
    BY <2>2, <2>3
  <2> HIDE DEF Is
  <2> QED
    BY <2>4
<1>3. n \in S
  <2> HIDE DEF S
  <2>1. \A m \in Nat : m \in S
    BY <1>1, <1>2, Induction
  <2> QED
    BY <2>1
<1>4. PICK f : Is(f, n)
  BY <1>3
<1>5. f[0] = base /\ \A k \in 1 .. n : f[k] = step[k][f[k - 1]]
  BY <1>4
<1> QED
  BY <1>4, <1>5 DEF Iterates

LEMMA InductionUpTo ==
  ASSUME NEW n \in Nat, NEW S, 0 \in S, \A k \in 1 .. n : k - 1 \in S => k \in S
  PROVE  \A k \in 0 .. n : k \in S
<1> DEFINE T == {k \in Nat : k <= n => k \in S}
<1>1. 0 \in T
  OBVIOUS
<1>2. ASSUME NEW k \in Nat, k \in T PROVE k + 1 \in T
  <2> SUFFICES ASSUME k + 1 <= n PROVE k + 1 \in S
    OBVIOUS
  <2>1. k \in S /\ k + 1 \in 1 .. n /\ (k + 1) - 1 = k
    BY <1>2
  <2> QED
    BY <2>1
<1>3. \A k \in Nat : k \in T
  <2> HIDE DEF T
  <2> QED
    BY <1>1, <1>2, Induction
<1> QED
  BY <1>3

(* What holds at first and is kept by each step holds of every value.    *)
LEMMA Iteration ==
  ASSUME NEW X, NEW f, NEW n \in Nat, f[0] \in X, \A k \in 1 .. n : f[k - 1] \in X => f[k] \in X
  PROVE  \A k \in 0 .. n : f[k] \in X
<1> DEFINE S == {k \in 0 .. n : f[k] \in X}
<1>1. 0 \in S /\ \A k \in 1 .. n : k - 1 \in S => k \in S
  OBVIOUS
<1>2. \A k \in 0 .. n : k \in S
  <2> HIDE DEF S
  <2> QED
    BY <1>1, InductionUpTo
<1> QED
  BY <1>2


LEMMA Frame ==
  ASSUME UNCHANGED <<mapping, args>>, NEW i, NEW o
  PROVE  /\ Matches(args[i])' = Matches(args[i])
         /\ Mentions(i)' = Mentions(i) /\ NextAsValue(i)' = NextAsValue(i)
         /\ TakesNext(i)' = TakesNext(i) /\ Stray(i)' = Stray(i)
         /\ Given(i, o)' = Given(i, o) /\ Sound(i)' = Sound(i) /\ Places(o)' = Places(o)
         /\ Strays' = Strays
         /\ PickedUpTo(Words, StrayPlaces)' = PickedUpTo(Words, StrayPlaces)
<1>1. Matches(args[i])' = Matches(args[i])
  BY DEF Matches
<1>2. \A j : Matches(args[j])' = Matches(args[j])
  BY DEF Matches
<1>3. \A j : Mentions(j)' = Mentions(j)
  BY <1>2 DEF Mentions
<1>4. \A j : NextAsValue(j)' = NextAsValue(j)
  BY DEF NextAsValue, Plain
<1>5. \A j : TakesNext(j)' = TakesNext(j)
  BY <1>3, <1>4 DEF TakesNext
<1>6. \A j : Stray(j)' = Stray(j)
  BY <1>5 DEF Stray, Plain
<1>7. \A j, p : Given(j, p)' = Given(j, p)
  BY <1>5 DEF Given
<1>8. \A j : Sound(j)' = Sound(j)
  BY <1>3, <1>7, <1>2 DEF Sound
<1>9. \A p : Places(p)' = Places(p)
  BY <1>3 DEF Places
<1>10. Words' = Words
  BY DEF Words
<1>11. StrayPlaces' = StrayPlaces
  BY <1>6 DEF StrayPlaces
<1>12. Strays' = Strays
  BY <1>10, <1>11 DEF Strays
<1> QED
  BY <1>1, <1>3, <1>4, <1>5, <1>6, <1>7, <1>8, <1>9, <1>10, <1>11, <1>12

-----------------------------------------------------------------------------
(* What is picked from a sequence.                                         *)

From(s, places) == {s[j] : j \in places \cap 1 .. Len(s)}

Picks(p, s, places) ==
  /\ p[0] = <<>>
  /\ \A k \in 1 .. Len(s) : p[k] = IF k \in places THEN Append(p[k - 1], s[k]) ELSE p[k - 1]
  /\ \A k \in 0 .. Len(s) : p[k] \in Seq(From(s, places))

LEMMA PickedIs ==
  ASSUME NEW X, NEW s \in Seq(X), NEW places
  PROVE  Picks(PickedUpTo(s, places), s, places)
<1> DEFINE from == {s[j] : j \in places \cap 1 .. Len(s)}
           Y == Seq(from)
           base == <<>>
           step == [k \in Nat |-> [x \in Y |-> IF k \in places \cap 1 .. Len(s) THEN Append(x, s[k]) ELSE x]]
           n == Len(s)
           p == PickedUpTo(s, places)
<1>1. Stays(step, Y) /\ base \in Y /\ n \in Nat
  <2>1. ASSUME NEW k \in Nat, NEW x \in Y PROVE step[k][x] \in Y
    <3>1. CASE k \in places \cap 1 .. Len(s)
      <4>1. s[k] \in from
        BY <3>1
      <4> HIDE DEF from
      <4> QED
        BY <3>1, <4>1
    <3>2. CASE k \notin places \cap 1 .. Len(s)
      BY <3>2
    <3> QED
      BY <3>1, <3>2
  <2>2. base \in Y
    OBVIOUS
  <2> HIDE DEF step, Y, base
  <2> QED
    BY <2>1, <2>2 DEF Stays
<1>2. \A k \in 1 .. n : \A x \in Y : step[k][x] = IF k \in places THEN Append(x, s[k]) ELSE x
  <2> HIDE DEF from
  <2> QED
    OBVIOUS
<1>3. p = CHOOSE f : f = [k \in 0 .. n |-> IF k = 0 THEN base
                             ELSE IF k \in places THEN Append(f[k - 1], s[k]) ELSE f[k - 1]]
  BY DEF PickedUpTo
<1> HIDE DEF step, Y, base, n, p
<1>4. PICK f : Iterates(f, n, Y, base, step)
  BY <1>1, Recursion
<1> USE DEF Iterates
<1>5. f = [k \in 0 .. n |-> IF k = 0 THEN base
              ELSE IF k \in places THEN Append(f[k - 1], s[k]) ELSE f[k - 1]]
  <2>1. ASSUME NEW k \in 0 .. n, k # 0
        PROVE  f[k] = IF k \in places THEN Append(f[k - 1], s[k]) ELSE f[k - 1]
    <3>1. k \in 1 .. n /\ k - 1 \in 0 .. n
      BY <1>1, <2>1
    <3>2. f[k] = step[k][f[k - 1]] /\ f[k - 1] \in Y
      BY <1>4, <2>1, <3>1
    <3> QED
      BY <1>2, <3>1, <3>2
  <2> QED
    BY <1>4, <2>1
<1>6. p = [k \in 0 .. n |-> IF k = 0 THEN base
              ELSE IF k \in places THEN Append(p[k - 1], s[k]) ELSE p[k - 1]]
  BY <1>3, <1>5
<1>7. p[0] = base /\ \A k \in 1 .. n : p[k] = IF k \in places THEN Append(p[k - 1], s[k]) ELSE p[k - 1]
  <2>1. \A k \in 0 .. n : p[k] = IF k = 0 THEN base
                              ELSE IF k \in places THEN Append(p[k - 1], s[k]) ELSE p[k - 1]
    BY <1>6
  <2>2. 0 \in 0 .. n /\ \A k \in 1 .. n : k \in 0 .. n /\ k # 0
    BY <1>1
  <2> QED
    BY <2>1, <2>2
<1>8. \A k \in 0 .. n : p[k] \in Y
  <2>1. p[0] \in Y /\ \A k \in 1 .. n : p[k - 1] \in Y => p[k] \in Y
    <3>1. \A k \in 1 .. n : \A x \in Y : step[k][x] \in Y
      BY <1>1 DEF Stays
    <3>2. \A k \in 1 .. n : p[k - 1] \in Y => p[k] = step[k][p[k - 1]]
      BY <1>2, <1>7, Zenon
    <3> QED
      BY <1>1, <1>7, <3>1, <3>2, Zenon
  <2> QED
    BY <1>1, <2>1, Iteration
<1> QED
  BY <1>7, <1>8 DEF Y, base, n, p, Picks, From

(* What match_option() yields are options of the parser. *)
LEMMA MatchesIs ==
  ASSUME ParserTypeOK, NEW a, a.name \in Seq(Name)
  PROVE  /\ Matches(a) \in Seq(ToSet(options)) /\ Len(Matches(a)) \in Nat
         /\ a.name = <<>> => Matches(a) = <<>>
<1> DEFINE s == a.name
           known == {k \in DOMAIN s : s[k] \in DOMAIN mapping}
           names == Picked(s, known)
           from == From(s, known)
<1>1. names \in Seq(from) /\ (s = <<>> => names = <<>>)
  <2>1. /\ Len(s) \in 0 .. Len(s) /\ names = PickedUpTo(s, known)[Len(s)]
        /\ s = <<>> => Len(s) = 0
    BY DEF Picked
  <2> HIDE DEF s, known, names
  <2>2. s \in Seq(Name)
    BY DEF s
  <2>3. Picks(PickedUpTo(s, known), s, known)
    BY <2>2, PickedIs
  <2> QED
    BY <2>1, <2>3 DEF Picks
<1>2. from \subseteq DOMAIN mapping
  BY DEF From
<1>3. Matches(a) = [k \in DOMAIN names |-> mapping[names[k]]]
  BY DEF Matches
<1> HIDE DEF names, from
<1>4. \A k \in DOMAIN names : mapping[names[k]] \in ToSet(options)
  BY <1>1, <1>2 DEF ParserTypeOK
<1>5. Len(names) \in Nat /\ DOMAIN names = 1 .. Len(names)
  BY <1>1
<1>6. Matches(a) \in Seq(ToSet(options)) /\ Len(Matches(a)) = Len(names)
  BY <1>3, <1>4, <1>5
<1>7. a.name = <<>> => Matches(a) = <<>>
  BY <1>1, <1>3, <1>5, <1>6 DEF s
<1> QED
  BY <1>5, <1>6, <1>7

-----------------------------------------------------------------------------
(* What is at a place of the arguments.                                    *)

LEMMA ListIs ==
  ASSUME NEW a \in Lists \cup {<<>>}
  PROVE  /\ Len(a) \in Nat /\ DOMAIN a = 1 .. Len(a)
         /\ \A i \in DOMAIN a : /\ a[i].name \in Seq(Name) /\ a[i].value \in Seq(Part)
                                /\ a[i].kind = "plain" => a[i].name = <<>>
<1> DEFINE R == [kind : {"plain", "long", "short"}, name : Seq(Name), value : Seq(Part)]
<1>1. a \in Seq(R)
  <2>1. Lists \subseteq Seq(R)
    BY ListsAssumption
  <2> HIDE DEF R
  <2>2. <<>> \in Seq(R)
    OBVIOUS
  <2> QED
    BY <2>1, <2>2
<1>2. Len(a) \in Nat /\ DOMAIN a = 1 .. Len(a) /\ \A i \in DOMAIN a : a[i] \in R
  <2> HIDE DEF R
  <2> QED
    BY <1>1
<1>3. \A i \in DOMAIN a : a[i].name \in Seq(Name) /\ a[i].value \in Seq(Part)
  BY <1>2
<1>4. \A i \in DOMAIN a : a[i].kind = "plain" => a[i].name = <<>>
  <2>1. CASE a \in Lists
    BY <2>1, ListsAssumption
  <2>2. CASE a = <<>>
    BY <2>2
  <2> QED
    BY <2>1, <2>2
<1> QED
  BY <1>2, <1>3, <1>4

LEMMA ArgsAre ==
  ASSUME ShapeInv
  PROVE  /\ Len(args) \in Nat /\ DOMAIN args = 1 .. Len(args)
         /\ \A i \in DOMAIN args : /\ args[i].name \in Seq(Name) /\ args[i].value \in Seq(Part)
                                   /\ args[i].kind = "plain" => args[i].name = <<>>
<1>1. args \in Lists \cup {<<>>}
  BY DEF ShapeInv
<1> QED
  BY <1>1, ListIs

(* The options an argument mentions are options of the parser.             *)
LEMMA MentionsAre ==
  ASSUME ParserTypeOK, ShapeInv, NEW i \in DOMAIN args
  PROVE  /\ Matches(args[i]) \in Seq(ToSet(options)) /\ Len(Matches(args[i])) \in Nat
         /\ Mentions(i) = {Matches(args[i])[k] : k \in 1 .. Len(Matches(args[i]))}
         /\ Mentions(i) \subseteq ToSet(options)
         /\ args[i].kind = "plain" => Mentions(i) = {} /\ Len(Matches(args[i])) = 0
<1>1. args[i].name \in Seq(Name) /\ (args[i].kind = "plain" => args[i].name = <<>>)
  BY ArgsAre
<1>2. /\ Matches(args[i]) \in Seq(ToSet(options)) /\ Len(Matches(args[i])) \in Nat
      /\ args[i].name = <<>> => Matches(args[i]) = <<>>
  BY <1>1, MatchesIs
<1> DEFINE m == Matches(args[i])
<1>3. Mentions(i) = {m[k] : k \in DOMAIN m}
  BY DEF Mentions, ToSet
<1> HIDE DEF m
<1>4. m \in Seq(ToSet(options)) /\ (args[i].kind = "plain" => m = <<>>)
  BY <1>1, <1>2 DEF m
<1>5. DOMAIN m = 1 .. Len(m)
  BY <1>4
<1>6. Mentions(i) \subseteq ToSet(options)
  BY <1>3, <1>4
<1>7. args[i].kind = "plain" => Mentions(i) = {} /\ Len(m) = 0
  BY <1>3, <1>4
<1> QED
  BY <1>2, <1>3, <1>5, <1>6, <1>7 DEF m

(* What an argument gives an option is a value. *)
LEMMA GivenIs ==
  ASSUME ShapeInv, NEW i \in DOMAIN args, NEW o
  PROVE  Given(i, o) \in Seq(Part) /\ Given(i, o) # Unset
<1>1. True \in Seq(Part)
  <2>1. "true" \in Part
    BY PartAssumption
  <2> QED
    BY <2>1 DEF True
<1>2. args[i].value \in Seq(Part)
  BY ArgsAre
<1>3. TakesNext(i) => args[i + 1].value \in Seq(Part)
  BY ArgsAre DEF TakesNext, NextAsValue, Plain
<1>4. <<>> \in Seq(Part)
  OBVIOUS
<1>5. Given(i, o) \in Seq(Part)
  BY <1>1, <1>2, <1>3, <1>4 DEF Given
<1> QED
  BY <1>5, PartAssumption

(* Nothing is known at rest, and a step of parse() that is not the last    *)
(* one leaves nothing to be shown of its answer.                           *)
AtRest == Accepts /\ FailureReported /\ Roles /\ ModelFaithful

LEMMA NotParsed ==
  ASSUME state # "parsed"
  PROVE  AtRest
BY DEF AtRest, Accepts, FailureReported, Roles, ModelFaithful

LEMMA Parts ==
  ParserIInv <=> ParserTypeOK /\ AtRest /\ ShapeInv /\ LocalsInv /\ SeenInv /\ FailedInv
BY DEF ParserIInv, Answer, Values, AtRest

-----------------------------------------------------------------------------
(* The options of a parser.                                                *)

LEMMA MappedIs ==
  ASSUME NEW o, NEW m
  PROVE  /\ DOMAIN Mapped(o, m) = About[o].names \cup DOMAIN m
         /\ \A n \in DOMAIN Mapped(o, m) :
               \/ Mapped(o, m)[n] = o /\ n \in About[o].names
               \/ Mapped(o, m)[n] = m[n] /\ n \in DOMAIN m
<1> DEFINE f == [n \in About[o].names |-> o]
<1>1. Mapped(o, m) = [n \in DOMAIN f \cup DOMAIN m |-> IF n \in DOMAIN f THEN f[n] ELSE m[n]]
  BY DEF Mapped, Over
<1>2. DOMAIN f = About[o].names /\ \A n \in About[o].names : f[n] = o
  OBVIOUS
<1> HIDE DEF f
<1> QED
  BY <1>1, <1>2

LEMMA ParserInitHolds == ParserInit => ParserIInv
<1> SUFFICES ASSUME ParserInit PROVE ParserIInv
  OBVIOUS
<1>1. state = "idle" /\ current = Unset /\ options = <<Help>> /\ args = <<>> /\ index = 0
  BY DEF ParserInit
<1>2. ToSet(options) = {Help} /\ options # <<>> /\ Head(options) = Help /\ options \in Seq(Option)
  BY <1>1, HelpAssumption DEF ToSet
<1>3. ParserTypeOK
  <2>1. \A n \in DOMAIN mapping : mapping[n] = Help /\ n \in About[Help].names
    <3>1. mapping = Mapped(Help, <<>>) /\ DOMAIN <<>> = {}
      BY DEF ParserInit
    <3> QED
      BY <3>1, MappedIs
  <2>2. /\ success \in [Thread -> [Ranges -> BOOLEAN]] /\ present = {}
        /\ index \in 0 .. Len(args) + 1
    BY DEF ParserInit
  <2>4. {ok, reported} \subseteq BOOLEAN
    BY Zenon DEF ParserInit
  <2>3. ToSet(options) \subseteq Option
    BY <1>2, HelpAssumption
  <2> QED
    BY <1>1, <1>2, <2>1, <2>2, <2>3, <2>4 DEF ParserTypeOK
<1>4. ShapeInv
  <2>1. DOMAIN cached = Option
    BY DEF ParserInit
  <2> QED
    BY <1>1, <1>2, <2>1 DEF ShapeInv
<1>5. LocalsInv /\ SeenInv /\ FailedInv
  BY <1>1 DEF LocalsInv, SeenInv, FailedInv
<1> QED
  BY <1>1, <1>3, <1>4, <1>5, NotParsed, Parts

LEMMA AddOptionKeeps ==
  ASSUME ParserIInv, NEW o \in Option, AddOption(o)
  PROVE  ParserIInv'
<1>0. ParserTypeOK /\ ShapeInv
  BY Parts
<1>1. /\ state' = "idle" /\ state # "parsing" /\ current' = current
      /\ UNCHANGED <<thread, args, index, result, present, reported, cached, success, ok>>
  BY DEF AddOption, outcome
<1>2. current' = Unset
  BY <1>0, <1>1 DEF ShapeInv
<1>3. options' = Append(options, o) /\ options \in Seq(Option)
  BY <1>0 DEF AddOption, ShapeInv
<1>4. ToSet(options') = ToSet(options) \cup {o}
  <2>1. \A j \in DOMAIN options : options'[j] = options[j] /\ j \in DOMAIN options'
    BY <1>3
  <2>2. /\ options'[Len(options) + 1] = o /\ Len(options) + 1 \in DOMAIN options'
        /\ \A j \in DOMAIN options' : j \in DOMAIN options \/ j = Len(options) + 1
    BY <1>3
  <2> QED
    BY <2>1, <2>2 DEF ToSet
<1>5. options' \in Seq(Option) /\ options' # <<>> /\ Head(options') = Help
  BY <1>0, <1>3 DEF ParserTypeOK
<1>6. ParserTypeOK'
  <2>1. \A n \in DOMAIN mapping' : mapping'[n] \in ToSet(options') /\ n \in About[mapping'[n]].names
    <3>1. mapping' = Mapped(o, mapping)
      BY DEF AddOption
    <3>2. \A n \in DOMAIN mapping' :
             \/ mapping'[n] = o /\ n \in About[o].names
             \/ mapping'[n] = mapping[n] /\ n \in DOMAIN mapping
      <4> DEFINE m == Mapped(o, mapping)
      <4>1. \A n \in DOMAIN m :
               \/ m[n] = o /\ n \in About[o].names
               \/ m[n] = mapping[n] /\ n \in DOMAIN mapping
        BY MappedIs
      <4>2. mapping' = m
        BY <3>1
      <4> HIDE DEF m
      <4> QED
        BY <4>1, <4>2
    <3>3. \A n \in DOMAIN mapping : mapping[n] \in ToSet(options) /\ n \in About[mapping[n]].names
      BY <1>0 DEF ParserTypeOK
    <3> HIDE DEF ToSet
    <3> QED
      BY <1>4, <3>2, <3>3
  <2>2. ToSet(options') \subseteq Option /\ present' \subseteq ToSet(options')
    BY <1>0, <1>1, <1>4 DEF ParserTypeOK
  <2> QED
    BY <1>0, <1>1, <1>5, <2>1, <2>2 DEF ParserTypeOK
<1>7. ShapeInv'
  <2>1. \A p, q \in ToSet(options') : About[p].bound = About[q].bound => p = q
    <3>1. \A p \in ToSet(options) : About[p].bound # About[o].bound
      BY DEF AddOption, BoundNames
    <3> QED
      BY <1>0, <1>4, <3>1 DEF ShapeInv
  <2> QED
    BY <1>0, <1>1, <1>2, <1>5, <2>1 DEF ShapeInv
<1>8. LocalsInv' /\ SeenInv' /\ FailedInv'
  BY <1>1, <1>2 DEF LocalsInv, SeenInv, FailedInv
<1>9. AtRest'
  BY <1>1 DEF AtRest, Accepts, FailureReported, Roles, ModelFaithful
<1> QED
  BY <1>6, <1>7, <1>8, <1>9, Parts, PTL

-----------------------------------------------------------------------------
(* Argument by argument.                                                   *)

LEMMA ParseKeeps ==
  ASSUME ParserIInv, NEW t \in Thread, NEW list \in Lists, Parse(t, list)
  PROVE  ParserIInv'
<1>0. ParserTypeOK /\ ShapeInv
  BY Parts
<1>1. /\ state' = "parsing" /\ state # "parsing" /\ current' = current
      /\ thread' = t /\ args' = list /\ index' = 0
      /\ result' = <<>> /\ unmatched' = <<>> /\ present' = {} /\ reported' = FALSE
      /\ UNCHANGED <<options, mapping, cached, success, ok>>
  BY DEF Parse, registry
<1>2. current' = Unset
  BY <1>0, <1>1 DEF ShapeInv
<1>6. ParserTypeOK'
  <2>1. index' \in 0 .. Len(args') + 1
    <3> DEFINE R == [kind : {"plain", "long", "short"}, name : Seq(Name), value : Seq(Part)]
    <3>1. list \in Seq(R)
      BY ListsAssumption
    <3> HIDE DEF R
    <3> QED
      BY <1>1, <3>1
  <2> QED
    BY <1>0, <1>1, <2>1 DEF ParserTypeOK
<1>7. ShapeInv'
  <2>1. DOMAIN result' = {About[o].bound : o \in present'}
    BY <1>1
  <2> QED
    BY <1>0, <1>1, <1>2, <2>1 DEF ShapeInv
<1>8. LocalsInv' /\ FailedInv'
  BY <1>1, <1>2, <1>6 DEF LocalsInv, FailedInv, ParserTypeOK
<1>9. SeenInv'
  <2>1. (\A i \in 1 .. index : Sound(i))' /\ ~(index > 0)'
    BY <1>1
  <2>2. unmatched' = PickedUpTo(Words, StrayPlaces)'[index']
    <3> DEFINE W == [i \in DOMAIN list |-> list[i].value]
               S == StrayPlaces'
    <3>1. W \in Seq(Seq(Part)) /\ Words' = W
      <4>2. /\ Len(list) \in Nat /\ DOMAIN list = 1 .. Len(list)
            /\ \A i \in DOMAIN list : list[i].value \in Seq(Part)
        BY ListIs
      <4> QED
        BY <1>1, <4>2 DEF Words
    <3> HIDE DEF W, S
    <3>2. Picks(PickedUpTo(W, S), W, S)
      BY <3>1, PickedIs
    <3>3. PickedUpTo(W, S)[0] = <<>>
      BY <3>2 DEF Picks
    <3>4. PickedUpTo(Words, StrayPlaces)' = PickedUpTo(W, S)
      BY <3>1 DEF S
    <3> QED
      BY <1>1, <3>3, <3>4
  <2>3. \A o \in ToSet(options') : Known(o)'
    <3>1. ASSUME NEW o PROVE Known(o)'
      <4>1. PlacesSeen(o)' = {} /\ Applied' = {}
        BY <1>1, <1>2 DEF PlacesSeen, Applied
      <4> QED
        BY <1>1, <4>1 DEF Known
    <3> QED
      BY <3>1
  <2> QED
    BY <1>1, <2>1, <2>2, <2>3 DEF SeenInv
<1>10. AtRest'
  BY <1>1 DEF AtRest, Accepts, FailureReported, Roles, ModelFaithful
<1> QED
  BY <1>6, <1>7, <1>8, <1>9, <1>10, Parts, PTL

-----------------------------------------------------------------------------
(* What every step from an argument finds.                                 *)

LEMMA Here ==
  ASSUME ParserTypeOK, ShapeInv, index < Len(args)
  PROVE  /\ index \in Nat /\ Len(args) \in Nat /\ DOMAIN args = 1 .. Len(args)
         /\ index + 1 \in DOMAIN args /\ index + 1 <= Len(args) /\ Argument = args[index + 1]
         /\ index <= Len(args)
<1>1. Len(args) \in Nat /\ DOMAIN args = 1 .. Len(args)
  BY ArgsAre
<1>2. index \in 0 .. Len(args) + 1
  BY DEF ParserTypeOK
<1>3. Argument = args[index + 1]
  BY DEF Argument
<1> QED
  BY <1>1, <1>2, <1>3

LEMMA WordsPicked ==
  ASSUME ShapeInv
  PROVE  /\ \A k \in DOMAIN args :
               PickedUpTo(Words, StrayPlaces)[k] =
                  IF Stray(k) THEN Append(PickedUpTo(Words, StrayPlaces)[k - 1], args[k].value)
                  ELSE PickedUpTo(Words, StrayPlaces)[k - 1]
         /\ Strays = PickedUpTo(Words, StrayPlaces)[Len(args)]
<1>1. /\ Len(args) \in Nat /\ DOMAIN args = 1 .. Len(args)
      /\ \A i \in DOMAIN args : args[i].value \in Seq(Part)
  BY ArgsAre
<1>2. /\ Words \in Seq(Seq(Part)) /\ Len(Words) = Len(args)
      /\ \A k \in DOMAIN args : Words[k] = args[k].value
  BY <1>1 DEF Words
<1>3. Picks(PickedUpTo(Words, StrayPlaces), Words, StrayPlaces)
  BY <1>2, PickedIs
<1> DEFINE p == PickedUpTo(Words, StrayPlaces)
<1>4. \A k \in 1 .. Len(args) : p[k] = IF k \in StrayPlaces THEN Append(p[k - 1], Words[k]) ELSE p[k - 1]
  BY <1>2, <1>3 DEF Picks
<1>5. Strays = p[Len(args)]
  BY <1>2 DEF Strays, Picked
<1>6. \A k \in DOMAIN args : k \in StrayPlaces <=> Stray(k)
  BY DEF StrayPlaces
<1> HIDE DEF p
<1>7. \A k \in DOMAIN args : p[k] = IF Stray(k) THEN Append(p[k - 1], args[k].value) ELSE p[k - 1]
  BY <1>1, <1>2, <1>4, <1>6
<1> QED
  BY <1>5, <1>7 DEF p

(* What is known of an option stays known while nothing new is seen of it. *)
LEMMA KnownStays ==
  ASSUME UNCHANGED <<mapping, args, present, result, cached, success, thread>>,
         index \in Nat, index' \in Nat, index <= index',
         NEW o, Known(o), PlacesSeen(o)' = PlacesSeen(o), o \notin Applied, o \notin Applied'
  PROVE  Known(o)'
<1>1. \A i : Given(i, o)' = Given(i, o)
  BY Frame
<1>2. o \in present => \E i \in 1 .. index :
            Latest(i, PlacesSeen(o)) /\ result[About[o].bound].raw = Given(i, o)
  BY DEF Known
<1>3. o \in present => \E i \in 1 .. index' :
            Latest(i, PlacesSeen(o)') /\ result'[About[o].bound].raw = Given(i, o)'
  BY <1>1, <1>2 DEF Latest
<1>4. (o \in present <=> PlacesSeen(o) # {} \/ o \in Applied)
  BY DEF Known
<1>5. (o \in present <=> PlacesSeen(o) # {} \/ o \in Applied)'
  BY <1>4
<1>6. o \in present =>
          /\ Ranged(o) => Flag(o)
          /\ result[About[o].bound] = [option |-> o, raw |-> result[About[o].bound].raw]
          /\ result[About[o].bound].raw \in Seq(Part)
          /\ cached[o] = result[About[o].bound].raw
  BY DEF Known
<1> QED
  BY <1>3, <1>5, <1>6 DEF Known, Latest, Flag

LEMMA PlacesGrow ==
  ASSUME UNCHANGED <<mapping, args>>, index \in Nat, NEW o
  PROVE  /\ index' = index => PlacesSeen(o)' = PlacesSeen(o)
         /\ index' = index + 1 =>
               PlacesSeen(o)' = PlacesSeen(o) \cup {i \in {index + 1} : o \in Mentions(i)}
         /\ index' = index + 2 =>
               PlacesSeen(o)' = PlacesSeen(o) \cup {i \in {index + 1, index + 2} : o \in Mentions(i)}
<1>1. \A i : Mentions(i)' = Mentions(i)
  BY Frame
<1>2. PlacesSeen(o)' = {i \in 1 .. index' : o \in Mentions(i)}
  BY <1>1 DEF PlacesSeen
<1> QED
  BY <1>2 DEF PlacesSeen

LEMMA SkipPlainKeeps ==
  ASSUME ParserIInv, SkipPlain
  PROVE  ParserIInv'
<1>0. ParserTypeOK /\ ShapeInv /\ SeenInv
  BY Parts
<1>1. /\ state = "parsing" /\ state' = "parsing" /\ current = Unset /\ current' = Unset
      /\ index < Len(args) /\ index' = index + 1 /\ Argument.kind = "plain"
      /\ unmatched' = Append(unmatched, Argument.value)
      /\ UNCHANGED <<options, mapping, thread, args, result, present, reported, cached, success, ok>>
  BY DEF SkipPlain, AtArgument, registry
<1>2. /\ index \in Nat /\ Len(args) \in Nat /\ DOMAIN args = 1 .. Len(args)
      /\ index + 1 \in DOMAIN args /\ index + 1 <= Len(args) /\ Argument = args[index + 1]
      /\ index <= Len(args)
  BY <1>0, <1>1, Here
<1>3. Mentions(index + 1) = {} /\ Len(Matches(args[index + 1])) = 0
  BY <1>0, <1>1, <1>2, MentionsAre
<1>4. ~TakesNext(index + 1) /\ ~AssignsCluster(args[index + 1])
  BY <1>1, <1>2 DEF TakesNext, NextAsValue, AssignsCluster
<1>5. /\ ~reported /\ (\A i \in 1 .. index : Sound(i)) /\ (index > 0 => ~TakesNext(index))
      /\ unmatched = PickedUpTo(Words, StrayPlaces)[index] /\ \A o \in ToSet(options) : Known(o)
  BY <1>0, <1>1, <1>2 DEF SeenInv
<1>6. ParserTypeOK'
  BY <1>0, <1>1, <1>2 DEF ParserTypeOK
<1>7. ShapeInv'
  BY <1>0, <1>1 DEF ShapeInv
<1>8. LocalsInv' /\ FailedInv'
  BY <1>1, <1>2 DEF LocalsInv, FailedInv
<1>9. SeenInv'
  <2>1. Sound(index + 1)
    BY <1>3, <1>4 DEF Sound
  <2>2. \A i \in 1 .. index' : Sound(i)'
    <3>1. \A i \in 1 .. index' : Sound(i)
      BY <1>1, <1>2, <1>5, <2>1
    <3> QED
      BY <1>1, <3>1, Frame
  <2>3. ~TakesNext(index)'
    <3>1. \A i : TakesNext(i)' = TakesNext(i)
      BY <1>1, Frame
    <3> QED
      BY <1>1, <1>4, <3>1
  <2>4. unmatched' = PickedUpTo(Words, StrayPlaces)'[index']
    <3>1. Stray(index + 1)
      BY <1>1, <1>2, <1>5 DEF Stray, Plain
    <3>2. PickedUpTo(Words, StrayPlaces)[index + 1] =
             Append(PickedUpTo(Words, StrayPlaces)[(index + 1) - 1], args[index + 1].value)
      BY <1>0, <1>2, <3>1, WordsPicked
    <3>3. (index + 1) - 1 = index
      BY <1>2
    <3>4. PickedUpTo(Words, StrayPlaces)' = PickedUpTo(Words, StrayPlaces)
      BY <1>1, Frame
    <3> QED
      BY <1>1, <1>2, <1>5, <3>2, <3>3, <3>4, Zenon
  <2>5. ASSUME NEW o \in ToSet(options) PROVE Known(o)'
    <3>1. Applied = {} /\ Applied' = {}
      BY <1>1 DEF Applied
    <3>2. PlacesSeen(o)' = PlacesSeen(o)
      BY <1>1, <1>2, <1>3, PlacesGrow
    <3>3. Known(o)
      BY <1>5
    <3>4. index' \in Nat /\ index <= index'
      BY <1>1, <1>2
    <3> QED
      BY <1>1, <1>2, <3>1, <3>2, <3>3, <3>4, KnownStays
  <2> QED
    BY <1>1, <1>5, <2>2, <2>3, <2>4, <2>5 DEF SeenInv
<1>10. AtRest'
  BY <1>1 DEF AtRest, Accepts, FailureReported, Roles, ModelFaithful
<1> QED
  BY <1>6, <1>7, <1>8, <1>9, <1>10, Parts, PTL

-----------------------------------------------------------------------------
(* An error.                                                               *)

LEMMA FailKeeps ==
  ASSUME ParserIInv, state = "parsing", index < Len(args), Fail,
         UNCHANGED <<options, mapping, thread, args, state, ok, present, result>>,
         success' \in [Thread -> [Ranges -> BOOLEAN]], DOMAIN cached' = Option,
         \/ \E i \in DOMAIN args : ~Sound(i)
         \/ \E o \in ToSet(options) :
               Ranged(o) /\ Places(o) # {} /\ ~Flag(o)'
  PROVE  ParserIInv'
<1>0. ParserTypeOK /\ ShapeInv
  BY Parts
<1>1. reported' = TRUE /\ index' = Len(args) + 1 /\ current' = Unset /\ state' = "parsing"
  BY DEF Fail, FailAt
<1>2. Len(args) \in Nat /\ index' > Len(args)
  BY <1>0, <1>1, ArgsAre
<1>3. ParserTypeOK'
  <2>1. {ok, reported}' \subseteq BOOLEAN
    <3>1. ok \in BOOLEAN
      BY <1>0 DEF ParserTypeOK
    <3> QED
      BY <1>1, <3>1
  <2>2. index' \in 0 .. Len(args') + 1
    BY <1>1, <1>2
  <2> QED
    BY <1>0, <1>1, <2>1, <2>2 DEF ParserTypeOK
<1>4. ShapeInv'
  BY <1>0, <1>1 DEF ShapeInv
<1>5. LocalsInv' /\ SeenInv'
  <2>1. ~(index' <= Len(args'))
    BY <1>1, <1>2
  <2> QED
    BY <1>1, <2>1 DEF LocalsInv, SeenInv
<1>6. FailedInv'
  <2>1. (\E i \in DOMAIN args : ~Sound(i)) => (\E i \in DOMAIN args : ~Sound(i))'
    BY Frame
  <2>2. \A o : Places(o)' = Places(o)
    BY Frame
  <2>3. (\E o \in ToSet(options) : Ranged(o) /\ Places(o) # {} /\ ~Flag(o)')
        => (\E o \in ToSet(options) : Ranged(o) /\ Places(o) # {} /\ ~Flag(o))'
    BY <2>2 DEF Ranged
  <2> QED
    BY <1>1, <2>1, <2>3 DEF FailedInv
<1>7. AtRest'
  BY <1>1 DEF AtRest, Accepts, FailureReported, Roles, ModelFaithful
<1> QED
  BY <1>3, <1>4, <1>5, <1>6, <1>7, Parts, PTL

LEMMA RejectAssignmentKeeps ==
  ASSUME ParserIInv, RejectAssignment
  PROVE  ParserIInv'
<1>0. ParserTypeOK /\ ShapeInv
  BY Parts
<1>1. /\ state = "parsing" /\ index < Len(args) /\ AssignsCluster(Argument) /\ Fail
      /\ UNCHANGED <<options, mapping, thread, args, state, ok, present, result, success, cached>>
  BY DEF RejectAssignment, AtArgument, registry
<1>2. index + 1 \in DOMAIN args /\ Argument = args[index + 1]
  BY <1>0, <1>1, Here
<1>3. \E i \in DOMAIN args : ~Sound(i)
  BY <1>1, <1>2 DEF Sound
<1>4. success' \in [Thread -> [Ranges -> BOOLEAN]] /\ DOMAIN cached' = Option
  BY <1>0, <1>1 DEF ParserTypeOK, ShapeInv
<1> QED
  BY <1>1, <1>3, <1>4, FailKeeps

(* What is known of the locals where an option is next.                    *)
LEMMA AtOptionIs ==
  ASSUME ParserIInv, AtOption
  PROVE  /\ state = "parsing" /\ index < Len(args) /\ current \in Locals
         /\ \E n \in 0 .. Len(Matches(Argument)) - 1 :
               /\ current.todo = SubSeq(Matches(Argument), n + 1, Len(Matches(Argument)))
               /\ Head(current.todo) = Matches(Argument)[n + 1]
               /\ Tail(current.todo) = SubSeq(Matches(Argument), n + 2, Len(Matches(Argument)))
               /\ Applied = {Matches(Argument)[k] : k \in 1 .. n}
               /\ Len(current.todo) = Len(Matches(Argument)) - n
               /\ Len(Tail(current.todo)) = Len(Matches(Argument)) - (n + 1)
         /\ Head(current.todo) \in Mentions(index + 1) /\ Head(current.todo) \in ToSet(current.todo)
<1>0. ParserTypeOK /\ ShapeInv /\ LocalsInv /\ current # Unset /\ current.todo # <<>>
  BY Parts DEF AtOption
<1>1. state = "parsing" /\ index < Len(args) /\ current \in Locals
  BY <1>0 DEF ShapeInv
<1>2. index + 1 \in DOMAIN args /\ Argument = args[index + 1]
  BY <1>0, <1>1, Here
<1> DEFINE m == Matches(Argument)
<1>3. m \in Seq(ToSet(options)) /\ Mentions(index + 1) = {m[k] : k \in 1 .. Len(m)} /\ Len(m) \in Nat
  BY <1>0, <1>2, MentionsAre
<1>4. PICK n \in 0 .. Len(m) : current.todo = SubSeq(m, n + 1, Len(m))
  BY <1>0 DEF LocalsInv
<1>5. Applied = {m[k] : k \in 1 .. Len(m) - Len(current.todo)}
  BY <1>0 DEF Applied
<1> HIDE DEF m
<1>6. Len(current.todo) = Len(m) - n /\ n < Len(m)
  <2>1. n = Len(m) => SubSeq(m, n + 1, Len(m)) = <<>>
    BY <1>3
  <2>2. Len(SubSeq(m, n + 1, Len(m))) = Len(m) - n
    BY <1>3, <1>4
  <2> QED
    BY <1>0, <1>3, <1>4, <2>1, <2>2
<1>7. /\ Head(current.todo) = m[n + 1] /\ Tail(current.todo) = SubSeq(m, n + 2, Len(m))
      /\ Len(Tail(current.todo)) = Len(m) - (n + 1)
  <2> DEFINE t == SubSeq(m, n + 1, Len(m))
  <2>1. t \in Seq(ToSet(options)) /\ Len(t) = Len(m) - n /\ \A k \in 1 .. Len(m) - n : t[k] = m[n + k]
    BY <1>3, <1>4
  <2>2. /\ SubSeq(m, n + 2, Len(m)) \in Seq(ToSet(options))
        /\ Len(SubSeq(m, n + 2, Len(m))) = Len(m) - (n + 1)
        /\ \A k \in 1 .. Len(m) - (n + 1) : SubSeq(m, n + 2, Len(m))[k] = m[(n + 1) + k]
    BY <1>3, <1>4, <1>6
  <2> HIDE DEF t
  <2>3. /\ Tail(t) \in Seq(ToSet(options)) /\ Len(Tail(t)) = Len(m) - (n + 1) /\ Head(t) = m[n + 1]
        /\ \A k \in 1 .. Len(m) - (n + 1) : Tail(t)[k] = t[k + 1]
    BY <1>3, <1>4, <1>6, <2>1
  <2>4. Tail(t) = SubSeq(m, n + 2, Len(m))
    <3>1. \A k \in 1 .. Len(m) - (n + 1) : Tail(t)[k] = SubSeq(m, n + 2, Len(m))[k]
      <4>1. \A k \in 1 .. Len(m) - (n + 1) :
               k + 1 \in 1 .. Len(m) - n /\ n + (k + 1) = (n + 1) + k
        BY <1>3, <1>4
      <4> QED
        BY <2>1, <2>2, <2>3, <4>1
    <3> DEFINE u == Tail(t)
               v == SubSeq(m, n + 2, Len(m))
    <3>2. u \in Seq(ToSet(options)) /\ v \in Seq(ToSet(options)) /\ Len(u) = Len(v)
          /\ \A k \in 1 .. Len(u) : u[k] = v[k]
      BY <2>2, <2>3, <3>1
    <3> HIDE DEF u, v
    <3>3. u = v
      BY <3>2
    <3> QED
      BY <3>3 DEF u, v
  <2> QED
    BY <1>4, <2>3, <2>4 DEF t
<1>8. Len(m) - Len(current.todo) = n /\ n \in 0 .. Len(m) - 1 /\ n + 1 \in 1 .. Len(m)
  BY <1>3, <1>4, <1>6
<1>9. Head(current.todo) \in Mentions(index + 1)
  BY <1>3, <1>7, <1>8
<1>10. Head(current.todo) \in ToSet(current.todo)
  <2>1. current.todo \in Seq(ToSet(options)) /\ current.todo # <<>>
    BY <1>0, <1>3, <1>4
  <2>2. 1 \in DOMAIN current.todo /\ Head(current.todo) = current.todo[1]
    BY <2>1
  <2> QED
    BY <2>2 DEF ToSet
<1>11. Applied = {m[k] : k \in 1 .. n}
  BY <1>5, <1>8
<1> QED
  BY <1>1, <1>4, <1>6, <1>7, <1>8, <1>9, <1>10, <1>11 DEF m

LEMMA RejectClusterKeeps ==
  ASSUME ParserIInv, RejectCluster
  PROVE  ParserIInv'
<1>0. ParserTypeOK /\ ShapeInv /\ LocalsInv /\ current # Unset
  BY Parts DEF RejectCluster, AtOption
<1>1. /\ AtOption /\ ~current.single /\ ~Bool(Head(current.todo)) /\ Fail
      /\ UNCHANGED <<options, mapping, thread, args, state, ok, present, result, success, cached>>
  BY DEF RejectCluster, registry
<1>2. state = "parsing" /\ index < Len(args) /\ Head(current.todo) \in Mentions(index + 1)
  BY <1>1, AtOptionIs
<1>3. index + 1 \in DOMAIN args /\ Argument = args[index + 1]
  BY <1>0, <1>2, Here
<1>4. Len(Matches(Argument)) > 1
  <2>1. Len(Matches(Argument)) \in Nat
    BY <1>0, <1>3, MentionsAre
  <2>2. Len(Matches(Argument)) <= 1 => current.single
    BY <1>0 DEF LocalsInv
  <2> QED
    BY <1>1, <2>1, <2>2
<1>5. \E i \in DOMAIN args : ~Sound(i)
  BY <1>1, <1>2, <1>3, <1>4 DEF Sound
<1>6. success' \in [Thread -> [Ranges -> BOOLEAN]] /\ DOMAIN cached' = Option
  BY <1>0, <1>1 DEF ParserTypeOK, ShapeInv
<1> QED
  BY <1>1, <1>2, <1>5, <1>6, FailKeeps

-----------------------------------------------------------------------------
(* In the middle of an argument.                                           *)

LEMMA FrameHere ==
  ASSUME UNCHANGED <<mapping, args, index>>, NEW o
  PROVE  /\ Argument' = Argument /\ Matches(Argument)' = Matches(Argument)
         /\ NextAsValue(index + 1)' = NextAsValue(index + 1)
         /\ Given(index + 1, o)' = Given(index + 1, o)
         /\ AssignsCluster(Argument)' = AssignsCluster(Argument)
         /\ PlacesSeen(o)' = PlacesSeen(o)
<1>1. Argument' = Argument /\ Matches(Argument)' = Matches(Argument)
  BY DEF Argument, Matches
<1>2. AssignsCluster(Argument)' = AssignsCluster(Argument)
  BY <1>1 DEF AssignsCluster
<1>3. (\A i : NextAsValue(i)' = NextAsValue(i)) /\ \A i : Given(i, o)' = Given(i, o)
  BY Frame
<1>4. \A i : Mentions(i)' = Mentions(i)
  BY Frame
<1>5. PlacesSeen(o)' = PlacesSeen(o)
  BY <1>4 DEF PlacesSeen
<1> QED
  BY <1>1, <1>2, <1>3, <1>5

(* Without a value of its own, and none that it takes, there is none. *)
LEMMA GivenAlone ==
  ASSUME ParserTypeOK, ShapeInv, index < Len(args), NEW o,
         Mentions(index + 1) = {o}, ~Bool(o)
  PROVE  Given(index + 1, o) = IF NextAsValue(index + 1) THEN args[index + 2].value ELSE Argument.value
<1>1. index + 1 \in DOMAIN args /\ Argument = args[index + 1] /\ (index + 1) + 1 = index + 2
  BY Here
<1>2. TakesNext(index + 1) <=> NextAsValue(index + 1)
  BY DEF TakesNext
<1> QED
  BY <1>1, <1>2 DEF Given, NextAsValue

LEMMA MatchArgumentKeeps ==
  ASSUME ParserIInv, MatchArgument
  PROVE  ParserIInv'
<1>0. ParserTypeOK /\ ShapeInv /\ SeenInv
  BY Parts
<1> DEFINE m == Matches(Argument)
           v == IF NextAsValue(index + 1) THEN args[index + 2].value ELSE Argument.value
<1>1. /\ state = "parsing" /\ state' = "parsing" /\ current = Unset
      /\ index < Len(args) /\ Argument.kind # "plain" /\ ~AssignsCluster(Argument)
      /\ UNCHANGED <<options, mapping, thread, args, index, ok>>
      /\ UNCHANGED <<result, unmatched, present, reported, cached, success>>
      /\ current' = [todo |-> m, single |-> Len(m) <= 1, value |-> v,
                     nextAsValue |-> NextAsValue(index + 1), anyBoolean |-> FALSE]
  BY DEF MatchArgument, AtArgument, registry, outcome
<1>2. /\ index \in Nat /\ Len(args) \in Nat /\ DOMAIN args = 1 .. Len(args)
      /\ index + 1 \in DOMAIN args /\ index + 1 <= Len(args) /\ Argument = args[index + 1]
      /\ index <= Len(args)
  BY <1>0, <1>1, Here
<1>3. m \in Seq(ToSet(options)) /\ Len(m) \in Nat /\ Mentions(index + 1) = {m[k] : k \in 1 .. Len(m)}
  BY <1>0, <1>2, MentionsAre
<1>4. v \in Seq(Part)
  BY <1>0, <1>2, ArgsAre DEF NextAsValue, Plain
<1>5. current' \in Locals /\ current' # Unset
  <2>1. m \in Seq(Option)
    BY <1>0, <1>3 DEF ParserTypeOK
  <2> DEFINE s == Len(m) <= 1
             n == NextAsValue(index + 1)
  <2>2. s \in BOOLEAN /\ n \in BOOLEAN
    BY DEF NextAsValue
  <2>3. current' = [todo |-> m, single |-> s, value |-> v, nextAsValue |-> n, anyBoolean |-> FALSE]
    BY <1>1
  <2> HIDE DEF m, v, s, n
  <2>4. current' \in Locals
    BY <1>4, <2>1, <2>2, <2>3 DEF Locals
  <2> QED
    BY <2>4, PartAssumption
<1>6. /\ current'.todo = m /\ current'.value = v /\ (current'.single <=> Len(m) <= 1)
      /\ (current'.nextAsValue <=> NextAsValue(index + 1)) /\ current'.anyBoolean = FALSE
  <2> HIDE DEF m, v
  <2> QED
    BY <1>1
<1>7. Applied' = {}
  <2>1. Matches(Argument)' = m
    BY <1>1, FrameHere
  <2>2. Applied' = {m[k] : k \in 1 .. Len(m) - Len(m)}
    BY <1>5, <1>6, <2>1 DEF Applied
  <2> HIDE DEF m
  <2> QED
    BY <1>3, <2>2
<1>8. ParserTypeOK'
  BY <1>0, <1>1 DEF ParserTypeOK
<1>9. ShapeInv'
  <2>1. Argument' = Argument /\ AssignsCluster(Argument)' = AssignsCluster(Argument)
    BY <1>1, FrameHere
  <2> HIDE DEF m, v
  <2> QED
    BY <1>0, <1>1, <1>5, <2>1 DEF ShapeInv
<1>10. LocalsInv'
  <2>1. /\ Matches(Argument)' = m
        /\ NextAsValue(index + 1)' = NextAsValue(index + 1)
        /\ \A o : Given(index + 1, o)' = Given(index + 1, o)
    BY <1>1, FrameHere
  <2>2. \E n \in 0 .. Len(m) : current'.todo = SubSeq(m, n + 1, Len(m))
    <3> HIDE DEF m, v
    <3>1. SubSeq(m, 0 + 1, Len(m)) = m /\ 0 \in 0 .. Len(m)
      BY <1>3
    <3> QED
      BY <1>6, <3>1
  <2>3. ASSUME NEW o \in ToSet(m), current'.single \/ Bool(o)
        PROVE  ValueFor(o)' = Given(index + 1, o)
    <3>1. o \in Mentions(index + 1)
      BY <2>3 DEF Mentions, Argument
    <3>2. ValueFor(o)' = LET value == IF Bool(o) /\ NextAsValue(index + 1) THEN <<>> ELSE v
                         IN  IF Bool(o) /\ value = <<>> THEN True ELSE value
      <4> HIDE DEF m, v
      <4> QED
        BY <1>6 DEF ValueFor
    <3>3. CASE Bool(o)
      <4>1. NextAsValue(index + 1) => Argument.value = <<>>
        BY <1>2 DEF NextAsValue
      <4>2. Given(index + 1, o) = IF Argument.value # <<>> THEN Argument.value ELSE True
        BY <1>2, <3>3 DEF Given
      <4>3. CASE NextAsValue(index + 1)
        BY <3>2, <3>3, <4>1, <4>2, <4>3
      <4>4. CASE ~NextAsValue(index + 1)
        <5>1. v = Argument.value
          BY <4>4
        <5>2. ValueFor(o)' = IF v = <<>> THEN True ELSE v
          BY <3>2, <3>3, <4>4
        <5> QED
          BY <4>2, <5>1, <5>2
      <4> QED
        BY <4>3, <4>4
    <3>4. CASE ~Bool(o)
      <4>1. Len(m) <= 1
        BY <1>6, <2>3, <3>4
      <4>2. Mentions(index + 1) = {o}
        <5> HIDE DEF m
        <5> QED
          BY <1>3, <3>1, <4>1
      <4>3. Given(index + 1, o) = v
        BY <1>0, <1>1, <3>4, <4>2, GivenAlone
      <4>4. ValueFor(o)' = v
        BY <3>2, <3>4
      <4> QED
        BY <4>3, <4>4
    <3> QED
      BY <3>3, <3>4
  <2>4. \A o \in ToSet(current'.todo) :
           current'.single \/ Bool(o) => ValueFor(o)' = Given(index + 1, o)'
    BY <1>6, <2>1, <2>3
  <2> HIDE DEF m, v
  <2> QED
    BY <1>6, <1>7, <2>1, <2>2, <2>4 DEF LocalsInv
<1>11. FailedInv'
  BY <1>1, <1>2 DEF FailedInv
<1>12. SeenInv'
  <2>1. /\ ~reported /\ (\A i \in 1 .. index : Sound(i)) /\ (index > 0 => ~TakesNext(index))
        /\ unmatched = PickedUpTo(Words, StrayPlaces)[index] /\ \A o \in ToSet(options) : Known(o)
    BY <1>0, <1>1, <1>2 DEF SeenInv
  <2>2. /\ \A i : Sound(i)' = Sound(i) /\ TakesNext(i)' = TakesNext(i)
        /\ PickedUpTo(Words, StrayPlaces)' = PickedUpTo(Words, StrayPlaces)
    BY <1>1, Frame
  <2>3. ASSUME NEW o \in ToSet(options) PROVE Known(o)'
    <3>1. o \notin Applied /\ o \notin Applied'
      BY <1>1, <1>7 DEF Applied
    <3>2. PlacesSeen(o)' = PlacesSeen(o)
      BY <1>1, <1>2, PlacesGrow
    <3>3. Known(o) /\ index' \in Nat /\ index <= index'
      BY <1>1, <1>2, <2>1
    <3> QED
      BY <1>1, <1>2, <3>1, <3>2, <3>3, KnownStays
  <2> HIDE DEF m, v
  <2> QED
    BY <1>1, <2>1, <2>2, <2>3 DEF SeenInv
<1>13. AtRest'
  BY <1>1 DEF AtRest, Accepts, FailureReported, Roles, ModelFaithful
<1> QED
  BY <1>8, <1>9, <1>10, <1>11, <1>12, <1>13, Parts, PTL

LEMMA EndArgumentKeeps ==
  ASSUME ParserIInv, EndArgument
  PROVE  ParserIInv'
<1>0. ParserTypeOK /\ ShapeInv /\ LocalsInv /\ SeenInv
  BY Parts
<1> DEFINE m == Matches(Argument)
           i == index + 1
<1>1. /\ current # Unset /\ current.todo = <<>> /\ current' = Unset
      /\ index' = i + IF current.nextAsValue /\ ~current.anyBoolean THEN 1 ELSE 0
      /\ UNCHANGED <<options, mapping, thread, args, state, ok>>
      /\ UNCHANGED <<result, unmatched, present, reported, cached, success>>
  BY DEF EndArgument, EndArgumentAt, registry, outcome
<1>2. /\ state = "parsing" /\ state' = "parsing" /\ index < Len(args)
      /\ Argument.kind # "plain" /\ ~AssignsCluster(Argument)
  BY <1>0, <1>1 DEF ShapeInv
<1>3. /\ index \in Nat /\ Len(args) \in Nat /\ DOMAIN args = 1 .. Len(args)
      /\ i \in DOMAIN args /\ i <= Len(args) /\ Argument = args[i]
      /\ index <= Len(args)
  BY <1>0, <1>2, Here
<1>4. m \in Seq(ToSet(options)) /\ Len(m) \in Nat /\ Mentions(i) = {m[k] : k \in 1 .. Len(m)}
  BY <1>0, <1>3, MentionsAre
<1>5. Applied = Mentions(i)
  <2>1. Applied = {m[k] : k \in 1 .. Len(m) - Len(<<>>)}
    BY <1>1 DEF Applied
  <2> HIDE DEF m
  <2> QED
    BY <1>4, <2>1
<1>6. /\ Len(m) <= 1 \/ \A o \in Mentions(i) : Bool(o)
      /\ current.nextAsValue <=> NextAsValue(i)
      /\ current.anyBoolean <=> \E o \in Mentions(i) : Bool(o)
      /\ \A o \in Mentions(i) : Admissible(o, Given(i, o))
  <2>1. /\ (current.single <=> Len(m) <= 1) /\ (~current.single => \A o \in Applied : Bool(o))
        /\ (current.nextAsValue <=> NextAsValue(index + 1))
        /\ (current.anyBoolean <=> \E o \in Applied : Bool(o))
        /\ \A o \in Applied : Admissible(o, Given(index + 1, o))
    BY <1>0, <1>1 DEF LocalsInv
  <2> HIDE DEF m
  <2> QED
    BY <1>5, <2>1
<1>7. TakesNext(i) <=> current.nextAsValue /\ ~current.anyBoolean
  BY <1>6 DEF TakesNext
<1>8. Sound(i)
  <2>1. Len(Matches(args[i])) > 1 => \A o \in Mentions(i) : Bool(o)
    <3> HIDE DEF m
    <3>1. Len(m) > 1 => \A o \in Mentions(i) : Bool(o)
      BY <1>4, <1>6
    <3> QED
      BY <1>3, <3>1 DEF m
  <2> QED
    BY <1>2, <1>3, <1>6, <2>1 DEF Sound
<1>9. /\ ~reported /\ (\A j \in 1 .. index : Sound(j)) /\ (index > 0 => ~TakesNext(index))
      /\ unmatched = PickedUpTo(Words, StrayPlaces)[index] /\ \A o \in ToSet(options) : Known(o)
  BY <1>0, <1>2, <1>3 DEF SeenInv
<1> HIDE DEF m
(* The next argument, if it was taken as the value. *)
<1>10. TakesNext(i) => /\ index' = index + 2 /\ index + 2 \in DOMAIN args /\ index + 2 <= Len(args)
                       /\ Sound(index + 2) /\ ~TakesNext(index + 2) /\ ~Stray(index + 2)
                       /\ Mentions(index + 2) = {}
  <2> SUFFICES ASSUME TakesNext(i)
               PROVE  /\ index' = index + 2 /\ index + 2 \in DOMAIN args /\ index + 2 <= Len(args)
                      /\ Sound(index + 2) /\ ~TakesNext(index + 2) /\ ~Stray(index + 2)
                      /\ Mentions(index + 2) = {}
    OBVIOUS
  <2>1. index' = index + 2 /\ i + 1 = index + 2
    BY <1>1, <1>3, <1>7
  <2>2. index + 2 \in DOMAIN args /\ args[index + 2].kind = "plain"
    BY <2>1 DEF TakesNext, NextAsValue, Plain
  <2>3. Mentions(index + 2) = {} /\ Len(Matches(args[index + 2])) = 0
    BY <1>0, <2>2, MentionsAre
  <2>4. Sound(index + 2)
    BY <2>2, <2>3 DEF Sound, AssignsCluster
  <2>5. ~TakesNext(index + 2)
    BY <2>2 DEF TakesNext, NextAsValue
  <2>6. ~Stray(index + 2)
    <3>1. (index + 2) - 1 = i /\ index + 2 > 1
      BY <1>3
    <3> QED
      BY <3>1 DEF Stray
  <2> QED
    BY <1>3, <2>1, <2>2, <2>3, <2>4, <2>5, <2>6
<1>11. ~TakesNext(i) => index' = index + 1
  BY <1>1, <1>3, <1>7
<1>12. ~Stray(i)
  BY <1>2, <1>3 DEF Stray, Plain
<1>13. index' \in Nat /\ index' <= Len(args) /\ index <= index' /\ i <= index'
  BY <1>3, <1>10, <1>11
<1>14. ParserTypeOK'
  BY <1>0, <1>1, <1>3, <1>13 DEF ParserTypeOK
<1>15. ShapeInv'
  BY <1>0, <1>1 DEF ShapeInv
<1>16. LocalsInv' /\ FailedInv'
  BY <1>1, <1>3, <1>13 DEF LocalsInv, FailedInv
<1>17. SeenInv'
  <2>1. /\ \A j : Sound(j)' = Sound(j) /\ TakesNext(j)' = TakesNext(j)
        /\ PickedUpTo(Words, StrayPlaces)' = PickedUpTo(Words, StrayPlaces)
    BY <1>1, Frame
  <2>2. \A j \in 1 .. index' : Sound(j)'
    <3>1. \A j \in 1 .. index' : Sound(j)
      <4>1. \A j \in 1 .. index' : j \in 1 .. index \/ j = i \/ (TakesNext(i) /\ j = index + 2)
        BY <1>3, <1>10, <1>11
      <4> QED
        BY <1>8, <1>9, <1>10, <4>1
    <3> QED
      BY <2>1, <3>1
  <2>3. ~TakesNext(index)'
    <3>1. ~TakesNext(index')
      BY <1>3, <1>10, <1>11
    <3> QED
      BY <1>1, <2>1, <3>1
  <2>4. unmatched' = PickedUpTo(Words, StrayPlaces)'[index']
    <3> DEFINE p == PickedUpTo(Words, StrayPlaces)
    <3>1. \A k \in DOMAIN args : ~Stray(k) => p[k] = p[k - 1]
      BY <1>0, WordsPicked
    <3> HIDE DEF p
    <3>2. p[i] = p[index]
      <4>1. p[i] = p[i - 1] /\ i - 1 = index
        BY <1>3, <1>12, <3>1
      <4> QED
        BY <4>1
    <3>3. TakesNext(i) => p[index + 2] = p[i]
      <4>1. (index + 2) - 1 = i
        BY <1>3
      <4> QED
        BY <1>10, <3>1, <4>1
    <3>4. p[index'] = p[index]
      BY <1>10, <1>11, <3>2, <3>3
    <3> QED
      BY <1>1, <1>9, <2>1, <3>4 DEF p
  <2>5. ASSUME NEW o \in ToSet(options) PROVE Known(o)'
    <3>1. o \notin Applied'
      BY <1>1 DEF Applied
    <3>2. PlacesSeen(o)' = PlacesSeen(o) \cup (IF o \in Mentions(i) THEN {i} ELSE {})
      <4>1. CASE TakesNext(i)
        <5>1. PlacesSeen(o)' = PlacesSeen(o) \cup {j \in {index + 1, index + 2} : o \in Mentions(j)}
          BY <1>1, <1>3, <1>10, <4>1, PlacesGrow
        <5> QED
          BY <1>10, <4>1, <5>1
      <4>2. CASE ~TakesNext(i)
        <5>1. PlacesSeen(o)' = PlacesSeen(o) \cup {j \in {index + 1} : o \in Mentions(j)}
          BY <1>1, <1>3, <1>11, <4>2, PlacesGrow
        <5> QED
          BY <5>1
      <4> QED
        BY <4>1, <4>2
    <3>3. Known(o)
      BY <1>9
    <3>4. CASE o \notin Mentions(i)
      <4>1. PlacesSeen(o)' = PlacesSeen(o) /\ o \notin Applied
        BY <1>5, <3>2, <3>4
      <4> QED
        BY <1>1, <1>3, <1>13, <3>1, <3>3, <4>1, KnownStays
    <3>5. CASE o \in Mentions(i)
      <4>1. /\ o \in Applied /\ o \in present /\ result[About[o].bound].raw = Given(i, o)
            /\ Ranged(o) => Flag(o)
            /\ result[About[o].bound] = [option |-> o, raw |-> result[About[o].bound].raw]
            /\ result[About[o].bound].raw \in Seq(Part)
            /\ cached[o] = result[About[o].bound].raw
        BY <1>5, <3>3, <3>5 DEF Known
      <4>2. Latest(i, PlacesSeen(o)')
        <5>1. \A j \in PlacesSeen(o) : j \in Nat /\ j <= i
          BY <1>3 DEF PlacesSeen
        <5> QED
          BY <1>3, <3>2, <3>5, <5>1 DEF Latest
      <4>4. i \in 1 .. index'
        BY <1>3, <1>13
      <4>5. \E j \in 1 .. index' : Latest(j, PlacesSeen(o)') /\ result[About[o].bound].raw = Given(j, o)'
        <5>1. \A j : Given(j, o)' = Given(j, o)
          BY <1>1, Frame
        <5> QED
          BY <4>1, <4>2, <4>4, <5>1
      <4>6. PlacesSeen(o)' # {}
        BY <4>2 DEF Latest
      <4> QED
        BY <1>1, <3>1, <4>1, <4>5, <4>6 DEF Known, Latest, Flag
    <3> QED
      BY <3>4, <3>5
  <2> QED
    BY <1>1, <1>2, <1>9, <2>2, <2>3, <2>4, <2>5 DEF SeenInv
<1>18. AtRest'
  BY <1>2 DEF AtRest, Accepts, FailureReported, Roles, ModelFaithful
<1> QED
  BY <1>14, <1>15, <1>16, <1>17, <1>18, Parts, PTL

-----------------------------------------------------------------------------
(* The value of an option.                                                 *)

LEMMA RangeIs ==
  ASSUME NEW o, NEW value \in Seq(Part), NEW flag \in BOOLEAN
  PROVE  /\ ReadRange(o, value, flag).good \in BOOLEAN
         /\ ReadRange(o, value, flag).good =>
               /\ ReadRange(o, value, flag).cached = value
               /\ \A k \in DOMAIN value : ReadPart(o, value[k])
<1> DEFINE legible(n) == \A k \in 1 .. n : ReadPart(o, value[k])
           Is(n) == legible(n) /\ (n < Len(value) => ~legible(n + 1))
           prefix == CHOOSE n \in 0 .. Len(value) : Is(n)
<1>1. Len(value) \in Nat /\ DOMAIN value = 1 .. Len(value) /\ SubSeq(value, 1, Len(value)) = value
  OBVIOUS
<1>2. \E n \in 0 .. Len(value) : Is(n)
  <2> DEFINE T == {n \in 0 .. Len(value) : n < Len(value) => ~legible(n + 1)}
  <2>1. T \in SUBSET Nat /\ Len(value) \in T
    BY <1>1
  <2>2. PICK x \in T : \A y \in T : x <= y
    <3> HIDE DEF T
    <3>1. T # {}
      BY <2>1
    <3> QED
      BY <2>1, <3>1, Minimum
  <2>3. legible(x)
    <3>1. CASE x = 0
      BY <3>1
    <3>2. CASE x # 0
      <4>1. x \in Nat /\ x <= Len(value) /\ x - 1 \in 0 .. Len(value) /\ x - 1 < Len(value) /\ ~(x <= x - 1)
        BY <1>1, <3>2
      <4>2. x - 1 \notin T
        BY <2>2, <4>1
      <4>3. legible((x - 1) + 1)
        <5> HIDE DEF legible
        <5> QED
          BY <4>1, <4>2
      <4>4. (x - 1) + 1 = x
        BY <4>1
      <4> HIDE DEF legible
      <4> QED
        BY <4>3, <4>4
    <3> QED
      BY <3>1, <3>2
  <2> QED
    BY <2>3
<1>3. prefix \in 0 .. Len(value) /\ Is(prefix)
  <2> HIDE DEF Is
  <2> QED
    BY <1>2
<1>4. ReadRange(o, value, flag) =
        IF flag THEN [cached |-> SubSeq(value, 1, prefix), good |-> prefix = Len(value)]
        ELSE [cached |-> Unset, good |-> FALSE]
  BY DEF ReadRange
<1> HIDE DEF prefix
<1>5. CASE flag
  <2> DEFINE g == prefix = Len(value)
  <2>0. g \in BOOLEAN /\ ReadRange(o, value, flag) = [cached |-> SubSeq(value, 1, prefix), good |-> g]
    BY <1>4, <1>5
  <2> HIDE DEF g
  <2> DEFINE c == SubSeq(value, 1, prefix)
             r == ReadRange(o, value, flag)
  <2>1. r.cached = c /\ r.good = g
    <3>1. r = [cached |-> c, good |-> g]
      BY <2>0
    <3> HIDE DEF r, c
    <3>2. r.cached = c
      BY <3>1
    <3>3. r.good = g
      BY <3>1, Zenon
    <3> QED
      BY <3>2, <3>3
  <2>2. prefix = Len(value) => SubSeq(value, 1, prefix) = value /\ legible(Len(value))
    BY <1>1, <1>3
  <2>3. legible(Len(value)) => \A k \in DOMAIN value : ReadPart(o, value[k])
    BY <1>1
  <2> HIDE DEF legible
  <2>4. ReadRange(o, value, flag).good \in BOOLEAN
    BY <2>0, <2>1, Zenon
  <2>5. ReadRange(o, value, flag).good => prefix = Len(value)
    BY <2>1, Zenon DEF g
  <2> QED
    BY <2>1, <2>2, <2>3, <2>4, <2>5, Zenon
<1>6. CASE ~flag
  <2>1. ReadRange(o, value, flag).good = FALSE
    BY <1>4, <1>6
  <2> QED
    BY <2>1, Zenon
<1> QED
  BY <1>5, <1>6

(* A value is accepted only if it is right for the type, and then it is    *)
(* cached; any other reason is the flag of a range.                        *)
Right(o, value) ==
  IF Ranged(o) THEN \A k \in DOMAIN value : ReadPart(o, value[k])
               ELSE value \in About[o].valid

LEMMA ReadIs ==
  ASSUME NEW o, NEW value \in Seq(Part), NEW old, NEW flag \in BOOLEAN
  PROVE  /\ ReadValue(o, value, old, flag).good \in BOOLEAN
         /\ ReadValue(o, value, old, flag).good =>
               ReadValue(o, value, old, flag).cached = value /\ Right(o, value)
         /\ ~ReadValue(o, value, old, flag).good => Ranged(o) \/ ~Right(o, value)
<1> DEFINE r == ReadValue(o, value, old, flag)
<1>1. CASE Ranged(o)
  <2>1. r = ReadRange(o, value, flag)
    BY <1>1 DEF ReadValue
  <2> HIDE DEF r
  <2>2. /\ r.good \in BOOLEAN
        /\ r.good => r.cached = value /\ \A k \in DOMAIN value : ReadPart(o, value[k])
    BY <2>1, RangeIs
  <2> QED
    BY <1>1, <2>2 DEF Right, r
<1>2. CASE ~Ranged(o)
  <2> DEFINE g == value \in About[o].valid
  <2>1. r.good = g /\ (g => r.cached = value)
    BY <1>2 DEF ReadValue, ReadScalar
  <2>2. g \in BOOLEAN
    OBVIOUS
  <2>3. g <=> Right(o, value)
    BY <1>2 DEF Right
  <2> HIDE DEF r, g
  <2>4. r.good \in BOOLEAN /\ (r.good => g) /\ (~r.good => ~g)
    BY <2>1, <2>2, Zenon
  <2> QED
    BY <2>1, <2>3, <2>4, Zenon DEF r
<1> QED
  BY <1>1, <1>2

LEMMA ValueIs ==
  ASSUME ParserIInv, AtOption, current.single \/ Bool(Head(current.todo))
  PROVE  /\ ValueFor(Head(current.todo)) = Given(index + 1, Head(current.todo))
         /\ Given(index + 1, Head(current.todo)) \in Seq(Part)
<1>0. ParserTypeOK /\ ShapeInv /\ LocalsInv /\ current # Unset
  BY Parts DEF AtOption
<1>1. index < Len(args) /\ Head(current.todo) \in ToSet(current.todo)
  BY AtOptionIs
<1>2. index + 1 \in DOMAIN args
  BY <1>0, <1>1, Here
<1>3. Given(index + 1, Head(current.todo)) \in Seq(Part)
  BY <1>0, <1>2, GivenIs
<1>4. \A o \in ToSet(current.todo) :
         current.single \/ Bool(o) => ValueFor(o) = Given(index + 1, o)
  BY <1>0 DEF LocalsInv
<1> QED
  BY <1>1, <1>3, <1>4

(* What Apply does to an option's cache and to the flag of its type.       *)
Reads(o, value, good) ==
  /\ good \in BOOLEAN
  /\ good => Admissible(o, value) /\ cached' = [cached EXCEPT ![o] = value]
  /\ ~good => Ranged(o) \/ ~Admissible(o, value)
  /\ DOMAIN cached' = DOMAIN cached
  /\ success' = IF Ranged(o) THEN [success EXCEPT ![thread][About[o].type] = good] ELSE success

LEMMA ApplyReads ==
  ASSUME ParserIInv, Apply
  PROVE  LET o == Head(current.todo)
             value == Given(index + 1, o)
         IN  \E good :
                /\ Reads(o, value, good)
                /\ good => /\ present' = present \cup {o}
                           /\ result' = Over([b \in {About[o].bound} |-> [option |-> o, raw |-> value]], result)
                           /\ current' = [current EXCEPT !.todo = Tail(@), !.value = value,
                                                         !.anyBoolean = @ \/ Bool(o)]
                           /\ UNCHANGED <<index, reported>>
                /\ ~good => Fail /\ UNCHANGED <<present, result>>
<1> DEFINE o == Head(current.todo)
           value == Given(index + 1, o)
           flag == Ranged(o) /\ Flag(o)
           read == ReadValue(o, value, cached[o], flag)
           good == read.good /\ <<o, value>> \notin Vetoed
<1>0. ParserTypeOK /\ ShapeInv
  BY Parts
<1>1. AtOption /\ (current.single \/ Bool(o)) /\ state = "parsing"
  BY AtOptionIs DEF Apply
<1>2. ValueFor(o) = value /\ value \in Seq(Part)
  BY <1>1, ValueIs
<1>3. flag \in BOOLEAN
  BY Zenon
<1>4. /\ cached' = [cached EXCEPT ![o] = read.cached]
      /\ success' = IF Ranged(o) THEN [success EXCEPT ![thread][About[o].type] = good] ELSE success
      /\ good => /\ present' = present \cup {o}
                 /\ result' = Over([b \in {About[o].bound} |-> [option |-> o, raw |-> value]], result)
                 /\ current' = [current EXCEPT !.todo = Tail(@), !.value = value,
                                               !.anyBoolean = @ \/ Bool(o)]
                 /\ UNCHANGED <<index, reported>>
      /\ ~good => Fail /\ UNCHANGED <<present, result>>
  <2>1. ValueFor(Head(current.todo)) = value
    BY <1>2
  <2> HIDE DEF value
  <2> QED
    BY <2>1, Zenon DEF Apply
<1> HIDE DEF o, value, flag, read
<1>5. /\ read.good \in BOOLEAN
      /\ read.good => read.cached = value /\ Right(o, value)
      /\ ~read.good => Ranged(o) \/ ~Right(o, value)
  BY <1>2, <1>3, ReadIs DEF read
<1>6. Admissible(o, value) <=> Right(o, value) /\ <<o, value>> \notin Vetoed
  BY DEF Admissible, Right
<1>7. good \in BOOLEAN
  BY Zenon
<1>8. good => Admissible(o, value) /\ cached' = [cached EXCEPT ![o] = value]
  BY <1>4, <1>5, <1>6, Zenon
<1>9. ~good => Ranged(o) \/ ~Admissible(o, value)
  BY <1>5, <1>6, Zenon
<1>10. DOMAIN cached' = DOMAIN cached
  BY <1>4
<1> HIDE DEF good
<1>11. Reads(o, value, good)
  BY <1>4, <1>7, <1>8, <1>9, <1>10, Zenon DEF Reads
<1> QED
  BY <1>4, <1>11, Zenon DEF o, value

LEMMA LocalsAfter ==
  ASSUME current \in Locals, NEW t \in Seq(Option), NEW v \in Seq(Part), NEW b \in BOOLEAN,
         current' = [current EXCEPT !.todo = t, !.value = v, !.anyBoolean = @ \/ b]
  PROVE  /\ current' \in Locals /\ current'.todo = t /\ current'.value = v
         /\ current'.single = current.single /\ current'.nextAsValue = current.nextAsValue
         /\ current'.anyBoolean <=> current.anyBoolean \/ b
<1> DEFINE any == current.anyBoolean \/ b
<1>1. any \in BOOLEAN
  OBVIOUS
<1>2. current' = [current EXCEPT !.todo = t, !.value = v, !.anyBoolean = any]
  OBVIOUS
<1> HIDE DEF any
<1>3. current' \in Locals /\ current'.anyBoolean = any
  BY <1>1, <1>2 DEF Locals
<1>4. current'.todo = t /\ current'.value = v
  BY <1>2 DEF Locals
<1>5. current'.single = current.single /\ current'.nextAsValue = current.nextAsValue
  BY <1>2 DEF Locals
<1>6. current'.anyBoolean <=> current.anyBoolean \/ b
  BY <1>3, Zenon DEF any
<1> QED
  BY <1>3, <1>4, <1>5, <1>6

(* The next option of a group: with the value that the first one had.      *)
LEMMA NextInGroup ==
  ASSUME ParserTypeOK, ShapeInv, index < Len(args), NEW o, NEW p, Bool(o), Bool(p)
  PROVE  Given(index + 1, p) =
           LET value == IF NextAsValue(index + 1) THEN <<>> ELSE Given(index + 1, o)
           IN  IF value = <<>> THEN True ELSE value
<1>1. index + 1 \in DOMAIN args
  BY Here
<1>2. /\ Given(index + 1, p) = IF args[index + 1].value # <<>> THEN args[index + 1].value ELSE True
      /\ Given(index + 1, o) = IF args[index + 1].value # <<>> THEN args[index + 1].value ELSE True
  BY DEF Given
<1>3. NextAsValue(index + 1) => args[index + 1].value = <<>>
  BY DEF NextAsValue
<1>4. True # <<>>
  BY DEF True
<1> QED
  BY <1>2, <1>3, <1>4

(* The locals after an option that was good.                               *)
LEMMA ApplyLocals ==
  ASSUME ParserIInv, AtOption, current.single \/ Bool(Head(current.todo)),
         UNCHANGED <<mapping, args, index>>,
         Admissible(Head(current.todo), Given(index + 1, Head(current.todo))),
         current' = [current EXCEPT !.todo = Tail(@), !.value = Given(index + 1, Head(current.todo)),
                                    !.anyBoolean = @ \/ Bool(Head(current.todo))]
  PROVE  /\ current' \in Locals /\ current' # Unset
         /\ Applied' = Applied \cup {Head(current.todo)}
         /\ LocalsInv'
<1> DEFINE o == Head(current.todo)
           i == index + 1
           m == Matches(Argument)
           value == Given(i, o)
<1>0. ParserTypeOK /\ ShapeInv /\ LocalsInv /\ current # Unset
  BY Parts DEF AtOption
<1>1. /\ index < Len(args) /\ current \in Locals
      /\ \E n \in 0 .. Len(m) - 1 :
            /\ current.todo = SubSeq(m, n + 1, Len(m))
            /\ Head(current.todo) = m[n + 1]
            /\ Tail(current.todo) = SubSeq(m, n + 2, Len(m))
            /\ Applied = {m[k] : k \in 1 .. n}
            /\ Len(current.todo) = Len(m) - n
            /\ Len(Tail(current.todo)) = Len(m) - (n + 1)
      /\ o \in Mentions(i)
  BY AtOptionIs
<1>2. PICK n \in 0 .. Len(m) - 1 :
            /\ current.todo = SubSeq(m, n + 1, Len(m))
            /\ Head(current.todo) = m[n + 1]
            /\ Tail(current.todo) = SubSeq(m, n + 2, Len(m))
            /\ Applied = {m[k] : k \in 1 .. n}
            /\ Len(current.todo) = Len(m) - n
            /\ Len(Tail(current.todo)) = Len(m) - (n + 1)
  BY <1>1
<1>3. i \in DOMAIN args /\ Argument = args[i]
  BY <1>0, <1>1, Here
<1>4. m \in Seq(ToSet(options)) /\ Len(m) \in Nat
  BY <1>0, <1>3, MentionsAre
<1>5. value \in Seq(Part)
  BY ValueIs
<1>6. Bool(o) \in BOOLEAN
  BY DEF Bool
<1>7. Tail(current.todo) \in Seq(Option)
  <2>1. ToSet(options) \subseteq Option
    BY <1>0 DEF ParserTypeOK
  <2> HIDE DEF m
  <2>2. SubSeq(m, n + 2, Len(m)) \in Seq(Option)
    BY <1>4, <2>1
  <2> QED
    BY <1>2, <2>2
<1>8. current' = [current EXCEPT !.todo = Tail(current.todo), !.value = value, !.anyBoolean = @ \/ Bool(o)]
  OBVIOUS
<1>9. /\ current' \in Locals /\ current'.todo = Tail(current.todo) /\ current'.value = value
      /\ current'.single = current.single /\ current'.nextAsValue = current.nextAsValue
      /\ current'.anyBoolean <=> current.anyBoolean \/ Bool(o)
  <2> DEFINE t == Tail(current.todo)
             b == Bool(o)
  <2>1. t \in Seq(Option) /\ b \in BOOLEAN /\ value \in Seq(Part) /\ current \in Locals
    BY <1>1, <1>5, <1>6, <1>7
  <2>2. current' = [current EXCEPT !.todo = t, !.value = value, !.anyBoolean = @ \/ b]
    BY <1>8
  <2> HIDE DEF o, value, t, b
  <2>3. /\ current' \in Locals /\ current'.todo = t /\ current'.value = value
        /\ current'.single = current.single /\ current'.nextAsValue = current.nextAsValue
        /\ current'.anyBoolean <=> current.anyBoolean \/ b
    BY <2>1, <2>2, LocalsAfter, ZenonT(30)
  <2> QED
    BY <2>3 DEF t, b
<1>10. current' # Unset
  BY <1>9, PartAssumption
<1>11. /\ Matches(Argument)' = m /\ NextAsValue(index + 1)' = NextAsValue(i)
       /\ \A p : Given(index + 1, p)' = Given(i, p)
  BY FrameHere
<1>12. Applied' = Applied \cup {o}
  <2>1. Applied' = {m[k] : k \in 1 .. Len(m) - Len(current'.todo)}
    BY <1>10, <1>11 DEF Applied
  <2> HIDE DEF m
  <2>2. Len(m) - Len(current'.todo) = n + 1
    BY <1>2, <1>4, <1>9, SMTT(30)
  <2>3. Applied' = {m[k] : k \in 1 .. n + 1}
    BY <2>1, <2>2
  <2>4. 1 .. n + 1 = (1 .. n) \cup {n + 1}
    BY <1>2, <1>4, SMTT(30)
  <2> QED
    BY <1>2, <2>3, <2>4
<1>13. \E l \in 0 .. Len(m) : current'.todo = SubSeq(m, l + 1, Len(m))
  <2> HIDE DEF m
  <2>1. n + 1 \in 0 .. Len(m) /\ (n + 1) + 1 = n + 2
    BY <1>2, <1>4, SMTT(30)
  <2>2. current'.todo = SubSeq(m, (n + 1) + 1, Len(m))
    BY <1>2, <1>9, <2>1
  <2> QED
    BY <2>1, <2>2
<1>14. /\ (current.single <=> Len(m) <= 1)
       /\ (current.nextAsValue <=> NextAsValue(i))
       /\ (current.anyBoolean <=> \E p \in Applied : Bool(p))
       /\ (~current.single => \A p \in Applied : Bool(p))
       /\ \A p \in Applied : Admissible(p, Given(i, p))
  BY <1>0 DEF LocalsInv
<1>15. /\ (current'.single <=> Len(m) <= 1)
       /\ (current'.nextAsValue <=> NextAsValue(i))
       /\ (current'.anyBoolean <=> \E p \in Applied' : Bool(p))
       /\ (~current'.single => \A p \in Applied' : Bool(p))
       /\ \A p \in Applied' : Admissible(p, Given(i, p))
  <2> HIDE DEF m
  <2>1. ~current.single => Bool(o)
    OBVIOUS
  <2>2. Admissible(o, Given(i, o))
    OBVIOUS
  <2> HIDE DEF o, i
  <2> QED
    BY <1>9, <1>12, <1>14, <2>1, <2>2, Zenon
<1>16. ASSUME NEW p \in ToSet(current'.todo), current'.single \/ Bool(p)
       PROVE  ValueFor(p)' = Given(i, p)
  <2>1. ~current.single
    <3>1. current'.todo # <<>>
      BY <1>16 DEF ToSet
    <3>2. Len(current'.todo) > 0
      BY <1>7, <1>9, <3>1
    <3> HIDE DEF m
    <3>3. Len(m) > 1
      BY <1>2, <1>4, <1>9, <3>2
    <3>4. ~(Len(m) <= 1)
      BY <1>4, <3>3
    <3> QED
      BY <1>14, <3>4
  <2>2. Bool(o) /\ Bool(p)
    BY <1>9, <1>16, <2>1
  <2>3. ValueFor(p)' = LET w == IF NextAsValue(i) THEN <<>> ELSE value
                       IN  IF w = <<>> THEN True ELSE w
    <3> HIDE DEF i, value
    <3> QED
      BY <1>9, <1>14, <2>2 DEF ValueFor
  <2>4. Given(i, p) = LET w == IF NextAsValue(i) THEN <<>> ELSE value
                      IN  IF w = <<>> THEN True ELSE w
    BY <1>0, <1>1, <2>2, NextInGroup
  <2> HIDE DEF i, value
  <2> QED
    BY <2>3, <2>4
<1>17. LocalsInv'
  <2>1. \A p \in ToSet(current'.todo) :
           current'.single \/ Bool(p) => ValueFor(p)' = Given(index + 1, p)'
    BY <1>11, <1>16
  <2>2. \A p \in Applied' : Admissible(p, Given(index + 1, p)')
    BY <1>11, <1>15
  <2> HIDE DEF m
  <2> QED
    BY <1>11, <1>13, <1>15, <2>1, <2>2 DEF LocalsInv
<1> QED
  BY <1>9, <1>10, <1>12, <1>17

LEMMA OverIs ==
  ASSUME NEW f, NEW g
  PROVE  /\ DOMAIN Over(f, g) = DOMAIN f \cup DOMAIN g
         /\ \A c \in DOMAIN f : Over(f, g)[c] = f[c]
         /\ \A c \in DOMAIN g \ DOMAIN f : Over(f, g)[c] = g[c]
BY DEF Over

(* A range sets the flag of its type, and no other.                        *)
LEMMA FlagsAre ==
  ASSUME ParserTypeOK, thread \in Thread, NEW o, NEW value, NEW good, Reads(o, value, good)
  PROVE  /\ success' \in [Thread -> [Ranges -> BOOLEAN]]
         /\ thread' = thread /\ Ranged(o) => (Flag(o)' <=> good)
         /\ \A p : thread' = thread /\ Ranged(p) /\ Flag(p) => Flag(p)' \/ ~good
<1>1. success \in [Thread -> [Ranges -> BOOLEAN]] /\ good \in BOOLEAN
  BY DEF ParserTypeOK, Reads
<1>2. CASE Ranged(o)
  <2>1. About[o].type \in Ranges
    BY <1>2 DEF Ranged
  <2>2. success' = [success EXCEPT ![thread][About[o].type] = good]
    BY <1>2 DEF Reads
  <2>3. /\ success' \in [Thread -> [Ranges -> BOOLEAN]]
        /\ success'[thread][About[o].type] = good
        /\ \A type \in Ranges : type # About[o].type => success'[thread][type] = success[thread][type]
    BY <1>1, <2>1, <2>2
  <2>4. thread' = thread => (Flag(o)' <=> good)
    BY <2>3, Zenon DEF Flag
  <2>5. ASSUME NEW p, thread' = thread, Ranged(p), Flag(p), good PROVE Flag(p)'
    <3>1. CASE About[p].type = About[o].type
      BY <2>4, <2>5, <3>1 DEF Flag
    <3>2. CASE About[p].type # About[o].type
      BY <2>3, <2>5, <3>2 DEF Flag, Ranged
    <3> QED
      BY <3>1, <3>2
  <2> QED
    BY <2>3, <2>4, <2>5
<1>3. CASE ~Ranged(o)
  <2>1. success' = success
    BY <1>3 DEF Reads
  <2> QED
    BY <1>1, <1>3, <2>1 DEF Flag
<1> QED
  BY <1>2, <1>3

LEMMA ApplyKeeps ==
  ASSUME ParserIInv, Apply
  PROVE  ParserIInv'
<1> DEFINE o == Head(current.todo)
           i == index + 1
           value == Given(i, o)
           bound == About[o].bound
<1>0. ParserTypeOK /\ ShapeInv /\ LocalsInv /\ SeenInv
  BY Parts
<1>1. /\ AtOption /\ (current.single \/ Bool(o)) /\ current # Unset
      /\ UNCHANGED <<options, mapping, thread, args, unmatched, ok, state>>
  BY DEF Apply, registry, AtOption
<1>2. state = "parsing" /\ index < Len(args) /\ o \in Mentions(i)
  BY <1>1, AtOptionIs
<1>3. /\ index \in Nat /\ Len(args) \in Nat /\ DOMAIN args = 1 .. Len(args)
      /\ i \in DOMAIN args /\ index <= Len(args)
  BY <1>0, <1>2, Here
<1>4. o \in ToSet(options) /\ o \in Option
  BY <1>0, <1>2, <1>3, MentionsAre DEF ParserTypeOK
<1>5. PICK good :
         /\ Reads(o, value, good)
         /\ good => /\ present' = present \cup {o}
                    /\ result' = Over([b \in {bound} |-> [option |-> o, raw |-> value]], result)
                    /\ current' = [current EXCEPT !.todo = Tail(@), !.value = value,
                                                  !.anyBoolean = @ \/ Bool(o)]
                    /\ UNCHANGED <<index, reported>>
         /\ ~good => Fail /\ UNCHANGED <<present, result>>
  BY ApplyReads
<1>6. success' \in [Thread -> [Ranges -> BOOLEAN]] /\ DOMAIN cached' = Option /\ thread \in Thread /\ o \in DOMAIN cached
  <2>1. thread \in Thread /\ DOMAIN cached = Option
    BY <1>0, <1>2 DEF ShapeInv
  <2> HIDE DEF o, value
  <2>2. success' \in [Thread -> [Ranges -> BOOLEAN]]
    BY <1>0, <1>5, <2>1, FlagsAre
  <2>3. DOMAIN cached' = Option
    BY <1>5, <2>1 DEF Reads
  <2> QED
    BY <1>4, <2>1, <2>2, <2>3
<1>7. CASE ~good
  <2>1. Fail /\ UNCHANGED <<present, result>>
    BY <1>5, <1>7
  <2>2. \/ \E j \in DOMAIN args : ~Sound(j)
        \/ \E p \in ToSet(options) : Ranged(p) /\ Places(p) # {} /\ ~Flag(p)'
    <3>1. CASE Ranged(o)
      <4>1. i \in Places(o)
        BY <1>2, <1>3 DEF Places
      <4>2. PICK p \in ToSet(options) : p = o
        BY <1>4
      <4>3. PICK v : v = value
        OBVIOUS
      <4>4. /\ Reads(p, v, good) /\ Ranged(p) /\ Places(p) # {}
            /\ thread' = thread /\ thread \in Thread /\ ParserTypeOK
        BY <1>0, <1>1, <1>5, <1>6, <3>1, <4>1, <4>2, <4>3
      <4>5. Flag(p)' <=> good
        BY <4>4, FlagsAre
      <4>6. ~Flag(p)'
        BY <1>7, <4>5, Zenon
      <4> QED
        BY <4>4, <4>6
    <3>2. CASE ~Ranged(o)
      <4>1. ~Admissible(o, Given(i, o))
        BY <1>5, <1>7, <3>2 DEF Reads
      <4>2. ~Sound(i)
        BY <1>2, <4>1, Zenon DEF Sound
      <4> QED
        BY <1>3, <4>2
    <3> QED
      BY <3>1, <3>2
  <2> HIDE DEF o
  <2> QED
    BY <1>1, <1>2, <1>6, <2>1, <2>2, FailKeeps
<1>8. CASE good
  <2>1. /\ present' = present \cup {o} /\ index' = index /\ reported' = reported
        /\ result' = Over([b \in {bound} |-> [option |-> o, raw |-> value]], result)
        /\ current' = [current EXCEPT !.todo = Tail(@), !.value = value,
                                      !.anyBoolean = @ \/ Bool(o)]
        /\ Admissible(o, value) /\ cached' = [cached EXCEPT ![o] = value]
        /\ Reads(o, value, TRUE)
    <3>1. good = TRUE
      BY <1>5, <1>8 DEF Reads
    <3> QED
      BY <1>5, <3>1 DEF Reads
  <2>2. current' \in Locals /\ current' # Unset /\ Applied' = Applied \cup {o} /\ LocalsInv'
    BY <1>1, <2>1, ApplyLocals
  <2>3. /\ DOMAIN result' = DOMAIN result \cup {bound}
        /\ result'[bound] = [option |-> o, raw |-> value]
        /\ \A c \in DOMAIN result \ {bound} : result'[c] = result[c]
    <3> DEFINE x == [option |-> o, raw |-> value]
    <3>1. result' = Over([b \in {bound} |-> x], result)
      BY <2>1
    <3> DEFINE f == [b \in {bound} |-> x]
    <3> HIDE DEF x, bound
    <3>3. result' = Over(f, result) /\ DOMAIN f = {bound} /\ f[bound] = x
      BY <3>1
    <3> HIDE DEF f
    <3>2. /\ DOMAIN result' = DOMAIN result \cup {bound} /\ result'[bound] = x
          /\ \A c \in DOMAIN result \ {bound} : result'[c] = result[c]
      <4> DEFINE h == Over(f, result)
      <4>1. /\ DOMAIN h = DOMAIN f \cup DOMAIN result
            /\ \A c \in DOMAIN f : h[c] = f[c]
            /\ \A c \in DOMAIN result \ DOMAIN f : h[c] = result[c]
        BY OverIs
      <4>2. result' = h
        BY <3>3
      <4> HIDE DEF h
      <4>3. \A c \in DOMAIN result \ {bound} : result'[c] = result[c]
        BY <3>3, <4>1, <4>2
      <4>4. DOMAIN result' = DOMAIN result \cup {bound}
        BY <3>3, <4>1, <4>2
      <4>5. result'[bound] = x
        BY <3>3, <4>1, <4>2
      <4> QED
        BY <4>3, <4>4, <4>5
    <3> QED
      BY <3>2 DEF x
  <2>4. ParserTypeOK'
    <3>1. present' \subseteq ToSet(options) /\ \A p \in present' : About[p].bound \in DOMAIN result'
      BY <1>0, <1>4, <2>1, <2>3 DEF ParserTypeOK
    <3>2. {ok, reported}' \subseteq BOOLEAN
      BY <1>0, <1>1, <2>1 DEF ParserTypeOK
    <3> QED
      BY <1>0, <1>1, <1>6, <2>1, <3>1, <3>2 DEF ParserTypeOK
  <2>5. ShapeInv'
    <3>1. Argument' = Argument /\ AssignsCluster(Argument)' = AssignsCluster(Argument)
      BY <1>1, <2>1, FrameHere
    <3>2. DOMAIN result' = {About[p].bound : p \in present'}
      <4>1. DOMAIN result = {About[p].bound : p \in present}
        BY <1>0, <1>2 DEF ShapeInv
      <4> HIDE DEF o
      <4> QED
        BY <2>1, <2>3, <4>1
    <3>3. index < Len(args) /\ Argument.kind # "plain" /\ ~AssignsCluster(Argument)
      BY <1>0, <1>1 DEF ShapeInv
    <3> HIDE DEF o, value
    <3> QED
      BY <1>0, <1>1, <1>2, <1>6, <2>1, <2>2, <3>1, <3>2, <3>3 DEF ShapeInv
  <2>6. FailedInv'
    BY <1>1, <1>3, <2>1 DEF FailedInv
  <2>7. SeenInv'
    <3>1. /\ ~reported /\ (\A j \in 1 .. index : Sound(j)) /\ (index > 0 => ~TakesNext(index))
          /\ unmatched = PickedUpTo(Words, StrayPlaces)[index] /\ \A p \in ToSet(options) : Known(p)
      BY <1>0, <1>2, <1>3 DEF SeenInv
    <3>2. /\ \A j : Sound(j)' = Sound(j) /\ TakesNext(j)' = TakesNext(j)
          /\ PickedUpTo(Words, StrayPlaces)' = PickedUpTo(Words, StrayPlaces)
      BY <1>1, Frame
    <3>3. ASSUME NEW p \in ToSet(options) PROVE Known(p)'
      <4>1. /\ \A j : Given(j, p)' = Given(j, p)
            /\ Given(index + 1, p)' = Given(i, p)
            /\ PlacesSeen(p)' = PlacesSeen(p)
        BY <1>1, <2>1, Frame, FrameHere
      <4>2. Known(p)
        BY <3>1
      <4>3. CASE p = o
        <5>1. /\ p \in present' /\ p \in Applied'
              /\ result'[About[p].bound] = [option |-> p, raw |-> result'[About[p].bound].raw] /\ result'[About[p].bound].raw = value
          <6>1. About[p].bound = bound
            BY <4>3
          <6> HIDE DEF o, value, bound
          <6>2. p \in present' /\ p \in Applied'
            BY <2>1, <2>2, <4>3
          <6>3. result'[About[p].bound] = [option |-> o, raw |-> value]
            BY <2>3, <6>1
          <6> QED
            BY <4>3, <6>2, <6>3
        <5>2. Ranged(p) => Flag(p)'
          <6> HIDE DEF o, value
          <6> QED
            BY <1>0, <1>1, <1>6, <2>1, <4>3, FlagsAre
        <5>3. value \in Seq(Part)
          BY <1>0, <1>3, GivenIs
        <5>4. cached'[p] = value
          BY <1>6, <2>1, <4>3
        <5>5. result'[About[p].bound].raw = Given(index + 1, p)'
          BY <4>1, <4>3, <5>1
        <5> HIDE DEF o, value, i
        <5> QED
          BY <5>1, <5>2, <5>3, <5>4, <5>5 DEF Known
      <4>4. CASE p # o
        <5>1. /\ (p \in present' <=> p \in present) /\ (p \in Applied' <=> p \in Applied)
              /\ cached'[p] = cached[p]
          <6>1. p \in DOMAIN cached
            BY <1>0 DEF ShapeInv, ParserTypeOK
          <6> HIDE DEF o, value
          <6> QED
            BY <2>1, <2>2, <4>4, <6>1
        <5>2. p \in present => result'[About[p].bound] = result[About[p].bound]
          <6>1. p \in present => About[p].bound \in DOMAIN result
            BY <1>0 DEF ParserTypeOK
          <6>2. About[p].bound # bound
            BY <1>0, <1>4, <4>4 DEF ShapeInv
          <6> QED
            BY <2>3, <6>1, <6>2
        <5>3. Ranged(p) /\ Flag(p) => Flag(p)'
          <6> HIDE DEF o, value
          <6> QED
            BY <1>0, <1>1, <1>6, <2>1, FlagsAre
        <5>4. p \in Applied => p \in present
          BY <4>2 DEF Known
        <5>5. p \in present \ Applied =>
                 \E j \in 1 .. index : Latest(j, PlacesSeen(p)) /\ result[About[p].bound].raw = Given(j, p)
          BY <4>2 DEF Known
        <5>6. p \in present' \ Applied' =>
                 \E j \in 1 .. index' : Latest(j, PlacesSeen(p)') /\ result'[About[p].bound].raw = Given(j, p)'
          BY <2>1, <4>1, <5>1, <5>2, <5>5
        <5>7. p \in present' <=> PlacesSeen(p)' # {} \/ p \in Applied'
          BY <4>1, <4>2, <5>1 DEF Known
        <5>8. p \in Applied' => result'[About[p].bound].raw = Given(index + 1, p)'
          BY <4>1, <4>2, <5>1, <5>2, <5>4 DEF Known
        <5>9. p \in present' =>
                 /\ Ranged(p) => Flag(p)'
                 /\ result'[About[p].bound] = [option |-> p, raw |-> result'[About[p].bound].raw]
                 /\ result'[About[p].bound].raw \in Seq(Part)
                 /\ cached'[p] = result'[About[p].bound].raw
          BY <4>2, <5>1, <5>2, <5>3 DEF Known
        <5> HIDE DEF o, value, i
        <5> QED
          BY <5>6, <5>7, <5>8, <5>9 DEF Known, Latest
      <4> QED
        BY <4>3, <4>4
    <3> HIDE DEF o, value
    <3> QED
      BY <1>1, <2>1, <3>1, <3>2, <3>3 DEF SeenInv
  <2>8. AtRest'
    BY <1>1, <1>2 DEF AtRest, Accepts, FailureReported, Roles, ModelFaithful
  <2> QED
    BY <2>2, <2>4, <2>5, <2>6, <2>7, <2>8, Parts, PTL
<1>9. good \in BOOLEAN
  BY <1>5 DEF Reads
<1> QED
  BY <1>7, <1>8, <1>9

-----------------------------------------------------------------------------
(* The end of the arguments.                                               *)

LEMMA ExitKeeps ==
  ASSUME ParserIInv, Exit
  PROVE  ParserIInv'
<1>0. ParserTypeOK /\ ShapeInv
  BY Parts
<1>1. /\ state' = "exited" /\ current = Unset /\ current' = Unset
      /\ UNCHANGED <<options, mapping, thread, args, index, result, unmatched, present, reported,
                     cached, success, ok>>
  BY DEF Exit, AtEnd, registry, outcome
<1>2. ParserTypeOK'
  BY <1>0, <1>1 DEF ParserTypeOK
<1>3. ShapeInv'
  BY <1>0, <1>1 DEF ShapeInv
<1>4. LocalsInv' /\ SeenInv' /\ FailedInv'
  BY <1>1 DEF LocalsInv, SeenInv, FailedInv
<1>5. AtRest'
  BY <1>1 DEF AtRest, Accepts, FailureReported, Roles, ModelFaithful
<1> QED
  BY <1>2, <1>3, <1>4, <1>5, Parts, PTL

LEMMA LatestIsMax ==
  ASSUME NEW places \in SUBSET Nat, NEW i \in Nat, Latest(i, places)
  PROVE  Max(places) = i
<1>1. \A x \in places : (\A y \in places : x >= y) <=> x = i
  BY DEF Latest
<1>2. i \in places
  BY DEF Latest
<1> QED
  BY <1>1, <1>2 DEF Max

(* What is known when every argument has been seen.                        *)
LEMMA AllSeen ==
  ASSUME ParserIInv, AtEnd, index <= Len(args)
  PROVE  /\ ~reported /\ (\A i \in DOMAIN args : Sound(i)) /\ unmatched = Strays
         /\ \A o \in ToSet(options) :
               /\ o \in present <=> Places(o) # {}
               /\ o \in present =>
                     /\ Ranged(o) => Flag(o)
                     /\ result[About[o].bound] = [option |-> o, raw |-> Given(Max(Places(o)), o)]
                     /\ cached[o] = result[About[o].bound].raw /\ cached[o] # Unset
<1>0. ParserTypeOK /\ ShapeInv /\ SeenInv /\ current = Unset /\ state = "parsing"
  BY Parts DEF AtEnd
<1>1. Len(args) \in Nat /\ DOMAIN args = 1 .. Len(args) /\ index = Len(args)
  <2>1. Len(args) \in Nat /\ DOMAIN args = 1 .. Len(args)
    BY <1>0, ArgsAre
  <2>2. index \in Nat /\ index >= Len(args)
    BY <1>0, <2>1 DEF AtEnd, ParserTypeOK
  <2>3. index = Len(args)
    <3> DEFINE l == Len(args)
    <3>1. l \in Nat /\ index \in Nat /\ index >= l /\ index <= l
      BY <2>1, <2>2
    <3> HIDE DEF l
    <3>2. index = l
      BY <3>1
    <3> QED
      BY <3>2 DEF l
  <2> QED
    BY <2>1, <2>3
<1>2. /\ ~reported /\ (\A i \in 1 .. index : Sound(i))
      /\ unmatched = PickedUpTo(Words, StrayPlaces)[index] /\ \A o \in ToSet(options) : Known(o)
  BY <1>0 DEF SeenInv
<1>3. unmatched = Strays
  BY <1>0, <1>1, <1>2, WordsPicked
<1>4. ASSUME NEW o \in ToSet(options)
      PROVE  /\ o \in present <=> Places(o) # {}
             /\ o \in present =>
                   /\ Ranged(o) => Flag(o)
                   /\ result[About[o].bound] = [option |-> o, raw |-> Given(Max(Places(o)), o)]
                   /\ cached[o] = result[About[o].bound].raw /\ cached[o] # Unset
  <2>1. Known(o) /\ Applied = {}
    BY <1>0, <1>2 DEF Applied
  <2>2. PlacesSeen(o) = Places(o)
    BY <1>1 DEF PlacesSeen, Places
  <2>3. o \in present <=> Places(o) # {}
    BY <2>1, <2>2 DEF Known
  <2>4. o \in present =>
           /\ Ranged(o) => Flag(o)
           /\ result[About[o].bound] = [option |-> o, raw |-> result[About[o].bound].raw]
           /\ result[About[o].bound].raw \in Seq(Part)
           /\ cached[o] = result[About[o].bound].raw
    BY <2>1 DEF Known
  <2>5. o \in present => result[About[o].bound].raw = Given(Max(Places(o)), o)
    <3> SUFFICES ASSUME o \in present PROVE result[About[o].bound].raw = Given(Max(Places(o)), o)
      OBVIOUS
    <3>1. PICK i \in 1 .. index : Latest(i, Places(o)) /\ result[About[o].bound].raw = Given(i, o)
      BY <2>1, <2>2 DEF Known
    <3>2. Places(o) \in SUBSET Nat /\ i \in Nat
      BY <1>1, <3>1 DEF Places
    <3>3. Max(Places(o)) = i
      BY <3>1, <3>2, LatestIsMax
    <3> QED
      BY <3>1, <3>3
  <2>6. o \in present => cached[o] # Unset
    BY <2>4, PartAssumption
  <2> QED
    BY <2>3, <2>4, <2>5, <2>6
<1> QED
  BY <1>1, <1>2, <1>3, <1>4

(* add_absent_options() *)
Defaults == [b \in {About[o].bound : o \in Absent} |->
                LET o == CHOOSE x \in Absent : About[x].bound = b
                IN  [option |-> o, raw |-> About[o].default]]

LEMMA DefaultsAre ==
  ASSUME ShapeInv
  PROVE  /\ DOMAIN Defaults = {About[o].bound : o \in Absent}
         /\ \A o \in Absent : Defaults[About[o].bound] = [option |-> o, raw |-> About[o].default]
         /\ \A o \in ToSet(options) \ Absent : About[o].bound \notin DOMAIN Defaults
<1>1. DOMAIN Defaults = {About[o].bound : o \in Absent}
  BY DEF Defaults
<1>2. \A o, p \in ToSet(options) : About[o].bound = About[p].bound => o = p
  BY DEF ShapeInv
<1>3. Absent \subseteq ToSet(options)
  BY DEF Absent
<1>4. ASSUME NEW o \in Absent
      PROVE  Defaults[About[o].bound] = [option |-> o, raw |-> About[o].default]
  <2> DEFINE c == CHOOSE x \in Absent : About[x].bound = About[o].bound
  <2>1. Defaults[About[o].bound] = [option |-> c, raw |-> About[c].default]
    BY DEF Defaults
  <2>2. c \in Absent /\ About[c].bound = About[o].bound
    OBVIOUS
  <2> HIDE DEF c
  <2>3. c = o
    BY <1>2, <1>3, <2>2
  <2> QED
    BY <2>1, <2>3
<1>5. \A o \in ToSet(options) \ Absent : About[o].bound \notin DOMAIN Defaults
  BY <1>1, <1>2, <1>3
<1> QED
  BY <1>1, <1>4, <1>5

LEMMA FinishAtRest ==
  ASSUME ParserIInv, Finish
  PROVE  AtRest'
<1>0. ParserTypeOK /\ ShapeInv
  BY Parts
<1> DEFINE accepted == index <= Len(args)
<1>1. /\ AtEnd /\ state' = "parsed"
      /\ UNCHANGED <<options, mapping, thread, args, index, current, unmatched, present, cached, success>>
      /\ ok' = (accepted /\ Missing = {})
      /\ reported' = (reported \/ (accepted /\ Missing # {}))
      /\ result' = IF accepted THEN Over(Defaults, result) ELSE result
  BY DEF Finish, FinishWith, Defaults, registry
<1>2. ok' <=> accepted /\ Missing = {}
  BY <1>1, Zenon
<1>3. reported' <=> reported \/ (accepted /\ Missing # {})
  BY <1>1, Zenon
<1>4. /\ \A i, o : Sound(i)' = Sound(i) /\ Places(o)' = Places(o) /\ Given(i, o)' = Given(i, o)
      /\ Strays' = Strays
  BY <1>1, Frame
<1>5. CASE ~accepted
  <2>1. state = "parsing" /\ index > Len(args)
    BY <1>0, <1>1, <1>5, ArgsAre DEF AtEnd, ParserTypeOK
  <2>2. /\ reported
        /\ \/ \E i \in DOMAIN args : ~Sound(i)
           \/ \E o \in ToSet(options) :
                 Ranged(o) /\ Places(o) # {} /\ ~Flag(o)
    BY <2>1, Parts DEF FailedInv
  <2>3. ~ok' /\ reported'
    BY <1>2, <1>3, <1>5, <2>2
  <2>4. ~(/\ \A i \in DOMAIN args' : Sound(i)'
          /\ \A o \in ToSet(options') : About[o].default = Unset => Places(o)' # {}
          /\ \A o \in ToSet(options') :
                Ranged(o) /\ Places(o)' # {} => Flag(o)')
    BY <1>1, <1>4, <2>2 DEF Flag
  <2> HIDE DEF accepted
  <2> QED
    BY <2>3, <2>4 DEF AtRest, Accepts, FailureReported, Roles, ModelFaithful
<1>6. CASE accepted
  <2>1. /\ ~reported /\ (\A i \in DOMAIN args : Sound(i)) /\ unmatched = Strays
        /\ \A o \in ToSet(options) :
              /\ o \in present <=> Places(o) # {}
              /\ o \in present =>
                    /\ Ranged(o) => Flag(o)
                    /\ result[About[o].bound] = [option |-> o, raw |-> Given(Max(Places(o)), o)]
                    /\ cached[o] = result[About[o].bound].raw /\ cached[o] # Unset
    BY <1>1, <1>6, AllSeen
  <2> HIDE DEF accepted
  <2>2. (ok' <=> Missing = {}) /\ (reported' <=> Missing # {})
    BY <1>2, <1>3, <1>6, <2>1
  <2>3. Missing = {} <=> \A o \in ToSet(options) : About[o].default = Unset => Places(o) # {}
    BY <2>1 DEF Missing, Absent
  <2>4. Accepts'
    <3>1. \A o \in ToSet(options) : Ranged(o) /\ Places(o) # {} => Flag(o)
      BY <2>1
    <3>2. /\ \A i \in DOMAIN args' : Sound(i)'
          /\ \A o \in ToSet(options') :
                Ranged(o) /\ Places(o)' # {} => Flag(o)'
      BY <1>1, <1>4, <2>1, <3>1 DEF Flag
    <3>3. ok' <=> \A o \in ToSet(options') : About[o].default = Unset => Places(o)' # {}
      BY <1>1, <1>4, <2>2, <2>3
    <3> QED
      BY <3>2, <3>3 DEF Accepts
  <2>5. FailureReported'
    BY <2>2 DEF FailureReported
  <2>6. ASSUME NEW o \in ToSet(options)
        PROVE  /\ o \in present => result'[About[o].bound] = result[About[o].bound]
               /\ o \notin present => result'[About[o].bound] = [option |-> o, raw |-> About[o].default]
    <3>1. /\ DOMAIN Defaults = {About[p].bound : p \in Absent}
          /\ \A p \in Absent : Defaults[About[p].bound] = [option |-> p, raw |-> About[p].default]
          /\ \A p \in ToSet(options) \ Absent : About[p].bound \notin DOMAIN Defaults
      BY <1>0, DefaultsAre
    <3> DEFINE h == Over(Defaults, result)
    <3>2. /\ \A c \in DOMAIN Defaults : h[c] = Defaults[c]
          /\ \A c \in DOMAIN result \ DOMAIN Defaults : h[c] = result[c]
      BY OverIs
    <3>3. result' = h
      BY <1>1, <1>6
    <3> HIDE DEF h
    <3>4. CASE o \in present
      <4>1. o \notin Absent /\ About[o].bound \in DOMAIN result
        BY <1>0, <3>4 DEF Absent, ParserTypeOK
      <4>2. About[o].bound \in DOMAIN result \ DOMAIN Defaults
        BY <3>1, <4>1
      <4> QED
        BY <3>2, <3>3, <3>4, <4>2
    <3>5. CASE o \notin present
      <4>1. o \in Absent
        BY <3>5 DEF Absent
      <4>2. About[o].bound \in DOMAIN Defaults
        BY <3>1, <4>1
      <4>3. h[About[o].bound] = Defaults[About[o].bound]
        BY <3>2, <4>2
      <4>4. Defaults[About[o].bound] = [option |-> o, raw |-> About[o].default]
        BY <3>1, <4>1
      <4> QED
        BY <3>3, <3>5, <4>3, <4>4
    <3> QED
      BY <3>4, <3>5
  <2>7. Roles'
    <3>1. ASSUME NEW o \in ToSet(options)
          PROVE  result'[About[o].bound] =
                    [option |-> o,
                     raw |-> IF Places(o) = {} THEN About[o].default ELSE Given(Max(Places(o)), o)]
      <4>1. CASE o \in present
        BY <2>1, <2>6, <4>1
      <4>2. CASE o \notin present
        BY <2>1, <2>6, <4>2
      <4> QED
        BY <4>1, <4>2
    <3>2. unmatched' = Strays'
      BY <1>1, <1>4, <2>1
    <3>3. \A o \in ToSet(options') :
             result'[About[o].bound] =
                [option |-> o,
                 raw |-> IF Places(o)' = {} THEN About[o].default ELSE Given(Max(Places(o)), o)']
      <4>1. \A i, o : Given(i, o)' = Given(i, o)
        BY <1>4
      <4>2. \A o : Places(o)' = Places(o) /\ Given(Max(Places(o)), o)' = Given(Max(Places(o)), o)
        BY <1>4, <4>1
      <4> QED
        BY <1>1, <3>1, <4>2
    <3> QED
      BY <3>2, <3>3 DEF Roles
  <2>8. ModelFaithful'
    <3>1. ASSUME NEW o \in present PROVE ModelOf(o)' = result'[About[o].bound].raw
      <4>1. o \in ToSet(options)
        BY <1>0 DEF ParserTypeOK
      <4>2. cached[o] = result[About[o].bound].raw /\ cached[o] # Unset
        BY <2>1, <4>1
      <4>3. result'[About[o].bound] = result[About[o].bound]
        BY <2>6, <4>1
      <4> QED
        BY <1>1, <4>2, <4>3 DEF ModelOf
    <3> QED
      BY <1>1, <3>1 DEF ModelFaithful
  <2> QED
    BY <2>4, <2>5, <2>7, <2>8 DEF AtRest
<1> QED
  BY <1>5, <1>6

LEMMA FinishKeeps ==
  ASSUME ParserIInv, Finish
  PROVE  ParserIInv'
<1>0. ParserTypeOK /\ ShapeInv
  BY Parts
<1> DEFINE accepted == index <= Len(args)
<1>1. /\ AtEnd /\ state' = "parsed"
      /\ UNCHANGED <<options, mapping, thread, args, index, current, unmatched, present, cached, success>>
      /\ ok' = (accepted /\ Missing = {})
      /\ reported' = (reported \/ (accepted /\ Missing # {}))
      /\ result' = IF accepted THEN Over(Defaults, result) ELSE result
  BY DEF Finish, FinishWith, Defaults, registry
<1>2. current' = Unset
  BY <1>1 DEF AtEnd
<1>3. {ok, reported}' \subseteq BOOLEAN
  <2>1. reported \in BOOLEAN
    BY <1>0 DEF ParserTypeOK
  <2>2. ok' \in BOOLEAN
    BY <1>1, Zenon
  <2>3. reported' \in BOOLEAN
    BY <1>1, <2>1, Zenon
  <2> QED
    BY <2>2, <2>3
<1>4. \A o \in present : About[o].bound \in DOMAIN result'
  <2>1. DOMAIN Over(Defaults, result) = DOMAIN Defaults \cup DOMAIN result
    BY OverIs
  <2>2. DOMAIN result \subseteq DOMAIN result'
    BY <1>1, <2>1
  <2> QED
    BY <1>0, <2>2 DEF ParserTypeOK
<1> HIDE DEF accepted
<1>5. ParserTypeOK'
  BY <1>0, <1>1, <1>3, <1>4 DEF ParserTypeOK
<1>6. ShapeInv'
  BY <1>0, <1>1, <1>2 DEF ShapeInv
<1>7. LocalsInv' /\ SeenInv' /\ FailedInv'
  BY <1>1, <1>2 DEF LocalsInv, SeenInv, FailedInv
<1>8. AtRest'
  BY FinishAtRest
<1> QED
  BY <1>5, <1>6, <1>7, <1>8, Parts, PTL

LEMMA ParserStutterKeeps ==
  ASSUME ParserIInv, UNCHANGED parserVars
  PROVE  ParserIInv'
<1>0. ParserTypeOK /\ AtRest /\ ShapeInv /\ LocalsInv /\ SeenInv /\ FailedInv
  BY Parts
<1>1. /\ UNCHANGED <<options, mapping, thread, args, index, current, result, unmatched, present>>
      /\ UNCHANGED <<reported, cached, success, ok, state, parses>>
  BY DEF parserVars, registry, outcome
<1>2. /\ \A i, o : /\ Sound(i)' = Sound(i) /\ Places(o)' = Places(o) /\ Given(i, o)' = Given(i, o)
                   /\ TakesNext(i)' = TakesNext(i)
      /\ Strays' = Strays /\ PickedUpTo(Words, StrayPlaces)' = PickedUpTo(Words, StrayPlaces)
  BY <1>1, Frame
<1>3. /\ Argument' = Argument /\ Matches(Argument)' = Matches(Argument)
      /\ NextAsValue(index + 1)' = NextAsValue(index + 1)
      /\ AssignsCluster(Argument)' = AssignsCluster(Argument)
      /\ \A o : PlacesSeen(o)' = PlacesSeen(o) /\ Given(index + 1, o)' = Given(index + 1, o)
  BY <1>1, FrameHere
<1>4. ParserTypeOK'
  BY <1>0, <1>1 DEF ParserTypeOK
<1>5. ShapeInv'
  BY <1>0, <1>1, <1>3 DEF ShapeInv
<1>6. Applied' = Applied
  BY <1>1, <1>3 DEF Applied
<1>7. LocalsInv'
  <2>1. \A o : ValueFor(o)' = ValueFor(o)
    BY <1>1 DEF ValueFor
  <2> QED
    BY <1>0, <1>1, <1>3, <1>6, <2>1 DEF LocalsInv
<1>8. SeenInv'
  <2>1. ASSUME NEW o, Known(o) PROVE Known(o)'
    <3>1. o \in present \ Applied =>
             \E i \in 1 .. index : Latest(i, PlacesSeen(o)) /\ result[About[o].bound].raw = Given(i, o)
      BY <2>1 DEF Known
    <3>2. o \in present' \ Applied' =>
             \E i \in 1 .. index' : Latest(i, PlacesSeen(o)') /\ result'[About[o].bound].raw = Given(i, o)'
      BY <1>1, <1>2, <1>3, <1>6, <3>1
    <3> QED
      BY <1>1, <1>3, <1>6, <2>1, <3>2 DEF Known, Latest, Flag
  <2> QED
    BY <1>0, <1>1, <1>2, <2>1 DEF SeenInv
<1>9. FailedInv'
  BY <1>0, <1>1, <1>2 DEF FailedInv, Flag
<1>10. AtRest'
  <2>1. \A o : Given(Max(Places(o)), o)' = Given(Max(Places(o)), o)
    BY <1>2
  <2>2. \A o : ModelOf(o)' = ModelOf(o)
    BY <1>1 DEF ModelOf
  <2>3. Accepts' /\ FailureReported'
    BY <1>0, <1>1, <1>2 DEF AtRest, Accepts, FailureReported, Flag
  <2>4. Roles'
    BY <1>0, <1>1, <1>2, <2>1 DEF AtRest, Roles
  <2>5. ModelFaithful'
    BY <1>0, <1>1, <2>2 DEF AtRest, ModelFaithful
  <2> QED
    BY <2>3, <2>4, <2>5 DEF AtRest
<1> QED
  BY <1>4, <1>5, <1>7, <1>8, <1>9, <1>10, Parts, PTL

-----------------------------------------------------------------------------

LEMMA ParserNextKeeps == ParserIInv /\ [ParserNext]_parserVars => ParserIInv'
<1> SUFFICES ASSUME ParserIInv, [ParserNext]_parserVars PROVE ParserIInv'
  OBVIOUS
<1>1. ASSUME NEW o \in Option, AddOption(o) PROVE ParserIInv'
  BY <1>1, AddOptionKeeps
<1>2. ASSUME NEW t \in Thread, NEW list \in Lists, Parse(t, list) PROVE ParserIInv'
  BY <1>2, ParseKeeps
<1>3. CASE SkipPlain
  BY <1>3, SkipPlainKeeps
<1>4. CASE RejectAssignment
  BY <1>4, RejectAssignmentKeeps
<1>5. CASE MatchArgument
  BY <1>5, MatchArgumentKeeps
<1>6. CASE RejectCluster
  BY <1>6, RejectClusterKeeps
<1>7. CASE Apply
  BY <1>7, ApplyKeeps
<1>8. CASE EndArgument
  BY <1>8, EndArgumentKeeps
<1>9. CASE Exit
  BY <1>9, ExitKeeps
<1>10. CASE Finish
  BY <1>10, FinishKeeps
<1>11. CASE UNCHANGED parserVars
  BY <1>11, ParserStutterKeeps
<1> QED
  BY <1>1, <1>2, <1>3, <1>4, <1>5, <1>6, <1>7, <1>8, <1>9, <1>10, <1>11 DEF ParserNext, ParseStep

LEMMA ParserInvariant == ParserSpec => []ParserIInv
BY ParserInitHolds, ParserNextKeeps, PTL DEF ParserSpec

(* For options of any types, scalar or range, with any values allowed, and *)
(* any lists of arguments: parse() succeeds exactly when every argument is *)
(* sound, every mandatory option is there and, for each type of ranges     *)
(* among those mentioned, the thread's flag of that type is on.  on_error  *)
(* is told exactly when it fails.                                          *)
THEOREM AnswersAreRight == ParserSpec => []Answer
<1>1. ParserIInv => Answer
  BY DEF ParserIInv
<1> QED
  BY <1>1, ParserInvariant, PTL

(* For options of any types and any lists of arguments: on success each    *)
(* option has the value of the last argument that mentions it, or its      *)
(* default, the unmatched arguments are those nobody took, and the model   *)
(* gets what this parse has cached.                                        *)
THEOREM ValuesAreRight == ParserSpec => []Values
<1>1. ParserIInv => Values
  BY DEF ParserIInv
<1> QED
  BY <1>1, ParserInvariant, PTL

=================================================================================
