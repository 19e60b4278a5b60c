---------------------------- MODULE JniRuntimeProofs ----------------------------
(***************************************************************************)
(* Theorems about JniRuntime, for any threads, reference objects, keys and *)
(* references: what is held is valid and has one owner, nothing leaks on   *)
(* the clean paths, and threads are attached and detached in pairs.        *)
(***************************************************************************)
EXTENDS JniRuntime, FiniteSetTheorems, TLAPS

-----------------------------------------------------------------------------
(* What the operators of the model return.                                 *)

LEMMA NullIsNoRef == Null \notin Ref
BY DEF Null, Ref

(* The VM never hands out a reference that is in use. *)
LEMMA NewRefIsFresh ==
  ASSUME NEW inUse \in SUBSET Ref, NEW r \in NewRef(inUse)
  PROVE  r = Null \/ r \in Ref \ inUse
<1>1. CASE inUse = Ref
  BY <1>1 DEF NewRef
<1>2. CASE inUse # Ref
  <2>1. \E x \in Ref \ inUse : TRUE
    BY <1>2
  <2> QED
    BY <2>1, <1>2 DEF NewRef
<1> QED
  BY <1>1, <1>2

LEMMA CopyIsFresh ==
  ASSUME NEW inUse \in SUBSET Ref, NEW from, NEW e, NEW r \in CopyOf(from, e, inUse)
  PROVE  r = Null \/ r \in Ref \ inUse
BY NewRefIsFresh DEF CopyOf

(* The keys of classes, fields and methods meet at zero only. *)
LEMMA KeysMeetAtZero ==
  /\ \A k \in ClassKey : Key("class", k) \in Triple
  /\ \A kind \in {"field", "method"}, m \in MemberKey : Key(kind, m) \in Triple
  /\ \A kind \in {"field", "method"}, m \in MemberKey, k \in ClassKey :
        Key("class", k) = Key(kind, m) => k = 0
  /\ \A k, m \in ClassKey : Key("class", k) = Key("class", m) => k = m
BY KeyAssumption DEF Key, Triple

-----------------------------------------------------------------------------
(* The environments of the threads.                                        *)

LEMMA GetEnvKeeps ==
  ASSUME TypeOK, EnvInv, NEW t \in Thread, NEW e \in EnvState, GetEnv(t, e)
  PROVE  /\ EnvInv' /\ UNCHANGED context
         /\ env' \in [Thread -> EnvState] /\ attached' \subseteq Thread
BY ThreadAssumption DEF TypeOK, EnvInv, Balanced, GetEnv, Env, EnvState

(* What the steps that leave a part alone need to know of it.              *)
LEMMA CacheKept ==
  UNCHANGED cache => /\ ClassKept' <=> ClassKept
                     /\ CacheApart' <=> CacheApart
                     /\ \A k \in Triple : CachedRef(k)' = CachedRef(k)
BY DEF ClassKept, CacheApart, CachedRef

-----------------------------------------------------------------------------
(* The steps, one lemma each.                                              *)

LEMMA OnLoadKeeps == ASSUME IInv, OnLoad PROVE IInv'
BY CacheKept DEF OnLoad, IInv, TypeOK, EnvInv, Balanced, SlotsApart, EntriesApart, KindsApart, AllOwned

LEMMA ThreadExitKeeps == ASSUME IInv, NEW t \in Thread, ThreadExit(t) PROVE IInv'
<1> USE DEF IInv
<1>1. EnvInv' /\ env' \in [Thread -> EnvState] /\ attached' \subseteq Thread
  BY ThreadAssumption DEF ThreadExit, FreeEnv, EnvInv, Balanced, TypeOK, EnvState
<1> QED
  BY <1>1, CacheKept DEF ThreadExit, TypeOK, SlotsApart, EntriesApart, KindsApart, AllOwned

LEMMA RefusedKeeps ==
  ASSUME IInv, NEW t \in Thread, NEW e \in EnvState, Refused(t, e) PROVE IInv'
BY GetEnvKeeps, CacheKept
DEF IInv, Refused, TypeOK, SlotsApart, EntriesApart, KindsApart, AllOwned

(* A fresh reference, or null, is stored in an empty slot. *)
LEMMA SlotFilled ==
  ASSUME IInv, EnvInv', env' \in [Thread -> EnvState], attached' \subseteq Thread, UNCHANGED context,
         NEW s \in Slot, slot[s] = Null \/ ~clean',
         NEW r, r = Null \/ r \in Ref \ live,
         slot' = [slot EXCEPT ![s] = r], live' = With(live, r),
         clean' \in BOOLEAN, clean' => clean,
         UNCHANGED <<given, entries, cache>>
  PROVE  IInv'
<1> USE NullIsNoRef DEF IInv, With, TypeOK
<1>1. TypeOK' /\ EnvInv'
  OBVIOUS
<1>2. SlotsApart' /\ KindsApart'
  BY CacheKept DEF SlotsApart, KindsApart
<1>3. AllOwned'
  BY CacheKept DEF AllOwned
<1> QED
  BY <1>1, <1>2, <1>3, CacheKept DEF EntriesApart

LEMMA ConstructKeeps ==
  ASSUME IInv, NEW t \in Thread, NEW e \in EnvState, NEW s \in Slot, Construct(t, e, s)
  PROVE  IInv'
<1> PICK r \in IF Usable(e) THEN NewRef(live) ELSE {Null} :
         slot' = [slot EXCEPT ![s] = r] /\ live' = With(live, r)
  BY DEF Construct
<1>1. live \in SUBSET Ref
  BY DEF IInv, TypeOK
<1>2. r = Null \/ r \in Ref \ live
  BY <1>1, NewRefIsFresh
<1> QED
  BY <1>2, GetEnvKeeps, SlotFilled DEF Construct, IInv, TypeOK

LEMMA CopyAssignKeeps ==
  ASSUME IInv, NEW t \in Thread, NEW e \in EnvState, NEW s \in Slot, NEW from \in Slot,
         CopyAssign(t, e, s, from)
  PROVE  IInv'
<1> PICK r \in CopyOf(slot[from], e, live) :
         slot' = [slot EXCEPT ![s] = r] /\ live' = With(live, r)
  BY DEF CopyAssign
<1>1. live \in SUBSET Ref
  BY DEF IInv, TypeOK
<1>2. r = Null \/ r \in Ref \ live
  BY <1>1, CopyIsFresh
<1> QED
  BY <1>2, GetEnvKeeps, SlotFilled DEF CopyAssign, IInv, TypeOK

LEMMA GetClassKeeps ==
  ASSUME IInv, NEW t \in Thread, NEW e \in EnvState, NEW k \in ClassKey, NEW s \in Slot,
         GetClass(t, e, k, s)
  PROVE  IInv'
<1> PICK r \in CopyOf(cache[Key("class", k)].n, e, live) :
         slot' = [slot EXCEPT ![s] = r] /\ live' = With(live, r)
  BY DEF GetClass
<1>1. live \in SUBSET Ref
  BY DEF IInv, TypeOK
<1>2. r = Null \/ r \in Ref \ live
  BY <1>1, CopyIsFresh
<1> QED
  BY <1>2, GetEnvKeeps, SlotFilled DEF GetClass, IInv, TypeOK

LEMMA TakeOverKeeps ==
  ASSUME IInv, NEW t \in Thread, NEW e \in EnvState, NEW s \in Slot, TakeOver(t, e, s)
  PROVE  IInv'
<1> USE NullIsNoRef DEF IInv, TypeOK
<1>1. TypeOK' /\ EnvInv'
  BY GetEnvKeeps DEF TakeOver
<1>2. SlotsApart' /\ KindsApart' /\ EntriesApart'
  BY CacheKept DEF TakeOver, SlotsApart, KindsApart, EntriesApart
<1>3. AllOwned'
  BY CacheKept DEF TakeOver, AllOwned
<1> QED
  BY <1>1, <1>2, <1>3, CacheKept DEF TakeOver

LEMMA DetachKeeps == ASSUME IInv, NEW s \in Slot, Detach(s) PROVE IInv'
<1> USE NullIsNoRef DEF IInv, TypeOK, Detach
<1>1. TypeOK' /\ EnvInv'
  BY DEF EnvInv, Balanced
<1>2. SlotsApart' /\ KindsApart' /\ EntriesApart'
  BY CacheKept DEF SlotsApart, KindsApart, EntriesApart
<1>3. AllOwned'
  BY CacheKept DEF AllOwned
<1> QED
  BY <1>1, <1>2, <1>3, CacheKept

LEMMA MoveAssignKeeps ==
  ASSUME IInv, NEW s \in Slot, NEW from \in Slot, MoveAssign(s, from) PROVE IInv'
<1> USE NullIsNoRef DEF IInv, TypeOK, MoveAssign, Moved
<1>1. TypeOK' /\ EnvInv'
  BY DEF EnvInv, Balanced
<1>2. SlotsApart' /\ KindsApart' /\ EntriesApart'
  BY CacheKept DEF SlotsApart, KindsApart, EntriesApart
<1>3. AllOwned'
  BY CacheKept DEF AllOwned
<1> QED
  BY <1>1, <1>2, <1>3, CacheKept

LEMMA DestroyKeeps ==
  ASSUME IInv, NEW t \in Thread, NEW e \in EnvState, NEW s \in Slot, Destroy(t, e, s)
  PROVE  IInv'
<1> USE NullIsNoRef DEF IInv, TypeOK, Destroy, Release, Destroyed
<1>1. TypeOK' /\ EnvInv'
  BY GetEnvKeeps
<1>2. SlotsApart' /\ KindsApart' /\ EntriesApart'
  BY CacheKept DEF SlotsApart, KindsApart, EntriesApart
<1>3. AllOwned'
  BY CacheKept DEF AllOwned
<1> QED
  BY <1>1, <1>2, <1>3, CacheKept

(* A list with one more element at its front. *)
LEMMA Prepended ==
  ASSUME NEW S, NEW list \in Seq(S), NEW r \in S
  PROVE  LET longer == <<r>> \o list
         IN  /\ longer \in Seq(S) /\ Len(longer) = Len(list) + 1
             /\ longer[1] = r
             /\ \A i \in DOMAIN list : i + 1 \in DOMAIN longer /\ longer[i + 1] = list[i]
             /\ \A i \in DOMAIN longer : i = 1 \/ (i - 1 \in DOMAIN list /\ longer[i] = list[i - 1])
OBVIOUS

LEMMA AddManagedEntryKeeps ==
  ASSUME IInv, NEW t \in Thread, NEW e \in EnvState, AddManagedEntry(t, e)
  PROVE  IInv'
<1> PICK r \in NewRef(live) : entries' = <<r>> \o entries /\ live' = With(live, r)
  BY DEF AddManagedEntry
<1> USE NullIsNoRef DEF IInv, TypeOK, With
<1>1. r = Null \/ r \in Ref \ live
  BY NewRefIsFresh
<1>2. /\ entries' \in Seq(Ref \cup {Null}) /\ Len(entries') <= MaxEntry
      /\ entries'[1] = r /\ 1 \in DOMAIN entries'
      /\ \A i \in DOMAIN entries : i + 1 \in DOMAIN entries' /\ entries'[i + 1] = entries[i]
      /\ \A i \in DOMAIN entries' : i \in Nat /\ (i = 1 \/ (i - 1 \in DOMAIN entries /\ entries'[i] = entries[i - 1]))
  <2>1. entries \in Seq(Ref \cup {Null}) /\ r \in Ref \cup {Null}
    BY <1>1
  <2>2. /\ entries' \in Seq(Ref \cup {Null}) /\ Len(entries') = Len(entries) + 1
        /\ entries'[1] = r
        /\ \A i \in DOMAIN entries : i + 1 \in DOMAIN entries' /\ entries'[i + 1] = entries[i]
        /\ \A i \in DOMAIN entries' : i = 1 \/ (i - 1 \in DOMAIN entries /\ entries'[i] = entries[i - 1])
    BY <2>1, Prepended
  <2>3. Len(entries) \in Nat /\ DOMAIN entries' = 1 .. Len(entries')
    BY <2>1, <2>2
  <2>4. Len(entries') <= MaxEntry
    BY <2>2, <2>3, BoundAssumption DEF AddManagedEntry
  <2> QED
    BY <2>2, <2>3, <2>4
<1>3. TypeOK' /\ EnvInv'
  BY <1>1, <1>2, GetEnvKeeps DEF AddManagedEntry
<1>4. SlotsApart' /\ KindsApart'
  BY <1>1, <1>2, CacheKept DEF AddManagedEntry, SlotsApart, KindsApart
<1>5. EntriesApart'
  BY <1>1, <1>2 DEF EntriesApart, KindsApart
<1>6. AllOwned'
  <2> SUFFICES ASSUME clean', NEW q \in live'
               PROVE  \/ \E s \in Slot : slot'[s] = q
                      \/ \E k \in Triple : CachedRef(k)' = q
                      \/ \E i \in DOMAIN entries' : entries'[i] = q
                      \/ q \in given'
    BY DEF AllOwned
  <2>1. CASE q = r
    BY <2>1, <1>2
  <2>2. CASE q \in live
    <3>1. \/ \E s \in Slot : slot[s] = q
          \/ \E k \in Triple : CachedRef(k) = q
          \/ \E i \in DOMAIN entries : entries[i] = q
          \/ q \in given
      BY <2>2 DEF AllOwned, AddManagedEntry
    <3>2. ASSUME NEW i \in DOMAIN entries, entries[i] = q
          PROVE  \E j \in DOMAIN entries' : entries'[j] = q
      BY <3>2, <1>2
    <3> QED
      BY <3>1, <3>2, CacheKept DEF AddManagedEntry
  <2> QED
    BY <2>1, <2>2
<1> QED
  BY <1>3, <1>4, <1>5, <1>6, CacheKept DEF AddManagedEntry
LEMMA AddClassKeeps ==
  ASSUME IInv, NEW t \in Thread, NEW e \in EnvState, NEW k \in ClassKey, NEW s \in Slot,
         AddClass(t, e, k, s)
  PROVE  IInv'
<1> DEFINE K == Key("class", k)
           over == cache[K].kind = "class" /\ cache[K].n # Null
<1> PICK r \in NewRef(live) : \E c \in CopyOf(r, e, With(live, r)) :
         /\ cache' = [cache EXCEPT ![K] = ClassOf(r)]
         /\ slot' = [slot EXCEPT ![s] = c]
         /\ live' = With(With(live, r), c)
         /\ clean' = (clean /\ ~over /\ slot[s] = Null)
  BY DEF AddClass
<1> PICK c \in CopyOf(r, e, With(live, r)) :
         /\ cache' = [cache EXCEPT ![K] = ClassOf(r)]
         /\ slot' = [slot EXCEPT ![s] = c]
         /\ live' = With(With(live, r), c)
         /\ clean' = (clean /\ ~over /\ slot[s] = Null)
  OBVIOUS
<1> USE NullIsNoRef DEF IInv, TypeOK, With
<1>1. r = Null \/ r \in Ref \ live
  BY NewRefIsFresh
<1>2. c = Null \/ c \in (Ref \ live) \ {r}
  BY <1>1, CopyIsFresh
<1>3. K \in Triple
  BY KeysMeetAtZero
<1> HIDE DEF K
<1>4. /\ CachedRef(K)' = r
      /\ \A m \in Triple \ {K} : CachedRef(m)' = CachedRef(m)
      /\ ~over => CachedRef(K) = Null
  BY <1>3 DEF CachedRef, ClassOf
<1>5. TypeOK' /\ EnvInv'
  <2>1. ClassOf(r) \in Item
    BY <1>1 DEF Item
  <2> QED
    BY <1>1, <1>2, <2>1, GetEnvKeeps DEF AddClass
<1> HIDE DEF over
<1>6. ClassKept'
  <2> SUFFICES ASSUME NEW m \in Triple, cache'[m].kind = "id", cache'[m].n # 0
               PROVE  cache'[Key("class", cache'[m].n)].kind = "class"
    BY DEF ClassKept
  <2>1. m # K /\ cache'[m] = cache[m]
    BY <1>3 DEF ClassOf
  <2>2. cache[Key("class", cache[m].n)].kind = "class"
    BY <2>1 DEF ClassKept
  <2>3. CASE Key("class", cache[m].n) = K
    BY <2>1, <2>3, <1>3 DEF ClassOf
  <2>4. CASE Key("class", cache[m].n) # K
    BY <2>1, <2>2, <2>4
  <2> QED
    BY <2>3, <2>4
<1>7. SlotsApart'
  BY <1>1, <1>2 DEF SlotsApart, KindsApart
<1>8. CacheApart'
  BY <1>1, <1>4 DEF CacheApart, KindsApart
<1>9. KindsApart' /\ EntriesApart'
  BY <1>1, <1>2, <1>4 DEF AddClass, KindsApart, EntriesApart
<1>10. AllOwned'
  <2> SUFFICES ASSUME clean', NEW q \in live'
               PROVE  \/ \E u \in Slot : slot'[u] = q
                      \/ \E m \in Triple : CachedRef(m)' = q
                      \/ \E i \in DOMAIN entries' : entries'[i] = q
                      \/ q \in given'
    BY DEF AllOwned
  <2>1. CASE q = c \/ q = r
    BY <2>1, <1>3, <1>4
  <2>2. CASE q # c /\ q # r
    <3>1. q \in live /\ q # Null /\ slot[s] = Null /\ CachedRef(K) = Null
      BY <2>2, <1>4
    <3>2. \/ \E u \in Slot \ {s} : slot[u] = q
          \/ \E m \in Triple \ {K} : CachedRef(m) = q
          \/ \E i \in DOMAIN entries : entries[i] = q
          \/ q \in given
      BY <3>1 DEF AllOwned
    <3>3. ASSUME NEW m \in Triple \ {K}, CachedRef(m) = q
          PROVE  \E j \in Triple : CachedRef(j)' = q
      BY <3>3, <1>4
    <3> QED
      BY <3>2, <3>3 DEF AddClass
  <2> QED
    BY <2>1, <2>2
<1> QED
  BY <1>5, <1>6, <1>7, <1>8, <1>9, <1>10

LEMMA AddMemberKeeps ==
  ASSUME IInv, NEW t \in Thread, NEW e \in EnvState, NEW kind \in {"field", "method"},
         NEW k \in ClassKey, NEW m \in MemberKey, AddMember(t, e, kind, k, m)
  PROVE  IInv'
<1> DEFINE M == Key(kind, m)
<1> USE NullIsNoRef DEF IInv, TypeOK
<1>1. M \in Triple
  BY KeysMeetAtZero
<1>2. /\ cache' = [cache EXCEPT ![M] = IdOf(k)]
      /\ live' = live \ {CachedRef(M)}
      /\ UNCHANGED <<context, slot, given, entries, clean>>
  BY <1>1 DEF AddMember, Release, CachedRef, GetEnv
<1>3. \A j \in ClassKey : Key("class", j) = M => j = 0
  BY KeysMeetAtZero
<1> HIDE DEF M
<1>4. CachedRef(M)' = Null /\ \A j \in Triple \ {M} : CachedRef(j)' = CachedRef(j)
  BY <1>1, <1>2 DEF CachedRef, IdOf
<1>5. TypeOK' /\ EnvInv'
  <2>1. IdOf(k) \in Item
    BY DEF Item
  <2> QED
    BY <1>2, <2>1, GetEnvKeeps DEF AddMember
<1>6. ClassKept'
  <2> SUFFICES ASSUME NEW j \in Triple, cache'[j].kind = "id", cache'[j].n # 0
               PROVE  cache'[Key("class", cache'[j].n)].kind = "class"
    BY DEF ClassKept
  <2>1. cache'[j].n \in ClassKey /\ cache[Key("class", cache'[j].n)].kind = "class"
    <3>1. CASE j = M
      BY <1>1, <1>2, <3>1 DEF IdOf, AddMember
    <3>2. CASE j # M
      <4>1. cache'[j] = cache[j] /\ cache[j] \in Item
        BY <1>2, <3>2
      <4>2. cache[j].n \in ClassKey
        BY <4>1 DEF Item, Nothing, ClassOf, IdOf
      <4> QED
        BY <4>1, <4>2 DEF ClassKept
    <3> QED
      BY <3>1, <3>2
  <2>2. Key("class", cache'[j].n) # M
    BY <2>1, <1>3
  <2> QED
    BY <1>2, <2>1, <2>2
<1>7. SlotsApart' /\ EntriesApart'
  BY <1>2 DEF SlotsApart, EntriesApart
<1>8. CacheApart'
  BY <1>4 DEF CacheApart
<1>9. KindsApart'
  BY <1>1, <1>2, <1>4 DEF KindsApart, CacheApart
<1>10. AllOwned'
  BY <1>1, <1>2, <1>4 DEF AllOwned
<1> QED
  BY <1>5, <1>6, <1>7, <1>8, <1>9, <1>10

LEMMA OnUnloadKeeps ==
  ASSUME IInv, NEW t \in Thread, NEW e \in EnvState, OnUnload(t, e)
  PROVE  IInv'
<1> USE NullIsNoRef DEF IInv, TypeOK
<1>1. \A k \in Triple : CachedRef(k)' = Null
  BY DEF OnUnload, CachedRef, Nothing
<1>2. CachedRefs = {CachedRef(k) : k \in {k \in Triple : cache[k].kind = "class"}}
  BY DEF CachedRefs, CachedRef
<1>3. TypeOK' /\ EnvInv'
  <2>1. entries' \in Seq(Ref \cup {Null}) /\ Len(entries') <= MaxEntry
    BY BoundAssumption DEF OnUnload
  <2>2. cache' \in [Triple -> Item] /\ clean' \in BOOLEAN
    BY DEF OnUnload, Item, Destroyed
  <2> QED
    BY <2>1, <2>2, GetEnvKeeps DEF OnUnload
<1>4. ClassKept'
  BY DEF OnUnload, ClassKept, Nothing
<1>5. SlotsApart' /\ EntriesApart' /\ CacheApart'
  BY <1>1 DEF OnUnload, SlotsApart, EntriesApart, CacheApart
<1>6. \A r \in EntryRefs \cup CachedRefs : r \notin given /\ \A s \in Slot : slot[s] = r => r = Null
  BY <1>2 DEF EntryRefs, KindsApart, CachedRef
<1>7. KindsApart'
  BY <1>1, <1>6 DEF OnUnload, KindsApart
<1>8. AllOwned'
  <2> SUFFICES ASSUME clean', NEW q \in live'
               PROVE  (\E s \in Slot : slot'[s] = q) \/ q \in given'
    BY DEF AllOwned
  <2>1. clean /\ q \in live /\ q \notin EntryRefs \cup CachedRefs
    BY DEF OnUnload, Destroyed
  <2>2. /\ \A i \in DOMAIN entries : entries[i] # q
        /\ \A k \in Triple : CachedRef(k) # q
    BY <2>1, <1>2 DEF EntryRefs, CachedRef
  <2> QED
    BY <2>1, <2>2 DEF AllOwned, OnUnload
<1> QED
  BY <1>3, <1>4, <1>5, <1>7, <1>8
-----------------------------------------------------------------------------
(* The inductive invariant.                                                *)

LEMMA InitHolds == Init => IInv
<1> SUFFICES ASSUME Init PROVE IInv
  OBVIOUS
<1> USE NullIsNoRef DEF Init
<1>1. TypeOK
  <2>1. Nothing \in Item /\ "unset" \in EnvState
    BY DEF Item, EnvState
  <2>2. entries \in Seq(Ref \cup {Null}) /\ Len(entries) <= MaxEntry
    BY BoundAssumption
  <2>3. cache \in [Triple -> Item] /\ slot \in [Slot -> Ref \cup {Null}]
    BY <2>1
  <2>4. env \in [Thread -> EnvState] /\ attached \subseteq Thread
    BY <2>1, ThreadAssumption
  <2> QED
    BY <2>2, <2>3, <2>4 DEF TypeOK
<1>2. EnvInv
  BY DEF EnvInv, Balanced
<1>3. \A k \in Triple : CachedRef(k) = Null
  BY DEF CachedRef, Nothing
<1>4. SlotsApart /\ CacheApart /\ EntriesApart /\ KindsApart /\ AllOwned
  BY <1>3 DEF SlotsApart, CacheApart, EntriesApart, KindsApart, AllOwned
<1>5. ClassKept
  BY DEF ClassKept, Nothing
<1> QED
  BY <1>1, <1>2, <1>4, <1>5 DEF IInv

LEMMA StutterKeeps == IInv /\ UNCHANGED vars => IInv'
BY CacheKept DEF vars, IInv, TypeOK, EnvInv, Balanced, SlotsApart, EntriesApart, KindsApart, AllOwned

LEMMA Invariant == Spec => []IInv
<1>1. ASSUME IInv, Next PROVE IInv'
  <2> USE <1>1
  <2>1. CASE OnLoad
    BY <2>1, OnLoadKeeps
  <2>2. ASSUME NEW s \in Slot, Detach(s) \/ \E from \in Slot : MoveAssign(s, from)
        PROVE  IInv'
    BY <2>2, DetachKeeps, MoveAssignKeeps
  <2>3. ASSUME NEW t \in Thread, ThreadExit(t) PROVE IInv'
    BY <2>3, ThreadExitKeeps
  <2>4. ASSUME NEW t \in Thread, NEW e \in EnvState,
               Refused(t, e) \/ AddManagedEntry(t, e) \/ OnUnload(t, e)
        PROVE  IInv'
    BY <2>4, RefusedKeeps, AddManagedEntryKeeps, OnUnloadKeeps
  <2>5. ASSUME NEW t \in Thread, NEW e \in EnvState, NEW s \in Slot,
               \/ Construct(t, e, s) \/ TakeOver(t, e, s) \/ Destroy(t, e, s)
               \/ \E from \in Slot : CopyAssign(t, e, s, from)
               \/ \E k \in ClassKey : AddClass(t, e, k, s) \/ GetClass(t, e, k, s)
        PROVE  IInv'
    <3>1. CASE Construct(t, e, s) \/ TakeOver(t, e, s) \/ Destroy(t, e, s)
      BY <3>1, ConstructKeeps, TakeOverKeeps, DestroyKeeps
    <3>2. ASSUME NEW from \in Slot, CopyAssign(t, e, s, from) PROVE IInv'
      BY <3>2, CopyAssignKeeps
    <3>3. ASSUME NEW k \in ClassKey, AddClass(t, e, k, s) PROVE IInv'
      BY <3>3, AddClassKeeps
    <3>4. ASSUME NEW k \in ClassKey, GetClass(t, e, k, s) PROVE IInv'
      BY <3>4, GetClassKeeps
    <3> QED
      BY <2>5, <3>1, <3>2, <3>3, <3>4
  <2>6. ASSUME NEW t \in Thread, NEW e \in EnvState, NEW kind \in {"field", "method"},
               NEW k \in ClassKey, NEW m \in MemberKey, AddMember(t, e, kind, k, m)
        PROVE  IInv'
    BY <2>6, AddMemberKeeps
  <2> QED
    BY <2>1, <2>2, <2>3, <2>4, <2>5, <2>6 DEF Next
<1> QED
  BY <1>1, InitHolds, StutterKeeps, PTL DEF Spec

-----------------------------------------------------------------------------
(* From the kinds of owners to the owners.                                 *)

(* A set with no two different elements has at most one. *)
LEMMA AtMostOne ==
  ASSUME NEW S, \A x, y \in S : x = y
  PROVE  Cardinality(S) <= 1
<1>1. CASE S = {}
  BY <1>1, FS_EmptySet
<1>2. CASE S # {}
  <2>1. PICK x \in S : S = {x}
    BY <1>2
  <2> QED
    BY <2>1, FS_Singleton
<1> QED
  BY <1>1, <1>2

(* What owns a reference, one kind of owner at a time. *)
LEMMA OwnersOf ==
  ASSUME IInv, NEW r \in Ref, NEW o \in Owners(r)
  PROVE  \/ \E s \in Slot : o = <<"slot", s>> /\ slot[s] = r
         \/ \E k \in Triple : o = <<"cache", k>> /\ CachedRef(k) = r
         \/ \E i \in DOMAIN entries : o = <<"entry", i>> /\ entries[i] = r
         \/ o = <<"given">> /\ r \in given
BY DEF Owners, CachedRef, ClassOf

LEMMA OneOwner == ASSUME IInv PROVE SoleOwner
<1> SUFFICES ASSUME NEW r \in Ref
             PROVE  /\ Cardinality(Owners(r)) <= 1
                    /\ Owners(r) # {} => r \in live
  BY DEF SoleOwner
<1> USE NullIsNoRef
<1>1. ASSUME NEW o \in Owners(r), NEW p \in Owners(r) PROVE o = p
  <2>1. CASE \E s \in Slot : o = <<"slot", s>> /\ slot[s] = r
    BY <2>1, OwnersOf DEF IInv, SlotsApart, KindsApart
  <2>2. CASE \E k \in Triple : o = <<"cache", k>> /\ CachedRef(k) = r
    BY <2>2, OwnersOf DEF IInv, CacheApart, KindsApart
  <2>3. CASE \E i \in DOMAIN entries : o = <<"entry", i>> /\ entries[i] = r
    BY <2>3, OwnersOf DEF IInv, EntriesApart, KindsApart
  <2>4. CASE o = <<"given">> /\ r \in given
    BY <2>4, OwnersOf DEF IInv, KindsApart
  <2> QED
    BY <2>1, <2>2, <2>3, <2>4, OwnersOf
<1>2. ASSUME NEW o \in Owners(r) PROVE r \in live
  BY OwnersOf DEF IInv, KindsApart
<1> QED
  BY <1>1, <1>2, AtMostOne

LEMMA EveryOwner == ASSUME IInv PROVE NoLeak
<1> SUFFICES ASSUME clean, NEW r \in live PROVE Owners(r) # {}
  BY DEF NoLeak
<1>1. \/ \E s \in Slot : slot[s] = r
      \/ \E k \in Triple : CachedRef(k) = r
      \/ \E i \in DOMAIN entries : entries[i] = r
      \/ r \in given
  BY DEF IInv, AllOwned
<1>2. ASSUME NEW k \in Triple, CachedRef(k) = r PROVE cache[k] = ClassOf(r)
  <2>1. r # Null /\ cache[k] \in Item
    BY NullIsNoRef DEF IInv, TypeOK
  <2> QED
    BY <1>2, <2>1 DEF CachedRef, Item, Nothing, ClassOf, IdOf
<1> QED
  BY <1>1, <1>2 DEF Owners

-----------------------------------------------------------------------------
(* The theorems.                                                           *)

(* What the program, the managed entries and the reflector's cache hold is a *)
(* reference the VM still holds, held once, so that the destructors give     *)
(* each back once; an identifier of a member is kept with its class.         *)
THEOREM HeldIsValid == Spec => []HeldValid
<1>1. IInv => HeldValid
  BY OneOwner DEF HeldValid, IInv
<1> QED
  BY <1>1, Invariant, PTL

(* Every reference of the VM has an owner as long as no filled reference is  *)
(* assigned over and none is destroyed without an environment.               *)
THEOREM NothingLeaks == Spec => []NoLeak
<1>1. IInv => NoLeak
  BY EveryOwner
<1> QED
  BY <1>1, Invariant, PTL

(* get_env() and the handler that ends a thread attach and detach in pairs,  *)
(* and leave the threads of the VM alone.                                    *)
THEOREM AttachmentBalanced == Spec => []Balanced
<1>1. IInv => Balanced
  BY DEF IInv, EnvInv
<1> QED
  BY <1>1, Invariant, PTL
===============================================================================
