------------------------------ MODULE JniRuntime ------------------------------
(***************************************************************************)
(* The Java runtime support: jvm (src/jni/jvm.cpp) keeps the VM's context, *)
(* a JNIEnv per thread and a list of managed references; global_ref        *)
(* (src/jni/global_ref.cpp) owns one global reference of the VM; reflector *)
(* (src/jni/reflector.cpp) caches classes and member identifiers under     *)
(* integer keys.                                                           *)
(*                                                                         *)
(* What the VM does is external: it hands out at most MaxRef references,   *)
(* may refuse one (NewGlobalRef answers null) and may refuse to attach a   *)
(* thread.  A C++ reference object is a Slot; an object not constructed    *)
(* behaves as one that holds null.  Of what an object refers to nothing is *)
(* kept: every reference is copied from, or taken over with, a valid one.  *)
(***************************************************************************)
EXTENDS Naturals, Sequences, FiniteSets

CONSTANTS
    Thread,         \* the threads that use the runtime
    JavaThread,     \* those of them the VM started
    Slot,           \* C++ reference objects of the program
    ClassKey,       \* keys the program gives to classes
    MemberKey,      \* keys it gives to fields and to methods
    MaxRef,         \* the references the VM can hand out
    MaxEntry        \* managed entries, at most

ASSUME KeyAssumption  == ClassKey \subseteq Nat /\ MemberKey \subseteq Nat
ASSUME ThreadAssumption == JavaThread \subseteq Thread
ASSUME BoundAssumption == MaxRef \in Nat /\ MaxEntry \in Nat

VARIABLES
    context,    \* jvm::impl::context_ is set
    env,        \* the thread-local JNIEnv of get_env(): see EnvState
    attached,   \* the threads the VM knows of
    live,       \* the global references the VM holds
    slot,       \* global_ref::ref_ of every slot
    given,      \* references released by detach()
    entries,    \* managed_entries_, the newest first
    cache,      \* reflector::impl::cache_
    clean       \* history: no filled reference was assigned over, and none was
                \* destroyed by a thread without an environment

vars == <<context, env, attached, live, slot, given, entries, cache, clean>>

Null == 0
Ref  == 1..MaxRef

\* "null": asked for and not given, for the rest of the thread's life.
EnvState == {"unset", "null", "java", "native"}

\* make_cache_key<T>: a class, a field and a method share a space of triples.
\* Fault: a field is stored where the class of its key is.
KeyShared(kind, k) == IF kind = "method" THEN <<0, 0, k>> ELSE <<k, 0, 0>>
Key(kind, k) == CASE kind = "class"  -> <<k, 0, 0>>
                  [] kind = "field"  -> <<0, k, 0>>
                  [] kind = "method" -> <<0, 0, k>>

Triple == {Key("class", k) : k \in ClassKey}
            \cup {Key(kind, k) : kind \in {"field", "method"}, k \in MemberKey}

\* std::variant<global_ref_ex<jclass>, jfieldID, jmethodID>: a class with its
\* reference, or the identifier of a member of a class.
Nothing    == [kind |-> "none", n |-> 0]
ClassOf(r) == [kind |-> "class", n |-> r]
IdOf(k)    == [kind |-> "id", n |-> k]
Item       == {Nothing} \cup {ClassOf(r) : r \in Ref \cup {Null}}
                        \cup {IdOf(k) : k \in ClassKey}

Init ==
    /\ context = FALSE
    /\ env = [t \in Thread |-> "unset"]
    /\ attached = JavaThread
    /\ live = {}
    /\ slot = [s \in Slot |-> Null]
    /\ given = {}
    /\ entries = << >>
    /\ cache = [k \in Triple |-> Nothing]
    /\ clean = TRUE

-----------------------------------------------------------------------------
(* The environment of a thread.                                            *)

\* get_env() by thread t leaves e in its thread-local variable: asked once,
\* after the context is known, it is never asked again.
Env(t, e) ==
    \/ ~context /\ e = "unset"
    \/ context /\ env[t] # "unset" /\ e = env[t]
    \/ context /\ env[t] = "unset" /\ t \in attached /\ e = "java"
    \/ context /\ env[t] = "unset" /\ t \notin attached /\ e \in {"native", "null"}

Usable(e) == e \in {"java", "native"}

GetEnv(t, e) ==
    /\ Env(t, e)
    /\ env' = [env EXCEPT ![t] = e]
    /\ attached' = IF e = "native" THEN attached \cup {t} ELSE attached
    /\ UNCHANGED context

\* The freeing handler runs when the thread ends, and only for an environment.
\* A thread of that name that starts later is a new one.
\* Fault: the flag attached_in_native_code is not looked at.
FreeEnvAlways(t) == IF Usable(env[t]) THEN attached \ {t} ELSE attached
FreeEnv(t) == IF env[t] = "native" THEN attached \ {t} ELSE attached

ThreadExit(t) ==
    /\ env[t] # "unset"
    /\ attached' = FreeEnv(t)
    /\ env' = [env EXCEPT ![t] = "unset"]
    /\ UNCHANGED <<context, live, slot, given, entries, cache, clean>>

\* JNI_OnLoad: jvm::init, on a thread of the VM.
OnLoad ==
    /\ ~context
    /\ context' = TRUE
    /\ UNCHANGED <<env, attached, live, slot, given, entries, cache, clean>>

-----------------------------------------------------------------------------
(* References.                                                             *)

\* NewGlobalRef: a reference not in use, or null.
NewRef(inUse) ==
    {Null} \cup (IF inUse = Ref THEN {} ELSE {CHOOSE r \in Ref \ inUse : TRUE})

\* What a copy of reference r becomes.
CopyOf(r, e, inUse) == IF Usable(e) /\ r # Null THEN NewRef(inUse) ELSE {Null}

\* Fault: a refused reference is counted too.
WithNull(refs, r) == refs \cup {r}
With(refs, r) == refs \cup ({r} \ {Null})

\* ~global_ref: r is given back when the thread has an environment.
\* Fault: the reference is only forgotten.
ReleaseNever(refs, r, e) == refs
Release(refs, r, e) == IF Usable(e) THEN refs \ {r} ELSE refs

\* What destroying references R does to clean.
Destroyed(R, e) == Usable(e) \/ R \subseteq {Null}

\* global_ref{obj}: obj is a valid reference of some object.
Construct(t, e, s) ==
    /\ slot[s] = Null
    /\ GetEnv(t, e)
    /\ \E r \in IF Usable(e) THEN NewRef(live) ELSE {Null} :
          slot' = [slot EXCEPT ![s] = r] /\ live' = With(live, r)
    /\ UNCHANGED <<given, entries, cache, clean>>

\* global_ref{obj, true}: what detach() released is owned again.  Without an
\* environment the new object is empty, and obj stays with the caller.
TakeOver(t, e, s) ==
    /\ slot[s] = Null
    /\ GetEnv(t, e)
    /\ Usable(e)
    /\ \E r \in given : slot' = [slot EXCEPT ![s] = r] /\ given' = given \ {r}
    /\ UNCHANGED <<live, entries, cache, clean>>

Detach(s) ==
    /\ slot[s] # Null
    /\ slot' = [slot EXCEPT ![s] = Null]
    /\ given' = given \cup {slot[s]}
    /\ UNCHANGED <<context, env, attached, live, entries, cache, clean>>

\* operator=(const global_ref&), and the copy constructor when s is empty: what
\* s held is not given back.
CopyAssign(t, e, s, from) ==
    /\ GetEnv(t, e)
    /\ \E r \in CopyOf(slot[from], e, live) :
          slot' = [slot EXCEPT ![s] = r] /\ live' = With(live, r)
    /\ clean' = (clean /\ slot[s] = Null)
    /\ UNCHANGED <<given, entries, cache>>

\* operator=(global_ref&&): an exchange with the source, then an assignment; an
\* object moved to itself keeps its reference.
\* Fault: the source is not reset.
MovedShared(s, from) == [slot EXCEPT ![s] = slot[from]]
Moved(s, from) == [slot EXCEPT ![from] = Null, ![s] = slot[from]]

MoveAssign(s, from) ==
    /\ slot' = Moved(s, from)
    /\ clean' = (clean /\ (s = from \/ slot[s] = Null))
    /\ UNCHANGED <<context, env, attached, live, given, entries, cache>>

Destroy(t, e, s) ==
    /\ slot[s] # Null
    /\ GetEnv(t, e)
    /\ live' = Release(live, slot[s], e)
    /\ slot' = [slot EXCEPT ![s] = Null]
    /\ clean' = (clean /\ Destroyed({slot[s]}, e))
    /\ UNCHANGED <<given, entries, cache>>

-----------------------------------------------------------------------------
(* Managed entries and the reflector.                                      *)

\* get_jclass(): the first thread with an environment adds the class's entry,
\* and a class the VM does not find leaves an empty one.
AddManagedEntry(t, e) ==
    /\ Len(entries) < MaxEntry
    /\ GetEnv(t, e)
    /\ Usable(e)
    /\ \E r \in NewRef(live) : entries' = <<r>> \o entries /\ live' = With(live, r)
    /\ UNCHANGED <<slot, given, cache, clean>>

\* add_class(): a class stored over a class is move-assigned, a class stored
\* over an identifier is constructed in its place; the caller stores the copy.
AddClass(t, e, k, s) ==
    /\ GetEnv(t, e)
    /\ Usable(e)
    /\ LET old == cache[Key("class", k)]
           over == old.kind = "class" /\ old.n # Null
       IN \E r \in NewRef(live) : \E c \in CopyOf(r, e, With(live, r)) :
            /\ cache' = [cache EXCEPT ![Key("class", k)] = ClassOf(r)]
            /\ slot' = [slot EXCEPT ![s] = c]
            /\ live' = With(With(live, r), c)
            /\ clean' = (clean /\ ~over /\ slot[s] = Null)
    /\ UNCHANGED <<given, entries>>

\* add_field(), add_method() and their static twins.  Of the class a copy is
\* made for the look-up; a class the identifier is stored over is destroyed.  A
\* look-up with no class, when the copy is refused, is the VM's error.
AddMember(t, e, kind, k, m) ==
    /\ cache[Key("class", k)].kind = "class"
    /\ cache[Key("class", k)].n # Null
    /\ live # Ref
    /\ GetEnv(t, e)
    /\ Usable(e)
    /\ LET old == cache[Key(kind, m)]
       IN live' = IF old.kind = "class" THEN Release(live, old.n, e) ELSE live
    /\ cache' = [cache EXCEPT ![Key(kind, m)] = IdOf(k)]
    /\ UNCHANGED <<slot, given, entries, clean>>

\* get_class(): a copy, null for a key not known; an identifier found under the
\* class's key is an exception (std::get), and nothing changes.
GetClass(t, e, k, s) ==
    /\ slot[s] = Null
    /\ cache[Key("class", k)].kind = "class"
    /\ GetEnv(t, e)
    /\ \E r \in CopyOf(cache[Key("class", k)].n, e, live) :
          slot' = [slot EXCEPT ![s] = r] /\ live' = With(live, r)
    /\ UNCHANGED <<given, entries, cache, clean>>

\* ensure_env() without an environment throws; so do a class and a member that
\* are not found.  What is left of the call is the thread's environment.
Refused(t, e) ==
    /\ GetEnv(t, e)
    /\ UNCHANGED <<live, slot, given, entries, cache, clean>>

CachedRefs == {cache[k].n : k \in {k \in Triple : cache[k].kind = "class"}}
EntryRefs  == {entries[i] : i \in DOMAIN entries}

\* JNI_OnUnload: clear_entries(), then reflector::clear(), on a thread of the VM.
OnUnload(t, e) ==
    /\ t \in JavaThread
    /\ context
    /\ GetEnv(t, e)
    /\ entries' = << >>
    /\ cache' = [k \in Triple |-> Nothing]
    /\ live' = IF Usable(e) THEN live \ (EntryRefs \cup CachedRefs) ELSE live
    /\ clean' = (clean /\ Destroyed(EntryRefs \cup CachedRefs, e))
    /\ UNCHANGED <<slot, given>>

Next ==
    \/ OnLoad
    \/ \E s \in Slot : Detach(s) \/ \E from \in Slot : MoveAssign(s, from)
    \/ \E t \in Thread :
          \/ ThreadExit(t)
          \/ \E e \in EnvState :
                \/ Refused(t, e) \/ AddManagedEntry(t, e) \/ OnUnload(t, e)
                \/ \E s \in Slot :
                      \/ Construct(t, e, s) \/ TakeOver(t, e, s) \/ Destroy(t, e, s)
                      \/ \E from \in Slot : CopyAssign(t, e, s, from)
                      \/ \E k \in ClassKey : AddClass(t, e, k, s) \/ GetClass(t, e, k, s)
                \/ \E kind \in {"field", "method"}, k \in ClassKey, m \in MemberKey :
                      AddMember(t, e, kind, k, m)

Spec == Init /\ [][Next]_vars

-----------------------------------------------------------------------------
(* Properties.                                                             *)

\* Type invariant.
TypeOK ==
    /\ context \in BOOLEAN
    /\ env \in [Thread -> EnvState]
    /\ attached \subseteq Thread
    /\ live \subseteq Ref
    /\ slot \in [Slot -> Ref \cup {Null}]
    /\ given \subseteq Ref
    /\ entries \in Seq(Ref \cup {Null}) /\ Len(entries) <= MaxEntry
    /\ cache \in [Triple -> Item]
    /\ clean \in BOOLEAN

Owners(r) ==
    {<<"slot", s>> : s \in {s \in Slot : slot[s] = r}}
      \cup {<<"cache", k>> : k \in {k \in Triple : cache[k] = ClassOf(r)}}
      \cup {<<"entry", i>> : i \in {i \in DOMAIN entries : entries[i] = r}}
      \cup (IF r \in given THEN {<<"given">>} ELSE {})

\* A reference an object holds is one the VM still holds, and no other object
\* holds it: the destructor gives back each reference once (global_ref.cpp).
SoleOwner ==
    \A r \in Ref : /\ Cardinality(Owners(r)) <= 1
                   /\ Owners(r) # {} => r \in live

\* As long as no filled reference is assigned over and none is destroyed by a
\* thread without an environment, every reference of the VM has an owner.
NoLeak == clean => \A r \in live : Owners(r) # {}

\* get_env() leaves a thread the way it found it: the VM knows the threads it
\* started and those that hold an environment got by attaching.
Balanced == attached = JavaThread \cup {t \in Thread : env[t] = "native"}

\* An identifier of a member is kept only with the class it belongs to, which it
\* is invalid without.  The class under key 0 is the exception: fields and
\* methods under key 0 are stored over it.
ClassKept ==
    \A k \in Triple : (cache[k].kind = "id" /\ cache[k].n # 0)
                          => cache[Key("class", cache[k].n)].kind = "class"

\* What the program and the caches hold is valid and has one owner.
HeldValid == TypeOK /\ SoleOwner /\ ClassKept

-----------------------------------------------------------------------------
(* The inductive invariant behind HeldValid, NoLeak and Balanced.          *)

\* The environments: nobody asks before the context is known, and only a thread
\* the VM did not start is attached here.
EnvInv ==
    /\ Balanced
    /\ \A t \in Thread : /\ ~context => env[t] = "unset"
                         /\ env[t] = "native" => t \notin JavaThread

\* The reference of a cached class, null for everything else.
CachedRef(k) == IF cache[k].kind = "class" THEN cache[k].n ELSE Null

\* SoleOwner by the kinds of owners: each kind holds different references, all of
\* them live, and no two kinds hold the same.
SlotsApart   == \A s, u \in Slot : slot[s] = slot[u] /\ slot[s] # Null => s = u
CacheApart   == \A k, m \in Triple : CachedRef(k) = CachedRef(m) /\ CachedRef(k) # Null => k = m
EntriesApart == \A i, j \in DOMAIN entries : entries[i] = entries[j] /\ entries[i] # Null => i = j
KindsApart ==
    /\ \A s \in Slot : slot[s] # Null =>
          /\ slot[s] \in live \ given
          /\ \A k \in Triple : CachedRef(k) # slot[s]
          /\ \A i \in DOMAIN entries : entries[i] # slot[s]
    /\ \A k \in Triple : CachedRef(k) # Null =>
          /\ CachedRef(k) \in live \ given
          /\ \A i \in DOMAIN entries : entries[i] # CachedRef(k)
    /\ \A i \in DOMAIN entries : entries[i] # Null => entries[i] \in live \ given
    /\ given \subseteq live

\* NoLeak by the kinds of owners.
AllOwned ==
    clean => \A r \in live : \/ \E s \in Slot : slot[s] = r
                             \/ \E k \in Triple : CachedRef(k) = r
                             \/ \E i \in DOMAIN entries : entries[i] = r
                             \/ r \in given

IInv ==
    /\ TypeOK /\ EnvInv
    /\ SlotsApart /\ CacheApart /\ EntriesApart /\ KindsApart
    /\ AllOwned /\ ClassKept
=============================================================================
