------------------------------- MODULE StdioWatcher -------------------------------
(***************************************************************************)
(* essence::io::stdio_watcher (src/src/io/stdio_watcher.cpp): watchers     *)
(* that each redirect a standard descriptor into a pipe, whose contents a  *)
(* worker thread hands to the subscribers.                                 *)
(*                                                                         *)
(* The descriptors of the process are one table that the watchers share:   *)
(* a call of the operating system takes the lowest free numbers, a pipe    *)
(* ends for its reader when no descriptor is its write end any more, and a *)
(* write blocks while the pipe is full.  Each watcher has an owner, and    *)
(* owners of one descriptor use it as a stack: a watcher is started or     *)
(* stopped only while no other call on the descriptor runs and no watcher  *)
(* that was started after it is on; after a start() that threw comes a     *)
(* stop().                                                                 *)
(***************************************************************************)
EXTENDS Integers, SequencesExt

CONSTANTS
    Watcher,
    Modes,              \* functions from the watchers to the descriptors they redirect
    MaxFd,              \* the largest descriptor
    Capacity,           \* of a pipe, in bytes
    Chunk,              \* buffer_size - 1
    MaxBytes,           \* bound on what is written
    MaxStarts           \* bound on the number of start() calls

ASSUME BoundsAssumption ==
    /\ {MaxFd, Capacity, Chunk, MaxBytes, MaxStarts} \subseteq Nat
    /\ MaxFd > 2 /\ Capacity > 0 /\ Chunk > 0

Fd == 0 .. MaxFd
Std == {1, 2}

ASSUME ModesAssumption == Modes \subseteq [Watcher -> Std]

Free == [kind |-> "free", of |-> 0]
Device(d) == [kind |-> "device", of |-> d]
ReadEnd(w) == [kind |-> "read", of |-> w]
WriteEnd(w) == [kind |-> "write", of |-> w]

Target == {Free} \cup {Device(d) : d \in 0 .. 2} \cup UNION {{ReadEnd(w), WriteEnd(w)} : w \in Watcher}

(* A managed handle that holds nothing; zero would be nothing, too. *)
NoHandle == 0

VARIABLES
    mode,               \* what each watcher redirects
    fd,                 \* what each descriptor of the process refers to
    pipe,               \* what is in the pipe of a watcher
    origin, reader, writer,     \* origin_, pipe_read_, pipe_write_
    owner, starting,    \* where the owner of a watcher is; stop() is part of start()
    worker,             \* "none", "reading", "handling", "ended"
    chunk,              \* what the worker has read and not handed over
    stack,              \* history: by descriptor, the watchers that are on, the last first
    delivered, device,  \* what the subscribers of a watcher and the devices got
    addressed,          \* history: who was to get which byte
    starts              \* how many start() calls there were

handles == <<origin, reader, writer>>
vars == <<mode, fd, pipe, handles, owner, starting, worker, chunk, stack, delivered, device,
          addressed, starts>>

Standard == [n \in Fd |-> IF n < 3 THEN Device(n) ELSE Free]

Init ==
    /\ mode \in Modes
    /\ fd = Standard
    /\ pipe = [w \in Watcher |-> <<>>]
    /\ origin = [w \in Watcher |-> NoHandle] /\ reader = origin /\ writer = origin
    /\ owner = [w \in Watcher |-> "rest"] /\ starting = [w \in Watcher |-> FALSE]
    /\ worker = [w \in Watcher |-> "none"] /\ chunk = [w \in Watcher |-> <<>>]
    /\ stack = [d \in Std |-> <<>>]
    /\ delivered = [w \in Watcher |-> <<>>] /\ device = [d \in Std |-> <<>>]
    /\ addressed = <<>> /\ starts = 0

-----------------------------------------------------------------------------
(* The descriptors *)

Lowest(table) == CHOOSE n \in Fd : table[n] = Free /\ \A m \in Fd : table[m] = Free => n <= m

Opened(table, target) == [table EXCEPT ![Lowest(table)] = target]

Room(table) == \E n \in Fd : table[n] = Free

Closed(table, h) == IF h = NoHandle THEN table ELSE [table EXCEPT ![h] = Free]

HasWriter(w) == \E n \in Fd : fd[n] = WriteEnd(w)

-----------------------------------------------------------------------------
(* The owner of a watcher *)

Goto(w, from, to) ==
    /\ owner[w] = from
    /\ owner' = [owner EXCEPT ![w] = to]

Rivals(w) == {v \in Watcher \ {w} : mode[v] = mode[w]}

On(w) == w \in ToSet(stack[mode[w]])

(* The stack discipline of the callers. *)
MayCall(w, again) ==
    /\ \A v \in Rivals(w) : owner[v] = "rest" /\ (origin[v] # NoHandle => On(v))
    /\ On(w) => Head(stack[mode[w]]) = w
    /\ again => starts < MaxStarts

(* start() begins with stop(); the destructor is stop() *)
Call(w, again) ==
    /\ MayCall(w, again)
    /\ Goto(w, "rest", "restore")
    /\ starting' = [starting EXCEPT ![w] = again]
    /\ starts' = IF again THEN starts + 1 ELSE starts
    /\ UNCHANGED <<mode, fd, pipe, handles, worker, chunk, stack, delivered, device, addressed>>

RestoreTo(w, table) ==
    /\ Goto(w, "restore", "close")
    /\ fd' = IF origin[w] = NoHandle THEN fd ELSE Closed(table, origin[w])
    /\ origin' = [origin EXCEPT ![w] = NoHandle]
    /\ stack' = IF On(w) THEN [stack EXCEPT ![mode[w]] = Tail(@)] ELSE stack
    /\ UNCHANGED <<mode, pipe, reader, writer, starting, worker, chunk, delivered, device, addressed,
                   starts>>

(* Fault: the kept descriptor is closed, and not put back. *)
RestoreForgotten(w) == RestoreTo(w, fd)

Restore(w) == RestoreTo(w, [fd EXCEPT ![mode[w]] = fd[origin[w]]])

CloseWriterIn(w, table) ==
    /\ Goto(w, "close", "join")
    /\ fd' = table
    /\ writer' = [writer EXCEPT ![w] = NoHandle]
    /\ UNCHANGED <<mode, pipe, origin, reader, starting, worker, chunk, stack, delivered, device,
                   addressed, starts>>

(* Fault: the write end stays open. *)
CloseWriterForgotten(w) == CloseWriterIn(w, fd)

CloseWriter(w) == CloseWriterIn(w, Closed(fd, writer[w]))

(* A pipe without a reader or a writer is gone, with what was in it. *)
JoinWhen(w, states) ==
    /\ Goto(w, "join", IF starting[w] THEN "keep" ELSE "rest")
    /\ worker[w] \in states
    /\ worker' = [worker EXCEPT ![w] = "none"]
    /\ fd' = Closed(fd, reader[w])
    /\ reader' = [reader EXCEPT ![w] = NoHandle]
    /\ pipe' = [pipe EXCEPT ![w] = <<>>]
    /\ UNCHANGED <<mode, origin, writer, starting, chunk, stack, delivered, device, addressed, starts>>

(* Fault: the worker is let go. *)
JoinNever(w) == JoinWhen(w, {"none", "ended", "reading", "handling"})

Join(w) == JoinWhen(w, {"none", "ended"})

(* redirect_buffer() *)
Keep(w) ==
    /\ Goto(w, "keep", "pipe")
    /\ Room(fd)
    /\ fd' = Opened(fd, fd[mode[w]])
    /\ origin' = [origin EXCEPT ![w] = Lowest(fd)]
    /\ UNCHANGED <<mode, pipe, reader, writer, starting, worker, chunk, stack, delivered, device,
                   addressed, starts>>

MakePipeOf(w, first, second) ==
    /\ Goto(w, "pipe", "redirect")
    /\ Room(fd) /\ Room(Opened(fd, first))
    /\ fd' = Opened(Opened(fd, first), second)
    /\ reader' = [reader EXCEPT ![w] = Lowest(fd)]
    /\ writer' = [writer EXCEPT ![w] = Lowest(Opened(fd, first))]
    /\ UNCHANGED <<mode, pipe, origin, starting, worker, chunk, stack, delivered, device, addressed,
                   starts>>

(* Fault: the ends are taken for each other. *)
MakePipeSwapped(w) == MakePipeOf(w, WriteEnd(w), ReadEnd(w))

MakePipe(w) == MakePipeOf(w, ReadEnd(w), WriteEnd(w))

(* pipe() or dup2() fails: start() throws and leaves what it has done. *)
Throw(w) ==
    /\ owner[w] \in {"pipe", "redirect"}
    /\ owner' = [owner EXCEPT ![w] = "rest"]
    /\ UNCHANGED <<mode, fd, pipe, handles, starting, worker, chunk, stack, delivered, device,
                   addressed, starts>>

Redirect(w) ==
    /\ Goto(w, "redirect", "spawn")
    /\ fd' = [fd EXCEPT ![mode[w]] = fd[writer[w]]]
    /\ stack' = [stack EXCEPT ![mode[w]] = <<w>> \o @]
    /\ UNCHANGED <<mode, pipe, handles, starting, worker, chunk, delivered, device, addressed, starts>>

SpawnAs(w, state) ==
    /\ Goto(w, "spawn", "rest")
    /\ worker' = [worker EXCEPT ![w] = state]
    /\ UNCHANGED <<mode, fd, pipe, handles, starting, chunk, stack, delivered, device, addressed, starts>>

(* Fault: nobody reads. *)
SpawnForgotten(w) == SpawnAs(w, "none")

Spawn(w) == SpawnAs(w, "reading")

-----------------------------------------------------------------------------
(* dispatch_messages(), on the worker *)

ReadSome(w) ==
    /\ worker[w] = "reading" /\ pipe[w] # <<>>
    /\ LET n == IF Len(pipe[w]) < Chunk THEN Len(pipe[w]) ELSE Chunk
       IN  /\ chunk' = [chunk EXCEPT ![w] = SubSeq(pipe[w], 1, n)]
           /\ pipe' = [pipe EXCEPT ![w] = SubSeq(@, n + 1, Len(@))]
    /\ worker' = [worker EXCEPT ![w] = "handling"]
    /\ UNCHANGED <<mode, fd, handles, owner, starting, stack, delivered, device, addressed, starts>>

Hand(w) ==
    /\ worker[w] = "handling"
    /\ delivered' = [delivered EXCEPT ![w] = @ \o chunk[w]]
    /\ chunk' = [chunk EXCEPT ![w] = <<>>]
    /\ worker' = [worker EXCEPT ![w] = "reading"]
    /\ UNCHANGED <<mode, fd, pipe, handles, owner, starting, stack, device, addressed, starts>>

EndWhen(w, over) ==
    /\ worker[w] = "reading" /\ over
    /\ worker' = [worker EXCEPT ![w] = "ended"]
    /\ UNCHANGED <<mode, fd, pipe, handles, owner, starting, chunk, stack, delivered, device,
                   addressed, starts>>

(* Fault: the worker ends without the rest of the pipe. *)
EndEarly(w) == EndWhen(w, ~HasWriter(w))

End(w) == EndWhen(w, pipe[w] = <<>> /\ ~HasWriter(w))

-----------------------------------------------------------------------------
(* Who is to get what is written to a standard descriptor. *)
Addressee(d) == IF stack[d] = <<>> THEN Device(d) ELSE WriteEnd(Head(stack[d]))

(* A thread of the program writes a byte to a standard descriptor. *)
Write(d) ==
    LET byte == Len(addressed) + 1
        target == fd[d]
    IN  /\ Len(addressed) < MaxBytes
        /\ IF target.kind = "write"
           THEN /\ Len(pipe[target.of]) < Capacity
                /\ pipe' = [pipe EXCEPT ![target.of] = Append(@, byte)]
                /\ UNCHANGED device
           ELSE /\ device' = [device EXCEPT ![d] = Append(@, byte)]
                /\ UNCHANGED pipe
        /\ addressed' = Append(addressed, Addressee(d))
    /\ UNCHANGED <<mode, fd, handles, owner, starting, worker, chunk, stack, delivered, starts>>

OwnerStep(w) ==
    Restore(w) \/ CloseWriter(w) \/ Join(w) \/ Keep(w) \/ MakePipe(w) \/ Redirect(w) \/ Spawn(w)

WorkerStep(w) == ReadSome(w) \/ Hand(w) \/ End(w)

Next ==
    \/ \E w \in Watcher :
          \/ \E again \in BOOLEAN : Call(w, again)
          \/ OwnerStep(w) \/ Throw(w) \/ WorkerStep(w)
    \/ \E d \in Std : Write(d)

(* Handlers return, so a worker goes on; nothing says how long calls wait. *)
Fairness == \A w \in Watcher : WF_vars(OwnerStep(w)) /\ WF_vars(WorkerStep(w))

Spec == Init /\ [][Next]_vars /\ Fairness
-----------------------------------------------------------------------------
(* Properties *)

DescriptorsOK ==
    /\ mode \in [Watcher -> Std]
    /\ fd \in [Fd -> Target]
    /\ {origin, reader, writer} \subseteq [Watcher -> Fd \ Std]
    /\ owner \in [Watcher -> {"rest", "restore", "close", "join", "keep", "pipe", "redirect", "spawn"}]
    /\ stack \in [Std -> Seq(Watcher)]
    /\ \A w \in Watcher : /\ reader[w] # NoHandle => fd[reader[w]] = ReadEnd(w)
                          /\ writer[w] # NoHandle => fd[writer[w]] = WriteEnd(w)
    /\ \A d \in Std : /\ IsInjective(stack[d])
                      /\ \A w \in ToSet(stack[d]) : mode[w] = d /\ origin[w] # NoHandle

TypeOK ==
    /\ DescriptorsOK
    /\ {pipe, chunk, delivered} \subseteq [Watcher -> Seq(Nat)]
    /\ device \in [Std -> Seq(Nat)]
    /\ addressed \in Seq(Target)
    /\ worker \in [Watcher -> {"none", "reading", "handling", "ended"}]
    /\ \A w \in Watcher : Len(pipe[w]) <= Capacity /\ Len(chunk[w]) <= Chunk

(* What a target got is exactly what was meant for it: each byte once, and *)
(* in the order in which they were written.                                *)
Exactly(got, target) ==
    /\ \A i, j \in DOMAIN got : i < j => got[i] < got[j]
    /\ ToSet(got) = {n \in DOMAIN addressed : addressed[n] = target}

(* What has been written to a watcher, wherever it is by now. *)
Received(w) == delivered[w] \o chunk[w] \o pipe[w]

(* Whatever is written goes to the watcher that is on, or to the device if *)
(* none is: no byte is lost, none comes twice, out of order or to another. *)
Conserved ==
    /\ \A w \in Watcher : Exactly(Received(w), WriteEnd(w))
    /\ \A d \in Std : Exactly(device[d], Device(d))

(* A watcher that is off and whose calls have returned has delivered       *)
(* everything that was written while it was on.                            *)
StopDelivers ==
    \A w \in Watcher :
        owner[w] = "rest" /\ ~On(w) => Exactly(delivered[w], WriteEnd(w))

(* When nobody is on, and every call has returned, a failed start() that   *)
(* was not stopped aside, the descriptors are what they were, and no more. *)
Restored ==
    (\A w \in Watcher : owner[w] = "rest" /\ origin[w] = NoHandle) => fd = Standard

(* stop() comes back, although it waits for the handlers. *)
StopReturns ==
    \A w \in Watcher : owner[w] \in {"restore", "close", "join"} ~> owner[w] \in {"rest", "keep"}

(* A write to a full pipe does not wait for ever. *)
Drained == \A w \in Watcher : Len(pipe[w]) = Capacity ~> Len(pipe[w]) < Capacity

(* No byte is lost or astray, and what was written before a stop() has     *)
(* reached the subscribers when it returns.                                *)
NothingLost == TypeOK /\ Conserved /\ StopDelivers

(* Neither stop() nor a writer waits for ever.                             *)
NobodyStuck == StopReturns /\ Drained
-----------------------------------------------------------------------------
(* The inductive invariant behind Restored.                                *)

(* Which handles a watcher has at each step of its owner. *)
StageInv == \A w \in Watcher :
    /\ owner[w] = "rest" /\ origin[w] = NoHandle => reader[w] = NoHandle
    /\ owner[w] = "rest" /\ origin[w] = NoHandle => writer[w] = NoHandle
    /\ owner[w] \in {"close", "join", "keep"} => origin[w] = NoHandle
    /\ owner[w] \in {"join", "keep", "pipe"} => writer[w] = NoHandle
    /\ owner[w] \in {"keep", "pipe"} => reader[w] = NoHandle
    /\ owner[w] \in {"pipe", "redirect", "spawn"} => origin[w] # NoHandle
    /\ owner[w] = "redirect" => writer[w] # NoHandle
    /\ owner[w] \in {"pipe", "redirect"} => ~On(w)

(* Who is busy, or has a descriptor to put back without being on, has the  *)
(* standard descriptor for itself.                                         *)
Engaged(w) == owner[w] # "rest" \/ (origin[w] # NoHandle /\ ~On(w))

DisciplineInv == \A w \in Watcher : Engaged(w) =>
    /\ \A v \in Rivals(w) : ~Engaged(v)
    /\ On(w) => Head(stack[mode[w]]) = w

(* The descriptors beyond the standard ones are the handles of the         *)
(* watchers, and each handle has a descriptor of its own.                  *)
TableInv ==
    /\ fd[0] = Device(0)
    /\ \A d \in Std : fd[d] = Addressee(d)
    /\ \A n \in Fd : n > 2 /\ fd[n] # Free =>
          \E w \in Watcher : n \in {origin[w], reader[w], writer[w]}
    /\ \A v, w \in Watcher : origin[v] # NoHandle =>
          origin[v] # writer[w] /\ (v # w => origin[v] # origin[w])

(* What a watcher that is on will put back is the one below it, or the     *)
(* device; what any other will put back is there already.                  *)
ChainInv ==
    /\ \A d \in Std : \A i \in DOMAIN stack[d] :
          fd[origin[stack[d][i]]] = IF i < Len(stack[d]) THEN WriteEnd(stack[d][i + 1]) ELSE Device(d)
    /\ \A w \in Watcher : origin[w] # NoHandle /\ ~On(w) => fd[origin[w]] = fd[mode[w]]

IInv == DescriptorsOK /\ StageInv /\ DisciplineInv /\ TableInv /\ ChainInv
-----------------------------------------------------------------------------
(* The inductive invariant behind NothingLost.                             *)

(* A watcher that is on has a write end, and a worker, or will have one in  *)
(* the next step of start(); a watcher without a worker has an empty pipe,  *)
(* and so has one whose worker has ended, which has no write end any more.  *)
WorkerOK(w) ==
    /\ On(w) => writer[w] # NoHandle /\ (owner[w] = "spawn" \/ worker[w] \in {"reading", "handling"})
    /\ owner[w] = "spawn" => On(w)
    /\ owner[w] \in {"keep", "pipe", "redirect", "spawn"} => worker[w] = "none"
    /\ owner[w] = "rest" /\ ~On(w) => worker[w] = "none"
    /\ worker[w] = "none" /\ owner[w] # "spawn" => pipe[w] = <<>>
    /\ worker[w] = "ended" => pipe[w] = <<>> /\ ~HasWriter(w)
    /\ worker[w] # "handling" => chunk[w] = <<>>

WorkerInv == \A w \in Watcher : WorkerOK(w)

BytesInv == IInv /\ TypeOK /\ WorkerInv /\ Conserved
===============================================================================
