------------------------------ MODULE CipherStream ------------------------------
(***************************************************************************)
(* essence::crypto::ostream (src/src/crypto/ostream.cpp): an output stream *)
(* whose buffer passes what is written through a chunk processor, or a     *)
(* chain of them, to another stream, the sink.                             *)
(*                                                                         *)
(* A call is one step: nothing runs concurrently.  What makes the stream   *)
(* hard is what a call leaves behind when a part of it throws.  A sink     *)
(* that fails either throws or only sets its own state, which nobody here  *)
(* looks at; it takes nothing more.                                        *)
(***************************************************************************)
EXTENDS ChunkChain

CONSTANTS
    Chains,             \* sequences of processors, [block, strict, pads]
    BufferSize,         \* buffer_size() of the processor
    MaxBytes,           \* bound: bytes written to one sink
    MaxFailures,        \* bound: failures while one sink is open
    ProcessorsFail,     \* whether a processor may fail by itself
    SinkFails           \* whether the sink may fail

ASSUME BufferAssumption == BufferSize \in Nat \ {0}
ASSUME BoundsAssumption == MaxBytes \in Nat /\ MaxFailures \in Nat \ {0}
ASSUME FaultsAssumption == {ProcessorsFail, SinkFails} \subseteq BOOLEAN
ASSUME ChainsAssumption == Chains \subseteq Seq(Processor) \ {<<>>}

VARIABLES
    open,               \* output_stream_ and processor_ are set
    area,               \* what is in the put area
    chain,              \* processor_
    sink,               \* what the sink has received
    takes, throws,      \* the sink is good; it throws when it fails
    good,               \* the state of the stream itself
    gone,               \* destroyed
    written,            \* history: the bytes accepted since open()
    failures,           \* history: how often a call failed since then
    closed              \* history: close() has returned, and closed the stream

stream == <<area, chain, sink, takes>>
vars == <<open, stream, throws, good, gone, written, failures, closed>>

Init ==
    /\ open = FALSE /\ area = <<>> /\ sink = <<>> /\ takes = TRUE /\ throws = FALSE
    /\ chain = New(<<>>)
    /\ good = TRUE /\ gone = FALSE
    /\ written = <<>> /\ failures = 0 /\ closed = FALSE

Call == ~gone /\ failures < MaxFailures

(* What may go wrong, one thing in a call: a processor in update() or in   *)
(* finalize(), the sink in write() or in flush().                          *)
NoFault == [update |-> 0, finalize |-> 0, write |-> FALSE, flush |-> FALSE, writeLast |-> FALSE]

ProcessorFaults ==
    UNION {{[NoFault EXCEPT !.update = k], [NoFault EXCEPT !.finalize = k]} :
              k \in DOMAIN chain.processor}

SinkFaults ==
    {[NoFault EXCEPT !.write = TRUE], [NoFault EXCEPT !.flush = TRUE],
     [NoFault EXCEPT !.writeLast = TRUE]}

Faults ==
    {NoFault} \cup (IF ProcessorsFail THEN ProcessorFaults ELSE {})
        \cup (IF SinkFails THEN SinkFaults ELSE {})

-----------------------------------------------------------------------------
(* What a call does to the stream, as a record: ok is FALSE if it throws. *)

Now == [area |-> area, chain |-> chain, sink |-> sink, takes |-> takes, ok |-> TRUE]

(* output_stream_->write() of what the processor returned. *)
Write(s, result, lost) ==
    LET kept == result.chain.ok /\ s.takes /\ ~lost
    IN  [s EXCEPT !.chain = result.chain,
                  !.sink = IF kept THEN @ \o result.output ELSE @,
                  !.takes = @ /\ (result.chain.ok => ~lost),
                  !.ok = result.chain.ok /\ (kept \/ ~throws)]

ProcessBuffer(s, f) ==
    LET done == Write(s, ChainUpdate(s.chain, s.area, f.update), f.write)
    IN  IF done.ok THEN [done EXCEPT !.area = <<>>] ELSE done

FlushSink(s, f) ==
    IF ~s.ok THEN s
    ELSE [s EXCEPT !.takes = @ /\ ~f.flush, !.ok = (s.takes /\ ~f.flush) \/ ~throws]

Sync(s, f) == FlushSink(IF s.area = <<>> THEN s ELSE ProcessBuffer(s, f), f)

FinalizeAfter(s, f) ==
    IF s.ok THEN Write(s, ChainFinalize(s.chain, f.finalize), f.writeLast) ELSE s

(* Fault: the last bytes are not processed before the processor is finalised. *)
FinalizeOnly(s, f) == FinalizeAfter(s, f)

FinalizeStream(s, f) == FinalizeAfter(Sync(s, f), f)

Becomes(s) ==
    /\ area' = s.area /\ chain' = s.chain /\ sink' = s.sink /\ takes' = s.takes
    /\ failures' = IF s.ok THEN failures ELSE failures + 1

-----------------------------------------------------------------------------
(* open(): a new sink and a new processor, whatever was there. *)
OpenWith(left) == \E processors \in Chains, initialized \in BOOLEAN :
    /\ ~gone
    /\ initialized \/ ProcessorsFail
    /\ open' = TRUE
    /\ area' = left
    /\ chain' = New(processors)
    /\ sink' = <<>> /\ takes' = TRUE /\ throws' \in {FALSE, SinkFails}
    /\ good' = (initialized \/ good)
    /\ failures' = IF initialized THEN 0 ELSE 1
    /\ written' = <<>> /\ closed' = FALSE
    /\ UNCHANGED gone

Open == OpenWith(<<>>)

(* open() without a sink, as of a file that could not be opened. *)
OpenNothing ==
    /\ ~gone /\ good
    /\ good' = FALSE
    /\ UNCHANGED <<open, stream, throws, gone, written, failures, closed>>

(* put(), or an iterator that writes to the buffer of the stream. *)
PutWith(room) == \E through \in BOOLEAN, f \in Faults :
    /\ Call
    /\ open /\ (through => good)
    /\ Len(written) < MaxBytes
    /\ LET byte == Len(written) + 1
           s == IF room THEN Now ELSE ProcessBuffer(Now, f)
       IN  /\ Becomes(IF s.ok THEN [s EXCEPT !.area = Append(@, byte)] ELSE s)
           /\ written' = IF s.ok THEN Append(written, byte) ELSE written
           /\ good' = (good /\ (s.ok \/ ~through))
    /\ UNCHANGED <<open, throws, gone, closed>>

(* Fault: the put area is taken to be one longer. *)
PutBeyond == PutWith(Len(area) <= BufferSize)

Put == PutWith(Len(area) < BufferSize)

Flush == \E f \in Faults :
    /\ Call
    /\ open /\ good
    /\ LET s == Sync(Now, f)
       IN  Becomes(s) /\ good' = s.ok
    /\ UNCHANGED <<open, throws, gone, written, closed>>

(* put() or flush() without a sink. *)
CallClosed ==
    /\ Call
    /\ ~open /\ good
    /\ good' = FALSE
    /\ UNCHANGED <<open, stream, throws, gone, written, failures, closed>>

Clear ==
    /\ Call
    /\ ~good
    /\ good' = TRUE
    /\ UNCHANGED <<open, stream, throws, gone, written, failures, closed>>

(* An exception leaves the stream open. *)
Close == \E f \in Faults :
    /\ Call
    /\ open
    /\ LET s == FinalizeStream(Now, f)
       IN  Becomes(s) /\ open' = ~s.ok /\ closed' = s.ok
    /\ UNCHANGED <<throws, good, gone, written>>

(* The destructor closes; an exception there ends the program. *)
Destroy == \E f \in Faults :
    /\ Call
    /\ gone' = TRUE
    /\ LET s == IF open THEN FinalizeStream(Now, f) ELSE Now
       IN  Becomes(s) /\ open' = (open /\ ~s.ok) /\ closed' = (closed \/ (open /\ s.ok))
    /\ UNCHANGED <<throws, good, written>>

Next == Open \/ OpenNothing \/ Put \/ Flush \/ CallClosed \/ Clear \/ Close \/ Destroy

Spec == Init /\ [][Next]_vars
-----------------------------------------------------------------------------
(* Properties *)

TypeOK ==
    /\ {open, takes, throws, good, gone, closed} \subseteq BOOLEAN
    /\ failures \in 0 .. MaxFailures
    /\ Len(area) <= BufferSize /\ Len(written) <= MaxBytes
    /\ \A k \in DOMAIN chain.processor : Len(chain.held[k]) < chain.processor[k].block
    /\ ~(open /\ closed)

(* What the processors hold, the nearest to the sink first. *)
HeldUpTo(held) ==
    LET all[k \in 0 .. Len(held)] == IF k = 0 THEN <<>> ELSE held[k] \o all[k - 1] IN all

Held == HeldUpTo(chain.held)[Size(chain)]

PadsUpTo(processor) ==
    LET all[k \in 0 .. Len(processor)] ==
            IF k = 0 THEN <<>> ELSE all[k - 1] \o Padding(processor[k], k)
    IN  all

Pads == PadsUpTo(chain.processor)[Size(chain)]

(* While nothing has failed, every byte that was accepted is in the sink,  *)
(* in a processor or in the put area, once and in order, and no byte of an *)
(* earlier sink is; the put area and the processors keep to their sizes.   *)
InOrder ==
    /\ TypeOK
    /\ open /\ failures = 0 /\ takes => sink \o Held \o area = written

(* A stream that was closed without a failure has delivered everything,    *)
(* followed by the padding of every processor.                             *)
Complete == closed /\ failures = 0 /\ takes => sink = written \o Pads

(* The same after any failure that was reported: a close() that returns    *)
(* has delivered what was accepted.  Not an invariant: with TestChain, a   *)
(* chunk that is refused after the cipher took it is processed again.      *)
CloseFaithful == closed /\ takes => sink = written \o Pads
-----------------------------------------------------------------------------
(* The inductive invariant behind InOrder and Complete.                    *)

(* A chain has a context for each processor, which keeps less than a block. *)
ChainRecord ==
    [processor : Seq(Processor), held : Seq(Seq(Int)), memory : [Buffers -> Seq(Int)],
     swapped : Buffers, unswapped : Buffers, in : Buffers, out : Buffers, ok : BOOLEAN]

ChainOK(c) ==
    /\ c \in ChainRecord /\ Len(c.held) = Size(c)
    /\ \A k \in 1 .. Size(c) : Len(c.held[k]) < c.processor[k].block

StreamInv ==
    /\ ChainOK(chain) /\ (open => Size(chain) > 0)
    /\ {area, sink, written} \subseteq Seq(Int)

IInv == StreamInv /\ InOrder /\ Complete
===============================================================================
