------------------------------- MODULE ChunkChain -------------------------------
(***************************************************************************)
(* Chunk processors and their chain: essence::crypto::chain_processor      *)
(* (src/src/crypto/chunk_processor.cpp) over memory::swapping_buffer.      *)
(*                                                                         *)
(* A processor keeps what does not fill a block and gives it up, followed  *)
(* by its padding if it has one, when it is finalised.  Bytes go through   *)
(* unchanged, as numbers that show where in the input they come from;      *)
(* padding is a negative number that names its processor.  The chain is a  *)
(* record of the processors' contexts, the contents of its buffers and the *)
(* state of the swapping buffer; ok is FALSE once an exception is thrown,  *)
(* and what follows it is skipped.                                         *)
(***************************************************************************)
EXTENDS Integers, SequencesExt

Processor == [block : Nat \ {0}, strict : BOOLEAN, pads : BOOLEAN]

Buffers == {"none", "input", "in", "out", "final", "pair"}

New(processors) ==
    [processor |-> processors, held |-> [k \in DOMAIN processors |-> <<>>],
     memory |-> [b \in Buffers |-> <<>>],
     swapped |-> "in", unswapped |-> "out", in |-> "none", out |-> "out", ok |-> TRUE]

Size(c) == Len(c.processor)

(* memory::swapping_buffer *)
Reset(c, input) == [c EXCEPT !.in = input, !.out = c.unswapped]

SetOut(c, swapped, unswapped) ==
    Reset([c EXCEPT !.swapped = swapped, !.unswapped = unswapped], "none")

(* Fault: the next processor reads what this one has read. *)
SwapForgotten(c) == c

Swap(c) ==
    IF ~c.ok THEN c
    ELSE [c EXCEPT !.in = c.out, !.out = IF c.out = c.unswapped THEN c.swapped ELSE c.unswapped]

(* One processor, from the current input to the current output.  OpenSSL's *)
(* base64 encoder reports an empty chunk as an error; bad is a processor   *)
(* that fails for a reason of its own, or 0.                               *)
Update(c, k, bad) ==
    LET input == c.memory[c.in]
        data == c.held[k] \o input
        whole == (Len(data) \div c.processor[k].block) * c.processor[k].block
    IN  IF ~c.ok THEN c
        ELSE IF k = bad \/ (c.processor[k].strict /\ input = <<>>) THEN [c EXCEPT !.ok = FALSE]
        ELSE [c EXCEPT !.held[k] = SubSeq(data, whole + 1, Len(data)),
                       !.memory[c.out] = SubSeq(data, 1, whole)]

Padding(processor, k) == IF processor.pads THEN <<-k>> ELSE <<>>

Remainder(c, k) == c.held[k] \o Padding(c.processor[k], k)

(* Behind what is in the output. *)
Finalize(c, k, bad) ==
    IF ~c.ok THEN c
    ELSE IF k = bad THEN [c EXCEPT !.ok = FALSE]
    ELSE [c EXCEPT !.held[k] = <<>>, !.memory[c.out] = @ \o Remainder(c, k)]

(* G1 = F1, Gn = Un(Gn-1) + Fn. *)
Finish(c, k, bad) ==
    Finalize(IF k = 1 THEN [c EXCEPT !.memory[c.out] = <<>>] ELSE Update(c, k, bad), k, bad)

(* The chain after each processor but the last, and before the first.      *)
Updates(start, bad) ==
    LET after[k \in 0 .. Size(start) - 1] ==
            IF k = 0 THEN start ELSE Swap(Update(after[k - 1], k, bad))
    IN  after

Finishes(start, bad) ==
    LET after[k \in 0 .. Size(start) - 1] ==
            IF k = 0 THEN start ELSE Swap(Finish(after[k - 1], k, bad))
    IN  after

(* The chain; its results are the chain afterwards and the output. *)
Outcome(c, output) == [chain |-> c, output |-> IF c.ok THEN output ELSE <<>>]

ChainUpdate(c, input, bad) ==
    IF input = <<>> THEN Outcome([c EXCEPT !.ok = TRUE], <<>>)
    ELSE LET start == Reset([c EXCEPT !.memory["input"] = input, !.ok = TRUE], "input")
             done == Update(Updates(start, bad)[Size(c) - 1], Size(c), bad)
         IN  Outcome(done, done.memory[done.out])

ChainFinalize(c, bad) ==
    LET start == SetOut([c EXCEPT !.ok = TRUE], "final", "pair")
        done == Finish(Finishes(start, bad)[Size(c) - 1], Size(c), bad)
    IN  Outcome(SetOut(done, c.swapped, c.unswapped), done.memory[done.out])
===============================================================================
