------------------------------ MODULE ImageProber ------------------------------
(***************************************************************************)
(* image_prober (src/imaging/image_prober.cpp) finds the format of an      *)
(* image with a bitstream_type_judger (src/io/bitstream_type_judger.cpp)   *)
(* and reads its header with that format's extractor                       *)
(* (src/imaging/image_header_extractor_impl.hpp).  One thread makes any    *)
(* number of calls: the judger's buffer is thread-local, and what a call   *)
(* leaves in it the next one finds.                                        *)
(*                                                                         *)
(* A format is described by the bytes it begins and ends with, and by the  *)
(* signature that precedes its header.  The library's stream is external:  *)
(* what matters of it is the position, and that one which failed stays     *)
(* failed while seekg() clears the end-of-file flag.                       *)
(***************************************************************************)
EXTENDS Naturals, Sequences, SequencesExt

CONSTANTS
    Byte,
    File,       \* the contents a call may be given
    Format,
    Registered, \* the formats of register_image_header_extractor()
    About,      \* [lead, trail, signature, needed, skip] of every format
    None

ASSUME ByteAssumption == 0 \in Byte /\ File \subseteq Seq(Byte)
ASSUME FormatAssumption == IsFiniteSet(Format) /\ Format # {}
ASSUME RegisteredAssumption == Registered \subseteq Format /\ None \notin Format
ASSUME AboutAssumption == About \in [Format ->
    [lead : Seq(Byte), trail : Seq(Byte), signature : Seq(Byte), needed : Nat, skip : Nat]]

Total(f) == Len(About[f].lead) + Len(About[f].trail)

VARIABLES
    pc,         \* "idle", "extracting" from a stream, or "done"
    kept,       \* the thread-local buffer of identify()
    data,       \* what the stream or the memory of the last call holds
    source,     \* "stream" or "memory"
    position,   \* of the stream
    failed,     \* its failbit
    hint,       \* what identify() answered
    header      \* what the extractor answered

probeVars == <<pc, kept, data, source, position, failed, hint, header>>

MaxLead  == Max({Len(About[f].lead) : f \in Format})
MaxTrail == Max({Len(About[f].trail) : f \in Format})

Zeros(n) == [i \in 1..n |-> 0]
First(n, s) == SubSeq(s, 1, n)
Final(n, s) == SubSeq(s, Len(s) - n + 1, Len(s))
Least(a, b) == IF a < b THEN a ELSE b

ProbeInit ==
    /\ pc = "idle"
    /\ kept = Zeros(MaxLead + MaxTrail)
    /\ data = << >> /\ source = "memory"
    /\ position = 0 /\ failed = FALSE
    /\ hint = None /\ header = None

-----------------------------------------------------------------------------
(* The judger.                                                             *)

KeyOf(f) == About[f].lead \o About[f].trail
Keys == {KeyOf(f) : f \in Format} \ {<< >>}

\* Formats whose combined key in the bytes is in the mapping.
Fitting(bytes) ==
    {f \in Format : /\ Total(f) <= Len(bytes)
                    /\ First(Len(About[f].lead), bytes) \o Final(Len(About[f].trail), bytes) \in Keys}

\* identify(span): the first of hints_, which the last std::ranges::sort left in
\* the order of their trailing sizes, equal ones in any order.
Identify(bytes) ==
    LET fit == Fitting(bytes)
    IN IF fit = {} THEN {None}
       ELSE {f \in fit : \A g \in fit : Len(About[f].trail) <= Len(About[g].trail)}

\* The leading part of the buffer: a stream shorter than the longest leading
\* signature, or one not opened, leaves the rest as it was.
\* Fault: the bytes come behind what was there; the rest is cut off.
ReadLeadKept(bytes) == First(MaxLead, First(1, kept) \o bytes \o kept)
ReadLeadOnly(bytes) == First(Least(Len(bytes), MaxLead), bytes)
ReadLead(bytes) ==
    LET n == Least(Len(bytes), MaxLead) IN First(n, bytes) \o SubSeq(kept, n + 1, MaxLead)

\* read_trailing_bytes(): the bytes from the end that are not leading ones, then
\* zeros; of a failed stream nothing can be read.
RollBack(bytes) == IF Len(bytes) < MaxLead THEN 0 ELSE Least(Len(bytes) - MaxLead, MaxTrail)
ReadTrail(bytes) == Final(RollBack(bytes), bytes) \o Zeros(MaxTrail - RollBack(bytes))

Handled(h) == h \in Registered

\* The position where judging leaves a stream: restored when there were trailing
\* bytes to read.
Judged(bytes) == IF RollBack(bytes) > 0 THEN MaxLead ELSE Len(bytes)

\* image_prober::extract_header(istream) up to the extractor: a stream (of a
\* path that cannot be opened, one without bytes) is judged, and skip bytes are
\* skipped; past the end, a file goes there and other streams fail.
ProbeStream(bytes, isFile) ==
    /\ pc = "idle"
    /\ data' = bytes /\ source' = "stream"
    /\ kept' = ReadLead(bytes) \o ReadTrail(bytes)
    /\ hint' \in Identify(kept')
    /\ header' = None
    /\ IF Handled(hint')
       THEN /\ pc' = "extracting"
            /\ position' = Judged(bytes) + About[hint'].skip
            /\ failed' = (Len(bytes) < MaxLead \/ (~isFile /\ position' > Len(bytes)))
       ELSE pc' = "done" /\ position' = 0 /\ failed' = (Len(bytes) < MaxLead)

-----------------------------------------------------------------------------
(* The extractor.                                                          *)

\* What follows position p when n bytes can be read there.
Readable(p, n) == ~failed /\ p + n <= Len(data)
BytesAt(p, n) == SubSeq(data, p + 1, p + n)

\* Fault: the comparison of the signature is left out.
IsSignatureAny(bytes) == TRUE
IsSignature(bytes) == bytes = About[hint].signature

\* Reading past the end raises the end-of-file flag, which ends the loop; reading
\* a stream that has failed already does not.
\* Fault: the flag is not looked at.
AtEndNever(p, n) == FALSE
AtEnd(p, n) == ~failed /\ ~Readable(p, n)

\* One turn of the loop: a signature's worth of bytes is read and compared, then
\* the header.  The turns do not overlap.
Extract ==
    LET size   == Len(About[hint].signature)
        needed == About[hint].needed
    IN /\ pc = "extracting"
       /\ \/ /\ AtEnd(position, size)
             /\ pc' = "done" /\ UNCHANGED <<position, header>>
          \/ /\ Readable(position, size)
             /\ ~IsSignature(BytesAt(position, size))
             /\ position' = position + size
             /\ UNCHANGED <<pc, header>>
          \/ /\ Readable(position, size)
             /\ IsSignature(BytesAt(position, size))
             /\ IF Readable(position + size, needed)
                THEN header' = BytesAt(position + size, needed) ELSE UNCHANGED header
             /\ pc' = "done" /\ UNCHANGED position
       /\ UNCHANGED <<kept, data, source, failed, hint>>

\* A stream that has failed is read again and again.
Spin ==
    /\ pc = "extracting"
    /\ LET size == Len(About[hint].signature)
       IN ~Readable(position, size) /\ ~AtEnd(position, size)
    /\ UNCHANGED probeVars

\* extract_header(span).  The first occurrence of the signature counts, and the
\* header is taken to be there when more than `needed' bytes follow its start:
\* where the memory ends earlier than the header, what is read is unspecified.
Occurrences(f) == {i \in About[f].skip..Len(data') :
    IsPrefix(About[f].signature, SubSeq(data', i + 1, Len(data')))}

FromMemory(f) ==
    IF Occurrences(f) = {} THEN None
    ELSE LET i == Min(Occurrences(f)) + Len(About[f].signature)
         IN IF Len(data') - Min(Occurrences(f)) > About[f].needed /\ Len(data') > i
            THEN SubSeq(data', i + 1, Least(Len(data'), i + About[f].needed)) ELSE None

ProbeMemory(bytes) ==
    /\ pc = "idle"
    /\ data' = bytes /\ source' = "memory"
    /\ hint' \in Identify(bytes)
    /\ header' = IF Handled(hint') THEN FromMemory(hint') ELSE None
    /\ position' = 0 /\ failed' = FALSE
    /\ pc' = "done"
    /\ UNCHANGED kept

\* Of a call only the buffer of its thread remains.
Return ==
    /\ pc = "done"
    /\ pc' = "idle"
    /\ data' = << >> /\ source' = "memory"
    /\ position' = 0 /\ failed' = FALSE
    /\ hint' = None /\ header' = None
    /\ UNCHANGED kept

ProbeNext ==
    \/ \E bytes \in File : ProbeMemory(bytes) \/ \E isFile \in BOOLEAN : ProbeStream(bytes, isFile)
    \/ Extract \/ Spin \/ Return

ProbeSpec == ProbeInit /\ [][ProbeNext]_probeVars /\ WF_probeVars(Extract)

-----------------------------------------------------------------------------
(* Properties.                                                             *)

\* Type invariant.
ProbeTypeOK ==
    /\ pc \in {"idle", "extracting", "done"}
    /\ kept \in Seq(Byte) /\ Len(kept) = MaxLead + MaxTrail
    /\ data \in File \cup {<< >>}
    /\ source \in {"stream", "memory"}
    /\ position \in Nat /\ failed \in BOOLEAN
    /\ hint \in Format \cup {None}
    /\ header = None \/ header \in Seq(Byte)

\* The judger finds a key whatever format it is of, and answers with the format
\* that it took the sizes from: what f's sizes cut of g's key.
SameSize(f) == {g \in Format : Total(g) = Total(f)}
LeadIn(f, g) == First(Len(About[f].lead), KeyOf(g))
TrailIn(f, g) == Final(Len(About[f].trail), KeyOf(g))

Spells(f, g, bytes) == IsPrefix(LeadIn(f, g), bytes) /\ IsSuffix(TrailIn(f, g), bytes)

\* The content as it is judged: zeros stand for what a stream lacks.
Content ==
    IF source = "memory" THEN data
    ELSE data \o Zeros(IF Len(data) < MaxLead + MaxTrail THEN MaxLead + MaxTrail - Len(data) ELSE 0)

\* For memory, and a stream with room for the longest leading signature: the
\* format named is one that the content begins and ends with, and none is named
\* only when there is none (a format without magic bytes is never named), whatever
\* was probed before.  Only formats of equally many magic bytes are confused, the
\* one's key cut at the other's sizes.
Identified ==
    pc # "idle" /\ (source = "memory" \/ Len(data) >= MaxLead) =>
        IF hint = None
        THEN \A f \in Format : \A g \in SameSize(f) :
                Total(f) \in 1..Len(Content) => ~Spells(f, g, Content)
        ELSE \E g \in SameSize(hint) : Spells(hint, g, Content)

\* Of a shorter stream the bytes of an earlier one take part, but only behind its
\* own: the format named begins as the stream does, as far as the stream goes, and
\* ends with zeros, and none that the stream itself has is missed.
NamedByShort ==
    pc # "idle" /\ source = "stream" /\ Len(data) < MaxLead =>
        LET blank(f, g) == TrailIn(f, g) = Zeros(Len(About[f].trail))
        IN  IF hint = None
            THEN \A f \in Format : \A g \in SameSize(f) :
                    Total(f) > 0 /\ blank(f, g) => ~IsPrefix(LeadIn(f, g), data)
            ELSE \E g \in SameSize(hint) :
                    /\ blank(hint, g)
                    /\ IsPrefix(LeadIn(hint, g), data) \/ IsPrefix(data, LeadIn(hint, g))

\* A header read from a stream is what follows a signature of the format in it,
\* behind the longest leading signature, and whole.
HeaderInStream ==
    (source = "stream" /\ header # None) =>
        /\ Len(header) = About[hint].needed
        /\ \E i \in MaxLead..Len(data) :
              IsPrefix(About[hint].signature \o header, SubSeq(data, i + 1, Len(data)))

\* The extraction from a stream ends, unless the stream has failed before: one
\* shorter than the longest leading signature, a file that was not opened, or a
\* stream in memory too short for the bytes to skip, is read for ever when its
\* format is recognised.
ExtractionEnds == (pc = "extracting" /\ ~failed) ~> (pc = "done")

\* What the prober answers, the format and the header, is in the content.
Answers == ProbeTypeOK /\ Identified /\ NamedByShort /\ HeaderInStream

-----------------------------------------------------------------------------
(* The inductive invariant behind Answers.                                 *)

\* What the extractor in a stream starts from.
ExtractInv == pc = "extracting" =>
    /\ source = "stream" /\ hint \in Format /\ header = None
    /\ ~failed => position >= MaxLead

ProbeIInv == Answers /\ ExtractInv
=============================================================================
