--------------------------- MODULE AudioAnalysis ---------------------------
(***************************************************************************)
(* From the bytes of a WAV file to the segments of its fingerprint: the    *)
(* parser (internal/container/adapter/wav.go), the decoder that walks the  *)
(* chunks again on its own (internal/audio/adapter/mock_decoder.go) and    *)
(* the segmentation (internal/fingerprint/application/audio.go).           *)
(*                                                                         *)
(* A step is one turn of a loop.  A file is its length and the headers of  *)
(* its chunks, each chosen when the parser comes to it and kept for the    *)
(* decoder.  Lengths and positions count bytes, or samples in segments.    *)
(***************************************************************************)
EXTENDS Integers, Sequences, FiniteSets

CONSTANTS
    Lengths,      \* of files
    Sizes,        \* that chunks declare
    Depths,       \* bits per sample that fmt chunks declare
    Channels,
    Windows,      \* samples in the configured window
    Overlaps,     \* in parts of Parts, below 95 hundredths of them
    Parts,
    MinWindow,    \* 64 in the code
    MinSegment    \* 32 in the code

ASSUME AudioAssumption ==
    /\ Lengths \subseteq Nat /\ Sizes \subseteq Nat /\ Depths \subseteq Nat
    /\ Channels \subseteq Nat \ {0} /\ Windows \subseteq Nat
    /\ Parts \in Nat \ {0} /\ Overlaps \subseteq 0 .. Parts - 1
    /\ MinWindow \in Nat /\ MinSegment \in 1..MinWindow

VARIABLES
    stage,      \* "parse", "decode", "values", "segment", "done", "rejected", "absent"
    length,     \* of the file
    chunks,     \* the headers found so far
    depthAt34,  \* the number at bytes 34 and 35, where the decoder looks for the depth
    offset,     \* of the loop that walks the chunks
    format,     \* what the parser read from the last fmt chunk
    measured,   \* the size of the last data chunk, from which the duration is computed
    body,       \* the chunk the decoder decodes: where its body begins, and its size
    samples,    \* values per channel
    window, step, start,
    segments

fileVars == <<length, chunks, depthAt34>>
parserVars == <<format, measured>>
buildVars == <<window, step, start, segments>>
audioVars == <<stage, fileVars, offset, parserVars, body, samples, buildVars>>

None == [depth |-> 0, channels |-> 0]
Chunk == [at : Nat, id : {"fmt", "data", "other"}, size : Nat, depth : Nat, channels : Nat]

\* A file of 44 bytes or more whose RIFF header is in order.
AudioInit ==
    /\ stage = "parse"
    /\ length \in {n \in Lengths : n >= 44}
    /\ chunks = <<>>
    /\ depthAt34 = 0
    /\ offset = 12
    /\ format = None
    /\ measured = -1
    /\ body = [at |-> 0, size |-> 0]
    /\ samples = 0
    /\ window = 0 /\ step = 0 /\ start = 0
    /\ segments = <<>>

\* Where the chunk after the one at o with n bytes begins: chunks are padded.
After(o, n) == LET e == o + 8 + n IN e + (e % 2)

HasHeader(o) == o + 8 <= length
HasBody(o, n) == o + 8 + n <= length

-----------------------------------------------------------------------------
(* The parser. *)

\* The header at the offset.  The fmt chunk of most files is the first one,
\* and then its depth is at byte 34; otherwise any number may be there.
ReadHeader(c) ==
    /\ stage = "parse"
    /\ HasHeader(offset)
    /\ c.at = offset
    /\ chunks' = Append(chunks, c)
    /\ IF chunks = <<>> /\ c.id = "fmt" THEN depthAt34' = c.depth
       ELSE IF chunks = <<>> THEN depthAt34' \in Depths \cup {0}
       ELSE UNCHANGED depthAt34
    /\ UNCHANGED <<length, body, samples, buildVars>>

\* Broken forms (named Bug...) stand before the definition they would replace.

\* Where a body ends is not looked at.
BugMalformed(c) == c.id = "fmt" /\ c.size < 16

\* A body that ends behind the file, or an fmt chunk too short to be one.
Malformed(c) == ~HasBody(c.at, c.size) \/ (c.id = "fmt" /\ c.size < 16)

ParseChunk(c) ==
    /\ ReadHeader(c)
    /\ ~Malformed(c)
    /\ offset' = After(offset, c.size)
    /\ format' = IF c.id = "fmt" THEN [depth |-> c.depth, channels |-> c.channels] ELSE format
    /\ measured' = IF c.id = "data" THEN c.size ELSE measured
    /\ UNCHANGED stage

\* Or the codec of an fmt chunk, which is not looked at here, is not PCM.
RejectChunk(c) ==
    /\ ReadHeader(c)
    /\ Malformed(c) \/ c.id = "fmt"
    /\ stage' = "rejected"
    /\ UNCHANGED <<offset, parserVars>>

\* The file is accepted when both chunks were there and the parameters are
\* within their bounds.
Acceptable ==
    format # None /\ measured >= 0 /\ format.channels \in 1..8 /\ format.depth \in 8..32

\* It is rejected otherwise, and for its sample rate, its duration or its size,
\* which are not looked at here.
FinishParse ==
    /\ stage = "parse"
    /\ ~HasHeader(offset)
    /\ \/ Acceptable /\ stage' = "decode" /\ offset' = 12
       \/ stage' = "rejected" /\ UNCHANGED offset
    /\ UNCHANGED <<fileVars, parserVars, body, samples, buildVars>>

-----------------------------------------------------------------------------
(* The decoder. *)

ChunkAt(o) == CHOOSE c \in {chunks[k] : k \in DOMAIN chunks} : c.at = o

\* A data chunk ends the walk, any other is passed over; "data chunk absent"
\* when the walk ends without one.
DecodeChunk ==
    /\ stage = "decode"
    /\ IF ~HasHeader(offset) \/ ~HasBody(offset, ChunkAt(offset).size)
       THEN stage' = "absent" /\ UNCHANGED <<offset, body>>
       ELSE IF ChunkAt(offset).id = "data"
       THEN /\ stage' = "values"
            /\ body' = [at |-> offset + 8, size |-> ChunkAt(offset).size]
            /\ UNCHANGED offset
       ELSE /\ offset' = After(offset, ChunkAt(offset).size)
            /\ UNCHANGED <<stage, body>>
    /\ UNCHANGED <<fileVars, parserVars, samples, buildVars>>

\* Bytes per value; only 1 and 2 are supported.
Width == depthAt34 \div 8

\* The values of the body, mixed down to one channel.
Mono == (body.size \div Width) \div format.channels

WindowOf(w) == IF w < MinWindow THEN MinWindow ELSE w

\* The part of the window that does not overlap, one sample at least.  The code
\* truncates a floating-point product, which may lie just below a whole number.
StepsOf(w, o) ==
    LET exact == WindowOf(w) * (Parts - o)
        whole == exact \div Parts
    IN  {IF s < 1 THEN 1 ELSE s :
            s \in {whole} \cup {n \in {whole - 1} : o > 0 /\ exact % Parts = 0}}

DecodeValues(w, o) ==
    /\ stage = "values"
    /\ Width \in {1, 2}
    /\ stage' = "segment"
    /\ samples' = Mono
    /\ window' = WindowOf(w)
    /\ step' \in StepsOf(w, o)
    /\ UNCHANGED <<fileVars, offset, parserVars, body, start, segments>>

\* Any other width is refused, and so are more samples than the service
\* allows, which are not counted here.
RejectValues ==
    /\ stage = "values"
    /\ stage' = "rejected"
    /\ UNCHANGED <<fileVars, offset, parserVars, body, samples, buildVars>>

-----------------------------------------------------------------------------
(* The segments. *)

End == IF start + window > samples THEN samples ELSE start + window

\* The last segment is dropped when it is shorter than the window.
BugIsSegment == start + window <= samples

\* A rest too short for a segment ends the loop.
IsSegment == start < samples /\ End - start >= MinSegment

AddSegment ==
    /\ stage = "segment"
    /\ IsSegment
    /\ segments' = Append(segments, [from |-> start, to |-> End])
    /\ start' = start + step
    /\ UNCHANGED <<stage, fileVars, offset, parserVars, body, samples, window, step>>

FinishSegments ==
    /\ stage = "segment"
    /\ ~IsSegment
    /\ stage' = "done"
    /\ UNCHANGED <<fileVars, offset, parserVars, body, samples, buildVars>>

AudioNext ==
    \/ \E i \in {"fmt", "data", "other"}, n \in Sizes, d \in Depths, h \in Channels :
          LET c == [at |-> offset, id |-> i, size |-> n,
                    depth    |-> IF i = "fmt" THEN d ELSE 0,
                    channels |-> IF i = "fmt" THEN h ELSE 0]
          IN ParseChunk(c) \/ RejectChunk(c)
    \/ FinishParse
    \/ DecodeChunk
    \/ (\E w \in Windows, o \in Overlaps : DecodeValues(w, o)) \/ RejectValues
    \/ AddSegment \/ FinishSegments

AudioSpec == AudioInit /\ [][AudioNext]_audioVars

-----------------------------------------------------------------------------
(* Properties. *)

Decoded == stage \in {"values", "segment", "done"}

OfKind(i) == {k \in DOMAIN chunks : chunks[k].id = i}

\* Exactly one fmt chunk, which is the first, and one data chunk.
Canonical == OfKind("fmt") = {1} /\ Cardinality(OfKind("data")) = 1

\* The decoder never disagrees with the parser that let the file pass: it finds
\* a data chunk in every accepted file, that chunk lies within the file, and in
\* a file of the usual layout it is the one the parser measured, read at the
\* depth that the parser read.
DecoderFollowsParser ==
    /\ stage # "absent"
    /\ Decoded => body.at + body.size <= length
    /\ Decoded /\ Canonical => body.size = measured /\ depthAt34 = format.depth

\* The segments begin with the first sample, leave no gap, and end less than a
\* segment's minimum before the last sample; they reach the last sample when
\* neighbours overlap by the minimum less one.
SegmentsCover ==
    stage = "done" =>
        LET n == Len(segments) IN
        IF n = 0 THEN samples < MinSegment
        ELSE /\ segments[1].from = 0
             /\ \A k \in 1..n-1 : /\ segments[k].from < segments[k + 1].from
                                  /\ segments[k + 1].from <= segments[k].to
             /\ segments[n].to > samples - MinSegment
             /\ window - step >= MinSegment - 1 => segments[n].to = samples
=============================================================================
