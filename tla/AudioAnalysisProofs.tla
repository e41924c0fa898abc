------------------------ MODULE AudioAnalysisProofs ------------------------
(***************************************************************************)
(* Proofs about AudioAnalysis, for files of any length with any chunks,    *)
(* any window and any overlap.                                             *)
(***************************************************************************)
EXTENDS AudioAnalysis, FiniteSetTheorems, TLAPS

AudioTypeOK ==
    /\ stage \in {"parse", "decode", "values", "segment", "done", "rejected", "absent"}
    /\ length \in Nat
    /\ chunks \in Seq(Chunk)
    /\ depthAt34 \in Nat
    /\ offset \in Nat
    /\ format \in [depth : Nat, channels : Nat]
    /\ measured \in Nat \cup {-1}
    /\ body \in [at : Nat, size : Nat]
    /\ samples \in Nat /\ window \in Nat /\ step \in Nat /\ start \in Nat
    /\ segments \in Seq([from : Nat, to : Nat])

\* The headers lie one behind the other, each where the padding of the one
\* before it ends, and what the parser keeps comes from one of them.
Headers ==
    /\ \A j, k \in DOMAIN chunks : j < k => chunks[j].at < chunks[k].at
    /\ \A k \in 1 .. Len(chunks) - 1 : chunks[k + 1].at = After(chunks[k].at, chunks[k].size)
    /\ chunks # <<>> => chunks[1].at = 12
    /\ chunks # <<>> /\ chunks[1].id = "fmt" => depthAt34 = chunks[1].depth

\* While the parser walks, all it has passed fits into the file.
Parsed ==
    /\ \A k \in DOMAIN chunks : HasHeader(chunks[k].at) /\ HasBody(chunks[k].at, chunks[k].size)
    /\ OfKind("fmt") # {} => \E k \in OfKind("fmt") : format.depth = chunks[k].depth
    /\ OfKind("data") # {} => \E k \in OfKind("data") : measured = chunks[k].size
    /\ measured >= 0 => OfKind("data") # {}

Parsing ==
    /\ \A k \in DOMAIN chunks : chunks[k].at < offset
    /\ chunks = <<>> => offset = 12
    /\ chunks # <<>> =>
          offset = After(chunks[Len(chunks)].at, chunks[Len(chunks)].size)

\* The decoder is at a header that the parser has passed, and has passed no
\* data chunk itself.
Decoding ==
    /\ OfKind("data") # {}
    /\ \E j \in DOMAIN chunks :
          offset = chunks[j].at /\ \A k \in OfKind("data") : j <= k

\* The body is that of a data chunk.
Located == \E k \in OfKind("data") : body = [at |-> chunks[k].at + 8, size |-> chunks[k].size]

\* The segments so far: a chain from the first sample, the next one to begin a
\* step behind the last.
Least(a, b) == IF a > b THEN b ELSE a

Chain ==
    LET n == Len(segments) IN
    /\ MinWindow <= window /\ 1 <= step /\ step <= window
    /\ n = 0 => start = 0
    /\ n # 0 => /\ segments[1].from = 0
                /\ segments[n].from + step = start
                /\ segments[n].to = Least(segments[n].from + window, samples)
    /\ \A k \in 1..n-1 : /\ segments[k].from < segments[k + 1].from
                         /\ segments[k + 1].from <= segments[k].to

AudioInv ==
    /\ AudioTypeOK
    /\ stage # "absent"
    /\ Headers
    /\ stage = "parse" => Parsing
    /\ stage # "rejected" => Parsed
    /\ stage = "decode" => Decoding
    /\ stage \in {"decode", "values"} => format.channels \in 1..8
    /\ stage \in {"values", "segment", "done"} => Located
    /\ stage \in {"parse", "decode", "values"} => segments = <<>> /\ start = 0
    /\ stage \in {"segment", "done"} => Chain
    /\ SegmentsCover

-----------------------------------------------------------------------------
\* The operators.

\* The next chunk begins behind the body of the one before it.
LEMMA AfterIsBehind ==
    ASSUME NEW o \in Nat, NEW n \in Nat
    PROVE  After(o, n) \in Nat /\ After(o, n) > o /\ After(o, n) >= o + 8 + n
  BY DEF After

\* A part of a window is not longer than the window.
LEMMA PartOfWindow ==
    ASSUME NEW w \in Nat, NEW o \in 0 .. Parts - 1
    PROVE  (w * (Parts - o)) \div Parts \in Nat /\ (w * (Parts - o)) \div Parts <= w
  <1> DEFINE p == w * (Parts - o)
             d == p \div Parts
  <1>1. Parts \in Nat /\ Parts > 0 /\ o \in Nat /\ Parts - o \in Nat
    BY AudioAssumption
  <1>2. p \in Nat /\ w * Parts \in Nat /\ w * o \in Nat
    BY <1>1
  <1>3. p = w * Parts - w * o
    BY <1>1
  <1>4. p <= w * Parts
    BY <1>2, <1>3
  <1> HIDE DEF p
  <1>5. d \in Nat /\ d * Parts <= p
    BY <1>1, <1>2
  <1> HIDE DEF d
  <1>6. d <= w
    <2>1. SUFFICES ASSUME d > w PROVE FALSE
      BY <1>5
    <2>2. d * Parts >= (w + 1) * Parts
      BY <1>1, <1>5, <2>1
    <2>3. (w + 1) * Parts = w * Parts + Parts
      BY <1>1
    <2>4. d * Parts \in Nat
      BY <1>1, <1>5
    <2> QED BY <1>1, <1>2, <1>4, <1>5, <2>2, <2>3, <2>4
  <1> QED BY <1>5, <1>6 DEF d, p

\* An index of a sequence and what is there.
LEMMA AtIndex ==
    ASSUME NEW S, NEW q \in Seq(S), NEW k \in 1..Len(q)
    PROVE  /\ q[k] \in S /\ k \in DOMAIN q /\ k \in Nat /\ Len(q) \in Nat
           /\ k # Len(q) => k \in 1 .. Len(q) - 1 /\ k + 1 \in 1..Len(q)
  OBVIOUS

\* The numbers in the headers are numbers.
LEMMA ChunkTypes ==
    ASSUME AudioTypeOK, NEW k \in DOMAIN chunks
    PROVE  /\ k \in Nat /\ k \in 1..Len(chunks) /\ Len(chunks) \in Nat
           /\ chunks[k].at \in Nat /\ chunks[k].size \in Nat /\ chunks[k].depth \in Nat
  <1>1. chunks \in Seq(Chunk)
    BY DEF AudioTypeOK
  <1>2. chunks[k] \in Chunk /\ k \in 1..Len(chunks) /\ Len(chunks) \in Nat
    BY <1>1
  <1> QED BY <1>2 DEF Chunk

\* The chunk at the offset of a header is that header.
LEMMA ChunkFound ==
    ASSUME AudioTypeOK, Headers, NEW j \in DOMAIN chunks
    PROVE  ChunkAt(chunks[j].at) = chunks[j]
  <1> DEFINE S == {chunks[k] : k \in DOMAIN chunks}
             o == chunks[j].at
  <1>1. ASSUME NEW k \in DOMAIN chunks, chunks[k].at = o
        PROVE  k = j
    <2>1. j \in Nat /\ k \in Nat /\ chunks[k].at \in Nat /\ chunks[j].at \in Nat
      BY ChunkTypes
    <2>2. chunks[k].at = chunks[j].at
      BY <1>1
    <2>3. (j < k => chunks[j].at < chunks[k].at) /\ (k < j => chunks[k].at < chunks[j].at)
      BY DEF Headers
    <2> HIDE DEF o
    <2> QED BY <2>1, <2>2, <2>3
  <1>2. chunks[j] \in S /\ chunks[j].at = o /\ \A c \in S : c.at = o => c = chunks[j]
    BY <1>1
  <1> HIDE DEF S
  <1> QED BY <1>2 DEF ChunkAt, S

-----------------------------------------------------------------------------
\* The parser's steps.

\* What reading a header does to the sequence of headers.
LEMMA HeaderRead ==
    ASSUME AudioInv, stage = "parse", NEW c \in Chunk, ReadHeader(c)
    PROVE  /\ chunks' \in Seq(Chunk) /\ Len(chunks') = Len(chunks) + 1
           /\ DOMAIN chunks' = DOMAIN chunks \cup {Len(chunks) + 1}
           /\ Len(chunks) \in Nat /\ DOMAIN chunks = 1 .. Len(chunks)
           /\ chunks'[Len(chunks) + 1] = c
           /\ \A k \in DOMAIN chunks : chunks'[k] = chunks[k]
           /\ Headers'
           /\ depthAt34' \in Nat
           /\ \A i : OfKind(i)' = OfKind(i) \cup (IF c.id = i THEN {Len(chunks) + 1} ELSE {})
  <1> DEFINE n == Len(chunks)
  <1>1. chunks \in Seq(Chunk) /\ n \in Nat /\ DOMAIN chunks = 1..n /\ chunks' = Append(chunks, c)
    BY DEF AudioInv, AudioTypeOK, ReadHeader
  <1>2. /\ chunks' \in Seq(Chunk) /\ Len(chunks') = n + 1 /\ DOMAIN chunks' = DOMAIN chunks \cup {n + 1}
        /\ chunks'[n + 1] = c /\ \A k \in DOMAIN chunks : chunks'[k] = chunks[k]
    BY <1>1
  <1>3. depthAt34' \in Nat
    BY AudioAssumption DEF ReadHeader, AudioInv, AudioTypeOK, Chunk
  <1>4. c.at = offset /\ (chunks = <<>> <=> n = 0)
    BY <1>1 DEF ReadHeader
  <1>5. Headers'
    <2>1. \A j, k \in DOMAIN chunks' : j < k => chunks'[j].at < chunks'[k].at
      <3> SUFFICES ASSUME NEW j \in DOMAIN chunks', NEW k \in DOMAIN chunks', j < k
                   PROVE  chunks'[j].at < chunks'[k].at
        OBVIOUS
      <3>1. CASE k = n + 1
        BY <1>1, <1>2, <1>4, <3>1 DEF AudioInv, Parsing
      <3>2. CASE k # n + 1
        BY <1>1, <1>2, <3>2 DEF AudioInv, Headers
      <3> QED BY <3>1, <3>2
    <2>2. \A k \in 1 .. Len(chunks') - 1 : chunks'[k + 1].at = After(chunks'[k].at, chunks'[k].size)
      <3> SUFFICES ASSUME NEW k \in 1..n
                   PROVE  chunks'[k + 1].at = After(chunks'[k].at, chunks'[k].size)
        BY <1>1, <1>2
      <3>1. CASE k = n
        BY <1>1, <1>2, <1>4, <3>1 DEF AudioInv, Parsing
      <3>2. CASE k # n
        <4>1. k \in 1 .. n - 1 /\ k \in DOMAIN chunks /\ k + 1 \in DOMAIN chunks
          BY <1>1, <3>2, AtIndex
        <4>2. chunks[k + 1].at = After(chunks[k].at, chunks[k].size)
          BY <4>1 DEF AudioInv, Headers
        <4> QED BY <1>2, <4>1, <4>2
      <3> QED BY <3>1, <3>2
    <2>3. chunks'[1].at = 12 /\ (chunks'[1].id = "fmt" => depthAt34' = chunks'[1].depth)
      <3>1. CASE n = 0
        BY <1>1, <1>2, <1>4, <3>1 DEF ReadHeader, AudioInv, Parsing
      <3>2. CASE n # 0
        BY <1>1, <1>2, <1>4, <3>2 DEF ReadHeader, AudioInv, Headers
      <3> QED BY <3>1, <3>2
    <2> QED BY <2>1, <2>2, <2>3 DEF Headers
  <1>6. \A i : OfKind(i)' = OfKind(i) \cup (IF c.id = i THEN {n + 1} ELSE {})
    BY <1>1, <1>2 DEF OfKind
  <1> QED BY <1>1, <1>2, <1>3, <1>5, <1>6

\* A header that is accepted is the last one, and the walk goes on behind it.
LEMMA ParseChunkKeeps ==
    ASSUME AudioInv, NEW c \in Chunk, ParseChunk(c)
    PROVE  AudioInv'
  <1> DEFINE n == Len(chunks)
  <1>1. /\ stage = "parse" /\ stage' = "parse" /\ ReadHeader(c) /\ c.at = offset
        /\ HasHeader(offset) /\ HasBody(c.at, c.size)
        /\ offset' = After(offset, c.size)
        /\ format' = IF c.id = "fmt" THEN [depth |-> c.depth, channels |-> c.channels] ELSE format
        /\ measured' = IF c.id = "data" THEN c.size ELSE measured
        /\ UNCHANGED <<length, body, samples, window, step, start, segments>>
    BY DEF ParseChunk, ReadHeader, Malformed, buildVars
  <1>2. /\ chunks' \in Seq(Chunk) /\ Len(chunks') = n + 1
        /\ DOMAIN chunks' = DOMAIN chunks \cup {n + 1}
        /\ n \in Nat /\ DOMAIN chunks = 1..n
        /\ chunks'[n + 1] = c /\ \A k \in DOMAIN chunks : chunks'[k] = chunks[k]
        /\ Headers' /\ depthAt34' \in Nat
        /\ \A i : OfKind(i)' = OfKind(i) \cup (IF c.id = i THEN {n + 1} ELSE {})
    BY <1>1, HeaderRead
  <1>3. offset \in Nat /\ c.size \in Nat /\ c.depth \in Nat /\ c.channels \in Nat
    BY DEF AudioInv, AudioTypeOK, Chunk
  <1>4. offset' \in Nat /\ offset' > offset
    BY <1>1, <1>3, AfterIsBehind
  <1>5. AudioTypeOK'
    BY <1>1, <1>2, <1>3, <1>4 DEF AudioInv, AudioTypeOK
  <1>6. Parsing'
    <2>1. \A k \in DOMAIN chunks : chunks[k].at \in Nat /\ chunks[k].at < offset
      BY <1>1, ChunkTypes DEF AudioInv, Parsing
    <2>2. \A k \in DOMAIN chunks' : chunks'[k].at < offset'
      BY <1>1, <1>2, <1>3, <1>4, <2>1
    <2>3. chunks' # <<>> /\ offset' = After(chunks'[Len(chunks')].at, chunks'[Len(chunks')].size)
      BY <1>1, <1>2
    <2> QED BY <2>2, <2>3 DEF Parsing
  <1>7. Parsed'
    <2>1. \A k \in DOMAIN chunks' :
             /\ chunks'[k].at + 8 <= length'
             /\ chunks'[k].at + 8 + chunks'[k].size <= length'
      <3> SUFFICES ASSUME NEW k \in DOMAIN chunks'
                   PROVE  /\ chunks'[k].at + 8 <= length
                          /\ chunks'[k].at + 8 + chunks'[k].size <= length
        BY <1>1
      <3>1. CASE k = n + 1
        BY <1>1, <1>2, <3>1 DEF HasHeader, HasBody
      <3>2. CASE k # n + 1
        BY <1>1, <1>2, <3>2 DEF AudioInv, Parsed, HasHeader, HasBody
      <3> QED BY <3>1, <3>2
    <2>2. OfKind("fmt")' # {} => \E k \in OfKind("fmt")' : format'.depth = chunks'[k].depth
      <3>1. CASE c.id = "fmt"
        BY <1>1, <1>2, <3>1
      <3>2. CASE c.id # "fmt"
        BY <1>1, <1>2, <3>2 DEF AudioInv, Parsed, OfKind
      <3> QED BY <3>1, <3>2
    <2>3. OfKind("data")' # {} => \E k \in OfKind("data")' : measured' = chunks'[k].size
      <3>1. CASE c.id = "data"
        BY <1>1, <1>2, <3>1
      <3>2. CASE c.id # "data"
        BY <1>1, <1>2, <3>2 DEF AudioInv, Parsed, OfKind
      <3> QED BY <3>1, <3>2
    <2>4. measured' >= 0 => OfKind("data")' # {}
      <3>1. CASE c.id = "data"
        BY <1>2, <3>1
      <3>2. CASE c.id # "data"
        BY <1>1, <1>2, <3>2 DEF AudioInv, Parsed
      <3> QED BY <3>1, <3>2
    <2> QED BY <2>1, <2>2, <2>3, <2>4 DEF Parsed, HasHeader, HasBody
  <1> QED BY <1>1, <1>2, <1>5, <1>6, <1>7 DEF AudioInv, SegmentsCover

\* A rejected file is not decoded.
LEMMA RejectChunkKeeps ==
    ASSUME AudioInv, NEW c \in Chunk, RejectChunk(c)
    PROVE  AudioInv'
  <1>1. /\ stage = "parse" /\ stage' = "rejected" /\ ReadHeader(c)
        /\ UNCHANGED <<length, offset, format, measured, body, samples, window, step, start, segments>>
    BY DEF RejectChunk, ReadHeader, parserVars, buildVars
  <1>2. chunks' \in Seq(Chunk) /\ Headers' /\ depthAt34' \in Nat
    BY <1>1, HeaderRead
  <1> QED BY <1>1, <1>2 DEF AudioInv, AudioTypeOK, SegmentsCover

\* An accepted file has a first header, and a data chunk behind it or there.
LEMMA FinishParseKeeps ==
    ASSUME AudioInv, FinishParse
    PROVE  AudioInv'
  <1>1. /\ stage = "parse"
        /\ UNCHANGED <<length, chunks, depthAt34, format, measured, body, samples,
                        window, step, start, segments>>
    BY DEF FinishParse, fileVars, parserVars, buildVars
  <1>2. CASE stage' = "rejected"
    BY <1>1, <1>2 DEF FinishParse, AudioInv, AudioTypeOK, Headers, OfKind, SegmentsCover
  <1>3. CASE stage' # "rejected"
    <2>1. /\ stage' = "decode" /\ offset' = 12 /\ measured >= 0
          /\ format.channels \in 1..8
      BY <1>3 DEF FinishParse, Acceptable
    <2>2. OfKind("data") # {}
      BY <1>1, <2>1 DEF AudioInv, Parsed
    <2>3. chunks # <<>> /\ 1 \in DOMAIN chunks /\ chunks[1].at = 12
          /\ \A k \in OfKind("data") : 1 <= k
      BY <2>2 DEF OfKind, AudioInv, AudioTypeOK, Headers
    <2>4. Decoding'
      BY <1>1, <2>1, <2>2, <2>3 DEF Decoding, OfKind
    <2>5. Parsed' /\ Headers'
      BY <1>1 DEF AudioInv, Parsed, Headers, OfKind, HasHeader, HasBody
    <2> QED BY <1>1, <2>1, <2>4, <2>5 DEF AudioInv, AudioTypeOK, SegmentsCover
  <1> QED BY <1>2, <1>3

-----------------------------------------------------------------------------
\* The decoder's steps.

\* The decoder is never at the end of the file, nor at a body that leaves it.
LEMMA DecoderHasHeader ==
    ASSUME AudioInv, stage = "decode"
    PROVE  \E j \in DOMAIN chunks :
              /\ offset = chunks[j].at /\ ChunkAt(offset) = chunks[j]
              /\ HasHeader(offset) /\ HasBody(offset, chunks[j].size)
              /\ \A k \in OfKind("data") : j <= k
  <1>1. PICK j \in DOMAIN chunks : offset = chunks[j].at /\ \A k \in OfKind("data") : j <= k
    BY DEF AudioInv, Decoding
  <1>2. ChunkAt(offset) = chunks[j]
    BY <1>1, ChunkFound DEF AudioInv
  <1>3. HasHeader(offset) /\ HasBody(offset, chunks[j].size)
    BY <1>1 DEF AudioInv, Parsed
  <1> QED BY <1>1, <1>2, <1>3

\* The decoder's walk follows the headers the parser found and stops at the
\* first data chunk.
LEMMA DecodeChunkKeeps ==
    ASSUME AudioInv, DecodeChunk
    PROVE  AudioInv'
  <1>1. /\ stage = "decode"
        /\ UNCHANGED <<length, chunks, depthAt34, format, measured, samples,
                        window, step, start, segments>>
    BY DEF DecodeChunk, fileVars, parserVars, buildVars
  <1>2. PICK j \in DOMAIN chunks :
              /\ offset = chunks[j].at /\ ChunkAt(offset) = chunks[j]
              /\ HasHeader(offset) /\ HasBody(offset, chunks[j].size)
              /\ \A k \in OfKind("data") : j <= k
    BY <1>1, DecoderHasHeader
  <1>3. Headers' /\ Parsed'
    BY <1>1 DEF AudioInv, Headers, Parsed, OfKind, HasHeader, HasBody
  <1>4. chunks[j].at \in Nat /\ chunks[j].size \in Nat /\ j \in 1..Len(chunks) /\ Len(chunks) \in Nat
    BY ChunkTypes DEF AudioInv
  <1>5. CASE chunks[j].id = "data"
    <2>1. /\ stage' = "values" /\ UNCHANGED offset
          /\ body' = [at |-> chunks[j].at + 8, size |-> chunks[j].size]
      BY <1>2, <1>5 DEF DecodeChunk
    <2>2. Located'
      BY <1>1, <1>5, <2>1 DEF Located, OfKind
    <2>3. AudioTypeOK'
      BY <1>1, <1>4, <2>1 DEF AudioInv, AudioTypeOK
    <2> QED BY <1>1, <1>3, <2>1, <2>2, <2>3 DEF AudioInv, SegmentsCover
  <1>6. CASE chunks[j].id # "data"
    <2>1. stage' = "decode" /\ offset' = After(offset, chunks[j].size) /\ UNCHANGED body
      BY <1>1, <1>2, <1>6 DEF DecodeChunk
    <2>2. PICK d \in OfKind("data") : TRUE
      BY <1>1 DEF AudioInv, Decoding
    <2>3. d \in 1..Len(chunks) /\ j < d
      <3>1. d \in DOMAIN chunks /\ chunks[d].id = "data" /\ DOMAIN chunks = 1..Len(chunks)
        BY <2>2 DEF OfKind, AudioInv, AudioTypeOK
      <3>2. j <= d /\ j # d
        BY <1>2, <1>6, <2>2, <3>1
      <3> QED BY <1>4, <3>1, <3>2
    <2>4. j + 1 \in DOMAIN chunks /\ j \in 1 .. Len(chunks) - 1
      BY <1>4, <2>3 DEF AudioInv, AudioTypeOK
    <2>5. chunks[j + 1].at = offset'
      BY <1>2, <2>1, <2>4 DEF AudioInv, Headers
    <2>6. \A k \in OfKind("data") : j + 1 <= k
      <3> SUFFICES ASSUME NEW k \in OfKind("data") PROVE j + 1 <= k
        OBVIOUS
      <3>1. k \in Nat /\ k # j /\ j <= k
        BY <1>2, <1>6 DEF OfKind, AudioInv, AudioTypeOK
      <3> QED BY <1>4, <3>1
    <2>7. Decoding'
      BY <1>1, <2>1, <2>2, <2>4, <2>5, <2>6 DEF Decoding, OfKind
    <2>8. offset' \in Nat
      BY <1>2, <1>4, <2>1, AfterIsBehind
    <2> QED BY <1>1, <1>3, <2>1, <2>7, <2>8 DEF AudioInv, AudioTypeOK, SegmentsCover
  <1> QED BY <1>5, <1>6

\* The values give a number of samples, and the step lies within the window.
LEMMA DecodeValuesKeeps ==
    ASSUME AudioInv, NEW w \in Windows, NEW o \in Overlaps, DecodeValues(w, o)
    PROVE  AudioInv'
  <1> DEFINE d == (window' * (Parts - o)) \div Parts
  <1>1. /\ stage = "values" /\ stage' = "segment"
        /\ samples' = (body.size \div Width) \div format.channels
        /\ window' = IF w < MinWindow THEN MinWindow ELSE w
        /\ step' = (IF d < 1 THEN 1 ELSE d) \/ step' = (IF d - 1 < 1 THEN 1 ELSE d - 1)
        /\ Width \in {1, 2}
        /\ UNCHANGED <<length, chunks, depthAt34, format, measured, offset, body, start, segments>>
    BY DEF DecodeValues, Mono, WindowOf, StepsOf, fileVars, parserVars
  <1>2. window' \in Nat /\ MinWindow <= window' /\ 1 <= window'
    BY <1>1, AudioAssumption
  <1>3. d \in Nat /\ d <= window'
    BY <1>2, PartOfWindow, AudioAssumption
  <1> HIDE DEF d
  <1>4. step' \in Nat /\ 1 <= step' /\ step' <= window'
    <2>1. step' = (IF d < 1 THEN 1 ELSE d) \/ step' = (IF d - 1 < 1 THEN 1 ELSE d - 1)
      BY <1>1
    <2> QED BY <1>2, <1>3, <2>1
  <1>5. samples' \in Nat
    <2>1. body.size \in Nat /\ format.channels \in 1..8 /\ Width \in 1..2
      BY <1>1 DEF AudioInv, AudioTypeOK
    <2>2. body.size \div Width \in Nat
      BY <2>1
    <2> QED BY <1>1, <2>1, <2>2
  <1>6. segments = <<>> /\ start = 0
    BY <1>1 DEF AudioInv
  <1>7. Chain'
    <2>1. /\ Len(segments') = 0 /\ start' = 0
          /\ MinWindow <= window' /\ 1 <= step' /\ step' <= window'
      BY <1>1, <1>2, <1>4, <1>6
    <2>2. \A k \in 1 .. Len(segments') - 1 : FALSE
      BY <2>1
    <2> QED BY <2>1, <2>2 DEF Chain
  <1>8. AudioTypeOK'
    BY <1>1, <1>2, <1>4, <1>5 DEF AudioInv, AudioTypeOK
  <1>9. Headers' /\ Parsed' /\ Located'
    BY <1>1 DEF AudioInv, Headers, Parsed, Located, OfKind, HasHeader, HasBody
  <1> QED BY <1>1, <1>7, <1>8, <1>9 DEF AudioInv, SegmentsCover

\* A file whose values are refused is not segmented.
LEMMA RejectValuesKeeps ==
    ASSUME AudioInv, RejectValues
    PROVE  AudioInv'
  <1>1. /\ stage = "values" /\ stage' = "rejected"
        /\ UNCHANGED <<length, chunks, depthAt34, offset, format, measured, body, samples,
                        window, step, start, segments>>
    BY DEF RejectValues, fileVars, parserVars, buildVars
  <1> QED BY <1>1 DEF AudioInv, AudioTypeOK, Headers, SegmentsCover

-----------------------------------------------------------------------------
(* The segments. *)

\* A segment begins where its predecessor has not ended, and ends behind it.
LEMMA AddSegmentKeeps ==
    ASSUME AudioInv, AddSegment
    PROVE  AudioInv'
  <1> DEFINE n == Len(segments)
             s == [from |-> start, to |-> End]
  <1>1. /\ stage = "segment" /\ IsSegment
        /\ segments' = Append(segments, s) /\ start' = start + step
        /\ UNCHANGED <<stage, length, chunks, depthAt34, offset, format, measured, body, samples,
                        window, step>>
    BY DEF AddSegment, fileVars, parserVars
  <1>2. /\ start \in Nat /\ window \in Nat /\ step \in Nat /\ samples \in Nat
        /\ MinSegment \in Nat /\ MinWindow \in Nat /\ start < samples
        /\ segments \in Seq([from : Nat, to : Nat])
        /\ MinWindow <= window /\ 1 <= step /\ step <= window
    BY <1>1, AudioAssumption DEF AudioInv, AudioTypeOK, Chain, IsSegment
  <1>3. End = Least(start + window, samples) /\ End \in Nat
    BY <1>2 DEF End, Least
  <1>4. s \in [from : Nat, to : Nat] /\ n \in Nat
    BY <1>2, <1>3
  <1>5. /\ segments' \in Seq([from : Nat, to : Nat]) /\ Len(segments') = n + 1
        /\ segments'[n + 1] = s /\ \A k \in 1..n : segments'[k] = segments[k]
    BY <1>1, <1>2, <1>4
  <1>6. AudioTypeOK'
    BY <1>1, <1>2, <1>5 DEF AudioInv, AudioTypeOK
  <1>7. Chain'
    <2>1. segments'[1].from = 0
      <3>1. CASE n = 0
        BY <1>1, <1>5, <3>1 DEF AudioInv, Chain
      <3>2. CASE n # 0
        BY <1>1, <1>4, <1>5, <3>2 DEF AudioInv, Chain
      <3> QED BY <3>1, <3>2
    <2>2. \A k \in 1..n : /\ segments'[k].from < segments'[k + 1].from
                          /\ segments'[k + 1].from <= segments'[k].to
      <3> SUFFICES ASSUME NEW k \in 1..n
                   PROVE  /\ segments'[k].from < segments'[k + 1].from
                          /\ segments'[k + 1].from <= segments'[k].to
        OBVIOUS
      <3>1. CASE k = n
        <4>1. n # 0 /\ segments[n] \in [from : Nat, to : Nat]
          <5>1. n \in 1..n /\ n # 0
            BY <1>4, <3>1
          <5> QED BY <1>2, <5>1, AtIndex
        <4>2. /\ segments[n].from + step = start
              /\ segments[n].to = Least(segments[n].from + window, samples)
          BY <1>1, <4>1 DEF AudioInv, Chain
        <4>3. segments[n].from < start /\ start <= segments[n].to
          BY <1>2, <4>1, <4>2 DEF Least
        <4> QED BY <1>4, <1>5, <3>1, <4>3
      <3>2. CASE k # n
        <4>1. k \in 1..n-1 /\ k \in 1..n /\ k + 1 \in 1..n
          BY <1>2, <1>4, <3>2, AtIndex
        <4>2. segments[k].from < segments[k + 1].from /\ segments[k + 1].from <= segments[k].to
          BY <1>1, <4>1 DEF AudioInv, Chain
        <4> QED BY <1>5, <4>1, <4>2
      <3> QED BY <3>1, <3>2
    <2>3. /\ segments'[n + 1].from + step' = start'
          /\ segments'[n + 1].to = Least(segments'[n + 1].from + window', samples')
      BY <1>1, <1>3, <1>5
    <2>4. Len(segments') = n + 1 /\ n + 1 # 0 /\ (n + 1) - 1 = n
      BY <1>4, <1>5
    <2>5. MinWindow <= window' /\ 1 <= step' /\ step' <= window'
      BY <1>1, <1>2
    <2> HIDE DEF n
    <2> QED BY <2>1, <2>2, <2>3, <2>4, <2>5 DEF Chain
  <1>8. Headers' /\ Parsed' /\ Located'
    BY <1>1 DEF AudioInv, Headers, Parsed, Located, OfKind, HasHeader, HasBody
  <1> QED BY <1>1, <1>6, <1>7, <1>8 DEF AudioInv, SegmentsCover

\* A rest that is no segment is shorter than the least one, and lies behind
\* the last segment.
LEMMA FinishSegmentsKeeps ==
    ASSUME AudioInv, FinishSegments
    PROVE  AudioInv'
  <1> DEFINE n == Len(segments)
  <1>1. /\ stage = "segment" /\ stage' = "done" /\ ~IsSegment
        /\ UNCHANGED <<length, chunks, depthAt34, offset, format, measured, body, samples,
                        window, step, start, segments>>
    BY DEF FinishSegments, fileVars, parserVars, buildVars
  <1>2. /\ start \in Nat /\ window \in Nat /\ step \in Nat /\ samples \in Nat
        /\ MinSegment \in Nat /\ MinSegment >= 1 /\ MinSegment <= window
        /\ segments \in Seq([from : Nat, to : Nat]) /\ n \in Nat
        /\ 1 <= step /\ step <= window
        /\ Chain
    BY <1>1, AudioAssumption DEF AudioInv, AudioTypeOK, Chain
  <1>3. samples < start + MinSegment
    BY <1>1, <1>2 DEF IsSegment, End
  <1>4. SegmentsCover'
    <2>1. CASE n = 0
      BY <1>1, <1>2, <1>3, <2>1 DEF SegmentsCover, Chain
    <2>2. CASE n # 0
      <3>1. segments[n] \in [from : Nat, to : Nat]
        <4>1. n \in 1..n
          BY <1>2, <2>2
        <4> QED BY <1>2, <4>1, AtIndex
      <3>2. /\ segments[n].from + step = start
            /\ segments[n].to = Least(segments[n].from + window, samples)
        BY <1>2, <2>2 DEF Chain
      <3>3. segments[n].to > samples - MinSegment
        BY <1>2, <1>3, <3>1, <3>2 DEF Least
      <3>4. window - step >= MinSegment - 1 => segments[n].to = samples
        BY <1>2, <1>3, <3>1, <3>2 DEF Least
      <3>5. /\ segments[1].from = 0
            /\ \A k \in 1..n-1 : /\ segments[k].from < segments[k + 1].from
                                 /\ segments[k + 1].from <= segments[k].to
        BY <1>2, <2>2 DEF Chain
      <3> QED BY <1>1, <2>2, <3>3, <3>4, <3>5 DEF SegmentsCover
    <2> QED BY <2>1, <2>2
  <1>5. Headers' /\ Parsed' /\ Located' /\ Chain'
    BY <1>1, <1>2 DEF AudioInv, Headers, Parsed, Located, Chain, OfKind, HasHeader, HasBody
  <1> QED BY <1>1, <1>4, <1>5 DEF AudioInv, AudioTypeOK

-----------------------------------------------------------------------------
\* The whole.

\* The headers lie one behind the other, the parser has passed every chunk of
\* an accepted file, the decoder is at one of them, and the segments are a
\* chain: wav.go, mock_decoder.go and audio.go together.
THEOREM AudioInvariant == AudioSpec => []AudioInv
<1>1. AudioInit => AudioInv
  <2> SUFFICES ASSUME AudioInit PROVE AudioInv
    OBVIOUS
  <2>1. /\ stage = "parse" /\ chunks = <<>> /\ segments = <<>> /\ start = 0 /\ offset = 12
        /\ measured = -1 /\ DOMAIN chunks = {} /\ Len(chunks) = 0
    BY DEF AudioInit
  <2>2. AudioTypeOK
    BY AudioAssumption DEF AudioInit, AudioTypeOK, None
  <2>3. Headers /\ Parsing /\ Parsed
    BY <2>1 DEF Headers, Parsing, Parsed, OfKind
  <2> QED BY <2>1, <2>2, <2>3 DEF AudioInv, SegmentsCover
<1>2. AudioInv /\ [AudioNext]_audioVars => AudioInv'
  <2> SUFFICES ASSUME AudioInv, [AudioNext]_audioVars PROVE AudioInv'
    OBVIOUS
  <2>1. ASSUME NEW i \in {"fmt", "data", "other"}, NEW m \in Sizes, NEW d \in Depths, NEW h \in Channels
        PROVE  [at |-> offset, id |-> i, size |-> m, depth |-> IF i = "fmt" THEN d ELSE 0,
                channels |-> IF i = "fmt" THEN h ELSE 0] \in Chunk
    BY AudioAssumption DEF AudioInv, AudioTypeOK, Chunk
  <2>2. ASSUME NEW c \in Chunk, ParseChunk(c) \/ RejectChunk(c) PROVE AudioInv'
    BY <2>2, ParseChunkKeeps, RejectChunkKeeps
  <2>3. CASE \E i \in {"fmt", "data", "other"}, m \in Sizes, d \in Depths, h \in Channels :
                LET c == [at |-> offset, id |-> i, size |-> m,
                          depth    |-> IF i = "fmt" THEN d ELSE 0,
                          channels |-> IF i = "fmt" THEN h ELSE 0]
                IN ParseChunk(c) \/ RejectChunk(c)
    BY <2>1, <2>2, <2>3
  <2>4. CASE FinishParse
    BY <2>4, FinishParseKeeps
  <2>5. CASE DecodeChunk
    BY <2>5, DecodeChunkKeeps
  <2>6. CASE \E w \in Windows, o \in Overlaps : DecodeValues(w, o)
    BY <2>6, DecodeValuesKeeps
  <2>7. CASE RejectValues
    BY <2>7, RejectValuesKeeps
  <2>8. CASE AddSegment
    BY <2>8, AddSegmentKeeps
  <2>9. CASE FinishSegments
    BY <2>9, FinishSegmentsKeeps
  <2>10. CASE UNCHANGED audioVars
    <3>1. UNCHANGED <<stage, length, chunks, depthAt34, offset, format, measured, body, samples,
                      window, step, start, segments>>
      BY <2>10 DEF audioVars, fileVars, parserVars, buildVars
    <3>2. AudioTypeOK' = AudioTypeOK /\ Headers' = Headers /\ Chain' = Chain
      BY <3>1 DEF AudioTypeOK, Headers, Chain
    <3>3. Parsed' = Parsed /\ Parsing' = Parsing /\ Decoding' = Decoding /\ Located' = Located
      BY <3>1 DEF Parsed, Parsing, Decoding, Located, OfKind, HasHeader, HasBody
    <3>4. SegmentsCover' = SegmentsCover
      BY <3>1 DEF SegmentsCover
    <3> QED BY <3>1, <3>2, <3>3, <3>4 DEF AudioInv
  <2> QED BY <2>3, <2>4, <2>5, <2>6, <2>7, <2>8, <2>9, <2>10 DEF AudioNext
<1> QED BY <1>1, <1>2, PTL DEF AudioSpec

\* The segments of a fingerprint cover the samples of every file, for every
\* window and overlap: no gap, no rest as long as a segment (audio.go 15-41).
THEOREM SegmentsCoverHolds == AudioSpec => []SegmentsCover
<1>1. AudioInv => SegmentsCover
  BY DEF AudioInv
<1> QED BY <1>1, AudioInvariant, PTL

\* The invariant says what the decoder finds in a file the parser accepted.
LEMMA DecoderAgrees ==
    ASSUME AudioInv
    PROVE  DecoderFollowsParser
  <1>1. ASSUME Decoded PROVE body.at + body.size <= length
    <2>1. PICK k \in OfKind("data") : body = [at |-> chunks[k].at + 8, size |-> chunks[k].size]
      BY <1>1 DEF AudioInv, Decoded, Located
    <2>2. k \in DOMAIN chunks /\ HasBody(chunks[k].at, chunks[k].size)
      BY <1>1, <2>1 DEF AudioInv, Decoded, Parsed, OfKind
    <2> QED BY <2>1, <2>2 DEF HasBody
  <1>2. ASSUME Decoded, Canonical PROVE body.size = measured /\ depthAt34 = format.depth
    <2>1. PICK k \in OfKind("data") : body = [at |-> chunks[k].at + 8, size |-> chunks[k].size]
      BY <1>2 DEF AudioInv, Decoded, Located
    <2>2. PICK m \in OfKind("data") : measured = chunks[m].size
      BY <1>2, <2>1 DEF AudioInv, Decoded, Parsed
    <2>3. m = k
      <3>1. IsFiniteSet(OfKind("data"))
        <4>1. OfKind("data") \subseteq 1..Len(chunks) /\ Len(chunks) \in Nat
          BY DEF AudioInv, AudioTypeOK, OfKind
        <4>2. IsFiniteSet(1..Len(chunks))
          BY <4>1, FS_Interval
        <4> QED BY <4>1, <4>2, FS_Subset
      <3>2. PICK x : OfKind("data") = {x}
        BY <1>2, <3>1, FS_Singleton DEF Canonical
      <3> QED BY <2>1, <2>2, <3>2
    <2>4. depthAt34 = format.depth
      <3>1. 1 \in OfKind("fmt") /\ \A x \in OfKind("fmt") : x = 1
        BY <1>2 DEF Canonical
      <3>2. chunks # <<>> /\ chunks[1].id = "fmt"
        BY <3>1 DEF OfKind, AudioInv, AudioTypeOK
      <3>3. depthAt34 = chunks[1].depth
        BY <3>2 DEF AudioInv, Headers
      <3>4. \E x \in OfKind("fmt") : format.depth = chunks[x].depth
        BY <1>2, <3>1 DEF AudioInv, Decoded, Parsed
      <3> QED BY <3>1, <3>3, <3>4
    <2> QED BY <2>1, <2>2, <2>3, <2>4
  <1> QED BY <1>1, <1>2 DEF DecoderFollowsParser, AudioInv

\* The decoder finds a data chunk within every file the parser accepted, and in
\* the usual layout the parser's one at the parser's depth (wav.go 20-45,
\* mock_decoder.go 54-75).
THEOREM DecoderFollowsParserHolds == AudioSpec => []DecoderFollowsParser
<1>1. AudioInv => DecoderFollowsParser
  BY DecoderAgrees
<1> QED BY <1>1, AudioInvariant, PTL
=============================================================================
