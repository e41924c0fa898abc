------------------------------ MODULE LsbCodec ------------------------------
(***************************************************************************)
(* The watermark codec (internal/watermark/adapter/lsb.go) with the        *)
(* signature of internal/watermark/application/service.go.                 *)
(*                                                                         *)
(* The low bits of a carrier, eight to a character, hold a magic number,   *)
(* the length of the payload in two bytes, and the payload: five fields    *)
(* joined by NUL.  A string is a sequence of characters; a character is a  *)
(* tuple, and a signature is one character that stands for its 64.         *)
(* Signatures are ideal: each names the text it signs, and clients know    *)
(* those that the service has returned to them.                            *)
(***************************************************************************)
EXTENDS Integers, FiniteSets, SequencesExt

CONSTANTS
    Letters,                  \* what strings are made of, besides NUL
    Claims, Values, Nonces,   \* what clients ask for
    MaxValue,                 \* 256 in the code
    Capacities,               \* characters that fit behind magic and length
    SizeMod,                  \* 2^16 in the code
    MaxSigned                 \* bound on the payloads signed

NUL       == <<>>
Letter(a) == <<a>>
Sign(t)   == <<"signature", t>>
Plain     == {NUL} \cup {Letter(a) : a \in Letters}

ASSUME CodecAssumption ==
    /\ {"|", "?", "blind-lsb-v1"} \subseteq Letters
    /\ Capacities \subseteq Nat
    /\ SizeMod \in Nat \ {0}

VARIABLES
    text,       \* the characters in the carrier's low bits
    marked,     \* the magic number is there
    size,       \* the length behind it
    embedded,   \* history: the payload last embedded into this carrier
    signed,     \* history: the payloads signed and returned, with any carrier
    answer      \* of the detection

codecVars == <<text, marked, size, embedded, signed, answer>>

NoAnswer == [status |-> "none"]

\* Clients may send NUL in a field; only the length of the value is bounded.
Payloads ==
    {p \in Claims \X Values \X Nonces :
        (\A k \in 1..3 : p[k] # <<>>) /\ Len(p[2]) <= MaxValue}

\* One turn of the loop that splits a string: a separator begins the next part.
Grow(parts, c) ==
    IF c = NUL THEN Append(parts, <<>>)
    ELSE [parts EXCEPT ![Len(parts)] = Append(@, c)]

Split(s) ==
    LET parts[i \in 0 .. Len(s)] ==
            IF i = 0 THEN << <<>> >> ELSE Grow(parts[i - 1], s[i])
    IN  parts[Len(s)]

\* What is signed of claim, value and nonce.
Joined(p) == p[1] \o <<Letter("|")>> \o p[2] \o <<Letter("|")>> \o p[3]

Signature(p) == <<Sign(Joined(p))>>

\* What clients can write: letters, separators, and signatures returned to them.
Known == Plain \cup {Sign(Joined(q)) : q \in signed}

Writable(p) == \A k \in 1..3 : p[k] \in Seq(Known)

Encode(p) ==
    p[1] \o <<NUL>> \o p[2] \o <<NUL>> \o p[3] \o <<NUL>> \o Signature(p)
         \o <<NUL>> \o <<Letter("blind-lsb-v1")>>

CodecInit ==
    /\ \E n \in Capacities : text = [i \in 1..n |-> Letter("?")]
    /\ marked = FALSE
    /\ size = 0
    /\ embedded = <<>>
    /\ signed = {}
    /\ answer = NoAnswer

\* A payload is signed and handed out with the marked copy.
Return(p) ==
    /\ answer = NoAnswer
    /\ Writable(p)
    /\ Cardinality(signed \cup {p}) <= MaxSigned
    /\ signed' = signed \cup {p}
    /\ UNCHANGED answer

\* Broken forms (named Bug...) stand before the definition they would replace.

\* The length is that of the carrier's text.
BugEmbed(p) ==
    LET e == Encode(p) IN
    /\ Return(p)
    /\ Len(e) <= Len(text)
    /\ text' = e \o SubSeq(text, Len(e) + 1, Len(text))
    /\ marked' = TRUE
    /\ size' = Len(text) % SizeMod
    /\ embedded' = p

\* A payload beyond the capacity is refused; the rest of the carrier, be it of
\* an earlier payload, stays.
Embed(p) ==
    LET e == Encode(p) IN
    /\ Return(p)
    /\ Len(e) <= Len(text)
    /\ text' = e \o SubSeq(text, Len(e) + 1, Len(text))
    /\ marked' = TRUE
    /\ size' = Len(e) % SizeMod
    /\ embedded' = p

\* The same with another asset's carrier.
EmbedElsewhere(p) ==
    /\ Return(p)
    /\ UNCHANGED <<text, marked, size, embedded>>

\* The file is uploaded again without its end, or what was marked of it.
Cut(n) ==
    /\ answer = NoAnswer /\ marked
    /\ n < Len(text)
    /\ text' = SubSeq(text, 1, n)
    /\ UNCHANGED <<marked, size, embedded, signed, answer>>

CutAll ==
    /\ answer = NoAnswer /\ marked
    /\ text' = <<>>
    /\ marked' = FALSE
    /\ UNCHANGED <<size, embedded, signed, answer>>

Verifies(parts) == parts[4] = Signature(SubSeq(parts, 1, 3))

Answer ==
    IF ~marked THEN [status |-> "absent"]
    ELSE IF size = 0 \/ size > Len(text) THEN [status |-> "corrupt"]
    ELSE LET parts == Split(SubSeq(text, 1, size)) IN
         IF Len(parts) = 5 /\ Verifies(parts)
         THEN [status |-> "detected", payload |-> SubSeq(parts, 1, 3)]
         ELSE [status |-> "corrupt"]

CodecDetect ==
    /\ answer = NoAnswer
    /\ answer' = Answer
    /\ UNCHANGED <<text, marked, size, embedded, signed>>

CodecNext ==
    \/ \E p \in Payloads : Embed(p) \/ EmbedElsewhere(p)
    \/ \E n \in 0 .. Len(text) : Cut(n)
    \/ CutAll
    \/ CodecDetect

-----------------------------------------------------------------------------
(* Properties. *)

\* The length of the payload is what its two bytes say.
Fits(p) == Len(Encode(p)) < SizeMod

\* No field holds the separator, and the carrier is still long enough.
Readable(p) ==
    /\ \A k \in 1..3 : ~Contains(p[k], NUL)
    /\ Len(Encode(p)) <= Len(text)

\* Detection says absent exactly when the magic number is not there.  A payload
\* whose length fits its two bytes is detected with the fields of the embedding
\* when it can be read, and is corrupt otherwise: separators and copied
\* signatures in the fields, an earlier payload underneath and a cut never give
\* other fields.  When the length has wrapped, a field may be read as several:
\* what is detected then need not have been embedded, but its fields, joined as
\* they are signed, are what the service has signed (lsb.go 16-27, 59-80).
DetectionIsExact ==
    answer # NoAnswer =>
        /\ answer = [status |-> "absent"] <=> ~marked
        /\ marked /\ Fits(embedded) =>
             answer = IF Readable(embedded)
                      THEN [status |-> "detected", payload |-> embedded]
                      ELSE [status |-> "corrupt"]
        /\ answer.status = "detected" =>
             \E p \in signed : Joined(p) = Joined(answer.payload)
=============================================================================
