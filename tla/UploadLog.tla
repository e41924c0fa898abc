------------------------------ MODULE UploadLog ------------------------------
(***************************************************************************)
(* What resumable upload promises of each upload: the bytes received form  *)
(* a log that only grows and never beyond the size announced; an object is *)
(* stored only from a complete log; and the upload is sealed only once     *)
(* that object is in place, after which nothing changes any more.          *)
(***************************************************************************)
EXTENDS Integers, Sequences

CONSTANTS
    Uploads,    \* upload ids
    Payloads,   \* the bodies a chunk can have
    MaxBytes    \* the largest size

VARIABLES
    size,     \* upload id -> announced size, 0 before the start
    log,      \* upload id -> bytes received
    stored,   \* upload id -> the stored object, <<>> if none
    sealed    \* the uploads that are complete

vars == <<size, log, stored, sealed>>

Init ==
    /\ size = [i \in Uploads |-> 0]
    /\ log = [i \in Uploads |-> <<>>]
    /\ stored = [i \in Uploads |-> <<>>]
    /\ sealed = {}

Open(i, n) ==
    /\ size[i] = 0
    /\ size' = [size EXCEPT ![i] = n]
    /\ UNCHANGED <<log, stored, sealed>>

Extend(i, s) ==
    /\ i \notin sealed
    /\ Len(log[i]) + Len(s) <= size[i]
    /\ log' = [log EXCEPT ![i] = @ \o s]
    /\ UNCHANGED <<size, stored, sealed>>

Store(i) ==
    /\ size[i] > 0
    /\ Len(log[i]) = size[i]
    /\ stored' = [stored EXCEPT ![i] = log[i]]
    /\ UNCHANGED <<size, log, sealed>>

Seal(i) ==
    /\ size[i] > 0
    /\ Len(log[i]) = size[i]
    /\ stored[i] = log[i]
    /\ sealed' = sealed \cup {i}
    /\ UNCHANGED <<size, log, stored>>

Next ==
    \E i \in Uploads :
        \/ \E n \in 1..MaxBytes : Open(i, n)
        \/ \E s \in Payloads : Extend(i, s)
        \/ Store(i)
        \/ Seal(i)

Spec == Init /\ [][Next]_vars
=============================================================================
