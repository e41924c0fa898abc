------------------------------- MODULE Upload -------------------------------
(***************************************************************************)
(* Resumable upload: internal/ingest/application/service.go over the       *)
(* repository of internal/ingest/infrastructure/memory.go and the object   *)
(* store.                                                                  *)
(*                                                                         *)
(* A request that appends a chunk makes up to five calls: Get, Append and, *)
(* for the chunk that fills the upload, Data, Put and Update.  Each is one *)
(* critical section and one step here; between them other requests for the *)
(* same upload may run, and before each the request's context may end.  A  *)
(* digest is represented by the bytes it is the digest of.                 *)
(***************************************************************************)
EXTENDS Integers, Sequences

CONSTANTS
    Uploads,    \* upload ids, chosen by clients
    Requests,   \* PUT requests in progress at the same time
    Bytes,      \* values of a byte
    Payloads,   \* the bodies of the chunks that clients send
    Offsets,    \* values of the Upload-Offset header
    Sizes,      \* sizes that clients announce
    MaxBytes,   \* Service.maxBytes
    NoUpload    \* stands for the id of no upload

ASSUME UploadsAssumption  == NoUpload \notin Uploads
ASSUME PayloadsAssumption == Payloads \subseteq Seq(Bytes)
ASSUME SizesAssumption    == Offsets \subseteq Int /\ Sizes \subseteq Int /\ MaxBytes \in Nat

VARIABLES
    upload,    \* Memory.records[id].upload; status "absent" when there is no record
    data,      \* Memory.records[id].data
    objects,   \* the object stored under assets/<id>/original, <<>> if none
    pc,        \* the next call of each request
    id,        \* the upload a request is for
    chunk,     \* its chunk
    copy,      \* its local u, from Append on
    content    \* its local data, read back for completion

storeVars   == <<upload, data, objects>>
requestVars == <<pc, id, chunk, copy, content>>
vars        == <<storeVars, requestVars>>

-----------------------------------------------------------------------------
UploadRecord == [status   : {"absent", "open", "complete"},
                 size     : Nat,
                 received : Nat,
                 sum      : Seq(Bytes)]

NotStarted == [status |-> "absent", size |-> 0, received |-> 0, sum |-> <<>>]

Chunk   == [offset : Int, body : Seq(Bytes), final : BOOLEAN]
NoChunk == [offset |-> 0, body |-> <<>>, final |-> FALSE]

Init ==
    /\ upload  = [i \in Uploads |-> NotStarted]
    /\ data    = [i \in Uploads |-> <<>>]
    /\ objects = [i \in Uploads |-> <<>>]
    /\ pc      = [r \in Requests |-> "idle"]
    /\ id      = [r \in Requests |-> NoUpload]
    /\ chunk   = [r \in Requests |-> NoChunk]
    /\ copy    = [r \in Requests |-> NotStarted]
    /\ content = [r \in Requests |-> <<>>]

\* POST /v1/uploads: Service.Start and Memory.Create.
Start(i, n) ==
    /\ n \in 1..MaxBytes
    /\ upload[i].status = "absent"
    /\ upload' = [upload EXCEPT ![i] =
           [status |-> "open", size |-> n, received |-> 0, sum |-> <<>>]]
    /\ UNCHANGED <<data, objects, requestVars>>

-----------------------------------------------------------------------------
(* PUT /v1/uploads/{id}/chunks. *)

\* The checks of Service.Append on the record it got.
Admits(u, c) ==
    /\ u.status = "open"
    /\ c.offset = u.received
    /\ Len(c.body) + u.received <= u.size

\* The request returns, with a reply or an error, and its locals are gone.
Return(r) ==
    /\ pc' = [pc EXCEPT ![r] = "idle"]
    /\ id' = [id EXCEPT ![r] = NoUpload]
    /\ chunk' = [chunk EXCEPT ![r] = NoChunk]
    /\ copy' = [copy EXCEPT ![r] = NotStarted]
    /\ content' = [content EXCEPT ![r] = <<>>]

\* Service.Append gets the record and admits the chunk.  A chunk it refuses
\* changes nothing.
GetUpload(r, i, c) ==
    /\ pc[r] = "idle"
    /\ Admits(upload[i], c)
    /\ pc' = [pc EXCEPT ![r] = "append"]
    /\ id' = [id EXCEPT ![r] = i]
    /\ chunk' = [chunk EXCEPT ![r] = c]
    /\ UNCHANGED <<storeVars, copy, content>>

\* Broken forms (named Bug...) stand before the definition they would replace.

\* The repository takes a chunk wherever it was meant to go.
BugAtEnd(i, c) == TRUE

\* The offset check of Memory.Append.
AtEnd(i, c) == Len(data[i]) = c.offset

\* A record written back as it was when the upload was open.
BugGrownOpen(u, d) == [u EXCEPT !.received = Len(d), !.status = "open"]

\* The record Memory.Append stores beside the data d.
Grown(u, d) == [u EXCEPT !.received = Len(d)]

\* An upload completed because the client called the chunk final.
BugWhole(c, u) == c.final \/ u.received = u.size

\* The upload is to be completed, and the check of Service.complete passes.
Whole(c, u) ==
    /\ c.final \/ u.received = u.size
    /\ u.received = u.size

AppendChunk(r) ==
    LET i == id[r]
        d == data[i] \o chunk[r].body
        u == Grown(upload[i], d)
    IN
    /\ pc[r] = "append"
    /\ AtEnd(i, chunk[r])
    /\ data' = [data EXCEPT ![i] = d]
    /\ upload' = [upload EXCEPT ![i] = u]
    /\ IF Whole(chunk[r], u)
       THEN /\ pc' = [pc EXCEPT ![r] = "data"]
            /\ copy' = [copy EXCEPT ![r] = u]
            /\ UNCHANGED <<id, chunk, content>>
       ELSE Return(r)
    /\ UNCHANGED objects

\* "offset conflict"
AppendConflict(r) ==
    /\ pc[r] = "append"
    /\ ~AtEnd(id[r], chunk[r])
    /\ Return(r)
    /\ UNCHANGED storeVars

ReadData(r) ==
    /\ pc[r] = "data"
    /\ pc' = [pc EXCEPT ![r] = "put"]
    /\ content' = [content EXCEPT ![r] = data[id[r]]]
    /\ copy' = [copy EXCEPT ![r].sum = data[id[r]]]
    /\ UNCHANGED <<storeVars, id, chunk>>

\* The upload is marked complete before its object is stored.
BugPutObject(r) ==
    /\ pc[r] = "put"
    /\ pc' = [pc EXCEPT ![r] = "update"]
    /\ upload' = [upload EXCEPT ![id[r]].status = "complete"]
    /\ UNCHANGED <<data, objects, id, chunk, copy, content>>

PutObject(r) ==
    /\ pc[r] = "put"
    /\ pc' = [pc EXCEPT ![r] = "update"]
    /\ objects' = [objects EXCEPT ![id[r]] = content[r]]
    /\ UNCHANGED <<upload, data, id, chunk, copy, content>>

\* Memory.Update writes back the copy, now complete.
UpdateUpload(r) ==
    /\ pc[r] = "update"
    /\ upload' = [upload EXCEPT ![id[r]] = [copy[r] EXCEPT !.status = "complete"]]
    /\ Return(r)
    /\ UNCHANGED <<data, objects>>

\* The request's context ends before its next call.
Abandon(r) ==
    /\ pc[r] # "idle"
    /\ Return(r)
    /\ UNCHANGED storeVars

-----------------------------------------------------------------------------
RequestStep(r) ==
    \/ \E i \in Uploads, o \in Offsets, b \in Payloads, f \in BOOLEAN :
          GetUpload(r, i, [offset |-> o, body |-> b, final |-> f])
    \/ AppendChunk(r) \/ AppendConflict(r)
    \/ ReadData(r) \/ PutObject(r) \/ UpdateUpload(r)
    \/ Abandon(r)

Next ==
    \/ \E i \in Uploads, n \in Sizes : Start(i, n)
    \/ \E r \in Requests : RequestStep(r)

Spec == Init /\ [][Next]_vars

-----------------------------------------------------------------------------
(* Properties. *)

\* Every variable holds a value of its type; a request under way is for an
\* upload that was started.
TypeOK ==
    /\ upload  \in [Uploads -> UploadRecord]
    /\ data    \in [Uploads -> Seq(Bytes)]
    /\ objects \in [Uploads -> Seq(Bytes)]
    /\ pc      \in [Requests -> {"idle", "append", "data", "put", "update"}]
    /\ id      \in [Requests -> Uploads \cup {NoUpload}]
    /\ chunk   \in [Requests -> Chunk]
    /\ copy    \in [Requests -> UploadRecord]
    /\ content \in [Requests -> Seq(Bytes)]
    /\ \A r \in Requests : pc[r] # "idle" =>
          id[r] \in Uploads /\ upload[id[r]].status # "absent"

\* The offset at which a client is told to resume is where the data ends,
\* although completion writes back a copy, and the data never exceeds the size
\* announced, although that is checked on a record that may be out of date.
ResumePoint ==
    \A i \in Uploads :
        upload[i].received = Len(data[i]) /\ Len(data[i]) <= upload[i].size

\* The object store never holds a part of an upload, nor bytes other than
\* those received, whichever request stored the object.
StoredIsWhole ==
    \A i \in Uploads : objects[i] # <<>> =>
        objects[i] = data[i] /\ Len(data[i]) = upload[i].size

\* An upload reported complete has its object in the store, with the digest
\* that was reported.
CompleteIsStored ==
    \A i \in Uploads : upload[i].status = "complete" =>
        objects[i] # <<>> /\ upload[i].sum = objects[i]

\* A complete upload is never reopened, extended or stored differently by a
\* request that saw it open.
CompleteIsFinal ==
    [][\A i \in Uploads : upload[i].status = "complete" =>
         upload'[i] = upload[i] /\ data'[i] = data[i] /\ objects'[i] = objects[i]]_vars

\* The upload as its clients see it.
Log == INSTANCE UploadLog WITH
    size   <- [i \in Uploads |-> upload[i].size],
    log    <- data,
    stored <- objects,
    sealed <- {i \in Uploads : upload[i].status = "complete"}

\* Whatever requests overlap, fail or repeat, each upload behaves as a log
\* that is filled once and sealed once.
ImplementsLog == Log!Spec
=============================================================================
