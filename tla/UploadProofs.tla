---------------------------- MODULE UploadProofs ----------------------------
(***************************************************************************)
(* Proofs about Upload, for every set of uploads, requests and bodies and  *)
(* every size.                                                             *)
(***************************************************************************)
EXTENDS Upload, SequenceTheorems, TLAPS

\* The type invariant holds initially.
LEMMA InitType == Init => TypeOK
BY SizesAssumption DEF Init, TypeOK, NotStarted, UploadRecord, NoChunk, Chunk

\* Every step preserves the type invariant.
LEMMA NextType == TypeOK /\ [Next]_vars => TypeOK'
<1> SUFFICES ASSUME TypeOK, [Next]_vars PROVE TypeOK'
    OBVIOUS
<1> USE PayloadsAssumption, SizesAssumption
<1> USE DEF TypeOK, UploadRecord, Chunk, storeVars, requestVars
<1>1. NotStarted \in UploadRecord /\ NoChunk \in Chunk
    BY DEF NotStarted, NoChunk
<1>2. ASSUME NEW i \in Uploads, NEW n \in Sizes, Start(i, n) PROVE TypeOK'
    <2>1. n \in Nat
        BY <1>2 DEF Start
    <2> DEFINE u == [status |-> "open", size |-> n, received |-> 0, sum |-> <<>>]
    <2>2. upload' = [upload EXCEPT ![i] = u]
        BY <1>2 DEF Start
    <2>3. u \in UploadRecord /\ u.status = "open"
        BY <2>1
    <2>4. upload' \in [Uploads -> UploadRecord]
        BY <2>2, <2>3
    <2>5. \A k \in Uploads : upload[k].status # "absent" => upload'[k].status # "absent"
        BY <2>2, <2>3
    <2>6. QED BY <1>2, <2>4, <2>5 DEF Start
<1>3. ASSUME NEW r \in Requests, NEW i \in Uploads, NEW o \in Offsets, NEW b \in Payloads,
             NEW f \in BOOLEAN, GetUpload(r, i, [offset |-> o, body |-> b, final |-> f])
      PROVE  TypeOK'
    BY <1>3 DEF GetUpload, Admits
<1>4. ASSUME NEW r \in Requests, Return(r)
      PROVE  /\ pc' \in [Requests -> {"idle", "append", "data", "put", "update"}]
             /\ id' \in [Requests -> Uploads \cup {NoUpload}]
             /\ chunk' \in [Requests -> Chunk]
             /\ copy' \in [Requests -> UploadRecord]
             /\ content' \in [Requests -> Seq(Bytes)]
             /\ \A q \in Requests : pc'[q] # "idle" => pc[q] # "idle" /\ id'[q] = id[q]
    BY <1>1, <1>4 DEF Return
<1>5. ASSUME NEW r \in Requests, AppendChunk(r) PROVE TypeOK'
    <2> DEFINE i == id[r]
               d == data[i] \o chunk[r].body
               u == Grown(upload[i], d)
    <2>1. i \in Uploads /\ upload[i] \in UploadRecord /\ upload[i].status # "absent"
        BY <1>5 DEF AppendChunk
    <2>2. d \in Seq(Bytes) /\ Len(d) \in Nat
        <3>1. data[i] \in Seq(Bytes) /\ chunk[r].body \in Seq(Bytes)
            BY <2>1
        <3>2. QED BY <3>1, ConcatProperties, LenProperties
    <2>3. u \in UploadRecord /\ u.status # "absent"
        BY <2>1, <2>2 DEF Grown
    <2>4. /\ data' = [data EXCEPT ![i] = d]
          /\ upload' = [upload EXCEPT ![i] = u]
          /\ UNCHANGED objects
        BY <1>5 DEF AppendChunk
    <2>5. /\ upload' \in [Uploads -> UploadRecord] /\ data' \in [Uploads -> Seq(Bytes)]
          /\ objects' \in [Uploads -> Seq(Bytes)]
          /\ \A k \in Uploads : upload[k].status # "absent" => upload'[k].status # "absent"
        BY <2>1, <2>2, <2>3, <2>4
    <2>6. CASE Whole(chunk[r], u)
        <3>1. /\ pc' = [pc EXCEPT ![r] = "data"]
              /\ copy' = [copy EXCEPT ![r] = u]
              /\ UNCHANGED <<id, chunk, content>>
            BY <1>5, <2>6 DEF AppendChunk
        <3>2. QED BY <2>3, <2>5, <3>1, <1>5 DEF AppendChunk
    <2>7. CASE ~Whole(chunk[r], u)
        <3>1. Return(r)
            BY <1>5, <2>7 DEF AppendChunk
        <3>2. QED BY <1>4, <2>5, <3>1
    <2>8. QED BY <2>6, <2>7
<1>6. ASSUME NEW r \in Requests, AppendConflict(r) \/ Abandon(r) PROVE TypeOK'
    BY <1>4, <1>6 DEF AppendConflict, Abandon
<1>7. ASSUME NEW r \in Requests, ReadData(r) PROVE TypeOK'
    BY <1>7 DEF ReadData
<1>8. ASSUME NEW r \in Requests, PutObject(r) PROVE TypeOK'
    BY <1>8 DEF PutObject
<1>9. ASSUME NEW r \in Requests, UpdateUpload(r) PROVE TypeOK'
    <2> DEFINE u == [copy[r] EXCEPT !.status = "complete"]
    <2>1. upload' \in [Uploads -> UploadRecord]
        <3>1. u \in UploadRecord
            OBVIOUS
        <3>2. upload' = [upload EXCEPT ![id[r]] = u]
            BY <1>9 DEF UpdateUpload
        <3>3. QED BY <3>1, <3>2
    <2>2. \A k \in Uploads : upload[k].status # "absent" => upload'[k].status # "absent"
        BY <1>9 DEF UpdateUpload
    <2>3. Return(r) /\ UNCHANGED <<data, objects>>
        BY <1>9 DEF UpdateUpload
    <2>4. QED BY <1>4, <2>1, <2>2, <2>3
<1>10. CASE UNCHANGED vars
    BY <1>10 DEF vars
<1>11. QED
    BY <1>2, <1>3, <1>5, <1>6, <1>7, <1>8, <1>9, <1>10 DEF Next, RequestStep

\* Every variable of the upload service keeps its type.
THEOREM UploadTypeCorrect == Spec => []TypeOK
BY InitType, NextType, PTL DEF Spec

-----------------------------------------------------------------------------
(* The inductive invariant.  A chunk in flight fits although the record it *)
(* was checked against may be out of date; a request that completes an     *)
(* upload works on a full one, and full uploads do not change.             *)

\* The upload i has been started, and all its bytes have been received.
Full(i) == upload[i].size > 0 /\ Len(data[i]) = upload[i].size

\* The record of an upload that was not started is the initial one.
Announced(i) ==
    /\ upload[i].status = "absent" => upload[i].size = 0
    /\ upload[i].status # "absent" => upload[i].size > 0

\* What request r may rely on at its next call.
Reliable(r) ==
    LET i == id[r] IN
    /\ pc[r] = "append" =>
          /\ chunk[r].body \in Payloads
          /\ chunk[r].offset + Len(chunk[r].body) <= upload[i].size
    /\ pc[r] \in {"data", "put", "update"} =>
          /\ Full(i)
          /\ copy[r].size = upload[i].size
          /\ copy[r].received = upload[i].size
    /\ pc[r] \in {"put", "update"} => content[r] = data[i] /\ copy[r].sum = data[i]
    /\ pc[r] = "update" => objects[i] = data[i]

UploadInv ==
    /\ ResumePoint
    /\ StoredIsWhole
    /\ CompleteIsStored
    /\ \A i \in Uploads : Announced(i)
    /\ \A r \in Requests : Reliable(r)

\* An append that goes through stays within the size, and leaves a full upload
\* exactly as it was.
LEMMA AppendFits ==
    ASSUME TypeOK, UploadInv, NEW r \in Requests, AppendChunk(r)
    PROVE  /\ id[r] \in Uploads
           /\ data' = [data EXCEPT ![id[r]] = data[id[r]] \o chunk[r].body]
           /\ data'[id[r]] \in Seq(Bytes)
           /\ Len(data'[id[r]]) = Len(data[id[r]]) + Len(chunk[r].body)
           /\ Len(data'[id[r]]) <= upload[id[r]].size
           /\ upload' = [upload EXCEPT ![id[r]].received = Len(data'[id[r]])]
           /\ Len(data[id[r]]) = upload[id[r]].size => data' = data /\ upload' = upload
<1> DEFINE i == id[r]
           b == chunk[r].body
<1>1. i \in Uploads /\ pc[r] = "append" /\ AtEnd(i, chunk[r]) /\ upload[i] \in UploadRecord
    BY DEF AppendChunk, TypeOK
<1>2. data[i] \in Seq(Bytes) /\ b \in Seq(Bytes) /\ chunk[r] \in Chunk
    BY <1>1 DEF TypeOK, Chunk
<1>3. /\ data[i] \o b \in Seq(Bytes)
      /\ Len(data[i] \o b) = Len(data[i]) + Len(b)
      /\ Len(data[i]) \in Nat /\ Len(b) \in Nat
    BY <1>2, ConcatProperties, LenProperties
<1>4. /\ data' = [data EXCEPT ![i] = data[i] \o b]
      /\ upload' = [upload EXCEPT ![i] = Grown(upload[i], data[i] \o b)]
    BY DEF AppendChunk
<1>5. data'[i] = data[i] \o b
    BY <1>1, <1>4 DEF TypeOK
<1>6. Len(data[i]) + Len(b) <= upload[i].size
    BY <1>1, <1>2, <1>3 DEF UploadInv, Reliable, AtEnd, Chunk
<1>7. upload' = [upload EXCEPT ![i].received = Len(data'[i])]
    BY <1>1, <1>4, <1>5 DEF Grown, TypeOK, UploadRecord
<1>8. ASSUME Len(data[i]) = upload[i].size PROVE data' = data /\ upload' = upload
    <2>1. Len(b) = 0
        BY <1>3, <1>6, <1>8
    <2>2. b = <<>>
        BY <1>2, <2>1, EmptySeq
    <2>3. data[i] \o b = data[i]
        BY <1>2, <2>2, ConcatEmptySeq
    <2>4. data' = data
        BY <1>1, <1>4, <2>3 DEF TypeOK
    <2>5. upload[i].received = Len(data'[i])
        BY <1>1, <2>4 DEF UploadInv, ResumePoint
    <2>6. QED BY <1>1, <1>7, <2>4, <2>5 DEF TypeOK, UploadRecord
<1>9. QED BY <1>1, <1>3, <1>4, <1>5, <1>6, <1>7, <1>8

\* What the completion writes back, and that it changes nothing once complete.
LEMMA UpdateSettles ==
    ASSUME TypeOK, UploadInv, NEW r \in Requests, UpdateUpload(r)
    PROVE  /\ id[r] \in Uploads
           /\ Full(id[r])
           /\ objects[id[r]] = data[id[r]]
           /\ upload' = [upload EXCEPT ![id[r]] =
                           [status |-> "complete", size |-> upload[id[r]].size,
                            received |-> upload[id[r]].size, sum |-> data[id[r]]]]
           /\ upload[id[r]].status = "complete" => upload' = upload
<1> DEFINE i == id[r]
<1>1. /\ i \in Uploads /\ pc[r] = "update" /\ copy[r] \in UploadRecord
      /\ upload[i] \in UploadRecord /\ data[i] \in Seq(Bytes)
    BY DEF UpdateUpload, TypeOK
<1>2. /\ Full(i) /\ copy[r].size = upload[i].size /\ copy[r].received = upload[i].size
      /\ copy[r].sum = data[i] /\ objects[i] = data[i]
    BY <1>1 DEF UploadInv, Reliable
<1>3. [copy[r] EXCEPT !.status = "complete"] =
        [status |-> "complete", size |-> upload[i].size,
         received |-> upload[i].size, sum |-> data[i]]
    BY <1>1, <1>2 DEF UploadRecord
<1>4. upload' = [upload EXCEPT ![i] =
                   [status |-> "complete", size |-> upload[i].size,
                    received |-> upload[i].size, sum |-> data[i]]]
    BY <1>3 DEF UpdateUpload
<1>5. ASSUME upload[i].status = "complete" PROVE upload' = upload
    <2>1. upload[i].received = upload[i].size /\ upload[i].sum = data[i]
        BY <1>1, <1>2, <1>5 DEF UploadInv, ResumePoint, CompleteIsStored, Full
    <2>2. upload[i] = [status |-> "complete", size |-> upload[i].size,
                       received |-> upload[i].size, sum |-> data[i]]
        BY <1>1, <1>5, <2>1 DEF UploadRecord
    <2>3. QED BY <1>1, <1>4, <2>2 DEF TypeOK
<1>6. QED BY <1>1, <1>2, <1>4, <1>5

\* The invariant holds initially.
LEMMA InitUpload == Init => UploadInv
BY EmptySeq DEF Init, UploadInv, ResumePoint, StoredIsWhole, CompleteIsStored, Announced,
    Reliable, NotStarted

\* A request that returns relies on nothing, and disturbs no other request.
LEMMA ReturnRelies ==
    ASSUME TypeOK, TypeOK', UploadInv, NEW r \in Requests, Return(r), UNCHANGED <<upload, data>>,
           \A i \in Uploads : objects[i] = data[i] => objects'[i] = data'[i]
    PROVE  \A q \in Requests : Reliable(q)'
<1> SUFFICES ASSUME NEW q \in Requests PROVE Reliable(q)'
    OBVIOUS
<1>1. CASE q = r
    BY <1>1 DEF Return, TypeOK, Reliable
<1>2. CASE q # r
    <2>1. /\ pc'[q] = pc[q] /\ id'[q] = id[q] /\ chunk'[q] = chunk[q]
          /\ copy'[q] = copy[q] /\ content'[q] = content[q]
        BY <1>2 DEF Return, TypeOK
    <2>2. Reliable(q) /\ (pc[q] # "idle" => id[q] \in Uploads)
        BY DEF UploadInv, TypeOK
    <2>3. QED BY <2>1, <2>2 DEF Reliable, Full
<1>3. QED BY <1>1, <1>2

\* Every step preserves the invariant.
LEMMA NextUpload == TypeOK /\ TypeOK' /\ UploadInv /\ [Next]_vars => UploadInv'
<1> SUFFICES ASSUME TypeOK, TypeOK', UploadInv, [Next]_vars PROVE UploadInv'
    OBVIOUS
<1> DEFINE StoreInv == /\ ResumePoint /\ StoredIsWhole /\ CompleteIsStored
                       /\ \A i \in Uploads : Announced(i)
<1>1. ASSUME UNCHANGED storeVars PROVE StoreInv'
    BY <1>1 DEF UploadInv, ResumePoint, StoredIsWhole, CompleteIsStored, Announced, storeVars
<1>2. ASSUME NEW i \in Uploads, NEW n \in Sizes, Start(i, n) PROVE UploadInv'
    <2> DEFINE u == [status |-> "open", size |-> n, received |-> 0, sum |-> <<>>]
    <2>1. /\ upload' = [upload EXCEPT ![i] = u] /\ upload[i].status = "absent"
          /\ n \in Nat /\ n > 0 /\ UNCHANGED <<data, objects, pc, id, chunk, copy, content>>
        BY <1>2, SizesAssumption DEF Start, requestVars
    <2>2. upload'[i] = u /\ \A k \in Uploads : k # i => upload'[k] = upload[k]
        BY <2>1 DEF TypeOK
    <2>3. data[i] = <<>> /\ Len(data[i]) = 0
        <3>1. data[i] \in Seq(Bytes) /\ Len(data[i]) \in Nat
            BY LenProperties DEF TypeOK
        <3>2. Len(data[i]) <= 0
            BY <2>1 DEF UploadInv, Announced, ResumePoint
        <3>3. QED BY <3>1, <3>2, EmptySeq
    <2>4. objects[i] = <<>>
        BY <2>3 DEF UploadInv, StoredIsWhole
    <2>5. StoreInv'
        <3>1. ResumePoint'
            BY <2>1, <2>2, <2>3 DEF UploadInv, ResumePoint
        <3>2. StoredIsWhole'
            BY <2>1, <2>2, <2>4 DEF UploadInv, StoredIsWhole
        <3>3. CompleteIsStored'
            BY <2>1, <2>2 DEF UploadInv, CompleteIsStored
        <3>4. \A k \in Uploads : Announced(k)'
            BY <2>1, <2>2 DEF UploadInv, Announced
        <3>5. QED BY <3>1, <3>2, <3>3, <3>4
    <2>6. ASSUME NEW q \in Requests PROVE Reliable(q)'
        <3>1. pc[q] # "idle" => id[q] \in Uploads /\ id[q] # i
            BY <2>1 DEF TypeOK
        <3>2. Reliable(q)
            BY DEF UploadInv
        <3>3. CASE pc[q] = "idle"
            BY <2>1, <3>3 DEF Reliable
        <3>4. CASE pc[q] # "idle"
            <4>1. upload'[id[q]] = upload[id[q]]
                BY <2>2, <3>1, <3>4
            <4>2. UNCHANGED <<data, objects, pc, id, chunk, copy, content>>
                BY <2>1
            <4>3. QED BY <3>2, <4>1, <4>2 DEF Reliable, Full
        <3>5. QED BY <3>3, <3>4
    <2>7. QED BY <2>5, <2>6 DEF UploadInv
<1>3. ASSUME NEW r \in Requests, NEW i \in Uploads, NEW o \in Offsets, NEW b \in Payloads,
             NEW f \in BOOLEAN, GetUpload(r, i, [offset |-> o, body |-> b, final |-> f])
      PROVE  UploadInv'
    <2> DEFINE c == [offset |-> o, body |-> b, final |-> f]
    <2>1. /\ UNCHANGED <<upload, data, objects, copy, content>>
          /\ pc' = [pc EXCEPT ![r] = "append"] /\ id' = [id EXCEPT ![r] = i]
          /\ chunk' = [chunk EXCEPT ![r] = c]
        BY <1>3 DEF GetUpload, storeVars
    <2>2. c.offset + Len(c.body) <= upload[i].size
        <3>1. b \in Seq(Bytes) /\ Len(b) \in Nat
            BY PayloadsAssumption, LenProperties
        <3>2. o \in Int /\ upload[i].size \in Nat /\ upload[i].received \in Nat
            <4>1. o \in Int
                BY SizesAssumption
            <4>2. upload[i] \in UploadRecord
                BY DEF TypeOK
            <4>3. QED BY <4>1, <4>2 DEF UploadRecord
        <3>3. o = upload[i].received /\ Len(b) + upload[i].received <= upload[i].size
            BY <1>3 DEF GetUpload, Admits
        <3>4. QED BY <3>1, <3>2, <3>3
    <2>3. ASSUME NEW q \in Requests PROVE Reliable(q)'
        <3>1. CASE q = r
            <4>1. pc'[q] = "append" /\ id'[q] = i /\ chunk'[q] = c
                BY <2>1, <3>1 DEF TypeOK
            <4>2. QED BY <2>1, <2>2, <4>1 DEF Reliable
        <3>2. CASE q # r
            <4>1. pc'[q] = pc[q] /\ id'[q] = id[q] /\ chunk'[q] = chunk[q]
                BY <2>1, <3>2 DEF TypeOK
            <4>2. Reliable(q)
                BY DEF UploadInv
            <4>3. QED BY <2>1, <4>1, <4>2 DEF Reliable, Full
        <3>3. QED BY <3>1, <3>2
    <2>4. QED BY <1>1, <2>1, <2>3 DEF UploadInv, storeVars
<1>4. ASSUME NEW r \in Requests, AppendChunk(r) PROVE UploadInv'
    <2> DEFINE i == id[r]
    <2>1. /\ i \in Uploads /\ pc[r] = "append" /\ upload[i].status # "absent"
          /\ UNCHANGED objects
        BY <1>4 DEF AppendChunk, TypeOK
    <2>2. /\ data' = [data EXCEPT ![i] = data[i] \o chunk[r].body]
          /\ Len(data'[i]) <= upload[i].size
          /\ upload' = [upload EXCEPT ![i].received = Len(data'[i])]
          /\ Len(data[i]) = upload[i].size => data' = data /\ upload' = upload
        BY <1>4, AppendFits
    <2>3. /\ upload'[i].received = Len(data'[i]) /\ upload'[i].size = upload[i].size
          /\ upload'[i].status = upload[i].status /\ upload'[i].sum = upload[i].sum
          /\ \A k \in Uploads : k # i => upload'[k] = upload[k] /\ data'[k] = data[k]
        BY <2>1, <2>2 DEF TypeOK, UploadRecord
    <2>4. objects[i] # <<>> => data' = data /\ upload' = upload
        BY <2>1, <2>2 DEF UploadInv, StoredIsWhole
    <2>5. upload[i].status = "complete" => objects[i] # <<>>
        BY <2>1 DEF UploadInv, CompleteIsStored
    <2>6. StoreInv'
        <3>1. ResumePoint'
            BY <2>1, <2>2, <2>3 DEF UploadInv, ResumePoint
        <3>2. StoredIsWhole'
            BY <2>1, <2>3, <2>4 DEF UploadInv, StoredIsWhole
        <3>3. CompleteIsStored'
            BY <2>1, <2>3, <2>4, <2>5 DEF UploadInv, CompleteIsStored
        <3>4. \A k \in Uploads : Announced(k)'
            BY <2>3 DEF UploadInv, Announced
        <3>5. QED BY <3>1, <3>2, <3>3, <3>4
    <2>7. ASSUME NEW q \in Requests, q # r PROVE Reliable(q)'
        <3>1. /\ pc'[q] = pc[q] /\ id'[q] = id[q] /\ chunk'[q] = chunk[q]
              /\ copy'[q] = copy[q] /\ content'[q] = content[q]
            BY <1>4, <2>7 DEF AppendChunk, Return, TypeOK
        <3>2. Reliable(q) /\ (pc[q] # "idle" => id[q] \in Uploads)
            BY DEF UploadInv, TypeOK
        <3>3. CASE pc[q] = "idle"
            BY <3>1, <3>3 DEF Reliable
        <3>4. CASE pc[q] = "append"
            BY <2>3, <3>1, <3>2, <3>4 DEF Reliable
        <3>5. CASE pc[q] \in {"data", "put", "update"}
            <4>1. data'[id[q]] = data[id[q]] /\ upload'[id[q]] = upload[id[q]]
                BY <2>2, <2>3, <3>2, <3>5 DEF Reliable, Full
            <4>2. QED BY <2>1, <3>1, <3>2, <3>5, <4>1 DEF Reliable, Full
        <3>6. QED BY <3>3, <3>4, <3>5 DEF TypeOK
    <2>8. Reliable(r)'
        <3> DEFINE u == Grown(upload[i], data[i] \o chunk[r].body)
        <3>1. u = upload'[i]
            BY <1>4, <2>1 DEF AppendChunk, TypeOK
        <3>2. CASE Whole(chunk[r], u)
            <4>1. pc'[r] = "data" /\ copy'[r] = u /\ id'[r] = i
                BY <1>4, <3>2 DEF AppendChunk, TypeOK
            <4>2. Len(data'[i]) = upload'[i].size /\ upload'[i].size > 0
                BY <2>1, <2>3, <3>1, <3>2 DEF Whole, UploadInv, Announced
            <4>3. QED BY <2>3, <3>1, <4>1, <4>2 DEF Reliable, Full
        <3>3. CASE ~Whole(chunk[r], u)
            <4>1. pc'[r] = "idle"
                BY <1>4, <3>3 DEF AppendChunk, Return, TypeOK
            <4>2. QED BY <4>1 DEF Reliable
        <3>4. QED BY <3>2, <3>3
    <2>9. QED BY <2>6, <2>7, <2>8 DEF UploadInv
<1>5. ASSUME NEW r \in Requests, AppendConflict(r) \/ Abandon(r) PROVE UploadInv'
    <2>1. Return(r) /\ UNCHANGED storeVars
        BY <1>5 DEF AppendConflict, Abandon
    <2>2. \A q \in Requests : Reliable(q)'
        BY <2>1, ReturnRelies DEF storeVars
    <2>3. QED BY <1>1, <2>1, <2>2 DEF UploadInv
<1>6. ASSUME NEW r \in Requests, ReadData(r) PROVE UploadInv'
    <2>1. /\ UNCHANGED <<upload, data, objects, id, chunk>> /\ pc[r] = "data"
          /\ pc' = [pc EXCEPT ![r] = "put"] /\ content' = [content EXCEPT ![r] = data[id[r]]]
          /\ copy' = [copy EXCEPT ![r].sum = data[id[r]]]
        BY <1>6 DEF ReadData, storeVars
    <2>2. ASSUME NEW q \in Requests PROVE Reliable(q)'
        <3>1. Reliable(q)
            BY DEF UploadInv
        <3>2. CASE q = r
            <4>1. /\ pc'[q] = "put" /\ content'[q] = data[id[q]] /\ copy'[q].sum = data[id[q]]
                  /\ copy'[q].size = copy[q].size /\ copy'[q].received = copy[q].received
                BY <2>1, <3>2 DEF TypeOK, UploadRecord
            <4>2. QED BY <2>1, <3>1, <3>2, <4>1 DEF Reliable, Full
        <3>3. CASE q # r
            <4>1. pc'[q] = pc[q] /\ content'[q] = content[q] /\ copy'[q] = copy[q]
                BY <2>1, <3>3 DEF TypeOK
            <4>2. QED BY <2>1, <3>1, <4>1 DEF Reliable, Full
        <3>4. QED BY <3>2, <3>3
    <2>3. QED BY <1>1, <2>1, <2>2 DEF UploadInv, storeVars
<1>7. ASSUME NEW r \in Requests, PutObject(r) PROVE UploadInv'
    <2> DEFINE i == id[r]
    <2>1. /\ UNCHANGED <<upload, data, id, chunk, copy, content>> /\ pc[r] = "put"
          /\ pc' = [pc EXCEPT ![r] = "update"] /\ objects' = [objects EXCEPT ![i] = content[r]]
          /\ i \in Uploads
        BY <1>7 DEF PutObject, TypeOK
    <2>2. Full(i) /\ content[r] = data[i]
        BY <2>1 DEF UploadInv, Reliable
    <2>3. objects'[i] = data[i] /\ \A k \in Uploads : k # i => objects'[k] = objects[k]
        BY <2>1, <2>2 DEF TypeOK
    <2>4. StoreInv'
        <3>1. ResumePoint' /\ \A k \in Uploads : Announced(k)'
            BY <2>1 DEF UploadInv, ResumePoint, Announced
        <3>2. StoredIsWhole'
            BY <2>1, <2>2, <2>3 DEF UploadInv, StoredIsWhole, Full
        <3>3. CompleteIsStored'
            <4>1. \A k \in Uploads : objects[k] # <<>> => objects'[k] = objects[k]
                BY <2>3 DEF UploadInv, StoredIsWhole
            <4>2. QED BY <2>1, <4>1 DEF UploadInv, CompleteIsStored
        <3>4. QED BY <3>1, <3>2, <3>3
    <2>5. ASSUME NEW q \in Requests PROVE Reliable(q)'
        <3>1. Reliable(q) /\ (pc[q] # "idle" => id[q] \in Uploads)
            BY DEF UploadInv, TypeOK
        <3>2. CASE q = r
            <4>1. pc'[q] = "update"
                BY <2>1, <3>2 DEF TypeOK
            <4>2. QED BY <2>1, <2>3, <3>1, <3>2, <4>1 DEF Reliable, Full
        <3>3. CASE q # r
            <4>1. pc'[q] = pc[q]
                BY <2>1, <3>3 DEF TypeOK
            <4>2. QED BY <2>1, <2>3, <3>1, <4>1 DEF Reliable, Full
        <3>4. QED BY <3>2, <3>3
    <2>6. QED BY <2>4, <2>5 DEF UploadInv
<1>8. ASSUME NEW r \in Requests, UpdateUpload(r) PROVE UploadInv'
    <2> DEFINE i == id[r]
               u == [status |-> "complete", size |-> upload[i].size,
                     received |-> upload[i].size, sum |-> data[i]]
    <2>1. /\ i \in Uploads /\ Full(i) /\ objects[i] = data[i] /\ upload' = [upload EXCEPT ![i] = u]
        BY <1>8, UpdateSettles
    <2>2. Return(r) /\ UNCHANGED <<data, objects>>
        BY <1>8 DEF UpdateUpload
    <2>3. upload'[i] = u /\ \A k \in Uploads : k # i => upload'[k] = upload[k]
        BY <2>1 DEF TypeOK
    <2>4. upload'[i].size = upload[i].size /\ upload'[i].received = upload[i].received
        BY <2>1, <2>3 DEF UploadInv, ResumePoint, Full
    <2>5. objects[i] # <<>>
        BY <2>1, EmptySeq DEF Full
    <2>6. StoreInv'
        <3>1. ResumePoint'
            BY <2>1, <2>2, <2>3, <2>4 DEF UploadInv, ResumePoint
        <3>2. StoredIsWhole'
            BY <2>2, <2>3, <2>4 DEF UploadInv, StoredIsWhole
        <3>3. CompleteIsStored'
            BY <2>1, <2>2, <2>3, <2>5 DEF UploadInv, CompleteIsStored
        <3>4. \A k \in Uploads : Announced(k)'
            BY <2>1, <2>3 DEF UploadInv, Announced, Full
        <3>5. QED BY <3>1, <3>2, <3>3, <3>4
    <2>7. ASSUME NEW q \in Requests PROVE Reliable(q)'
        <3>1. Reliable(q) /\ (pc[q] # "idle" => id[q] \in Uploads)
            BY DEF UploadInv, TypeOK
        <3>2. CASE q = r
            <4>1. pc'[q] = "idle"
                BY <2>2, <3>2 DEF Return, TypeOK
            <4>2. QED BY <4>1 DEF Reliable
        <3>3. CASE q # r
            <4>1. /\ pc'[q] = pc[q] /\ id'[q] = id[q] /\ chunk'[q] = chunk[q]
                  /\ copy'[q] = copy[q] /\ content'[q] = content[q]
                BY <2>2, <3>3 DEF Return, TypeOK
            <4>2. pc[q] # "idle" => upload'[id[q]].size = upload[id[q]].size
                BY <2>3, <2>4, <3>1
            <4>3. QED BY <2>2, <3>1, <4>1, <4>2 DEF Reliable, Full
        <3>4. QED BY <3>2, <3>3
    <2>8. QED BY <2>6, <2>7 DEF UploadInv
<1>9. CASE UNCHANGED vars
    <2>1. \A q \in Requests : Reliable(q)'
        BY <1>9 DEF UploadInv, Reliable, Full, vars, storeVars, requestVars
    <2>2. QED BY <1>1, <1>9, <2>1 DEF UploadInv, vars
<1>10. QED
    BY <1>2, <1>3, <1>4, <1>5, <1>6, <1>7, <1>8, <1>9 DEF Next, RequestStep

\* The invariant holds in every state that is reached.
LEMMA UploadAlwaysInv == Spec => [](TypeOK /\ UploadInv)
<1>1. Init => TypeOK /\ UploadInv
    BY InitType, InitUpload
<1>2. TypeOK /\ UploadInv /\ [Next]_vars => (TypeOK /\ UploadInv)'
    BY NextType, NextUpload
<1>3. QED
    BY <1>1, <1>2, PTL DEF Spec

\* A client resumes where the data ends, and the data stays within the size
\* announced, however many requests append at once.
THEOREM ResumePointHolds == Spec => []ResumePoint
<1>1. UploadInv => ResumePoint
    BY DEF UploadInv
<1>2. QED
    BY UploadAlwaysInv, <1>1, PTL

\* What is in the object store is the whole of what was received.
THEOREM StoredIsWholeHolds == Spec => []StoredIsWhole
<1>1. UploadInv => StoredIsWhole
    BY DEF UploadInv
<1>2. QED
    BY UploadAlwaysInv, <1>1, PTL

\* What is reported complete is in the object store.
THEOREM CompleteIsStoredHolds == Spec => []CompleteIsStored
<1>1. UploadInv => CompleteIsStored
    BY DEF UploadInv
<1>2. QED
    BY UploadAlwaysInv, <1>1, PTL

-----------------------------------------------------------------------------
(* What a step does to the store. *)

\* A request cannot change the bytes or the record of a complete upload.
LEMMA AppendSpares ==
    ASSUME TypeOK, UploadInv, NEW r \in Requests, AppendChunk(r),
           upload[id[r]].status = "complete"
    PROVE  UNCHANGED storeVars
<1>1. id[r] \in Uploads
    BY AppendFits
<1>2. Len(data[id[r]]) = upload[id[r]].size
    BY <1>1 DEF UploadInv, CompleteIsStored, StoredIsWhole
<1>3. UNCHANGED objects
    BY DEF AppendChunk
<1>4. QED BY <1>2, <1>3, AppendFits DEF storeVars

\* The object a request stores is the whole upload, and once the upload is
\* complete it is the object that is there.
LEMMA PutSpares ==
    ASSUME TypeOK, UploadInv, NEW r \in Requests, PutObject(r)
    PROVE  /\ id[r] \in Uploads
           /\ Full(id[r])
           /\ objects' = [objects EXCEPT ![id[r]] = data[id[r]]]
           /\ UNCHANGED <<upload, data>>
           /\ upload[id[r]].status = "complete" => UNCHANGED objects
<1> DEFINE i == id[r]
<1>1. /\ i \in Uploads /\ pc[r] = "put" /\ UNCHANGED <<upload, data>>
      /\ objects' = [objects EXCEPT ![i] = content[r]]
    BY DEF PutObject, TypeOK
<1>2. Full(i) /\ content[r] = data[i]
    BY <1>1 DEF UploadInv, Reliable
<1>3. upload[i].status = "complete" => objects[i] = data[i]
    BY <1>1 DEF UploadInv, CompleteIsStored, StoredIsWhole
<1>4. QED BY <1>1, <1>2, <1>3 DEF TypeOK

\* A complete upload is never changed again, by any request that was under way
\* when it became complete.
THEOREM CompleteIsFinalHolds == Spec => CompleteIsFinal
<1> DEFINE Same(i) == upload'[i] = upload[i] /\ data'[i] = data[i] /\ objects'[i] = objects[i]
<1>1. ASSUME TypeOK, UploadInv, [Next]_vars, NEW k \in Uploads, upload[k].status = "complete"
      PROVE  Same(k)
    <2>1. ASSUME UNCHANGED storeVars PROVE Same(k)
        BY <2>1 DEF storeVars
    <2>2. ASSUME NEW i \in Uploads, NEW n \in Sizes, Start(i, n) PROVE Same(k)
        BY <1>1, <2>2 DEF Start, TypeOK
    <2>3. ASSUME NEW r \in Requests, AppendChunk(r) PROVE Same(k)
        <3>1. CASE id[r] = k
            BY <1>1, <2>1, <2>3, <3>1, AppendSpares
        <3>2. CASE id[r] # k
            <4>1. /\ data' = [data EXCEPT ![id[r]] = data[id[r]] \o chunk[r].body]
                  /\ upload' = [upload EXCEPT ![id[r]].received = Len(data'[id[r]])]
                BY <1>1, <2>3, AppendFits
            <4>2. UNCHANGED objects
                BY <2>3 DEF AppendChunk
            <4>3. QED BY <1>1, <3>2, <4>1, <4>2 DEF TypeOK
        <3>3. QED BY <3>1, <3>2
    <2>4. ASSUME NEW r \in Requests, PutObject(r) PROVE Same(k)
        BY <1>1, <2>4, PutSpares DEF TypeOK
    <2>5. ASSUME NEW r \in Requests, UpdateUpload(r) PROVE Same(k)
        <3> DEFINE u == [status |-> "complete", size |-> upload[id[r]].size,
                         received |-> upload[id[r]].size, sum |-> data[id[r]]]
        <3>1. /\ upload' = [upload EXCEPT ![id[r]] = u]
              /\ upload[id[r]].status = "complete" => upload' = upload
            BY <1>1, <2>5, UpdateSettles
        <3>2. UNCHANGED <<data, objects>>
            BY <2>5 DEF UpdateUpload
        <3>3. QED BY <1>1, <3>1, <3>2 DEF TypeOK
    <2>6. ASSUME NEW r \in Requests, NEW i \in Uploads, NEW o \in Offsets, NEW b \in Payloads,
                 NEW f \in BOOLEAN, GetUpload(r, i, [offset |-> o, body |-> b, final |-> f])
          PROVE  Same(k)
        BY <2>1, <2>6 DEF GetUpload
    <2>7. ASSUME NEW r \in Requests, AppendConflict(r) \/ Abandon(r) \/ ReadData(r) PROVE Same(k)
        BY <2>1, <2>7 DEF AppendConflict, Abandon, ReadData
    <2>8. CASE UNCHANGED vars
        BY <2>1, <2>8 DEF vars
    <2>9. QED
        BY <1>1, <2>2, <2>3, <2>4, <2>5, <2>6, <2>7, <2>8 DEF Next, RequestStep
<1>2. TypeOK /\ UploadInv /\ [Next]_vars =>
        [\A i \in Uploads : upload[i].status = "complete" => Same(i)]_vars
    BY <1>1
<1>3. QED
    BY UploadAlwaysInv, <1>2, PTL DEF Spec, CompleteIsFinal

-----------------------------------------------------------------------------
(* Refinement of UploadLog. *)

sizes  == [i \in Uploads |-> upload[i].size]
sealed == {i \in Uploads : upload[i].status = "complete"}

\* A step that leaves the store alone leaves the log alone.
LEMMA StoreStutters == UNCHANGED storeVars => UNCHANGED Log!vars
BY DEF storeVars, Log!vars

\* The initial state is one of the log.
LEMMA LogInit == Init => Log!Init
<1> SUFFICES ASSUME Init PROVE Log!Init
    OBVIOUS
<1>1. sizes = [i \in Uploads |-> 0] /\ sealed = {}
    BY DEF Init, NotStarted, sizes, sealed
<1>2. QED BY <1>1 DEF Init, Log!Init, sizes, sealed

\* Starting an upload opens its log.
LEMMA StartOpens ==
    ASSUME TypeOK, UploadInv, NEW i \in Uploads, NEW n \in Sizes, Start(i, n)
    PROVE  n \in 1..MaxBytes /\ Log!Open(i, n)
<1> DEFINE u == [status |-> "open", size |-> n, received |-> 0, sum |-> <<>>]
<1>1. upload' = [upload EXCEPT ![i] = u] /\ upload[i].status = "absent" /\ UNCHANGED <<data, objects>>
    BY DEF Start
<1>2. /\ upload'[i].size = n /\ upload'[i].status = "open"
      /\ \A k \in Uploads : k # i => upload'[k] = upload[k]
    BY <1>1 DEF TypeOK
<1>3. sizes[i] = 0
    BY <1>1 DEF sizes, UploadInv, Announced
<1>4. sizes' = [sizes EXCEPT ![i] = n]
    BY <1>2 DEF sizes
<1>5. sealed' = sealed
    BY <1>1, <1>2 DEF sealed
<1>6. n \in 1..MaxBytes
    BY DEF Start
<1>7. QED BY <1>1, <1>3, <1>4, <1>5, <1>6 DEF Log!Open, sizes, sealed

\* An append extends the log, or leaves it alone when the log is sealed.
LEMMA AppendExtends ==
    ASSUME TypeOK, UploadInv, NEW r \in Requests, AppendChunk(r)
    PROVE  \/ UNCHANGED storeVars
           \/ id[r] \in Uploads /\ chunk[r].body \in Payloads /\ Log!Extend(id[r], chunk[r].body)
<1> DEFINE i == id[r]
<1>1. /\ i \in Uploads
      /\ data' = [data EXCEPT ![i] = data[i] \o chunk[r].body]
      /\ Len(data'[i]) = Len(data[i]) + Len(chunk[r].body)
      /\ Len(data'[i]) <= upload[i].size
      /\ upload' = [upload EXCEPT ![i].received = Len(data'[i])]
    BY AppendFits
<1>2. chunk[r].body \in Payloads /\ UNCHANGED objects
    BY <1>1 DEF AppendChunk, UploadInv, Reliable
<1>3. CASE upload[i].status = "complete"
    BY <1>3, AppendSpares
<1>4. CASE upload[i].status # "complete"
    <2>1. /\ upload'[i].size = upload[i].size /\ upload'[i].status = upload[i].status
          /\ \A k \in Uploads : k # i => upload'[k] = upload[k]
        BY <1>1 DEF TypeOK, UploadRecord
    <2>2. sizes' = sizes /\ sizes[i] = upload[i].size
        BY <1>1, <2>1 DEF sizes
    <2>3. sealed' = sealed /\ i \notin sealed
        BY <1>4, <2>1 DEF sealed
    <2>4. Len(data[i]) + Len(chunk[r].body) <= sizes[i]
        BY <1>1, <2>2
    <2>5. Log!Extend(i, chunk[r].body)
        BY <1>1, <1>2, <2>2, <2>3, <2>4 DEF Log!Extend, sizes, sealed
    <2>6. QED BY <1>1, <1>2, <2>5
<1>5. QED BY <1>3, <1>4

\* Storing the object stores the log.
LEMMA PutStores ==
    ASSUME TypeOK, UploadInv, NEW r \in Requests, PutObject(r)
    PROVE  id[r] \in Uploads /\ Log!Store(id[r])
<1>1. /\ id[r] \in Uploads /\ Full(id[r]) /\ UNCHANGED <<upload, data>>
      /\ objects' = [objects EXCEPT ![id[r]] = data[id[r]]]
    BY PutSpares
<1>2. UNCHANGED <<sizes, sealed>> /\ sizes[id[r]] = upload[id[r]].size
    BY <1>1 DEF sizes, sealed
<1>3. QED BY <1>1, <1>2 DEF Full, Log!Store, sizes, sealed

\* Completing the upload seals the log.
LEMMA UpdateSeals ==
    ASSUME TypeOK, UploadInv, NEW r \in Requests, UpdateUpload(r)
    PROVE  id[r] \in Uploads /\ Log!Seal(id[r])
<1> DEFINE i == id[r]
           u == [status |-> "complete", size |-> upload[i].size,
                 received |-> upload[i].size, sum |-> data[i]]
<1>1. /\ i \in Uploads /\ Full(i) /\ objects[i] = data[i] /\ upload' = [upload EXCEPT ![i] = u]
    BY UpdateSettles
<1>2. UNCHANGED <<data, objects>>
    BY DEF UpdateUpload
<1>3. upload'[i] = u /\ \A k \in Uploads : k # i => upload'[k] = upload[k]
    BY <1>1 DEF TypeOK
<1>4. sizes' = sizes /\ sizes[i] = upload[i].size
    BY <1>1, <1>3 DEF sizes
<1>5. sealed' = sealed \cup {i}
    BY <1>1, <1>3 DEF sealed
<1>6. QED BY <1>1, <1>2, <1>4, <1>5 DEF Full, Log!Seal, sizes, sealed

\* Overlapping, failing and repeated requests together behave as a log that is
\* filled once and sealed once.
THEOREM UploadImplementsLog == Spec => ImplementsLog
<1>1. ASSUME TypeOK, UploadInv, [Next]_vars PROVE [Log!Next]_(Log!vars)
    <2>1. ASSUME NEW i \in Uploads, NEW n \in Sizes, Start(i, n) PROVE Log!Next
        BY <1>1, <2>1, StartOpens DEF Log!Next
    <2>2. ASSUME NEW r \in Requests, AppendChunk(r) PROVE [Log!Next]_(Log!vars)
        BY <1>1, <2>2, AppendExtends, StoreStutters DEF Log!Next
    <2>3. ASSUME NEW r \in Requests, PutObject(r) PROVE Log!Next
        <3>1. id[r] \in Uploads /\ Log!Store(id[r])
            BY <1>1, <2>3, PutStores
        <3>2. QED BY <3>1, Zenon DEF Log!Next
    <2>4. ASSUME NEW r \in Requests, UpdateUpload(r) PROVE Log!Next
        <3>1. id[r] \in Uploads /\ Log!Seal(id[r])
            BY <1>1, <2>4, UpdateSeals
        <3>2. QED BY <3>1 DEF Log!Next, Log!Seal
    <2>5. ASSUME NEW r \in Requests, NEW i \in Uploads, NEW o \in Offsets, NEW b \in Payloads,
                 NEW f \in BOOLEAN, GetUpload(r, i, [offset |-> o, body |-> b, final |-> f])
          PROVE  UNCHANGED Log!vars
        BY <2>5, StoreStutters DEF GetUpload
    <2>6. ASSUME NEW r \in Requests, AppendConflict(r) \/ Abandon(r) \/ ReadData(r)
          PROVE  UNCHANGED Log!vars
        BY <2>6, StoreStutters DEF AppendConflict, Abandon, ReadData
    <2>7. CASE UNCHANGED vars
        BY <2>7, StoreStutters DEF vars
    <2>8. QED
        BY <1>1, <2>1, <2>2, <2>3, <2>4, <2>5, <2>6, <2>7 DEF Next, RequestStep
<1>2. QED
    BY LogInit, UploadAlwaysInv, <1>1, PTL DEF Spec, ImplementsLog, Log!Spec
=============================================================================
