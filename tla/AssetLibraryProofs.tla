------------------------- MODULE AssetLibraryProofs -------------------------
(***************************************************************************)
(* Proofs about AssetLibrary, for every set of ids, requests and media.    *)
(***************************************************************************)
EXTENDS AssetLibrary, SequenceTheorems, FiniteSetTheorems, TLAPS

(* The inductive invariant. *)

\* What is stored as a watermarked copy holds a watermark.
CopiesAreMarked ==
    \A i \in Ids : objects[Watermarked(i)] # NoContent => objects[Watermarked(i)].marked

\* The asset of a request, and the copy it took of it, are of one identity.
CopyIsTrue(r) ==
    /\ Registered(id[r]) /\ copy[r] \in Asset
    /\ copy[r].key = assets[id[r]].key
    /\ copy[r].digest = assets[id[r]].digest

\* What request r relies on at its next call.
Carried(r) ==
    /\ pc[r] # "new" => id[r] \in Ids
    /\ pc[r] = "register" => content[r] \in Contents /\ objects[NewAsset(r).key] # NoContent
    /\ pc[r] = "event" => want[r] \in Events
    /\ pc[r] = "update" => want[r] \in Statuses
    /\ pc[r] = "store" => op[r] # "create"
    /\ pc[r] = "read" => op[r] # "create"
    /\ pc[r] \in {"store", "save"} => content[r] \in Contents
    /\ pc[r] \in {"update", "read"} => CopyIsTrue(r)

LibraryInv ==
    /\ TypeOK
    /\ RegisteredIsStored
    /\ CopiesAreMarked
    /\ \A r \in Requests : Carried(r)

-----------------------------------------------------------------------------
(* What the stores never do. *)

\* No bytes and no asset are told apart from all others, as are the two keys of
\* an asset.
LEMMA Distinct ==
    /\ NoContent \notin Contents
    /\ NotAsset \notin Asset
    /\ \A i \in Ids : Original(i) \in Keys /\ Watermarked(i) \in Keys
    /\ \A i, j \in Ids : /\ Original(i) # Watermarked(j)
                         /\ Watermarked(i) = Watermarked(j) => i = j
BY IdsAssumption
   DEF NoContent, Contents, NotAsset, Asset, Statuses, Keys, Original, Watermarked

\* Objects are replaced and never removed; copies stay marked; an asset keeps
\* its identity; and an asset appears only with its object.
StoresGrow ==
    /\ \A k \in Keys : objects[k] # NoContent => objects'[k] # NoContent
    /\ CopiesAreMarked'
    /\ \A i \in Ids : Registered(i) =>
          /\ Registered(i)'
          /\ assets'[i].key = assets[i].key /\ assets'[i].digest = assets[i].digest
    /\ \A i \in Ids : ~Registered(i) /\ Registered(i)' => objects'[assets'[i].key] # NoContent

\* The locals of request q are left alone.
Idle(q) ==
    /\ pc'[q] = pc[q] /\ op'[q] = op[q] /\ id'[q] = id[q]
    /\ want'[q] = want[q] /\ copy'[q] = copy[q] /\ content'[q] = content[q]

\* A request whose locals are left alone keeps what it relies on.
LEMMA IdleCarried ==
    ASSUME TypeOK, StoresGrow, NEW q \in Requests, Carried(q), Idle(q)
    PROVE  Carried(q)'
<1>1. CASE pc[q] = "new"
    BY <1>1 DEF Idle, Carried
<1>2. CASE pc[q] # "new"
    <2>1. id[q] \in Ids
        BY <1>2 DEF Carried
    <2>2. pc[q] = "register" => NewAsset(q)' = NewAsset(q) /\ NewAsset(q).key \in Keys
        BY <2>1, Distinct DEF Idle, NewAsset
    <2>3. CopyIsTrue(q) => CopyIsTrue(q)'
        BY <2>1 DEF Idle, CopyIsTrue, StoresGrow
    <2>4. QED BY <2>1, <2>2, <2>3 DEF Idle, Carried, StoresGrow
<1>3. QED BY <1>1, <1>2

\* The stores' part of the invariant follows.
LEMMA StoresKept ==
    ASSUME LibraryInv, StoresGrow, TypeOK'
    PROVE  RegisteredIsStored' /\ CopiesAreMarked'
<1> SUFFICES ASSUME NEW i \in Ids, Registered(i)'
             PROVE  /\ objects'[assets'[i].key] # NoContent
                    /\ assets'[i].key = Watermarked(i) => objects'[assets'[i].key].marked
    BY DEF StoresGrow, RegisteredIsStored
<1>1. objects'[assets'[i].key] # NoContent
    <2>1. CASE Registered(i)
        <3>1. assets[i] \in Asset /\ assets[i].key \in Keys
            BY <2>1 DEF LibraryInv, TypeOK, Registered, Asset
        <3>2. QED BY <2>1, <3>1 DEF StoresGrow, LibraryInv, RegisteredIsStored
    <2>2. QED BY <2>1 DEF StoresGrow
<1>2. QED BY <1>1 DEF StoresGrow, CopiesAreMarked

-----------------------------------------------------------------------------
-----------------------------------------------------------------------------
(* The steps. *)

\* What a step of request r does, and all that has to be shown of it.
Keeps(r) ==
    /\ TypeOK'
    /\ StoresGrow
    /\ Carried(r)'
    /\ \A q \in Requests \ {r} : Idle(q)

\* A step that keeps these keeps the invariant.
LEMMA KeepsInv == ASSUME LibraryInv, NEW r \in Requests, Keeps(r) PROVE LibraryInv'
<1>1. RegisteredIsStored' /\ CopiesAreMarked'
    BY StoresKept DEF Keeps
<1>2. ASSUME NEW q \in Requests PROVE Carried(q)'
    BY IdleCarried DEF Keeps, LibraryInv
<1>3. QED BY <1>1, <1>2 DEF Keeps, LibraryInv

\* A step that leaves the stores alone lets them grow.
LEMMA SameStores ==
    ASSUME LibraryInv, UNCHANGED <<objects, assets>> PROVE StoresGrow
BY DEF LibraryInv, StoresGrow, CopiesAreMarked, Registered

\* Put of bytes, marked ones if the key is that of a copy, lets the stores grow.
LEMMA PutGrows ==
    ASSUME LibraryInv, NEW k \in Keys, NEW c \in Contents,
           \A i \in Ids : k = Watermarked(i) => c.marked,
           objects' = [objects EXCEPT ![k] = c], UNCHANGED assets
    PROVE  StoresGrow
<1>1. objects \in [Keys -> Contents \cup {NoContent}]
    BY DEF LibraryInv, TypeOK
<1>2. \A h \in Keys : objects'[h] = IF h = k THEN c ELSE objects[h]
    BY <1>1
<1>3. CopiesAreMarked'
    BY <1>2, Distinct DEF CopiesAreMarked, LibraryInv
<1>4. QED BY <1>2, <1>3, Distinct DEF StoresGrow, Registered

\* The three ways to begin.
LEMMA BeginKeeps ==
    ASSUME LibraryInv, NEW r \in Requests, Begin(r) PROVE Keeps(r)
<1> USE Distinct DEF LibraryInv, Goto, requestVars, storeVars
<1>1. ASSUME NEW i \in Ids, NEW m \in Media, CreateAsset(r, i, Unmarked(m)) PROVE Keeps(r)
    <2> DEFINE c == Unmarked(m)
    <2>1. c \in Contents /\ Original(i) \in Keys
        BY DEF Unmarked, Contents
    <2>2. /\ objects' = [objects EXCEPT ![Original(i)] = c]
          /\ UNCHANGED <<assets, timeline, fingerprints, want, copy>>
          /\ pc' = [pc EXCEPT ![r] = "register"] /\ op' = [op EXCEPT ![r] = "create"]
          /\ id' = [id EXCEPT ![r] = i] /\ content' = [content EXCEPT ![r] = c]
        BY <1>1 DEF CreateAsset, Put
    <2> HIDE DEF c
    <2>3. StoresGrow
        BY <2>1, <2>2, PutGrows
    <2>4. TypeOK'
        BY <2>1, <2>2 DEF TypeOK
    <2>5. \A q \in Requests \ {r} : Idle(q)
        BY <2>2 DEF TypeOK, Idle
    <2>6. Carried(r)'
        <3>1. /\ pc'[r] = "register" /\ op'[r] = "create" /\ id'[r] = i /\ content'[r] = c
              /\ objects'[Original(i)] = c
            BY <2>1, <2>2 DEF TypeOK
        <3>2. NewAsset(r).key' = Original(i)
            BY <3>1 DEF NewAsset
        <3>3. QED BY <2>1, <3>1, <3>2 DEF Carried
    <2>7. QED BY <2>3, <2>4, <2>5, <2>6 DEF Keeps
<1>2. ASSUME NEW i \in Ids, NEW m \in Media, StoreUpload(r, i, Unmarked(m)) PROVE Keeps(r)
    <2> DEFINE c == Unmarked(m)
    <2>1. c \in Contents /\ Original(i) \in Keys
        BY DEF Unmarked, Contents
    <2>2. /\ objects' = [objects EXCEPT ![Original(i)] = c]
          /\ UNCHANGED <<assets, timeline, fingerprints, want, copy>>
          /\ pc' = [pc EXCEPT ![r] = "ok"] /\ op' = [op EXCEPT ![r] = "upload"]
          /\ id' = [id EXCEPT ![r] = i] /\ content' = [content EXCEPT ![r] = c]
        BY <1>2 DEF StoreUpload, Put
    <2> HIDE DEF c
    <2>3. StoresGrow
        BY <2>1, <2>2, PutGrows
    <2>4. TypeOK' /\ Carried(r)'
        BY <2>1, <2>2 DEF TypeOK, Carried
    <2>5. \A q \in Requests \ {r} : Idle(q)
        BY <2>2 DEF TypeOK, Idle
    <2>6. QED BY <2>3, <2>4, <2>5 DEF Keeps
<1>3. ASSUME NEW i \in Ids, NEW s \in {"frozen", "withdrawn"}, ChangeStatus(r, i, s)
      PROVE  Keeps(r)
    <2>1. StoresGrow
        BY <1>3, SameStores DEF ChangeStatus
    <2>2. assets[i] \in Asset /\ Registered(i)
        BY <1>3 DEF ChangeStatus, MayChange, TypeOK, Registered
    <2>3. TypeOK' /\ \A q \in Requests \ {r} : Idle(q)
        BY <1>3, <2>2 DEF ChangeStatus, TypeOK, Idle, Events, Statuses
    <2>4. Carried(r)'
        BY <1>3, <2>2 DEF ChangeStatus, TypeOK, Carried, CopyIsTrue, Registered, Statuses
    <2>5. QED BY <2>1, <2>3, <2>4 DEF Keeps
<1>4. ASSUME NEW i \in Ids, NEW o \in {"embed", "fingerprint"}, UseAsset(r, i, o)
      PROVE  Keeps(r)
    <2>1. StoresGrow
        BY <1>4, SameStores DEF UseAsset
    <2>2. assets[i] \in Asset /\ Registered(i)
        BY <1>4 DEF UseAsset, TypeOK, Registered, NotAsset
    <2>3. TypeOK' /\ \A q \in Requests \ {r} : Idle(q)
        BY <1>4, <2>2 DEF UseAsset, TypeOK, Idle
    <2>4. Carried(r)'
        BY <1>4, <2>2 DEF UseAsset, TypeOK, Carried, CopyIsTrue, Registered
    <2>5. QED BY <2>1, <2>3, <2>4 DEF Keeps
<1>5. QED BY <1>1, <1>2, <1>3, <1>4 DEF Begin

\* The calls that follow.
LEMMA ContinueKeeps ==
    ASSUME LibraryInv, NEW r \in Requests, Continue(r) PROVE Keeps(r)
<1> USE Distinct DEF LibraryInv, Goto, requestVars, storeVars
<1>1. CASE Register(r)
    <2> DEFINE i == id[r]
               a == NewAsset(r)
    <2>1. /\ i \in Ids /\ ~Registered(i)
          /\ content[r] \in Contents /\ objects[a.key] # NoContent
        BY <1>1 DEF Register, Carried
    <2>2. a \in Asset
        BY <2>1 DEF NewAsset, Asset, Statuses
    <2>3. /\ assets' = [assets EXCEPT ![i] = a]
          /\ pc' = [pc EXCEPT ![r] = "event"] /\ want' = [want EXCEPT ![r] = "created"]
          /\ UNCHANGED <<objects, timeline, fingerprints, op, id, copy, content>>
        BY <1>1 DEF Register
    <2> HIDE DEF a
    <2>4. StoresGrow
        <3>1. \A j \in Ids : assets'[j] = IF j = i THEN a ELSE assets[j]
            BY <2>3 DEF TypeOK
        <3>2. \A j \in Ids : Registered(j) => j # i /\ assets'[j] = assets[j]
            BY <2>1, <3>1 DEF Registered
        <3>3. CopiesAreMarked'
            BY <2>3 DEF CopiesAreMarked
        <3>4. \A j \in Ids : ~Registered(j) /\ Registered(j)' => assets'[j] = a
            BY <3>1 DEF Registered
        <3>5. QED BY <2>1, <2>3, <3>2, <3>3, <3>4 DEF StoresGrow, Registered
    <2>5. TypeOK' /\ Carried(r)'
        BY <2>1, <2>2, <2>3 DEF TypeOK, Carried, Events
    <2>6. \A q \in Requests \ {r} : Idle(q)
        BY <2>3 DEF TypeOK, Idle
    <2>7. QED BY <2>4, <2>5, <2>6 DEF Keeps
<1>2. CASE RegisterRefused(r) \/ EventLost(r) \/ Abandon(r)
    <2>1. /\ UNCHANGED <<storeVars, op, id, want, copy, content>>
          /\ pc[r] # "new"
          /\ pc' = [pc EXCEPT ![r] = "error"] \/ pc' = [pc EXCEPT ![r] = "ok"]
        BY <1>2 DEF RegisterRefused, EventLost, Abandon
    <2>2. StoresGrow
        BY <2>1, SameStores
    <2>3. TypeOK' /\ Carried(r)'
        BY <2>1 DEF TypeOK, Carried
    <2>4. \A q \in Requests \ {r} : Idle(q)
        BY <2>1 DEF TypeOK, Idle
    <2>5. QED BY <2>2, <2>3, <2>4 DEF Keeps
<1>3. CASE AddEvent(r)
    <2>1. id[r] \in Ids /\ want[r] \in Events
        BY <1>3 DEF AddEvent, Carried
    <2>2. timeline' \in [Ids -> Seq(Events)]
        <3>1. timeline[id[r]] \in Seq(Events)
            BY <2>1 DEF TypeOK
        <3>2. Append(timeline[id[r]], want[r]) \in Seq(Events)
            BY <2>1, <3>1, AppendProperties
        <3>3. QED BY <1>3, <3>2 DEF AddEvent, TypeOK
    <2>3. StoresGrow
        BY <1>3, SameStores DEF AddEvent
    <2>4. TypeOK' /\ Carried(r)'
        BY <1>3, <2>1, <2>2 DEF AddEvent, TypeOK, Carried
    <2>5. \A q \in Requests \ {r} : Idle(q)
        BY <1>3 DEF AddEvent, TypeOK, Idle
    <2>6. QED BY <2>3, <2>4, <2>5 DEF Keeps
<1>4. CASE UpdateAsset(r)
    <2> DEFINE i == id[r]
               a == [copy[r] EXCEPT !.status = want[r]]
    <2>1. /\ i \in Ids /\ want[r] \in Statuses /\ copy[r] \in Asset /\ Registered(i)
          /\ copy[r].key = assets[i].key /\ copy[r].digest = assets[i].digest
        BY <1>4 DEF UpdateAsset, Carried, CopyIsTrue
    <2>2. a \in Asset /\ a.key = assets[i].key /\ a.digest = assets[i].digest
        BY <2>1 DEF Asset
    <2>3. /\ assets' = [assets EXCEPT ![i] = a]
          /\ pc' = [pc EXCEPT ![r] = "event"]
          /\ UNCHANGED <<objects, timeline, fingerprints, op, id, want, copy, content>>
        BY <1>4 DEF UpdateAsset
    <2> HIDE DEF a
    <2>4. StoresGrow
        <3>1. \A j \in Ids : assets'[j] = IF j = i THEN a ELSE assets[j]
            BY <2>3 DEF TypeOK
        <3>2. CopiesAreMarked'
            BY <2>3 DEF CopiesAreMarked
        <3>3. \A j \in Ids : Registered(j) =>
                 /\ Registered(j)'
                 /\ assets'[j].key = assets[j].key /\ assets'[j].digest = assets[j].digest
            BY <2>2, <3>1 DEF Registered
        <3>4. \A j \in Ids : ~Registered(j) => ~Registered(j)'
            BY <2>1, <3>1 DEF Registered
        <3>5. QED BY <2>3, <3>2, <3>3, <3>4 DEF StoresGrow
    <2>5. TypeOK' /\ Carried(r)'
        BY <2>1, <2>2, <2>3 DEF TypeOK, Carried, Events
    <2>6. \A q \in Requests \ {r} : Idle(q)
        BY <2>3 DEF TypeOK, Idle
    <2>7. QED BY <2>4, <2>5, <2>6 DEF Keeps
<1>5. CASE ReadObject(r)
    <2>1. id[r] \in Ids /\ CopyIsTrue(r) /\ op[r] # "create"
        BY <1>5 DEF ReadObject, Carried
    <2>2. objects[copy[r].key] \in Contents
        <3>1. copy[r].key \in Keys /\ objects[copy[r].key] # NoContent
            BY <2>1 DEF CopyIsTrue, Asset, RegisteredIsStored
        <3>2. QED BY <3>1 DEF TypeOK
    <2>3. StoresGrow
        BY <1>5, SameStores DEF ReadObject
    <2>4. TypeOK' /\ Carried(r)'
        BY <1>5, <2>1, <2>2 DEF ReadObject, TypeOK, Carried
    <2>5. \A q \in Requests \ {r} : Idle(q)
        BY <1>5 DEF ReadObject, TypeOK, Idle
    <2>6. QED BY <2>3, <2>4, <2>5 DEF Keeps
<1>6. ASSUME NEW i \in Ids, StoreWatermarked(r, i) PROVE Keeps(r)
    <2> DEFINE c == Marked(content[r])
    <2>1. c \in Contents /\ c.marked /\ op[r] # "create" /\ Watermarked(i) \in Keys
        BY <1>6 DEF StoreWatermarked, Carried, Marked, Contents
    <2>2. /\ objects' = [objects EXCEPT ![Watermarked(i)] = c]
          /\ UNCHANGED <<assets, timeline, fingerprints, op, want, copy>>
          /\ pc' = [pc EXCEPT ![r] = "register"]
          /\ id' = [id EXCEPT ![r] = i] /\ content' = [content EXCEPT ![r] = c]
        BY <1>6 DEF StoreWatermarked, Put
    <2> HIDE DEF c
    <2>3. StoresGrow
        BY <2>1, <2>2, PutGrows
    <2>4. TypeOK'
        BY <2>1, <2>2 DEF TypeOK
    <2>5. \A q \in Requests \ {r} : Idle(q)
        BY <2>2 DEF TypeOK, Idle
    <2>6. Carried(r)'
        <3>1. /\ pc'[r] = "register" /\ op'[r] = op[r] /\ id'[r] = i /\ content'[r] = c
              /\ objects'[Watermarked(i)] = c
            BY <2>1, <2>2 DEF TypeOK
        <3>2. NewAsset(r).key' = Watermarked(i)
            BY <2>1, <3>1 DEF NewAsset
        <3>3. QED BY <2>1, <3>1, <3>2 DEF Carried
    <2>7. QED BY <2>3, <2>4, <2>5, <2>6 DEF Keeps
<1>7. CASE SaveFingerprint(r)
    <2>1. id[r] \in Ids /\ content[r] \in Contents
        BY <1>7 DEF SaveFingerprint, Carried
    <2>2. StoresGrow
        BY <1>7, SameStores DEF SaveFingerprint
    <2>3. TypeOK' /\ Carried(r)'
        BY <1>7, <2>1 DEF SaveFingerprint, TypeOK, Carried
    <2>4. \A q \in Requests \ {r} : Idle(q)
        BY <1>7 DEF SaveFingerprint, TypeOK, Idle
    <2>5. QED BY <2>2, <2>3, <2>4 DEF Keeps
<1>8. QED BY <1>1, <1>2, <1>3, <1>4, <1>5, <1>6, <1>7 DEF Continue

-----------------------------------------------------------------------------
(* The theorems. *)

\* The invariant holds initially.
LEMMA InitInv == Init => LibraryInv
BY Distinct DEF Init, LibraryInv, TypeOK, RegisteredIsStored, CopiesAreMarked, Registered, Carried

\* Every step keeps the invariant and lets the stores grow.
LEMMA NextInv == LibraryInv /\ [Next]_vars => LibraryInv' /\ StoresGrow
<1> SUFFICES ASSUME LibraryInv, [Next]_vars PROVE LibraryInv' /\ StoresGrow
    OBVIOUS
<1>1. ASSUME NEW r \in Requests, Begin(r) \/ Continue(r) PROVE LibraryInv' /\ StoresGrow
    BY <1>1, BeginKeeps, ContinueKeeps, KeepsInv DEF Keeps
<1>2. CASE UNCHANGED vars
    <2>1. LibraryInv'
        BY <1>2 DEF vars, storeVars, requestVars, LibraryInv, TypeOK, RegisteredIsStored,
                    CopiesAreMarked, Registered, Carried, CopyIsTrue, NewAsset
    <2>2. QED BY <1>2, <2>1, SameStores DEF vars, storeVars
<1>3. QED BY <1>1, <1>2 DEF Next

\* The invariant holds throughout: what a request read, made or stored before
\* other requests ran is still good for its next call.
THEOREM LibraryInvHolds == Spec => []LibraryInv
<1>1. QED BY InitInv, NextInv, PTL DEF Spec

\* Every variable of the asset library keeps its type.
THEOREM LibraryTypeCorrect == Spec => []TypeOK
<1>1. LibraryInv => TypeOK
    BY DEF LibraryInv
<1>2. QED BY <1>1, LibraryInvHolds, PTL

\* A registered asset has its object in the store, and a watermarked copy holds
\* a watermark, for any number of overlapping and abandoned requests.
THEOREM RegisteredIsStoredHolds == Spec => []RegisteredIsStored
<1>1. LibraryInv => RegisteredIsStored
    BY DEF LibraryInv
<1>2. QED BY <1>1, LibraryInvHolds, PTL

\* No step removes an asset or changes its object's key or its digest, although
\* status changes write back whole copies read earlier and idempotency keys may
\* name an id that is taken.
THEOREM RegistrationIsFinalHolds == Spec => RegistrationIsFinal
<1>1. StoresGrow => [\A i \in Ids : Registered(i) =>
          assets'[i] # NotAsset /\ assets'[i].key = assets[i].key
                                /\ assets'[i].digest = assets[i].digest]_vars
    BY DEF StoresGrow, Registered
<1>2. LibraryInv /\ [Next]_vars => [\A i \in Ids : Registered(i) =>
          assets'[i] # NotAsset /\ assets'[i].key = assets[i].key
                                /\ assets'[i].digest = assets[i].digest]_vars
    BY <1>1, NextInv
<1>3. QED BY <1>2, LibraryInvHolds, PTL DEF Spec, RegistrationIsFinal

-----------------------------------------------------------------------------
(* Who changes a status. *)

\* A withdrawn asset was withdrawn by a request that has written it, and a
\* request about to write read the asset while it was not withdrawn.
WithdrawnBySomeone ==
    /\ \A i \in Ids : assets[i].status = "withdrawn" =>
          \E q \in Changed(i) : want[q] = "withdrawn"
    /\ \A r \in Requests : pc[r] = "update" =>
          op[r] = "status" /\ copy[r].status # "withdrawn"

\* What a request has changed stays changed by it.
LEMMA ChangedStays ==
    ASSUME LibraryInv, NEW i \in Ids, NEW q \in Changed(i), [Next]_vars
    PROVE  q \in Changed(i)' /\ want'[q] = want[q]
<1> USE DEF Changed, Goto
<1>1. q \in Requests /\ op[q] = "status" /\ id[q] = i /\ pc[q] \in {"event", "ok"}
    OBVIOUS
<1>2. ASSUME NEW r \in Requests, Begin(r) PROVE q # r /\ Idle(q)
    <2>1. pc[r] = "new"
        BY <1>2 DEF Begin, CreateAsset, StoreUpload, ChangeStatus, UseAsset
    <2>2. q # r
        BY <1>1, <2>1
    <2>3. QED BY <1>1, <1>2, <2>2, BeginKeeps DEF Keeps
<1>3. ASSUME NEW r \in Requests, Continue(r), q # r PROVE Idle(q)
    BY <1>1, <1>3, ContinueKeeps DEF Keeps
<1>4. ASSUME Continue(q)
      PROVE  /\ pc'[q] = "ok" /\ op'[q] = op[q] /\ id'[q] = id[q] /\ want'[q] = want[q]
    <2>1. AddEvent(q) \/ EventLost(q)
        BY <1>1, <1>4 DEF Continue, Register, RegisterRefused, UpdateAsset, ReadObject,
                          StoreWatermarked, SaveFingerprint, Abandon
    <2>2. QED BY <1>1, <2>1 DEF AddEvent, EventLost, LibraryInv, TypeOK
<1>5. CASE UNCHANGED vars
    BY <1>1, <1>5 DEF vars, requestVars
<1>6. QED BY <1>1, <1>2, <1>3, <1>4, <1>5 DEF Next, Idle

\* Assets are written by the first registration and by changes of status only.
LEMMA WhoWrites ==
    ASSUME LibraryInv, NEW i \in Ids, [Next]_vars, assets'[i] # assets[i]
    PROVE  \/ \E r \in Requests : /\ id[r] = i /\ Register(r)
                                  /\ ~Registered(i) /\ assets'[i] = NewAsset(r)
           \/ \E r \in Requests : id[r] = i /\ UpdateAsset(r)
<1> USE DEF LibraryInv, TypeOK
<1>1. PICK r \in Requests : Register(r) \/ UpdateAsset(r)
    BY DEF vars, storeVars, Next, Begin, Continue, CreateAsset, StoreUpload, ChangeStatus, UseAsset,
           RegisterRefused, EventLost, Abandon, AddEvent, ReadObject, StoreWatermarked,
           SaveFingerprint
<1>2. CASE Register(r)
    <2>1. i = id[r]
        BY <1>2 DEF Register
    <2>2. ~Registered(i) /\ assets'[i] = NewAsset(r)
        BY <1>2, <2>1 DEF Register
    <2>3. QED BY <1>2, <2>1, <2>2
<1>3. CASE UpdateAsset(r)
    BY <1>3 DEF UpdateAsset
<1>4. QED BY <1>1, <1>2, <1>3

\* A request comes to update only by ChangeStatus.
LEMMA WhoUpdates ==
    ASSUME LibraryInv, NEW r \in Requests, [Next]_vars, pc'[r] = "update"
    PROVE  \/ pc[r] = "update" /\ op'[r] = op[r] /\ copy'[r] = copy[r]
           \/ op'[r] = "status" /\ copy'[r].status # "withdrawn"
<1> USE DEF LibraryInv, TypeOK, Goto
<1>1. ASSUME NEW q \in Requests, Begin(q) \/ Continue(q), q # r
      PROVE  Idle(r)
    BY <1>1, BeginKeeps, ContinueKeeps DEF Keeps
<1>2. ASSUME Begin(r) PROVE op'[r] = "status" /\ copy'[r].status # "withdrawn"
    <2>1. PICK i \in Ids, s \in {"frozen", "withdrawn"} : ChangeStatus(r, i, s)
        BY <1>2 DEF Begin, CreateAsset, StoreUpload, UseAsset
    <2>2. QED BY <2>1 DEF ChangeStatus, MayChange
<1>3. ASSUME Continue(r) PROVE FALSE
    BY <1>3 DEF Continue, Register, RegisterRefused, AddEvent, EventLost, UpdateAsset, ReadObject,
                StoreWatermarked, SaveFingerprint, Abandon
<1>4. CASE UNCHANGED vars
    BY <1>4 DEF vars, requestVars
<1>5. QED BY <1>1, <1>2, <1>3, <1>4 DEF Next, Idle

\* Every step keeps WithdrawnBySomeone.
LEMMA NextWithdrawn ==
    LibraryInv /\ WithdrawnBySomeone /\ [Next]_vars => WithdrawnBySomeone'
<1> SUFFICES ASSUME LibraryInv, WithdrawnBySomeone, [Next]_vars PROVE WithdrawnBySomeone'
    OBVIOUS
<1>1. ASSUME NEW i \in Ids, assets'[i].status = "withdrawn"
      PROVE  \E q \in Changed(i)' : want'[q] = "withdrawn"
    <2>1. CASE assets'[i] = assets[i]
        <3>1. PICK q \in Changed(i) : want[q] = "withdrawn"
            BY <1>1, <2>1 DEF WithdrawnBySomeone
        <3>2. QED BY <3>1, ChangedStays
    <2>2. CASE assets'[i] # assets[i]
        <3>1. PICK r \in Requests : id[r] = i /\ UpdateAsset(r)
            <4>1. \A r \in Requests : NewAsset(r).status = "active"
                BY DEF NewAsset
            <4>2. QED BY <1>1, <2>2, <4>1, WhoWrites
        <3>2. op[r] = "status" /\ CopyIsTrue(r)
            BY <3>1 DEF UpdateAsset, Goto, WithdrawnBySomeone, LibraryInv, Carried
        <3>3. assets'[i].status = want[r]
            BY <3>1, <3>2 DEF UpdateAsset, LibraryInv, TypeOK, CopyIsTrue, Asset
        <3>4. r \in Changed(i)' /\ want'[r] = want[r]
            BY <3>1, <3>2 DEF UpdateAsset, Goto, LibraryInv, TypeOK, Changed
        <3>5. QED BY <1>1, <3>3, <3>4
    <2>3. QED BY <2>1, <2>2
<1>2. ASSUME NEW r \in Requests, pc'[r] = "update"
      PROVE  op'[r] = "status" /\ copy'[r].status # "withdrawn"
    BY <1>2, WhoUpdates DEF WithdrawnBySomeone
<1>3. QED BY <1>1, <1>2 DEF WithdrawnBySomeone

\* WithdrawnBySomeone holds throughout.
LEMMA WithdrawnBySomeoneHolds == Spec => []WithdrawnBySomeone
<1>1. Init => WithdrawnBySomeone
    BY DEF Init, WithdrawnBySomeone, NotAsset
<1>2. QED BY <1>1, NextWithdrawn, LibraryInvHolds, PTL DEF Spec

\* However many requests overlap, only one that read an asset before another
\* request withdrew it can take it out of that status: the check of
\* ChangeStatus fails in no other way.
THEOREM OnlyOverlapRevivesHolds == Spec => OnlyOverlapRevives
<1> DEFINE Revived(i) == assets[i].status = "withdrawn" /\ assets'[i].status # "withdrawn"
           Overlap(i) ==
               \E r \in Requests :
                   /\ pc[r] = "update" /\ id[r] = i /\ copy[r].status \in {"active", "frozen"}
                   /\ \E q \in Changed(i) \ {r} : want[q] = "withdrawn"
<1>1. ASSUME LibraryInv, WithdrawnBySomeone, [Next]_vars, NEW i \in Ids, Revived(i)
      PROVE  Overlap(i)
    <2>1. PICK r \in Requests : id[r] = i /\ UpdateAsset(r)
        <3>1. Registered(i) /\ assets'[i] # assets[i]
            BY <1>1 DEF Registered, NotAsset
        <3>2. QED BY <1>1, <3>1, WhoWrites
    <2>2. pc[r] = "update" /\ copy[r].status \in {"active", "frozen"}
        BY <1>1, <2>1 DEF UpdateAsset, Goto, WithdrawnBySomeone, LibraryInv, Carried, CopyIsTrue,
                          Asset, Statuses
    <2>3. PICK q \in Changed(i) : want[q] = "withdrawn"
        BY <1>1 DEF WithdrawnBySomeone
    <2>4. q # r
        BY <2>2, <2>3 DEF Changed
    <2>5. QED BY <2>1, <2>2, <2>3, <2>4
<1>2. LibraryInv /\ WithdrawnBySomeone /\ [Next]_vars =>
          [\A i \in Ids : Revived(i) => Overlap(i)]_vars
    BY <1>1
<1>3. QED BY <1>2, LibraryInvHolds, WithdrawnBySomeoneHolds, PTL
          DEF Spec, OnlyOverlapRevives, Revived, Overlap

-----------------------------------------------------------------------------
(* Whose bytes are stored. *)

\* The purpose of a request and how far it is go together.
OpFits(q) ==
    /\ pc[q] = "new" => op[q] = "none"
    /\ op[q] = "upload" => pc[q] = "ok"
    /\ op[q] = "create" => pc[q] \in {"register", "event", "ok", "error"}

\* Request q wrote the original of i, and has not registered i unless with the
\* digest of what it wrote.
WriterOf(q, i) ==
    /\ op[q] \in {"create", "upload"} /\ id[q] = i /\ content[q] = objects[Original(i)]
    /\ op[q] = "create" =>
          \/ pc[q] \in {"register", "error"}
          \/ Registered(i) /\ assets[i].digest = content[q]

\* Bytes read of asset i are the registered ones, or an intruder's.
Explained(i, c) ==
    Registered(i) /\ (c # assets[i].digest => assets[i].key = Original(i) /\ Intruded(i, c))

\* An asset is registered with one of its two keys; every original has a
\* writer; a copy is what was registered or is about to be; and what was read
\* has an explanation.
BytesAreKnown ==
    /\ \A i \in Ids : Registered(i) => assets[i].key \in {Original(i), Watermarked(i)}
    /\ \A i \in Ids : objects[Original(i)] # NoContent => \E q \in Requests : WriterOf(q, i)
    /\ \A i \in Ids : Registered(i) /\ assets[i].key = Watermarked(i) =>
          objects[Watermarked(i)] = assets[i].digest
    /\ \A r \in Requests :
          /\ OpFits(r)
          /\ pc[r] = "register" /\ op[r] # "create" => objects[Watermarked(id[r])] = content[r]
          /\ pc[r] = "save" => Explained(id[r], content[r])
    /\ \A f \in fingerprints : Explained(f.asset, f.of)

\* The object of a registered asset is explained.
LEMMA ObjectExplained ==
    ASSUME LibraryInv, BytesAreKnown, NEW i \in Ids, Registered(i)
    PROVE  Explained(i, objects[assets[i].key])
<1>1. CASE assets[i].key = Watermarked(i)
    BY <1>1 DEF BytesAreKnown, Explained
<1>2. CASE assets[i].key = Original(i)
    <2>1. PICK q \in Requests : WriterOf(q, i)
        BY <1>2 DEF BytesAreKnown, LibraryInv, RegisteredIsStored
    <2>2. QED BY <1>2, <2>1 DEF Explained, WriterOf, Intruded
<1>3. QED BY <1>1, <1>2 DEF BytesAreKnown

\* A request that creates or uploads keeps what it wrote, and one that has not
\* registered it yet either does so or never will.
LEMMA WriterSteps ==
    ASSUME LibraryInv, NEW q \in Requests, OpFits(q), op[q] \in {"create", "upload"}, [Next]_vars
    PROVE  /\ op'[q] = op[q] /\ id'[q] = id[q] /\ content'[q] = content[q]
           /\ pc[q] \in {"register", "error"} =>
                 pc'[q] \in {"register", "error"} \/ Register(q)
<1> USE DEF LibraryInv, TypeOK, Goto
<1>1. ASSUME NEW r \in Requests, Begin(r) \/ Continue(r), r # q PROVE Idle(q)
    BY <1>1, BeginKeeps, ContinueKeeps DEF Keeps
<1>2. ASSUME Begin(q) PROVE FALSE
    BY <1>2 DEF Begin, CreateAsset, StoreUpload, ChangeStatus, UseAsset, OpFits
<1>3. ASSUME Continue(q)
      PROVE  /\ op'[q] = op[q] /\ id'[q] = id[q] /\ content'[q] = content[q]
             /\ pc[q] \in {"register", "error"} => pc'[q] = "error" \/ Register(q)
    <2>1. pc[q] \notin {"read", "store"}
        BY DEF OpFits
    <2>2. CASE Register(q)
        BY <2>2 DEF Register
    <2>3. CASE RegisterRefused(q) \/ AddEvent(q) \/ EventLost(q) \/ UpdateAsset(q)
        BY <2>3 DEF RegisterRefused, AddEvent, EventLost, UpdateAsset
    <2>4. CASE SaveFingerprint(q) \/ Abandon(q)
        BY <2>4 DEF SaveFingerprint, Abandon
    <2>5. QED BY <1>3, <2>1, <2>2, <2>3, <2>4 DEF Continue, ReadObject, StoreWatermarked
<1>4. CASE UNCHANGED vars
    BY <1>4 DEF vars, requestVars
<1>5. QED BY <1>1, <1>2, <1>3, <1>4 DEF Next, Idle

\* OpFits is kept.
LEMMA OpFitsStays ==
    ASSUME LibraryInv, NEW q \in Requests, OpFits(q), [Next]_vars PROVE OpFits(q)'
<1> USE DEF LibraryInv, TypeOK, Goto, OpFits
<1>1. ASSUME NEW r \in Requests, Begin(r) \/ Continue(r), r # q PROVE Idle(q)
    BY <1>1, BeginKeeps, ContinueKeeps DEF Keeps
<1>2. ASSUME Begin(q) PROVE OpFits(q)'
    BY <1>2 DEF Begin, CreateAsset, StoreUpload, ChangeStatus, UseAsset
<1>3. ASSUME Continue(q) PROVE OpFits(q)'
    BY <1>3 DEF Continue, Register, RegisterRefused, AddEvent, EventLost, UpdateAsset, ReadObject,
                StoreWatermarked, SaveFingerprint, Abandon
<1>4. CASE UNCHANGED vars
    BY <1>4 DEF vars, requestVars
<1>5. QED BY <1>1, <1>2, <1>3, <1>4 DEF Next, Idle

\* Explanations hold for ever.
LEMMA ExplainedStays ==
    ASSUME LibraryInv, BytesAreKnown, NEW i \in Ids, NEW c, Explained(i, c), [Next]_vars
    PROVE  Explained(i, c)'
<1>1. /\ Registered(i) /\ Registered(i)'
      /\ assets'[i].key = assets[i].key /\ assets'[i].digest = assets[i].digest
    BY NextInv DEF StoresGrow, Explained
<1>2. ASSUME Intruded(i, c) PROVE Intruded(i, c)'
    <2>1. PICK q \in Requests :
              /\ op[q] \in {"create", "upload"} /\ id[q] = i /\ content[q] = c
              /\ op[q] = "create" => pc[q] \in {"register", "error"}
        BY <1>2 DEF Intruded
    <2>2. ~Register(q)
        BY <1>1, <2>1 DEF Register
    <2>3. QED BY <2>1, <2>2, WriterSteps DEF BytesAreKnown, Intruded
<1>3. QED BY <1>1, <1>2 DEF Explained

\* The writer of an original remains so until the next one writes.
LEMMA WriterStays ==
    ASSUME LibraryInv, BytesAreKnown, NEW i \in Ids, NEW q \in Requests, WriterOf(q, i),
           [Next]_vars, objects'[Original(i)] = objects[Original(i)]
    PROVE  WriterOf(q, i)'
<1>1. /\ op'[q] = op[q] /\ id'[q] = id[q] /\ content'[q] = content[q]
      /\ pc[q] \in {"register", "error"} => pc'[q] \in {"register", "error"} \/ Register(q)
    BY WriterSteps DEF WriterOf, BytesAreKnown
<1>2. Registered(i) => Registered(i)' /\ assets'[i].digest = assets[i].digest
    BY NextInv DEF StoresGrow
<1>3. ASSUME Register(q) PROVE Registered(i)' /\ assets'[i].digest = content[q]
    <2>1. id[q] = i /\ assets'[i] = NewAsset(q)
        BY <1>3 DEF Register, WriterOf, LibraryInv, TypeOK
    <2>2. QED BY <2>1 DEF NewAsset, Registered, NotAsset
<1>4. QED BY <1>1, <1>2, <1>3 DEF WriterOf

\* An original is written by a creation or an upload, a copy only by an
\* embedding that takes a fresh id.
LEMMA WhoStores ==
    ASSUME LibraryInv, NEW i \in Ids, [Next]_vars
    PROVE  /\ \/ objects'[Original(i)] = objects[Original(i)]
              \/ \E q \in Requests : WriterOf(q, i)'
           /\ \/ objects'[Watermarked(i)] = objects[Watermarked(i)]
              \/ objects[Watermarked(i)] = NoContent /\ ~Registered(i)
<1> USE Distinct DEF LibraryInv, TypeOK, Goto
<1>1. ASSUME NEW r \in Requests, NEW j \in Ids, NEW m \in Media,
             CreateAsset(r, j, Unmarked(m)) \/ StoreUpload(r, j, Unmarked(m))
      PROVE  /\ objects'[Original(i)] = objects[Original(i)] \/ WriterOf(r, i)'
             /\ objects'[Watermarked(i)] = objects[Watermarked(i)]
    <2> DEFINE c == Unmarked(m)
    <2> HIDE DEF c
    <2>1. /\ objects' = [objects EXCEPT ![Original(j)] = c]
          /\ id'[r] = j /\ content'[r] = c
          /\ op'[r] = "upload" \/ (op'[r] = "create" /\ pc'[r] = "register")
        <3>1. CASE CreateAsset(r, j, c)
            BY <3>1 DEF CreateAsset, Put
        <3>2. CASE StoreUpload(r, j, c)
            BY <3>2 DEF StoreUpload, Put
        <3>3. QED BY <1>1, <3>1, <3>2 DEF c
    <2>2. objects'[Watermarked(i)] = objects[Watermarked(i)]
        <3>1. Original(j) # Watermarked(i) /\ Watermarked(i) \in DOMAIN objects
            OBVIOUS
        <3>2. QED BY <2>1, <3>1
    <2>3. CASE Original(i) = Original(j)
        <3>1. i = j
            BY <2>3 DEF Original
        <3>2. QED BY <2>1, <2>2, <3>1 DEF WriterOf
    <2>4. CASE Original(i) # Original(j)
        BY <2>1, <2>2, <2>4
    <2>5. QED BY <2>3, <2>4
<1>2. ASSUME NEW r \in Requests, NEW j \in Ids, StoreWatermarked(r, j)
      PROVE  /\ objects'[Original(i)] = objects[Original(i)]
             /\ \/ objects'[Watermarked(i)] = objects[Watermarked(i)]
                \/ objects[Watermarked(i)] = NoContent /\ ~Registered(i)
    <2>1. objects' = [objects EXCEPT ![Watermarked(j)] = Marked(content[r])]
        BY <1>2 DEF StoreWatermarked, Put
    <2>2. ~Registered(j) /\ objects[Watermarked(j)] = NoContent
        BY <1>2 DEF StoreWatermarked, Fresh, Watermarked
    <2>3. QED BY <2>1, <2>2
<1>3. QED BY <1>1, <1>2 DEF vars, storeVars, Next, Begin, Continue, ChangeStatus, UseAsset, Register,
             RegisterRefused, EventLost, Abandon, AddEvent, UpdateAsset, ReadObject, SaveFingerprint

\* Every step keeps BytesAreKnown.
LEMMA NextBytes == LibraryInv /\ BytesAreKnown /\ [Next]_vars => BytesAreKnown'
<1> SUFFICES ASSUME LibraryInv, BytesAreKnown, [Next]_vars PROVE BytesAreKnown'
    OBVIOUS
<1> USE DEF LibraryInv, TypeOK, Goto
<1>1. LibraryInv' /\ StoresGrow
    BY NextInv
<1>2. ASSUME NEW i \in Ids, Registered(i)'
      PROVE  /\ assets'[i].key \in {Original(i), Watermarked(i)}
             /\ assets'[i].key = Watermarked(i) => objects'[Watermarked(i)] = assets'[i].digest
    <2>1. CASE Registered(i)
        <3>1. assets'[i].key = assets[i].key /\ assets'[i].digest = assets[i].digest
            BY <1>1, <2>1 DEF StoresGrow
        <3>2. objects'[Watermarked(i)] = objects[Watermarked(i)]
            BY <2>1, WhoStores
        <3>3. QED BY <2>1, <3>1, <3>2 DEF BytesAreKnown
    <2>2. CASE ~Registered(i)
        <3>1. PICK r \in Requests :
                  Register(r) /\ id[r] = i /\ assets'[i] = NewAsset(r)
            <4>1. assets'[i] # assets[i]
                BY <1>2, <2>2 DEF Registered
            <4>2. ASSUME NEW r \in Requests, id[r] = i, UpdateAsset(r) PROVE FALSE
                BY <2>2, <4>2 DEF UpdateAsset, Carried, CopyIsTrue
            <4>3. QED BY <4>1, <4>2, WhoWrites
        <3>3. op[r] # "create" => objects'[Watermarked(i)] = content[r]
            BY <3>1 DEF Register, BytesAreKnown
        <3>4. QED BY <3>1, <3>3, Distinct DEF NewAsset
    <2>3. QED BY <2>1, <2>2
<1>3. ASSUME NEW i \in Ids, objects'[Original(i)] # NoContent
      PROVE  \E q \in Requests : WriterOf(q, i)'
    <2>1. CASE objects'[Original(i)] = objects[Original(i)]
        <3>1. PICK q \in Requests : WriterOf(q, i)
            BY <1>3, <2>1 DEF BytesAreKnown
        <3>2. QED BY <2>1, <3>1, WriterStays
    <2>2. QED BY <2>1, WhoStores
<1>4. ASSUME NEW r \in Requests, pc'[r] = "register", op'[r] # "create"
      PROVE  objects'[Watermarked(id'[r])] = content'[r]
    <2>1. CASE \E i \in Ids : StoreWatermarked(r, i)
        <3>1. PICK i \in Ids : StoreWatermarked(r, i)
            BY <2>1
        <3>2. /\ objects' = [objects EXCEPT ![Watermarked(i)] = Marked(content[r])]
              /\ id'[r] = i /\ content'[r] = Marked(content[r])
            BY <3>1 DEF StoreWatermarked, Put
        <3>3. Watermarked(i) \in DOMAIN objects
            BY Distinct
        <3>4. QED BY <3>2, <3>3
    <2>2. CASE Idle(r)
        <3>1. /\ pc[r] = "register" /\ id[r] \in Ids
              /\ objects[Watermarked(id[r])] = content[r]
            BY <1>4, <2>2 DEF Idle, BytesAreKnown, Carried
        <3>2. content[r] # NoContent
            BY <3>1, Distinct DEF Carried
        <3>3. QED BY <2>2, <3>1, <3>2, WhoStores DEF Idle
    <2>3. ASSUME NEW q \in Requests, Begin(q) \/ Continue(q), q # r PROVE Idle(r)
        BY <2>3, BeginKeeps, ContinueKeeps DEF Keeps
    <2>4. ASSUME Begin(r) PROVE FALSE
        BY <1>4, <2>4 DEF Begin, CreateAsset, StoreUpload, ChangeStatus, UseAsset
    <2>5. ASSUME Continue(r) PROVE \E i \in Ids : StoreWatermarked(r, i)
        BY <1>4, <2>5 DEF Continue, Register, RegisterRefused, AddEvent, EventLost, UpdateAsset,
                          ReadObject, SaveFingerprint, Abandon
    <2>6. UNCHANGED vars => Idle(r)
        BY DEF vars, requestVars, Idle
    <2>7. QED BY <2>1, <2>2, <2>3, <2>4, <2>5, <2>6 DEF Next
<1>5. ASSUME NEW r \in Requests, pc'[r] = "save"
      PROVE  Explained(id[r], content[r])'
    <2>1. CASE ReadObject(r)
        <3>1. /\ id[r] \in Ids /\ CopyIsTrue(r)
              /\ content'[r] = objects[assets[id[r]].key] /\ id'[r] = id[r]
            BY <2>1 DEF ReadObject, Carried, CopyIsTrue
        <3>2. Explained(id[r], content'[r])
            BY <3>1, ObjectExplained DEF CopyIsTrue
        <3>3. PICK i \in Ids, c \in Contents \cup {NoContent} : i = id'[r] /\ c = content'[r]
            BY <1>1, <3>1
        <3>4. Explained(i, c)'
            BY <3>1, <3>2, <3>3, ExplainedStays
        <3>5. QED BY <3>3, <3>4 DEF Explained, Intruded
    <2>2. CASE Idle(r)
        <3>1. id[r] \in Ids /\ Explained(id[r], content[r])
            BY <1>5, <2>2 DEF Idle, BytesAreKnown, Carried
        <3>2. PICK i \in Ids, c \in Contents \cup {NoContent} : i = id[r] /\ c = content[r]
            BY <3>1
        <3>3. Explained(i, c)'
            BY <3>1, <3>2, ExplainedStays
        <3>4. QED BY <2>2, <3>2, <3>3 DEF Idle, Explained, Intruded
    <2>3. ASSUME NEW q \in Requests, Begin(q) \/ Continue(q), q # r PROVE Idle(r)
        BY <2>3, BeginKeeps, ContinueKeeps DEF Keeps
    <2>4. ASSUME Begin(r) PROVE FALSE
        BY <1>5, <2>4 DEF Begin, CreateAsset, StoreUpload, ChangeStatus, UseAsset
    <2>5. ASSUME Continue(r) PROVE ReadObject(r)
        BY <1>5, <2>5 DEF Continue, Register, RegisterRefused, AddEvent, EventLost, UpdateAsset,
                          StoreWatermarked, SaveFingerprint, Abandon
    <2>6. UNCHANGED vars => Idle(r)
        BY DEF vars, requestVars, Idle
    <2>7. QED BY <2>1, <2>2, <2>3, <2>4, <2>5, <2>6 DEF Next
<1>6. ASSUME NEW f \in fingerprints' PROVE Explained(f.asset, f.of)'
    <2>1. CASE f \in fingerprints
        BY <2>1, ExplainedStays DEF BytesAreKnown
    <2>2. CASE f \notin fingerprints
        <3>1. PICK r \in Requests : SaveFingerprint(r)
            BY <1>6, <2>2
               DEF vars, storeVars, Next, Begin, Continue, CreateAsset, StoreUpload, ChangeStatus,
                   UseAsset, Register, RegisterRefused, EventLost, Abandon, AddEvent, ReadObject,
                   StoreWatermarked, UpdateAsset
        <3>2. f.asset = id[r] /\ f.of = content[r] /\ pc[r] = "save"
            BY <1>6, <2>2, <3>1 DEF SaveFingerprint
        <3>3. id[r] \in Ids /\ Explained(id[r], content[r])
            BY <3>2 DEF BytesAreKnown, Carried
        <3>4. QED BY <3>2, <3>3, ExplainedStays
    <2>3. QED BY <2>1, <2>2
<1>7. ASSUME NEW r \in Requests PROVE OpFits(r)'
    BY OpFitsStays DEF BytesAreKnown
<1>8. QED BY <1>2, <1>3, <1>4, <1>5, <1>6, <1>7 DEF BytesAreKnown

\* BytesAreKnown holds throughout.
LEMMA BytesAreKnownHolds == Spec => []BytesAreKnown
<1>1. Init => BytesAreKnown
    BY Distinct DEF Init, BytesAreKnown, OpFits, Registered
<1>2. QED BY <1>1, NextBytes, LibraryInvHolds, PTL DEF Spec

\* The digest of an asset is that of its object and of its fingerprints, unless
\* a refused or unfinished creation or an upload wrote to that very original:
\* embedding, status changes and other assets never separate them.
THEOREM DigestsAgreeHolds == Spec => []DigestsAgree
<1>1. LibraryInv /\ BytesAreKnown => DigestsAgree
    <2> SUFFICES ASSUME LibraryInv, BytesAreKnown PROVE DigestsAgree
        OBVIOUS
    <2>1. ASSUME NEW i \in Ids, Registered(i), objects[assets[i].key] # assets[i].digest
          PROVE  assets[i].key = Original(i) /\ Intruded(i, objects[assets[i].key])
        BY <2>1, ObjectExplained DEF Explained
    <2>2. ASSUME NEW f \in fingerprints, f.of # assets[f.asset].digest
          PROVE  assets[f.asset].key = Original(f.asset) /\ Intruded(f.asset, f.of)
        BY <2>2 DEF BytesAreKnown, Explained
    <2>3. QED BY <2>1, <2>2 DEF DigestsAgree
<1>2. QED BY <1>1, LibraryInvHolds, BytesAreKnownHolds, PTL

-----------------------------------------------------------------------------
(* What a timeline tells. *)

\* The requests that report to have made event e of asset i.
Done(i, e) == {r \in Requests : id[r] = i /\ want[r] = e /\ pc[r] = "ok"}

\* Where event e stands in the timeline of i.
Places(i, e) == {n \in DOMAIN timeline[i] : timeline[i][n] = e}

\* Events are counted by the requests that made them: finitely many requests
\* are done, and no event stands in more places than there are such requests.
EventsAreCounted ==
    \A i \in Ids, e \in Events :
        /\ IsFiniteSet(Done(i, e)) /\ IsFiniteSet(Places(i, e))
        /\ Cardinality(Places(i, e)) <= Cardinality(Done(i, e))

\* A change of status is of a registered asset, and takes two calls after its
\* checks.
ChangeFits(q) ==
    op[q] = "status" => Registered(id[q]) /\ pc[q] \in {"update", "event", "ok", "error"}

\* The status of an asset is the one it was registered with, or the one that
\* a request which has written it wanted.
StatusIsSet ==
    /\ \A q \in Requests : ChangeFits(q)
    /\ \A i \in Ids : Registered(i) =>
          IF Changed(i) = {} THEN assets[i].status = "active"
          ELSE \E r \in Changed(i) : assets[i].status = want[r]

\* A request that is done stays done, and a step makes one more at most.
LEMMA DoneGrows ==
    ASSUME LibraryInv, NEW i \in Ids, NEW e \in Events, [Next]_vars
    PROVE  /\ Done(i, e) \subseteq Done(i, e)'
           /\ \E r : Done(i, e)' \subseteq Done(i, e) \cup {r}
<1>1. ASSUME NEW r \in Requests, Begin(r) \/ Continue(r)
      PROVE  Done(i, e) \subseteq Done(i, e)' /\ Done(i, e)' \subseteq Done(i, e) \cup {r}
    <2>1. \A q \in Requests \ {r} : Idle(q)
        BY <1>1, BeginKeeps, ContinueKeeps DEF Keeps
    <2>2. pc[r] # "ok"
        BY <1>1 DEF Begin, Continue, Goto, CreateAsset, StoreUpload, ChangeStatus, UseAsset,
                    Register, RegisterRefused, AddEvent, EventLost, UpdateAsset, ReadObject,
                    StoreWatermarked, SaveFingerprint, Abandon
    <2>3. QED BY <2>1, <2>2 DEF Done, Idle
<1>2. UNCHANGED vars => Done(i, e)' = Done(i, e)
    BY DEF vars, requestVars, Done
<1>3. QED BY <1>1, <1>2 DEF Next

\* A timeline grows by the event of a request that is done from then on.
LEMMA WhoTells ==
    ASSUME LibraryInv, NEW i \in Ids, [Next]_vars, timeline'[i] # timeline[i]
    PROVE  \E r \in Requests :
               /\ want[r] \in Events /\ timeline'[i] = Append(timeline[i], want[r])
               /\ \A e \in Events : e = want[r] => r \in Done(i, e)' /\ r \notin Done(i, e)
<1> USE DEF LibraryInv, TypeOK, Goto
<1>1. PICK r \in Requests : AddEvent(r)
    BY DEF vars, storeVars, Next, Begin, Continue, CreateAsset, StoreUpload, ChangeStatus, UseAsset,
           Register, RegisterRefused, EventLost, Abandon, UpdateAsset, ReadObject,
           StoreWatermarked, SaveFingerprint
<1>2. id[r] = i /\ timeline'[i] = Append(timeline[i], want[r])
    BY <1>1 DEF AddEvent
<1>3. /\ want[r] \in Events
      /\ \A e \in Events : e = want[r] => r \in Done(i, e)' /\ r \notin Done(i, e)
    BY <1>1, <1>2 DEF AddEvent, Carried, Done
<1>4. QED BY <1>2, <1>3

\* Every step keeps the count.
LEMMA NextCounted == LibraryInv /\ EventsAreCounted /\ [Next]_vars => EventsAreCounted'
<1> SUFFICES ASSUME LibraryInv, EventsAreCounted, [Next]_vars, NEW i \in Ids, NEW e \in Events
             PROVE  /\ IsFiniteSet(Done(i, e)') /\ IsFiniteSet(Places(i, e)')
                    /\ Cardinality(Places(i, e)') <= Cardinality(Done(i, e)')
    BY DEF EventsAreCounted
<1>1. /\ IsFiniteSet(Done(i, e)) /\ IsFiniteSet(Places(i, e))
      /\ Cardinality(Places(i, e)) <= Cardinality(Done(i, e))
      /\ Cardinality(Places(i, e)) \in Nat /\ Cardinality(Done(i, e)) \in Nat
    BY FS_CardinalityType DEF EventsAreCounted
<1>2. PICK s : Done(i, e)' \subseteq Done(i, e) \cup {s}
    BY DoneGrows
<1>3. IsFiniteSet(Done(i, e)') /\ Cardinality(Done(i, e)') \in Nat
    <2>1. IsFiniteSet(Done(i, e) \cup {s})
        BY <1>1, FS_AddElement
    <2>2. IsFiniteSet(Done(i, e)')
        BY <1>2, <2>1, FS_Subset
    <2>3. QED BY <2>2, FS_CardinalityType
<1>4. Cardinality(Done(i, e)) <= Cardinality(Done(i, e)')
    BY <1>3, DoneGrows, FS_Subset
<1>5. CASE Places(i, e)' = Places(i, e)
    BY <1>1, <1>3, <1>4, <1>5
<1>6. CASE Places(i, e)' # Places(i, e)
    <2>1. PICK r \in Requests :
              /\ want[r] \in Events /\ timeline'[i] = Append(timeline[i], want[r])
              /\ \A d \in Events : d = want[r] => r \in Done(i, d)' /\ r \notin Done(i, d)
        BY <1>6, WhoTells DEF Places
    <2> DEFINE n == Len(timeline[i]) + 1
    <2>2. /\ timeline[i] \in Seq(Events) /\ DOMAIN timeline[i] = 1 .. Len(timeline[i])
          /\ Len(timeline[i]) \in Nat
        BY DEF LibraryInv, TypeOK
    <2>3. /\ DOMAIN timeline'[i] = DOMAIN timeline[i] \cup {n} /\ n \notin DOMAIN timeline[i]
          /\ timeline'[i][n] = want[r]
          /\ \A k \in DOMAIN timeline[i] : timeline'[i][k] = timeline[i][k]
        BY <2>1, <2>2, AppendProperties
    <2> HIDE DEF n
    <2>4. want[r] = e /\ Places(i, e)' = Places(i, e) \cup {n} /\ n \notin Places(i, e)
        BY <1>6, <2>3 DEF Places
    <2>5. /\ IsFiniteSet(Places(i, e)')
          /\ Cardinality(Places(i, e)') = Cardinality(Places(i, e)) + 1
        BY <1>1, <2>4, FS_AddElement
    <2>6. r \in Done(i, e)' /\ r \notin Done(i, e)
        BY <2>1, <2>4
    <2>7. Cardinality(Done(i, e)) # Cardinality(Done(i, e)')
        BY <1>3, <2>6, DoneGrows, FS_Subset
    <2>8. QED BY <1>1, <1>3, <1>4, <2>5, <2>7
<1>7. QED BY <1>5, <1>6

\* A change of status is not taken for anything else.
LEMMA ChangeFitsStays ==
    ASSUME LibraryInv, NEW q \in Requests, ChangeFits(q), [Next]_vars PROVE ChangeFits(q)'
<1> USE DEF LibraryInv, TypeOK, Goto, ChangeFits
<1>1. \A i \in Ids : Registered(i) => Registered(i)'
    BY NextInv DEF StoresGrow
<1>2. pc[q] # "new" => id[q] \in Ids
    BY DEF Carried
<1>3. Idle(q) => ChangeFits(q)'
    BY <1>1, <1>2 DEF Idle, Registered
<1>4. ASSUME NEW r \in Requests, Begin(r) \/ Continue(r), r # q PROVE Idle(q)
    BY <1>4, BeginKeeps, ContinueKeeps DEF Keeps
<1>5. ASSUME Begin(q) PROVE ChangeFits(q)'
    <2>1. CASE \E i \in Ids, s \in {"frozen", "withdrawn"} : ChangeStatus(q, i, s)
        <3>1. PICK i \in Ids, s \in {"frozen", "withdrawn"} : ChangeStatus(q, i, s)
            BY <2>1
        <3>2. Registered(i) /\ id'[q] = i /\ pc'[q] = "update"
            BY <3>1 DEF ChangeStatus, MayChange, Registered
        <3>3. QED BY <1>1, <3>2 DEF Registered
    <2>2. CASE ~ \E i \in Ids, s \in {"frozen", "withdrawn"} : ChangeStatus(q, i, s)
        BY <1>5, <2>2 DEF Begin, CreateAsset, StoreUpload, UseAsset
    <2>3. QED BY <2>1, <2>2
<1>6. ASSUME Continue(q) PROVE ChangeFits(q)'
    <2>1. op'[q] = op[q]
        BY <1>6 DEF Continue, Register, RegisterRefused, AddEvent, EventLost, UpdateAsset,
                    ReadObject, StoreWatermarked, SaveFingerprint, Abandon
    <2>2. ASSUME op[q] = "status"
          PROVE  id'[q] = id[q] /\ id[q] \in Ids /\ pc'[q] \in {"event", "ok", "error"}
        BY <1>2, <1>6, <2>2
           DEF Continue, Register, RegisterRefused, AddEvent, EventLost, UpdateAsset,
               ReadObject, StoreWatermarked, SaveFingerprint, Abandon
    <2>3. QED BY <1>1, <2>1, <2>2 DEF Registered
<1>7. UNCHANGED vars => Idle(q)
    BY DEF vars, requestVars, Idle
<1>8. QED BY <1>3, <1>4, <1>5, <1>6, <1>7 DEF Next

\* A request joins those that have changed an asset by its UpdateAsset only.
LEMMA WhoChanges ==
    ASSUME LibraryInv, NEW i \in Ids, NEW q \in Requests, ChangeFits(q), [Next]_vars,
           q \in Changed(i)', q \notin Changed(i)
    PROVE  id[q] = i /\ UpdateAsset(q)
<1> USE DEF LibraryInv, TypeOK, Goto, Changed
<1>1. ~Idle(q)
    BY DEF Idle
<1>2. ASSUME NEW r \in Requests, Begin(r) \/ Continue(r), r # q PROVE Idle(q)
    BY <1>2, BeginKeeps, ContinueKeeps DEF Keeps
<1>3. ASSUME Begin(q) PROVE FALSE
    BY <1>3 DEF Begin, CreateAsset, StoreUpload, ChangeStatus, UseAsset
<1>4. ASSUME Continue(q) PROVE id[q] = i /\ UpdateAsset(q)
    BY <1>4 DEF ChangeFits, Continue, Register, RegisterRefused, AddEvent, EventLost, UpdateAsset,
                ReadObject, StoreWatermarked, SaveFingerprint, Abandon
<1>5. UNCHANGED vars => Idle(q)
    BY DEF vars, requestVars, Idle
<1>6. QED BY <1>1, <1>2, <1>3, <1>4, <1>5 DEF Next

\* Every step keeps StatusIsSet.
LEMMA NextStatus ==
    LibraryInv /\ WithdrawnBySomeone /\ StatusIsSet /\ [Next]_vars => StatusIsSet'
<1> SUFFICES ASSUME LibraryInv, WithdrawnBySomeone, StatusIsSet, [Next]_vars PROVE StatusIsSet'
    OBVIOUS
<1>1. ASSUME NEW q \in Requests PROVE ChangeFits(q)'
    BY ChangeFitsStays DEF StatusIsSet
<1>2. ASSUME NEW i \in Ids, Registered(i)'
      PROVE  IF Changed(i)' = {} THEN assets'[i].status = "active"
             ELSE \E r \in Changed(i)' : assets'[i].status = want'[r]
    <2>1. CASE \E r \in Requests : id[r] = i /\ UpdateAsset(r)
        <3>1. PICK r \in Requests : id[r] = i /\ UpdateAsset(r)
            BY <2>1
        <3>2. op[r] = "status" /\ CopyIsTrue(r)
            BY <3>1 DEF UpdateAsset, Goto, WithdrawnBySomeone, LibraryInv, Carried
        <3>3. assets'[i].status = want[r]
            BY <3>1, <3>2 DEF UpdateAsset, LibraryInv, TypeOK, CopyIsTrue, Asset
        <3>4. r \in Changed(i)' /\ want'[r] = want[r]
            BY <3>1, <3>2 DEF UpdateAsset, Goto, LibraryInv, TypeOK, Changed
        <3>5. QED BY <3>3, <3>4
    <2>2. CASE ~ \E r \in Requests : id[r] = i /\ UpdateAsset(r)
        <3>1. Changed(i)' \subseteq Changed(i)
            <4>1. ASSUME NEW q \in Changed(i)' PROVE q \in Changed(i)
                <5>1. q \in Requests
                    BY DEF Changed
                <5>2. QED BY <2>2, <5>1, WhoChanges DEF StatusIsSet
            <4>2. QED BY <4>1
        <3>2. \A q \in Changed(i) : q \in Changed(i)' /\ want'[q] = want[q]
            BY ChangedStays
        <3>3. CASE Registered(i)
            <4>1. assets'[i] = assets[i]
                BY <2>2, <3>3, WhoWrites
            <4>2. QED BY <3>1, <3>2, <3>3, <4>1 DEF StatusIsSet
        <3>4. CASE ~Registered(i)
            <4>1. Changed(i) = {}
                BY <3>4 DEF StatusIsSet, ChangeFits, Changed
            <4>2. \E r \in Requests : assets'[i] = NewAsset(r)
                BY <1>2, <2>2, <3>4, WhoWrites DEF Registered
            <4>3. QED BY <3>1, <4>1, <4>2 DEF NewAsset
        <3>5. QED BY <3>3, <3>4
    <2>3. QED BY <2>1, <2>2
<1>3. QED BY <1>1, <1>2 DEF StatusIsSet

\* A timeline tells of no creation and no change of status that was not made,
\* and of each once at most; and the status of an asset is one that a request
\* has set: for any number of requests that overlap, are refused or give up.
THEOREM TimelineIsTrueHolds == Spec => []TimelineIsTrue
<1>1. Init => EventsAreCounted /\ StatusIsSet
    <2> SUFFICES ASSUME Init PROVE EventsAreCounted /\ StatusIsSet
        OBVIOUS
    <2>1. ASSUME NEW i \in Ids, NEW e \in Events PROVE Done(i, e) = {} /\ Places(i, e) = {}
        BY DEF Init, Done, Places
    <2>2. EventsAreCounted
        BY <2>1, FS_EmptySet DEF EventsAreCounted
    <2>3. QED BY <2>2 DEF Init, StatusIsSet, ChangeFits, Registered
<1>2. EventsAreCounted /\ StatusIsSet => TimelineIsTrue
    BY DEF EventsAreCounted, StatusIsSet, TimelineIsTrue, Occurrences, Places, Done
<1>3. QED BY <1>1, <1>2, NextCounted, NextStatus, LibraryInvHolds, WithdrawnBySomeoneHolds, PTL
          DEF Spec
=============================================================================
