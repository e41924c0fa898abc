---------------------------- MODULE AssetLibrary ----------------------------
(***************************************************************************)
(* The asset operations of internal/service/application (CreateAsset,      *)
(* FreezeAsset and WithdrawAsset, EmbedWatermark, CreateFingerprint) over  *)
(* the evidence service and its store, the object store and the            *)
(* fingerprint store.                                                      *)
(*                                                                         *)
(* A request is a series of calls, each atomic under the mutex of the      *)
(* store it goes to; other requests run in between, and before each call   *)
(* the request's context may end.  Every request is made once; what it     *)
(* did stays in its locals.  A digest is represented by the content it is  *)
(* the digest of.  Completed uploads are a second writer of originals.     *)
(***************************************************************************)
EXTENDS Integers, Sequences, FiniteSets

CONSTANTS
    Ids,        \* asset ids
    Requests,   \* requests
    Media,      \* what an asset shows or plays
    NoId,       \* stands for the empty id
    NoMedia     \* stands for no bytes at all

ASSUME IdsAssumption == NoId \notin Ids /\ NoMedia \notin Media

VARIABLES
    objects,        \* the object store: key -> content
    assets,         \* the evidence store: id -> asset
    timeline,       \* the evidence store: id -> events
    fingerprints,   \* the fingerprint store
    pc,             \* the next call of each request, or how it ended
    op,             \* what the request is for
    id,             \* its asset
    want,           \* the status it is to set
    copy,           \* its local copy of the asset
    content         \* the bytes it brought, read or made

storeVars   == <<objects, assets, timeline, fingerprints>>
requestVars == <<pc, op, id, want, copy, content>>
vars        == <<storeVars, requestVars>>

-----------------------------------------------------------------------------
\* Bytes are a medium, with or without a watermark in its low bits; embedding
\* a second watermark overwrites the first.
NoContent == [media |-> NoMedia, marked |-> FALSE]
Contents  == [media : Media, marked : BOOLEAN]
Unmarked(m) == [media |-> m, marked |-> FALSE]
Marked(c) == [c EXCEPT !.marked = TRUE]

\* assets/<id>/original and assets/<id>/watermarked
Keys           == Ids \X {"original", "watermarked"}
Original(i)    == <<i, "original">>
Watermarked(i) == <<i, "watermarked">>
NoKey          == <<>>

Statuses   == {"active", "frozen", "withdrawn"}
Asset      == [status : Statuses, key : Keys, digest : Contents]
NotAsset   == [status |-> "absent", key |-> NoKey, digest |-> NoContent]
Events     == {"created"} \cup Statuses
Registered(i) == assets[i] # NotAsset

Init ==
    /\ objects = [k \in Keys |-> NoContent]
    /\ assets = [i \in Ids |-> NotAsset]
    /\ timeline = [i \in Ids |-> <<>>]
    /\ fingerprints = {}
    /\ pc = [r \in Requests |-> "new"]
    /\ op = [r \in Requests |-> "none"]
    /\ id = [r \in Requests |-> NoId]
    /\ want = [r \in Requests |-> "none"]
    /\ copy = [r \in Requests |-> NotAsset]
    /\ content = [r \in Requests |-> NoContent]

\* IDs.New makes a random id, one that no asset has and no object is under.
Fresh(i) == ~Registered(i) /\ \A k \in Keys : k[1] = i => objects[k] = NoContent

Goto(r, from, to) == pc[r] = from /\ pc' = [pc EXCEPT ![r] = to]

\* The object store's Put, of bytes the request then keeps.
Put(r, k, c) ==
    /\ objects' = [objects EXCEPT ![k] = c]
    /\ content' = [content EXCEPT ![r] = c]

-----------------------------------------------------------------------------
(* Creating an asset: Put, then CreateAsset, then AddEvent. *)

\* Broken forms (named Bug...) stand before the definition they would replace.

\* The asset is registered although its object could not be stored.
BugCreateAsset(r, i, c) ==
    /\ Goto(r, "new", "register")
    /\ op' = [op EXCEPT ![r] = "create"]
    /\ id' = [id EXCEPT ![r] = i]
    /\ content' = [content EXCEPT ![r] = c]
    /\ UNCHANGED <<storeVars, want, copy>>

\* The id is a fresh one, or made of the idempotency key: then it may be any.
CreateAsset(r, i, c) ==
    /\ Goto(r, "new", "register")
    /\ Put(r, Original(i), c)
    /\ op' = [op EXCEPT ![r] = "create"]
    /\ id' = [id EXCEPT ![r] = i]
    /\ UNCHANGED <<assets, timeline, fingerprints, want, copy>>

\* A completed upload stores its object; it registers nothing.
StoreUpload(r, i, c) ==
    /\ Goto(r, "new", "ok")
    /\ Put(r, Original(i), c)
    /\ op' = [op EXCEPT ![r] = "upload"]
    /\ id' = [id EXCEPT ![r] = i]
    /\ UNCHANGED <<assets, timeline, fingerprints, want, copy>>

\* The asset that request r registers.
NewAsset(r) ==
    [status |-> "active",
     key    |-> IF op[r] = "create" THEN Original(id[r]) ELSE Watermarked(id[r]),
     digest |-> content[r]]

\* The store replaces an asset that exists.
BugRegister(r) ==
    /\ Goto(r, "register", "event")
    /\ assets' = [assets EXCEPT ![id[r]] = NewAsset(r)]
    /\ want' = [want EXCEPT ![r] = "created"]
    /\ UNCHANGED <<objects, timeline, fingerprints, op, id, copy, content>>

Register(r) ==
    /\ Goto(r, "register", "event")
    /\ ~Registered(id[r])
    /\ assets' = [assets EXCEPT ![id[r]] = NewAsset(r)]
    /\ want' = [want EXCEPT ![r] = "created"]
    /\ UNCHANGED <<objects, timeline, fingerprints, op, id, copy, content>>

\* "already exists": the object has been replaced all the same.
RegisterRefused(r) ==
    /\ Goto(r, "register", "error")
    /\ Registered(id[r])
    /\ UNCHANGED <<storeVars, op, id, want, copy, content>>

AddEvent(r) ==
    /\ Goto(r, "event", "ok")
    /\ timeline' = [timeline EXCEPT ![id[r]] = Append(@, want[r])]
    /\ UNCHANGED <<objects, assets, fingerprints, op, id, want, copy, content>>

\* The context has ended: the event is lost and the request succeeds.
EventLost(r) ==
    /\ Goto(r, "event", "ok")
    /\ UNCHANGED <<storeVars, op, id, want, copy, content>>

-----------------------------------------------------------------------------
(* Changing the status: GetAsset, UpdateAsset, AddEvent. *)

\* A withdrawn asset is let through.
BugMayChange(a) == a # NotAsset

\* The checks of ChangeStatus; the routes ask for valid statuses only.
MayChange(a) == a # NotAsset /\ a.status # "withdrawn"

ChangeStatus(r, i, s) ==
    /\ Goto(r, "new", "update")
    /\ MayChange(assets[i])
    /\ op' = [op EXCEPT ![r] = "status"]
    /\ id' = [id EXCEPT ![r] = i]
    /\ want' = [want EXCEPT ![r] = s]
    /\ copy' = [copy EXCEPT ![r] = assets[i]]
    /\ UNCHANGED <<storeVars, content>>

UpdateAsset(r) ==
    /\ Goto(r, "update", "event")
    /\ assets' = [assets EXCEPT ![id[r]] = [copy[r] EXCEPT !.status = want[r]]]
    /\ UNCHANGED <<objects, timeline, fingerprints, op, id, want, copy, content>>

-----------------------------------------------------------------------------
(* Using an asset: GetAsset and Bytes, then Put and CreateAsset for the    *)
(* watermarked copy, or Save for the fingerprint.                          *)

UseAsset(r, i, o) ==
    /\ Goto(r, "new", "read")
    /\ assets[i].status = "active"
    /\ op' = [op EXCEPT ![r] = o]
    /\ id' = [id EXCEPT ![r] = i]
    /\ copy' = [copy EXCEPT ![r] = assets[i]]
    /\ UNCHANGED <<storeVars, want, content>>

ReadObject(r) ==
    /\ Goto(r, "read", IF op[r] = "embed" THEN "store" ELSE "save")
    /\ content' = [content EXCEPT ![r] = objects[copy[r].key]]
    /\ UNCHANGED <<storeVars, op, id, want, copy>>

\* The watermarked bytes are stored where the original is.
BugStoreWatermarked(r, i) ==
    /\ Goto(r, "store", "register")
    /\ Fresh(i)
    /\ Put(r, copy[r].key, Marked(content[r]))
    /\ id' = [id EXCEPT ![r] = i]
    /\ UNCHANGED <<assets, timeline, fingerprints, op, want, copy>>

StoreWatermarked(r, i) ==
    /\ Goto(r, "store", "register")
    /\ Fresh(i)
    /\ Put(r, Watermarked(i), Marked(content[r]))
    /\ id' = [id EXCEPT ![r] = i]
    /\ UNCHANGED <<assets, timeline, fingerprints, op, want, copy>>

SaveFingerprint(r) ==
    /\ Goto(r, "save", "ok")
    /\ fingerprints' = fingerprints \cup {[asset |-> id[r], of |-> content[r]]}
    /\ UNCHANGED <<objects, assets, timeline, op, id, want, copy, content>>

\* An update that failed is taken for done, as a lost event is.
BugAbandon(r) ==
    /\ pc[r] \in {"register", "update", "read", "store", "save"}
    /\ pc' = [pc EXCEPT ![r] = IF @ = "update" THEN "event" ELSE "error"]
    /\ UNCHANGED <<storeVars, op, id, want, copy, content>>

\* The context ends before the next call, or the decoder or the codec refuses
\* the bytes that were read.
Abandon(r) ==
    /\ pc[r] \in {"register", "update", "read", "store", "save"}
    /\ pc' = [pc EXCEPT ![r] = "error"]
    /\ UNCHANGED <<storeVars, op, id, want, copy, content>>

-----------------------------------------------------------------------------
Begin(r) ==
    \E i \in Ids :
        \/ \E m \in Media :
              \/ CreateAsset(r, i, Unmarked(m))
              \/ StoreUpload(r, i, Unmarked(m))
        \/ \E s \in {"frozen", "withdrawn"} : ChangeStatus(r, i, s)
        \/ \E o \in {"embed", "fingerprint"} : UseAsset(r, i, o)

Continue(r) ==
    \/ Register(r) \/ RegisterRefused(r)
    \/ AddEvent(r) \/ EventLost(r)
    \/ UpdateAsset(r)
    \/ ReadObject(r)
    \/ \E i \in Ids : StoreWatermarked(r, i)
    \/ SaveFingerprint(r)
    \/ Abandon(r)

Next == \E r \in Requests : Begin(r) \/ Continue(r)

Spec == Init /\ [][Next]_vars

-----------------------------------------------------------------------------
(* Properties. *)

\* Every variable holds a value of its type.
TypeOK ==
    /\ objects \in [Keys -> Contents \cup {NoContent}]
    /\ assets \in [Ids -> Asset \cup {NotAsset}]
    /\ timeline \in [Ids -> Seq(Events)]
    /\ fingerprints \subseteq [asset : Ids, of : Contents]
    /\ pc \in [Requests -> {"new", "register", "event", "update", "read", "store", "save",
                            "ok", "error"}]
    /\ op \in [Requests -> {"none", "create", "upload", "status", "embed", "fingerprint"}]
    /\ id \in [Requests -> Ids \cup {NoId}]
    /\ want \in [Requests -> Events \cup {"none"}]
    /\ copy \in [Requests -> Asset \cup {NotAsset}]
    /\ content \in [Requests -> Contents \cup {NoContent}]

\* A registered asset has its object in the store, and a watermarked one holds
\* a watermark: reading an asset never finds nothing.
RegisteredIsStored ==
    \A i \in Ids : Registered(i) =>
        /\ objects[assets[i].key] # NoContent
        /\ assets[i].key = Watermarked(i) => objects[assets[i].key].marked

\* Some request wrote c as the original of i without registering it: a
\* creation that is not done or was refused, or an upload of that name.
Intruded(i, c) ==
    \E r \in Requests :
        /\ op[r] \in {"create", "upload"} /\ id[r] = i /\ content[r] = c
        /\ op[r] = "create" => pc[r] \in {"register", "error"}

\* The digest of an asset is that of its object, and a fingerprint is one of
\* the bytes the asset was registered with, unless another writer intruded on
\* that very asset: embedding and status changes never separate them.
DigestsAgree ==
    /\ \A i \in Ids : Registered(i) /\ objects[assets[i].key] # assets[i].digest =>
          assets[i].key = Original(i) /\ Intruded(i, objects[assets[i].key])
    /\ \A f \in fingerprints : f.of # assets[f.asset].digest =>
          assets[f.asset].key = Original(f.asset) /\ Intruded(f.asset, f.of)

\* How often an event occurs in a timeline.
Occurrences(i, e) == Cardinality({n \in DOMAIN timeline[i] : timeline[i][n] = e})

\* The requests that have changed the status of i.
Changed(i) == {r \in Requests : op[r] = "status" /\ id[r] = i /\ pc[r] \in {"event", "ok"}}

\* A timeline tells of no creation and no change that was not made, and of each
\* once at most, although it is written after the fact and by requests that may
\* be late, refused or abandoned; and the status is one that a request that
\* reported success, or is about to, has set.
TimelineIsTrue ==
    \A i \in Ids :
        /\ \A e \in Events :
              Occurrences(i, e) <=
                  Cardinality({r \in Requests : id[r] = i /\ want[r] = e /\ pc[r] = "ok"})
        /\ Registered(i) =>
              IF Changed(i) = {}
              THEN assets[i].status = "active"
              ELSE \E r \in Changed(i) : assets[i].status = want[r]

\* A registration is final: no second creation under the same idempotency key
\* and no stale copy written back ever changes whose bytes an asset stands for.
RegistrationIsFinal ==
    [][\A i \in Ids : Registered(i) =>
         assets'[i] # NotAsset /\ assets'[i].key = assets[i].key
                               /\ assets'[i].digest = assets[i].digest]_vars

\* A withdrawn asset leaves that status only by the hand of a request that read
\* it before it was withdrawn.
OnlyOverlapRevives ==
    [][\A i \in Ids : assets[i].status = "withdrawn" /\ assets'[i].status # "withdrawn" =>
         \E r \in Requests :
             /\ pc[r] = "update" /\ id[r] = i /\ copy[r].status \in {"active", "frozen"}
             /\ \E q \in Changed(i) \ {r} : want[q] = "withdrawn"]_vars

\* "withdrawn asset cannot change status" (internal/evidence/application/service.go:46).
WithdrawnIsFinal ==
    [][\A i \in Ids : assets[i].status = "withdrawn" => assets'[i].status = "withdrawn"]_vars
=============================================================================
