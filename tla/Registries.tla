----------------------------- MODULE Registries -----------------------------
(***************************************************************************)
(* The two registries of versions that requests read while others change   *)
(* them: the watermark keys (internal/watermark/infrastructure/keys.go)    *)
(* and the fingerprint configurations (internal/fingerprint/infrastructure *)
(* /config_store.go), with the requests that embed, detect and fingerprint *)
(* (internal/watermark/application/service.go,                             *)
(* internal/service/application).                                          *)
(*                                                                         *)
(* A step is one critical section of a registry or one call of the object  *)
(* store.  A mark is represented by the key that signed it, and a secret   *)
(* verifies the marks signed with it and no others.                        *)
(***************************************************************************)
EXTENDS Integers, Sequences, FiniteSets

CONSTANTS
    Requests,      \* embeddings, detections and fingerprints, one request each
    Secrets,       \* of eight bytes or more; rotation may repeat one
    FirstSecret,   \* the configured one
    Default,       \* "perceptual-v1", the configuration every fingerprint uses
    Others,        \* further configuration ids that clients make up
    MaxKeys,       \* bound on rotations
    MaxVersions    \* bound on drafts of one configuration

ASSUME SecretAssumption  == FirstSecret \in Secrets
ASSUME DefaultAssumption == Default \notin Others
ASSUME BoundsAssumption  == MaxKeys \in Nat /\ MaxVersions \in Nat

VARIABLES
    keys,      \* Keys.keys; the version of a key is its place
    configs,   \* ConfigStore.versions: id -> the states of its versions
    mark,      \* the stored copy of each embedding: the version of its key, 0 for none
    pc,        \* "idle", "signing", "stored", "copied", "answered", "building", "saved", "failed"
    held,      \* version the request read: of the key, or of the configuration
    source,    \* the copy a detection read
    found      \* its answer: the version that verified, 0 for corrupt

vars == <<keys, configs, mark, pc, held, source, found>>
requestVars == <<mark, pc, held, source, found>>

Ids    == {Default} \cup Others
States == {"draft", "published", "retired"}
Key    == [secret : Secrets, active : BOOLEAN]

Init ==
    /\ keys = <<[secret |-> FirstSecret, active |-> TRUE]>>
    /\ configs = [a \in Ids |-> IF a = Default THEN <<"published">> ELSE <<>>]
    /\ mark = [r \in Requests |-> 0]
    /\ pc = [r \in Requests |-> "idle"]
    /\ held = [r \in Requests |-> 0]
    /\ source = [r \in Requests |-> r]
    /\ found = [r \in Requests |-> 0]

-----------------------------------------------------------------------------
(* Keys. *)

Rotate(s) ==
    /\ Len(keys) < MaxKeys
    /\ keys' = Append([i \in DOMAIN keys |-> [keys[i] EXCEPT !.active = FALSE]],
                      [secret |-> s, active |-> TRUE])
    /\ UNCHANGED <<configs, requestVars>>

Active == {i \in DOMAIN keys : keys[i].active}

\* Keys.Current: the last active one.
CurrentKey == CHOOSE i \in Active : \A k \in Active : k <= i

-----------------------------------------------------------------------------
(* Configurations. *)

InState(a, s) == {i \in DOMAIN configs[a] : configs[a][i] = s}

CreateDraft(a) ==
    /\ Len(configs[a]) < MaxVersions
    /\ configs' = [configs EXCEPT ![a] = Append(@, "draft")]
    /\ UNCHANGED <<keys, requestVars>>

\* Broken forms (named Bug...) stand before the definition they would replace.

\* The published version is not retired.
BugPromote(a, i) ==
    /\ configs' = [configs EXCEPT ![a][i] = "published"]
    /\ UNCHANGED <<keys, requestVars>>

\* The end of Publish and Rollback: what is published retires, version i is
\* published, be it the one that just retired.
Promote(a, i) ==
    /\ configs' = [configs EXCEPT ![a] =
                     [k \in DOMAIN @ |-> IF k = i THEN "published"
                                         ELSE IF @[k] = "published" THEN "retired" ELSE @[k]]]
    /\ UNCHANGED <<keys, requestVars>>

\* The youngest draft, which is older than the published version when drafts
\* were left over.
Publish(a) ==
    \E i \in InState(a, "draft") :
        /\ \A k \in InState(a, "draft") : k <= i
        /\ Promote(a, i)

Rollback(a, i) == i \in DOMAIN configs[a] /\ Promote(a, i)

\* The newest version, published or not.
BugCurrentConfig == Len(configs[Default])

\* ConfigStore.Current: the first published one.
CurrentConfig ==
    CHOOSE i \in InState(Default, "published") :
        \A k \in InState(Default, "published") : i <= k

-----------------------------------------------------------------------------
(* Requests. *)

Goto(r, from, to) == pc[r] = from /\ pc' = [pc EXCEPT ![r] = to]

\* Service.Embed signs with the key that is current now ...
EmbedCurrent(r) ==
    /\ Goto(r, "idle", "signing")
    /\ held' = [held EXCEPT ![r] = CurrentKey]
    /\ UNCHANGED <<keys, configs, mark, source, found>>

\* ... and the copy is stored later.
StoreCopy(r) ==
    /\ Goto(r, "signing", "stored")
    /\ mark' = [mark EXCEPT ![r] = held[r]]
    /\ UNCHANGED <<keys, configs, held, source, found>>

\* Objects.Bytes of App.DetectWatermark: the copy some embedding stored.
ReadCopy(r, e) ==
    /\ Goto(r, "idle", "copied")
    /\ pc[e] = "stored"
    /\ source' = [source EXCEPT ![r] = e]
    /\ UNCHANGED <<keys, configs, mark, held, found>>

\* Only the active key is tried.
BugVerifying(v) == {i \in Active : keys[i].secret = keys[v].secret}

\* The keys whose secret verifies a mark signed with version v.
Verifying(v) == {i \in DOMAIN keys : keys[i].secret = keys[v].secret}

\* Keys.All, then LSB.Detect tries the keys in their order.
Detect(r) ==
    /\ Goto(r, "copied", "answered")
    /\ LET ok == Verifying(mark[source[r]]) IN
       IF ok = {} THEN found' = [found EXCEPT ![r] = 0]
       ELSE \E i \in ok : (\A k \in ok : i <= k) /\ found' = [found EXCEPT ![r] = i]
    /\ UNCHANGED <<keys, configs, mark, held, source>>

\* App.CreateFingerprint reads the configuration and saves what it built later.
UseConfig(r) ==
    /\ Goto(r, "idle", "building")
    /\ held' = [held EXCEPT ![r] = CurrentConfig]
    /\ UNCHANGED <<keys, configs, mark, source, found>>

SaveFingerprint(r) ==
    /\ Goto(r, "building", "saved")
    /\ UNCHANGED <<keys, configs, mark, held, source, found>>

\* The context of the request ends, or the codec or a decoder refuses the data.
Abandon(r) ==
    /\ pc[r] \in {"signing", "copied", "building"}
    /\ pc' = [pc EXCEPT ![r] = "failed"]
    /\ UNCHANGED <<keys, configs, mark, held, source, found>>

Next ==
    \/ \E s \in Secrets : Rotate(s)
    \/ \E a \in Ids : CreateDraft(a) \/ Publish(a) \/ \E i \in 1..MaxVersions : Rollback(a, i)
    \/ \E r \in Requests :
          \/ EmbedCurrent(r) \/ StoreCopy(r)
          \/ (\E e \in Requests : ReadCopy(r, e)) \/ Detect(r)
          \/ UseConfig(r) \/ SaveFingerprint(r)
          \/ Abandon(r)

Spec == Init /\ [][Next]_vars

-----------------------------------------------------------------------------
(* Properties. *)

TypeOK ==
    /\ keys \in Seq(Key)
    /\ configs \in [Ids -> Seq(States)]
    /\ mark \in [Requests -> Nat]
    /\ pc \in [Requests -> {"idle", "signing", "stored", "copied", "answered",
                            "building", "saved", "failed"}]
    /\ held \in [Requests -> Nat]
    /\ source \in [Requests -> Requests]
    /\ found \in [Requests -> Nat]

\* After any sequence of rotations, drafts, publications and rollbacks there is
\* exactly one active key, the newest, and no configuration has two published
\* versions; the one that fingerprints need always has one, so that a request
\* can neither miss it nor find another than its neighbour does.
OneCurrent ==
    /\ Active = {Len(keys)}
    /\ \A a \in Ids : Cardinality(InState(a, "published")) <= 1
    /\ InState(Default, "published") # {}

\* A copy that was stored is detected, however many rotations came between the
\* reading of the key, the storing, the reading of the bytes and that of the
\* keys; the version reported has the secret that signed, and is the one that
\* signed unless an earlier key had the same secret.
EmbeddedIsDetected ==
    \A r \in Requests : pc[r] = "answered" =>
        /\ found[r] # 0
        /\ found[r] <= mark[source[r]]
        /\ keys[found[r]].secret = keys[mark[source[r]]].secret

\* A fingerprint carries the version of a configuration that was published
\* when it was read and, whatever was published or rolled back while it was
\* built, never that of a draft.
FingerprintsArePublished ==
    \A r \in Requests : pc[r] \in {"building", "saved"} =>
        held[r] \in DOMAIN configs[Default] /\ configs[Default][held[r]] # "draft"
=============================================================================
