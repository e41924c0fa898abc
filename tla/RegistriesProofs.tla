-------------------------- MODULE RegistriesProofs --------------------------
(***************************************************************************)
(* Proofs about Registries, for any numbers of keys, configurations,       *)
(* versions and requests.                                                  *)
(***************************************************************************)
EXTENDS Registries, FiniteSetTheorems, TLAPS

\* A key is active when it is the newest.
NewestIsActive ==
    /\ keys # <<>>
    /\ \A i \in DOMAIN keys : keys[i].active <=> i = Len(keys)

\* No two versions are published, and of the default one is.
OnePublished ==
    /\ \A a \in Ids : \A i, k \in InState(a, "published") : i = k
    /\ InState(Default, "published") # {}

\* A request that is about to store holds a key's version, a stored copy was
\* signed with one, and a detection has a stored copy.
Signed ==
    \A r \in Requests :
        /\ pc[r] = "signing" => held[r] \in DOMAIN keys
        /\ pc[r] = "stored" => mark[r] \in DOMAIN keys
        /\ pc[r] \in {"copied", "answered"} => pc[source[r]] = "stored"

RegistriesInv ==
    TypeOK /\ NewestIsActive /\ OnePublished /\ Signed
           /\ EmbeddedIsDetected /\ FingerprintsArePublished

-----------------------------------------------------------------------------
\* The key that is current is the newest.
LEMMA CurrentIsNewest ==
    ASSUME TypeOK, NewestIsActive
    PROVE  Active = {Len(keys)} /\ CurrentKey = Len(keys) /\ Len(keys) \in DOMAIN keys
  <1>1. Len(keys) \in DOMAIN keys /\ DOMAIN keys = 1..Len(keys) /\ Len(keys) \in Nat
    BY DEF TypeOK, NewestIsActive
  <1>2. Active = {Len(keys)}
    BY <1>1 DEF Active, NewestIsActive
  <1> QED BY <1>1, <1>2 DEF CurrentKey

\* The configuration that is current is a published version.
LEMMA CurrentIsPublished ==
    ASSUME TypeOK, OnePublished
    PROVE  CurrentConfig \in InState(Default, "published")
  <1>1. PICK i \in InState(Default, "published") : TRUE
    BY DEF OnePublished
  <1>2. InState(Default, "published") = {i}
    BY <1>1, DefaultAssumption DEF OnePublished, Ids
  <1>3. i \in Nat
    BY <1>1 DEF InState, TypeOK, Ids
  <1> QED BY <1>2, <1>3 DEF CurrentConfig

\* Rotation appends: the keys there were keep their secrets.
LEMMA RotateKeeps ==
    ASSUME RegistriesInv, NEW s \in Secrets, Rotate(s)
    PROVE  RegistriesInv'
  <1> DEFINE old == [i \in DOMAIN keys |-> [keys[i] EXCEPT !.active = FALSE]]
             new == [secret |-> s, active |-> TRUE]
  <1>1. /\ keys \in Seq(Key) /\ Len(keys) \in Nat /\ DOMAIN keys = 1..Len(keys)
        /\ keys' = Append(old, new)
        /\ UNCHANGED <<configs, mark, pc, held, source, found>>
    BY DEF Rotate, requestVars, RegistriesInv, TypeOK
  <1>2. old \in Seq(Key) /\ Len(old) = Len(keys) /\ new \in Key
    <2>1. ASSUME NEW i \in 1..Len(keys)
          PROVE  old[i] \in Key
      <3>1. keys[i] \in Key /\ old[i] = [keys[i] EXCEPT !.active = FALSE]
        BY <1>1
      <3> HIDE DEF old
      <3> QED BY <3>1 DEF Key
    <2>2. DOMAIN old = 1..Len(keys)
      BY <1>1
    <2>3. old \in [1..Len(keys) -> Key]
      BY <2>1, <2>2
    <2>4. new \in Key
      BY DEF Key
    <2> HIDE DEF old
    <2> QED BY <1>1, <2>3, <2>4
  <1>3. /\ keys' \in Seq(Key) /\ Len(keys') = Len(keys) + 1 /\ DOMAIN keys' = 1 .. Len(keys) + 1
        /\ keys'[Len(keys) + 1] = new
        /\ \A i \in DOMAIN keys : keys'[i] = old[i]
    BY <1>1, <1>2
  <1>4. /\ DOMAIN keys \subseteq DOMAIN keys'
        /\ \A i \in DOMAIN keys : keys'[i].secret = keys[i].secret /\ ~keys'[i].active
    BY <1>1, <1>3 DEF Key
  <1>5. TypeOK'
    BY <1>1, <1>3 DEF RegistriesInv, TypeOK
  <1>6. NewestIsActive'
    BY <1>1, <1>3, <1>4 DEF NewestIsActive
  <1>7. OnePublished'
    BY <1>1 DEF RegistriesInv, OnePublished, InState
  <1>8. Signed'
    BY <1>1, <1>4 DEF RegistriesInv, Signed
  <1>9. EmbeddedIsDetected'
    <2> SUFFICES ASSUME NEW r \in Requests, pc[r] = "answered"
                 PROVE  /\ found[r] # 0 /\ found[r] <= mark[source[r]]
                        /\ keys'[found[r]].secret = keys'[mark[source[r]]].secret
      BY <1>1 DEF EmbeddedIsDetected
    <2>1. source[r] \in Requests /\ mark[source[r]] \in DOMAIN keys /\ found[r] \in Nat
      BY DEF RegistriesInv, TypeOK, Signed
    <2>2. /\ found[r] # 0 /\ found[r] <= mark[source[r]]
          /\ keys[found[r]].secret = keys[mark[source[r]]].secret
      BY DEF RegistriesInv, EmbeddedIsDetected
    <2>3. found[r] \in DOMAIN keys
      BY <1>1, <2>1, <2>2
    <2> QED BY <1>4, <2>1, <2>2, <2>3
  <1>10. FingerprintsArePublished'
    BY <1>1 DEF RegistriesInv, FingerprintsArePublished
  <1> QED BY <1>5, <1>6, <1>7, <1>8, <1>9, <1>10 DEF RegistriesInv

\* A change of the configurations that keeps one published version, of the
\* default at least one, and turns no version back into a draft.
Evolves(a) ==
    /\ a \in Ids
    /\ configs' \in [Ids -> Seq(States)]
    /\ \A b \in Ids \ {a} : configs'[b] = configs[b]
    /\ \A i, k \in DOMAIN configs'[a] :
          configs'[a][i] = "published" /\ configs'[a][k] = "published" => i = k
    /\ InState(a, "published") # {} => \E i \in DOMAIN configs'[a] : configs'[a][i] = "published"
    /\ \A i \in DOMAIN configs[a] :
          i \in DOMAIN configs'[a] /\ (configs[a][i] # "draft" => configs'[a][i] # "draft")
    /\ UNCHANGED <<keys, requestVars>>

\* A sequence of versions that evolves so keeps the invariant.
LEMMA EvolvingKeeps ==
    ASSUME RegistriesInv, NEW a, Evolves(a)
    PROVE  RegistriesInv'
  <1>1. UNCHANGED <<keys, mark, pc, held, source, found>>
    BY DEF Evolves, requestVars
  <1>2. TypeOK'
    BY <1>1 DEF Evolves, RegistriesInv, TypeOK
  <1>3. NewestIsActive' /\ Signed' /\ EmbeddedIsDetected'
    BY <1>1 DEF RegistriesInv, NewestIsActive, Signed, EmbeddedIsDetected
  <1>4. OnePublished'
    <2>1. \A b \in Ids : \A i, k \in InState(b, "published")' : i = k
      BY DEF Evolves, RegistriesInv, OnePublished, InState
    <2>2. InState(Default, "published")' # {}
      <3>1. CASE a = Default
        BY <3>1 DEF Evolves, RegistriesInv, OnePublished, InState
      <3>2. CASE a # Default
        BY <3>2 DEF Evolves, RegistriesInv, OnePublished, InState, Ids
      <3> QED BY <3>1, <3>2
    <2> QED BY <2>1, <2>2 DEF OnePublished
  <1>5. FingerprintsArePublished'
    <2> SUFFICES ASSUME NEW r \in Requests, pc[r] \in {"building", "saved"}
                 PROVE  held[r] \in DOMAIN configs'[Default] /\ configs'[Default][held[r]] # "draft"
      BY <1>1 DEF FingerprintsArePublished
    <2>1. held[r] \in DOMAIN configs[Default] /\ configs[Default][held[r]] # "draft"
      BY DEF RegistriesInv, FingerprintsArePublished
    <2> QED BY <2>1 DEF Evolves, Ids
  <1> QED BY <1>2, <1>3, <1>4, <1>5 DEF RegistriesInv

\* Drafts, publications and rollbacks are such changes.
LEMMA DraftEvolves ==
    ASSUME RegistriesInv, NEW a \in Ids, CreateDraft(a)
    PROVE  Evolves(a)
  <1> DEFINE s == configs[a]
             t == Append(s, "draft")
  <1>1. s \in Seq(States) /\ configs \in [Ids -> Seq(States)]
    BY DEF RegistriesInv, TypeOK
  <1>2. configs' = [configs EXCEPT ![a] = t] /\ UNCHANGED <<keys, requestVars>>
    BY DEF CreateDraft
  <1>3. /\ t \in Seq(States) /\ DOMAIN t = DOMAIN s \cup {Len(s) + 1}
        /\ t[Len(s) + 1] = "draft" /\ \A i \in DOMAIN s : t[i] = s[i]
    BY <1>1 DEF States
  <1>4. configs'[a] = t /\ \A b \in Ids \ {a} : configs'[b] = configs[b]
    BY <1>1, <1>2
  <1>5. \A i, k \in DOMAIN t : t[i] = "published" /\ t[k] = "published" => i = k
    BY <1>3 DEF RegistriesInv, OnePublished, InState
  <1>6. InState(a, "published") # {} => \E i \in DOMAIN t : t[i] = "published"
    BY <1>3 DEF InState
  <1>7. configs' \in [Ids -> Seq(States)]
    BY <1>1, <1>2, <1>3
  <1> QED BY <1>2, <1>3, <1>4, <1>5, <1>6, <1>7 DEF Evolves

\* To publish a version, by Publish or by Rollback, is to evolve so.
LEMMA PromoteEvolves ==
    ASSUME RegistriesInv, NEW a \in Ids, NEW i \in DOMAIN configs[a], Promote(a, i)
    PROVE  Evolves(a)
  <1> DEFINE s == configs[a]
             t == [k \in DOMAIN s |-> IF k = i THEN "published"
                                      ELSE IF s[k] = "published" THEN "retired" ELSE s[k]]
  <1>1. s \in Seq(States) /\ configs \in [Ids -> Seq(States)]
    BY DEF RegistriesInv, TypeOK
  <1>2. configs' = [configs EXCEPT ![a] = t] /\ UNCHANGED <<keys, requestVars>>
    BY <1>1 DEF Promote
  <1>3. t \in Seq(States)
    BY <1>1 DEF States
  <1>4. configs'[a] = t /\ \A b \in Ids \ {a} : configs'[b] = configs[b]
    BY <1>1, <1>2
  <1>5. configs' \in [Ids -> Seq(States)]
    BY <1>1, <1>2, <1>3
  <1> QED BY <1>2, <1>4, <1>5 DEF Evolves

-----------------------------------------------------------------------------
\* The steps of requests.
LEMMA RequestKeeps ==
    ASSUME RegistriesInv, NEW r \in Requests,
           \/ EmbedCurrent(r) \/ StoreCopy(r)
           \/ (\E e \in Requests : ReadCopy(r, e)) \/ Detect(r)
           \/ UseConfig(r) \/ SaveFingerprint(r) \/ Abandon(r)
    PROVE  RegistriesInv'
  <1> USE DEF Goto
  <1>1. CASE EmbedCurrent(r)
    <2>1. CurrentKey \in DOMAIN keys /\ CurrentKey \in Nat
      BY CurrentIsNewest DEF RegistriesInv, TypeOK
    <2> QED BY <1>1, <2>1 DEF EmbedCurrent, RegistriesInv, TypeOK, NewestIsActive, OnePublished, InState,
            Signed, EmbeddedIsDetected, FingerprintsArePublished
  <1>2. CASE StoreCopy(r)
    BY <1>2 DEF StoreCopy, RegistriesInv, TypeOK, NewestIsActive, OnePublished, InState,
            Signed, EmbeddedIsDetected, FingerprintsArePublished
  <1>3. ASSUME NEW e \in Requests, ReadCopy(r, e)
        PROVE  RegistriesInv'
    <2>1. /\ pc[r] = "idle" /\ pc[e] = "stored" /\ pc' = [pc EXCEPT ![r] = "copied"]
          /\ source' = [source EXCEPT ![r] = e]
          /\ UNCHANGED <<keys, configs, mark, held, found>>
      BY <1>3 DEF ReadCopy
    <2>2. TypeOK'
      BY <2>1 DEF RegistriesInv, TypeOK
    <2>3. NewestIsActive' /\ OnePublished'
      BY <2>1 DEF RegistriesInv, NewestIsActive, OnePublished, InState
    <2>4. Signed'
      BY <2>1 DEF RegistriesInv, TypeOK, Signed
    <2>5. EmbeddedIsDetected' /\ FingerprintsArePublished'
      BY <2>1 DEF RegistriesInv, TypeOK, EmbeddedIsDetected, FingerprintsArePublished
    <2> QED BY <2>2, <2>3, <2>4, <2>5 DEF RegistriesInv
  <1>4. CASE Detect(r)
    <2> DEFINE v == mark[source[r]]
    <2>1. source[r] \in Requests /\ v \in DOMAIN keys /\ v \in Nat
      BY <1>4 DEF Detect, RegistriesInv, TypeOK, Signed
    <2>2. v \in Verifying(v)
      BY <2>1 DEF Verifying
    <2>3. PICK i \in Verifying(v) : (\A k \in Verifying(v) : i <= k) /\ found' = [found EXCEPT ![r] = i]
      BY <1>4, <2>2 DEF Detect
    <2>4. i \in DOMAIN keys /\ i \in Nat /\ i # 0 /\ i <= v /\ keys[i].secret = keys[v].secret
      BY <2>2, <2>3 DEF Verifying, RegistriesInv, TypeOK
    <2>5. UNCHANGED <<keys, configs, mark, held, source>> /\ pc' = [pc EXCEPT ![r] = "answered"]
          /\ pc[r] = "copied"
      BY <1>4 DEF Detect
    <2>6. EmbeddedIsDetected'
      BY <2>3, <2>4, <2>5 DEF RegistriesInv, TypeOK, EmbeddedIsDetected
    <2>7. Signed'
      BY <2>5 DEF RegistriesInv, TypeOK, Signed
    <2>8. TypeOK'
      BY <2>3, <2>4, <2>5 DEF RegistriesInv, TypeOK
    <2>9. NewestIsActive' /\ OnePublished'
      BY <2>5 DEF RegistriesInv, NewestIsActive, OnePublished, InState
    <2>10. FingerprintsArePublished'
      BY <2>5 DEF RegistriesInv, TypeOK, FingerprintsArePublished
    <2> QED BY <2>6, <2>7, <2>8, <2>9, <2>10 DEF RegistriesInv
  <1>5. CASE UseConfig(r)
    <2>1. CurrentConfig \in DOMAIN configs[Default] /\ configs[Default][CurrentConfig] = "published"
      BY CurrentIsPublished DEF RegistriesInv, InState
    <2>2. CurrentConfig \in Nat
      BY <2>1 DEF RegistriesInv, TypeOK, Ids
    <2> QED BY <1>5, <2>1, <2>2 DEF UseConfig, RegistriesInv, TypeOK, NewestIsActive, OnePublished, InState,
            Signed, EmbeddedIsDetected, FingerprintsArePublished
  <1>6. CASE SaveFingerprint(r)
    BY <1>6 DEF SaveFingerprint, RegistriesInv, TypeOK, NewestIsActive, OnePublished, InState,
            Signed, EmbeddedIsDetected, FingerprintsArePublished
  <1>7. CASE Abandon(r)
    BY <1>7 DEF Abandon, RegistriesInv, TypeOK, NewestIsActive, OnePublished, InState,
            Signed, EmbeddedIsDetected, FingerprintsArePublished
  <1> QED BY <1>1, <1>2, <1>3, <1>4, <1>5, <1>6, <1>7

\* One key and no configuration, as the stores are made.
LEMMA InitRegistries == Init => RegistriesInv
  <1> SUFFICES ASSUME Init PROVE RegistriesInv
    OBVIOUS
  <1>1. TypeOK
    <2>1. keys \in Seq(Key)
      BY SecretAssumption DEF Init, Key
    <2>2. configs \in [Ids -> Seq(States)]
      <3>1. <<"published">> \in Seq(States) /\ <<>> \in Seq(States)
        BY DEF States
      <3> QED BY <3>1 DEF Init
    <2> QED BY <2>1, <2>2 DEF Init, TypeOK
  <1>2. NewestIsActive
    BY DEF Init, NewestIsActive
  <1>3. \A a \in Ids : InState(a, "published") = IF a = Default THEN {1} ELSE {}
    BY DEF Init, InState, Ids
  <1>4. OnePublished
    BY <1>3 DEF OnePublished, Ids
  <1>5. Signed /\ EmbeddedIsDetected /\ FingerprintsArePublished
    BY DEF Init, Signed, EmbeddedIsDetected, FingerprintsArePublished
  <1> QED BY <1>1, <1>2, <1>4, <1>5 DEF RegistriesInv

\* The invariant of the registries and of the requests that read them.
THEOREM RegistriesInvariant == Spec => []RegistriesInv
  <1>1. RegistriesInv /\ [Next]_vars => RegistriesInv'
    <2> SUFFICES ASSUME RegistriesInv, [Next]_vars
                 PROVE  RegistriesInv'
      OBVIOUS
    <2>1. ASSUME NEW a \in Ids, NEW i \in DOMAIN configs[a], Promote(a, i)
          PROVE  RegistriesInv'
      BY <2>1, PromoteEvolves, EvolvingKeeps
    <2>2. ASSUME NEW a \in Ids, CreateDraft(a)
          PROVE  RegistriesInv'
      BY <2>2, DraftEvolves, EvolvingKeeps
    <2>3. ASSUME NEW a \in Ids, Publish(a) \/ \E i \in 1..MaxVersions : Rollback(a, i)
          PROVE  RegistriesInv'
      BY <2>1, <2>3 DEF Publish, Rollback, InState
    <2>4. CASE UNCHANGED vars
      BY <2>4 DEF vars, requestVars, RegistriesInv, TypeOK, NewestIsActive, OnePublished, InState,
            Signed, EmbeddedIsDetected, FingerprintsArePublished, Active
    <2> QED BY <2>2, <2>3, <2>4, RotateKeeps, RequestKeeps DEF Next
  <1> QED BY <1>1, InitRegistries, PTL DEF Spec

\* Exactly one key is active and, of the configuration that fingerprints use,
\* one version is published, after any sequence of changes.
THEOREM OneCurrentHolds == Spec => []OneCurrent
  <1>1. RegistriesInv => OneCurrent
    <2> SUFFICES ASSUME RegistriesInv PROVE OneCurrent
      OBVIOUS
    <2>1. Active = {Len(keys)}
      BY CurrentIsNewest DEF RegistriesInv
    <2>2. ASSUME NEW a \in Ids
          PROVE  Cardinality(InState(a, "published")) <= 1
      <3>1. CASE InState(a, "published") = {}
        BY <3>1, FS_EmptySet
      <3>2. ASSUME NEW i \in InState(a, "published")
            PROVE  Cardinality(InState(a, "published")) <= 1
        <4>1. InState(a, "published") = {i}
          BY <3>2 DEF RegistriesInv, OnePublished
        <4>2. Cardinality({i}) = 1
          BY FS_Singleton, Zenon
        <4> QED BY <4>1, <4>2
      <3> QED BY <3>1, <3>2
    <2> QED BY <2>1, <2>2 DEF OneCurrent, RegistriesInv, OnePublished
  <1> QED BY <1>1, RegistriesInvariant, PTL

\* Every stored copy is detected, with the secret that signed it, however the
\* keys were rotated in between.
THEOREM EmbeddedIsDetectedHolds == Spec => []EmbeddedIsDetected
  <1>1. RegistriesInv => EmbeddedIsDetected
    BY DEF RegistriesInv
  <1> QED BY <1>1, RegistriesInvariant, PTL

\* No fingerprint carries the version of a draft.
THEOREM FingerprintsArePublishedHolds == Spec => []FingerprintsArePublished
  <1>1. RegistriesInv => FingerprintsArePublished
    BY DEF RegistriesInv
  <1> QED BY <1>1, RegistriesInvariant, PTL
=============================================================================
