------------------------------ MODULE BundleProofs ------------------------------
(***************************************************************************)
(* Theorems about the log bundles of a replay (modules LogBundle and       *)
(* Replay): what a replay reads exports to a bundle the import accepts,    *)
(* and no part of a bundle can be changed unnoticed.                       *)
(***************************************************************************)
EXTENDS ReplayProofs, FiniteSetTheorems

-----------------------------------------------------------------------------
(* Sequences and records.                                                  *)

LEMMA WithDomain ==
  ASSUME NEW record, NEW more
  PROVE  /\ DOMAIN With(record, more) = DOMAIN record \cup DOMAIN more
         /\ \A key \in DOMAIN more : With(record, more)[key] = more[key]
         /\ \A key \in DOMAIN record \ DOMAIN more : With(record, more)[key] = record[key]
BY DEF With

LEMMA EvaluatedIsSame ==
  ASSUME NEW n \in Nat, NEW f, f = [i \in 1 .. n |-> f[i]]
  PROVE  Evaluated(f) = f /\ Len(f) = n /\ DOMAIN f = 1 .. n
<1> DEFINE S == {f[i] : i \in 1 .. n}
<1>1. f \in [1 .. n -> S]
  OBVIOUS
<1>2. f \in Seq(S)
  BY <1>1, SeqDef
<1>3. Len(f) = n /\ DOMAIN f = 1 .. n
  BY <1>1, <1>2, LenProperties
<1>4. \A i \in 1 .. n : f[i] \in S
  OBVIOUS
<1> HIDE DEF S
<1>5. CASE n = 0
  <2>1. SubSeq(f, 1, Len(f)) \in Seq(S) /\ Len(SubSeq(f, 1, Len(f))) = 0
    BY <1>3, <1>4, <1>5, SubSeqProperties
  <2> QED
    BY <1>2, <1>3, <1>5, <2>1, SeqEqual DEF Evaluated
<1>6. CASE n # 0
  <2>1. /\ SubSeq(f, 1, n) \in Seq(S) /\ Len(SubSeq(f, 1, n)) = IF 1 <= n THEN n - 1 + 1 ELSE 0
        /\ \A i \in 1 .. n - 1 + 1 : SubSeq(f, 1, n)[i] = f[1 + i - 1]
    BY <1>3, <1>4, SubSeqProperties
  <2>2. /\ n - 1 + 1 = n /\ 1 <= n
        /\ \A i \in 1 .. n : 1 + i - 1 = i
    BY <1>6
  <2>3. Len(SubSeq(f, 1, n)) = n /\ \A i \in 1 .. n : SubSeq(f, 1, n)[i] = f[i]
    BY <2>1, <2>2
  <2> QED
    BY <1>2, <1>3, <2>1, <2>3, SeqEqual DEF Evaluated
<1> QED
  BY <1>3, <1>5, <1>6

\* As many values as positions, when no two positions hold the same.
LEMMA DistinctValues ==
  ASSUME NEW n \in Nat, NEW value, value = [i \in 1 .. n |-> value[i]],
         \A i, j \in 1 .. n : value[i] = value[j] => i = j
  PROVE  Cardinality({value[i] : i \in 1 .. n}) = n
<1> DEFINE T == {value[i] : i \in 1 .. n}
<1>1. value \in [1 .. n -> T]
  OBVIOUS
<1>2. value \in Bijection(1 .. n, T)
  BY <1>1 DEF Bijection, Injection, Surjection, IsInjective
<1>3. IsFiniteSet(1 .. n) /\ Cardinality(1 .. n) = n
  <2>1. 1 \in Int /\ n \in Int
    OBVIOUS
  <2>2. IsFiniteSet(1 .. n) /\ Cardinality(1 .. n) = IF 1 > n THEN 0 ELSE n - 1 + 1
    BY ONLY <2>1, FS_Interval
  <2> QED
    BY <2>2
<1> HIDE DEF T
<1>4. ExistsBijection(1 .. n, T)
  BY <1>2 DEF ExistsBijection
<1> QED
  BY <1>3, <1>4, FS_Bijection DEF T

-----------------------------------------------------------------------------
(* Manifests and bundles.                                                  *)

\* A sealed manifest is what it was with its hash, which covers all the rest.
LEMMA SealedIsIntact ==
  ASSUME NEW m, "manifestHash" \notin DOMAIN m
  PROVE  /\ ManifestIntact(Sealed(m))
         /\ DOMAIN Sealed(m) = DOMAIN m \cup {"manifestHash"}
         /\ \A key \in DOMAIN m : Sealed(m)[key] = m[key]
         /\ Sealed(m) = [key \in DOMAIN Sealed(m) |-> Sealed(m)[key]]
<1> DEFINE more == [manifestHash |-> ManifestHash(m)]
<1>1. DOMAIN more = {"manifestHash"} /\ more["manifestHash"] = ManifestHash(m)
  OBVIOUS
<1> HIDE DEF more
<1>2. Sealed(m) = With(m, more)
  BY DEF Sealed, more
<1>3. /\ DOMAIN Sealed(m) = DOMAIN m \cup {"manifestHash"}
      /\ Sealed(m)["manifestHash"] = ManifestHash(m)
      /\ \A key \in DOMAIN m : Sealed(m)[key] = m[key]
  <2>1. /\ DOMAIN With(m, more) = DOMAIN m \cup DOMAIN more
        /\ \A key \in DOMAIN more : With(m, more)[key] = more[key]
        /\ \A key \in DOMAIN m \ DOMAIN more : With(m, more)[key] = m[key]
    BY ONLY WithDomain
  <2>2. \A key \in DOMAIN m : key \notin DOMAIN more
    BY <1>1
  <2> QED
    BY <1>1, <1>2, <2>1, <2>2
<1>4. DOMAIN Sealed(m) \ {"manifestHash"} = DOMAIN m \ {"manifestHash"}
  BY <1>3
<1>5. [key \in DOMAIN Sealed(m) \ {"manifestHash"} |-> Sealed(m)[key]]
        = [key \in DOMAIN m \ {"manifestHash"} |-> m[key]]
  BY <1>3, <1>4
<1>6. ManifestHash(Sealed(m)) = ManifestHash(m)
  BY <1>5 DEF ManifestHash
<1>7. Sealed(m) = [key \in DOMAIN Sealed(m) |-> Sealed(m)[key]]
  BY <1>2 DEF With
<1> QED
  BY <1>3, <1>6, <1>7 DEF ManifestIntact

\* Two intact manifests with the same keys and the same hash are the same.
LEMMA HashTellsManifests ==
  ASSUME NEW m, NEW other, ManifestIntact(m), ManifestIntact(other),
         DOMAIN other = DOMAIN m, other.manifestHash = m.manifestHash,
         m = [key \in DOMAIN m |-> m[key]], other = [key \in DOMAIN other |-> other[key]]
  PROVE  other = m
<1> DEFINE Rest(manifest) == [key \in DOMAIN manifest \ {"manifestHash"} |-> manifest[key]]
<1>1. <<"hash", Rest(m)>> = <<"hash", Rest(other)>>
  BY DEF ManifestIntact, ManifestHash, Hash
<1>2. Rest(m) = Rest(other)
  BY <1>1
<1>3. \A key \in DOMAIN m \ {"manifestHash"} : m[key] = Rest(m)[key] /\ other[key] = Rest(other)[key]
  OBVIOUS
<1>4. \A key \in DOMAIN m : m[key] = other[key]
  BY <1>2, <1>3
<1> QED
  BY <1>4

LEMMA HashIsInjective == ASSUME NEW a, NEW b, Hash(a) = Hash(b) PROVE a = b
BY DEF Hash

ManifestOf(s, kept, evs, policy) ==
  [bundleVersion |-> 2, sessionId |-> s.sessionId, productVersion |-> "product",
   redaction |-> policy, integrity |-> Integrity(s, kept, evs),
   sectionHashes |-> SectionHashes(s, kept, evs)]

BundleOf(s, kept, evs, policy) ==
  [manifest |-> Sealed(ManifestOf(s, kept, evs, policy)),
   session |-> s, checkpoints |-> kept, events |-> evs]

\* A bundle whose contents are valid is accepted.
LEMMA BundleIsAccepted ==
  ASSUME NEW s, NEW kept, NEW evs, NEW policy,
         ValidContents(s, kept, evs, s.sessionId), ValidHashes(kept)
  PROVE  /\ Accepts(BundleOf(s, kept, evs, policy))
         /\ BundleOf(s, kept, evs, policy).manifest.bundleVersion = 2
<1> DEFINE m == ManifestOf(s, kept, evs, policy)
           b == BundleOf(s, kept, evs, policy)
<1>1. /\ DOMAIN m = ManifestKeys \ {"manifestHash"}
      /\ m["bundleVersion"] = 2 /\ m["sessionId"] = s.sessionId
      /\ m["integrity"] = Integrity(s, kept, evs) /\ m["sectionHashes"] = SectionHashes(s, kept, evs)
  BY DEF ManifestOf, ManifestKeys
<1>2. /\ b.manifest = Sealed(m) /\ b.session = s /\ b.checkpoints = kept /\ b.events = evs
  BY DEF BundleOf
<1> HIDE DEF m, b
<1>3. /\ ManifestIntact(Sealed(m))
      /\ DOMAIN Sealed(m) = DOMAIN m \cup {"manifestHash"}
      /\ \A key \in DOMAIN m : Sealed(m)[key] = m[key]
  BY <1>1, SealedIsIntact
<1>4. DOMAIN Sealed(m) = ManifestKeys
  BY <1>1, <1>3 DEF ManifestKeys
<1>5. /\ Sealed(m).bundleVersion = 2 /\ Sealed(m).sessionId = s.sessionId
      /\ Sealed(m).integrity = Integrity(s, kept, evs)
      /\ Sealed(m).sectionHashes = SectionHashes(s, kept, evs)
  BY <1>1, <1>3 DEF ManifestKeys
<1>6. SectionsIntact(b) /\ ContentsIntact(b)
  BY <1>2, <1>5 DEF SectionsIntact, ContentsIntact
<1>7. ValidManifest(b)
  BY <1>2, <1>4, <1>5 DEF ValidManifest
<1>8. Accepts(b)
  BY <1>2, <1>3, <1>5, <1>6, <1>7 DEF Accepts
<1> QED
  BY <1>2, <1>5, <1>8 DEF b

\* What a bundle that differs in one part, but has the hash of an accepted one, is:
\* refused.
LEMMA ChangedManifestIsRefused ==
  ASSUME NEW b, Accepts(b), NEW m, DOMAIN m = DOMAIN b.manifest, m.manifestHash = b.manifest.manifestHash,
         m = [key \in DOMAIN m |-> m[key]], b.manifest = [key \in DOMAIN b.manifest |-> b.manifest[key]],
         m # b.manifest, NEW other, other.manifest = m
  PROVE  ~Accepts(other)
<1>1. ManifestIntact(b.manifest)
  BY DEF Accepts
<1> SUFFICES ASSUME Accepts(other) PROVE FALSE
  OBVIOUS
<1>2. ManifestIntact(m)
  BY DEF Accepts
<1> QED
  BY <1>1, <1>2, HashTellsManifests

LEMMA AcceptedIsIntact ==
  ASSUME NEW b, Accepts(b)
  PROVE  SectionsIntact(b)
BY DEF Accepts, AcceptsLegacy

LEMMA ChangedSectionIsRefused ==
  ASSUME NEW b, Accepts(b), NEW other, other.manifest = b.manifest,
         \/ other.session # b.session \/ other.checkpoints # b.checkpoints \/ other.events # b.events
  PROVE  ~Accepts(other)
<1> SUFFICES ASSUME Accepts(other) PROVE FALSE
  OBVIOUS
<1>1. SectionHashes(other.session, other.checkpoints, other.events)
        = SectionHashes(b.session, b.checkpoints, b.events)
  BY AcceptedIsIntact DEF SectionsIntact
<1>2. /\ Hash(other.session) = Hash(b.session)
      /\ Hash(other.checkpoints) = Hash(b.checkpoints)
      /\ Hash(other.events) = Hash(b.events)
  BY <1>1 DEF SectionHashes
<1> QED
  BY <1>2, HashIsInjective

-----------------------------------------------------------------------------
(* Checkpoints.                                                            *)

\* A checkpoint of the page with its hashes.
Whole(c, n) ==
  /\ DOMAIN c = CheckpointKeys \cup WorkspaceKeys
  /\ c.sessionId = "session"
  /\ c.sequence \in 0 .. n
  /\ c.documentHash = Hash(c.document)
  /\ c.sessionHash = Hash(c.session)
  /\ c.workspaceHash = Hash(c.workspace)

Bare == {"sessionId", "sequence", "document", "session", "workspace"}

LEMMA RehashedIsWhole ==
  ASSUME NEW n \in Nat, NEW c, Bare \subseteq DOMAIN c,
         DOMAIN c \subseteq CheckpointKeys \cup WorkspaceKeys,
         c.sessionId = "session", c.sequence \in 0 .. n
  PROVE  Whole(Rehashed(c), n) /\ Rehashed(c).sequence = c.sequence
<1> DEFINE two == [documentHash |-> Hash(c.document), sessionHash |-> Hash(c.session)]
           third == [workspaceHash |-> Hash(c.workspace)]
           more == With(two, third)
<1>1. /\ DOMAIN two = {"documentHash", "sessionHash"} /\ DOMAIN third = {"workspaceHash"}
      /\ two["documentHash"] = Hash(c.document) /\ two["sessionHash"] = Hash(c.session)
      /\ third["workspaceHash"] = Hash(c.workspace)
  OBVIOUS
<1>2. Rehashed(c) = With(c, more)
  BY DEF Rehashed, Bare
<1> HIDE DEF two, third
<1>3. /\ DOMAIN more = {"documentHash", "sessionHash", "workspaceHash"}
      /\ more["documentHash"] = Hash(c.document) /\ more["sessionHash"] = Hash(c.session)
      /\ more["workspaceHash"] = Hash(c.workspace)
  BY <1>1 DEF With
<1> HIDE DEF more
<1>4. /\ DOMAIN With(c, more) = DOMAIN c \cup DOMAIN more
      /\ \A key \in DOMAIN more : With(c, more)[key] = more[key]
      /\ \A key \in DOMAIN c \ DOMAIN more : With(c, more)[key] = c[key]
  BY ONLY WithDomain
<1>5. DOMAIN With(c, more) = CheckpointKeys \cup WorkspaceKeys
  BY <1>3, <1>4 DEF Bare, CheckpointKeys, WorkspaceKeys
<1>6. \A key \in Bare : key \in DOMAIN c \ DOMAIN more
  BY <1>3 DEF Bare
<1>7. /\ With(c, more).sessionId = c.sessionId /\ With(c, more).sequence = c.sequence
      /\ With(c, more).document = c.document /\ With(c, more).session = c.session
      /\ With(c, more).workspace = c.workspace
  BY <1>4, <1>6 DEF Bare
<1>8. /\ With(c, more).documentHash = Hash(c.document) /\ With(c, more).sessionHash = Hash(c.session)
      /\ With(c, more).workspaceHash = Hash(c.workspace)
  BY <1>3, <1>4
<1> QED
  BY <1>2, <1>5, <1>7, <1>8 DEF Whole

LEMMA StoredIsWhole ==
  ASSUME NEW n \in Nat, NEW c \in CheckpointType, c.sequence <= n
  PROVE  LET saved == Rehashed(With(c, [sessionId |-> "session"]))
         IN  Whole(saved, n) /\ saved.sequence = c.sequence
<1> DEFINE more == [sessionId |-> "session"]
           own == With(c, more)
<1>1. DOMAIN more = {"sessionId"} /\ more["sessionId"] = "session"
  OBVIOUS
<1>2. DOMAIN c = {"sequence", "document", "session", "workspace"} /\ c.sequence \in Nat
  BY DEF CheckpointType
<1> HIDE DEF more
<1>3. /\ DOMAIN own = Bare /\ own.sessionId = "session" /\ own.sequence = c.sequence
  <2>1. /\ DOMAIN With(c, more) = DOMAIN c \cup DOMAIN more
        /\ \A key \in DOMAIN more : With(c, more)[key] = more[key]
        /\ \A key \in DOMAIN c \ DOMAIN more : With(c, more)[key] = c[key]
    BY ONLY WithDomain
  <2>2. "sequence" \in DOMAIN c \ DOMAIN more
    BY <1>1, <1>2
  <2> QED
    BY <1>1, <1>2, <2>1, <2>2 DEF Bare
<1>4. c.sequence \in 0 .. n
  BY <1>2
<1> HIDE DEF own
<1>5. Whole(Rehashed(own), n) /\ Rehashed(own).sequence = own.sequence
  BY <1>3, <1>4, RehashedIsWhole DEF Bare, CheckpointKeys, WorkspaceKeys
<1> QED
  BY <1>3, <1>5 DEF own, more

LEMMA RedactedIsWhole ==
  ASSUME NEW n \in Nat, NEW c, Whole(c, n), NEW policy
  PROVE  Whole(RedactedCheckpoint(c, policy), n) /\ RedactedCheckpoint(c, policy).sequence = c.sequence
<1>1. PICK kept : kept = IF policy = "default-v1" THEN RedactCheckpoint(c) ELSE c
  OBVIOUS
<1>2. DOMAIN kept = DOMAIN c /\ kept.sessionId = c.sessionId /\ kept.sequence = c.sequence
  BY <1>1 DEF RedactCheckpoint
<1>3. RedactedCheckpoint(c, policy) = Rehashed(kept)
  BY <1>1 DEF RedactedCheckpoint
<1>4. Bare \subseteq DOMAIN kept /\ DOMAIN kept \subseteq CheckpointKeys \cup WorkspaceKeys
  BY <1>2 DEF Whole, Bare, CheckpointKeys, WorkspaceKeys
<1>5. Whole(Rehashed(kept), n) /\ Rehashed(kept).sequence = kept.sequence
  BY <1>2, <1>4, RehashedIsWhole DEF Whole
<1> QED
  BY <1>2, <1>3, <1>5

\* What the import asks of a list of checkpoints.
WholeList(list, size, n) ==
  /\ DOMAIN list = 1 .. size /\ Len(list) = size
  /\ \A i \in 1 .. size : Whole(list[i], n)
  /\ \A i, j \in 1 .. size : list[i].sequence = list[j].sequence => i = j

LEMMA WholeListIsValid ==
  ASSUME NEW n \in Nat, NEW size \in Nat, NEW list, WholeList(list, size, n)
  PROVE  /\ ValidHashes(list)
         /\ \A i \in DOMAIN list : /\ IsCheckpoint(list[i]) /\ list[i].sessionId = "session"
                                   /\ list[i].sequence <= n
         /\ Distinct({list[i].sequence : i \in DOMAIN list}, list)
<1>1. \A c : DOMAIN Hash(c) = {1, 2} /\ Hash(c)[1] = "hash"
  BY DEF Hash
<1>2. ASSUME NEW i \in DOMAIN list
      PROVE  IsCheckpoint(list[i]) /\ list[i].sessionId = "session" /\ list[i].sequence <= n
  <2>1. Whole(list[i], n)
    BY <1>2 DEF WholeList
  <2>2. IsHash(list[i].documentHash) /\ IsHash(list[i].sessionHash)
    BY <1>1, <2>1 DEF Whole, IsHash
  <2>3. DOMAIN list[i] \cap WorkspaceKeys = WorkspaceKeys
    BY <2>1 DEF Whole
  <2> QED
    BY <2>1, <2>2, <2>3 DEF Whole, IsCheckpoint
<1>3. ValidHashes(list)
  BY DEF ValidHashes, WholeList, Whole
<1> DEFINE number == [i \in 1 .. size |-> list[i].sequence]
<1>4. Cardinality({number[i] : i \in 1 .. size}) = size
  <2>1. \A i \in 1 .. size : number[i] = list[i].sequence
    OBVIOUS
  <2>2. \A i, j \in 1 .. size : number[i] = number[j] => i = j
    BY <2>1 DEF WholeList
  <2>3. number = [i \in 1 .. size |-> number[i]]
    OBVIOUS
  <2> HIDE DEF number
  <2> QED
    BY ONLY <2>2, <2>3, size \in Nat, DistinctValues
<1>5. {number[i] : i \in 1 .. size} = {list[i].sequence : i \in DOMAIN list}
  BY DEF WholeList
<1>6. Distinct({list[i].sequence : i \in DOMAIN list}, list)
  BY <1>4, <1>5 DEF Distinct, WholeList
<1> QED
  BY <1>2, <1>3, <1>6

-----------------------------------------------------------------------------
(* Events.                                                                 *)

\* What the import asks of an event at its place.
ValidEvent(e, i) ==
  /\ IsEvent(e)
  /\ e.sessionId = "session"
  /\ e.sequence = i
  /\ e.eventId = i

LEMMA EventKeysAreKnown ==
  ASSUME NEW e \in Event
  PROVE  /\ DOMAIN e \subseteq EventKeys
         /\ {"sequence", "category", "type", "status"} \subseteq DOMAIN e
         /\ e.category \in {"document", "history", "session", "workspace", "diagnostic", "system"}
         /\ e.status \in {"observed", "started", "succeeded", "failed"}
BY DEF Event, EventKeys

LEMMA StoredIsValid ==
  ASSUME NEW e \in Event, NEW i \in Nat \ {0}, e.sequence = i
  PROVE  ValidEvent(With(e, [eventId |-> i, sessionId |-> "session"]), i)
<1> DEFINE more == [eventId |-> i, sessionId |-> "session"]
           own == With(e, more)
<1>1. /\ DOMAIN more = {"eventId", "sessionId"} /\ more["eventId"] = i
      /\ more["sessionId"] = "session"
  OBVIOUS
<1> HIDE DEF more
<1>2. /\ DOMAIN own = DOMAIN e \cup DOMAIN more
      /\ \A key \in DOMAIN more : own[key] = more[key]
      /\ \A key \in DOMAIN e \ DOMAIN more : own[key] = e[key]
  BY ONLY WithDomain
<1> HIDE DEF own
<1>3. \A key \in {"sequence", "category", "type", "status"} : key \in DOMAIN e \ DOMAIN more
  BY <1>1, EventKeysAreKnown
<1>4. /\ own.eventId = i /\ own.sessionId = "session" /\ own.sequence = i
      /\ own.category = e.category /\ own.status = e.status
  BY <1>1, <1>2, <1>3
<1>5. /\ DOMAIN own \subseteq EventKeys
      /\ {"eventId", "sessionId", "sequence", "category", "type", "status"} \subseteq DOMAIN own
  BY <1>1, <1>2, EventKeysAreKnown DEF EventKeys
<1>6. ValidEvent(own, i)
  BY <1>4, <1>5, EventKeysAreKnown DEF ValidEvent, IsEvent
<1> QED
  BY <1>6 DEF own, more

\* What ValidEvent looks at.
SameHead(e, f) ==
  \A key \in {"eventId", "sessionId", "sequence", "category", "status"} : f[key] = e[key]

LEMMA SameHeadIsValid ==
  ASSUME NEW e, NEW i, ValidEvent(e, i), NEW f, SameHead(e, f),
         DOMAIN e \subseteq DOMAIN f, DOMAIN f \subseteq EventKeys
  PROVE  ValidEvent(f, i)
<1>1. /\ f.eventId = e.eventId /\ f.sessionId = e.sessionId /\ f.sequence = e.sequence
      /\ f.category = e.category /\ f.status = e.status
  BY DEF SameHead
<1> QED
  BY <1>1 DEF ValidEvent, IsEvent

LEMMA RedactedIsValid ==
  ASSUME NEW e, NEW i, ValidEvent(e, i)
  PROVE  ValidEvent(RedactEvent(e), i)
<1>1. DOMAIN RedactEvent(e) = DOMAIN e /\ SameHead(e, RedactEvent(e))
  <2>1. CASE e.category # "document"
    BY <2>1 DEF RedactEvent, SameHead
  <2>2. CASE e.category = "document" /\ e.status # "succeeded"
    BY <2>2 DEF RedactEvent, SameHead, ValidEvent, IsEvent
  <2>3. CASE e.category = "document" /\ e.status = "succeeded"
    BY <2>3 DEF RedactEvent, SameHead, ValidEvent, IsEvent
  <2> QED
    BY <2>1, <2>2, <2>3
<1> QED
  BY <1>1, SameHeadIsValid DEF ValidEvent, IsEvent

LEMMA RehashedEventIsValid ==
  ASSUME NEW e, NEW i, ValidEvent(e, i), NEW list
  PROVE  ValidEvent(WithWorkspaceHash(e, list), i)
<1> DEFINE own == {k \in DOMAIN list : list[k].sequence = e.sequence /\ "workspace" \in DOMAIN list[k]}
<1>1. CASE WithWorkspaceHash(e, list) = e
  BY <1>1
<1>2. CASE WithWorkspaceHash(e, list) = With(e, [workspaceHash |-> list[Max(own)].workspaceHash])
  <2> DEFINE more == [workspaceHash |-> list[Max(own)].workspaceHash]
  <2>1. DOMAIN more = {"workspaceHash"}
    OBVIOUS
  <2> HIDE DEF more
  <2>2. /\ DOMAIN With(e, more) = DOMAIN e \cup DOMAIN more
        /\ \A key \in DOMAIN e \ DOMAIN more : With(e, more)[key] = e[key]
    BY ONLY WithDomain
  <2>3. \A key \in {"eventId", "sessionId", "sequence", "category", "status"} :
          key \in DOMAIN e \ DOMAIN more
    BY <2>1 DEF ValidEvent, IsEvent
  <2>4. SameHead(e, With(e, more))
    BY <2>2, <2>3 DEF SameHead
  <2>5. DOMAIN With(e, more) \subseteq EventKeys
    BY <2>1, <2>2 DEF ValidEvent, IsEvent, EventKeys
  <2>6. ValidEvent(With(e, more), i)
    BY <2>2, <2>4, <2>5, SameHeadIsValid
  <2> QED
    BY <1>2, <2>6 DEF more
<1> QED
  BY <1>1, <1>2 DEF WithWorkspaceHash

\* What the import asks of a list of events.
ValidList(list, n) ==
  /\ DOMAIN list = 1 .. n /\ Len(list) = n
  /\ \A i \in 1 .. n : ValidEvent(list[i], i)

LEMMA ValidListIsValid ==
  ASSUME NEW n \in Nat, NEW list, ValidList(list, n)
  PROVE  /\ \A i \in DOMAIN list : /\ IsEvent(list[i]) /\ list[i].sessionId = "session"
                                   /\ list[i].sequence = i
         /\ Distinct({list[i].eventId : i \in DOMAIN list}, list)
<1> DEFINE number == [i \in 1 .. n |-> list[i].eventId]
<1>1. Cardinality({number[i] : i \in 1 .. n}) = n
  <2>1. \A i \in 1 .. n : number[i] = i
    BY DEF ValidList, ValidEvent
  <2>2. \A i, j \in 1 .. n : number[i] = number[j] => i = j
    BY <2>1
  <2>3. number = [i \in 1 .. n |-> number[i]]
    OBVIOUS
  <2> HIDE DEF number
  <2> QED
    BY ONLY <2>2, <2>3, n \in Nat, DistinctValues
<1>2. {number[i] : i \in 1 .. n} = {list[i].eventId : i \in DOMAIN list}
  BY DEF ValidList
<1>3. Distinct({list[i].eventId : i \in DOMAIN list}, list)
  BY <1>1, <1>2 DEF Distinct, ValidList
<1> QED
  BY <1>3 DEF ValidList, ValidEvent

-----------------------------------------------------------------------------
(* Exports.                                                                *)

SessionRow(count) == [sessionId |-> "session", status |-> "active", eventCount |-> count]

StoredCheckpoints(read) ==
  Evaluated([i \in DOMAIN read |-> Rehashed(With(read[i], [sessionId |-> "session"]))])

StoredEvents(read) ==
  Evaluated([i \in DOMAIN read |-> With(read[i], [eventId |-> i, sessionId |-> "session"])])

KeptCheckpoints(saved, policy) ==
  Evaluated([i \in DOMAIN saved |-> RedactedCheckpoint(saved[i], policy)])

RedactedEvents(saved, policy) ==
  IF policy = "default-v1" THEN Evaluated([i \in DOMAIN saved |-> RedactEvent(saved[i])]) ELSE saved

KeptEvents(redacted, kept) ==
  Evaluated([i \in DOMAIN redacted |-> WithWorkspaceHash(redacted[i], kept)])

LEMMA ExportIs ==
  ASSUME NEW s, NEW C, NEW E, NEW policy, NEW kept, NEW evs,
         kept = KeptCheckpoints(C, policy), evs = KeptEvents(RedactedEvents(E, policy), kept)
  PROVE  Export(s, C, E, policy) =
           IF /\ ValidContents(s, C, E, s.sessionId)
              /\ ValidHashes(C)
              /\ ValidContents(s, kept, evs, s.sessionId)
           THEN BundleOf(s, kept, evs, policy) ELSE None
BY DEF Export, KeptCheckpoints, KeptEvents, RedactedEvents, BundleOf, ManifestOf

LEMMA SameValues == ASSUME NEW S, NEW f, f = [i \in S |-> f[i]] PROVE DOMAIN f = S
OBVIOUS

LEMMA StoredCheckpointsAreWhole ==
  ASSUME NEW n \in Nat, NEW read \in Seq(CheckpointType),
         \A i \in 1 .. Len(read) : read[i].sequence <= n,
         \A i, j \in 1 .. Len(read) : read[i].sequence = read[j].sequence => i = j
  PROVE  WholeList(StoredCheckpoints(read), Len(read), n)
<1>1. DOMAIN read = 1 .. Len(read) /\ Len(read) \in Nat /\ \A i \in 1 .. Len(read) : read[i] \in CheckpointType
  OBVIOUS
<1>2. PICK f : f = [i \in 1 .. Len(read) |-> Rehashed(With(read[i], [sessionId |-> "session"]))]
  OBVIOUS
<1>3. \A i \in 1 .. Len(read) : Whole(f[i], n) /\ f[i].sequence = read[i].sequence
  BY <1>1, <1>2, StoredIsWhole
<1>4. Evaluated(f) = f /\ Len(f) = Len(read) /\ DOMAIN f = 1 .. Len(read)
  BY <1>1, <1>2, EvaluatedIsSame
<1>5. StoredCheckpoints(read) = f
  BY <1>1, <1>2, <1>4 DEF StoredCheckpoints
<1> QED
  BY <1>3, <1>4, <1>5 DEF WholeList

LEMMA KeptCheckpointsAreWhole ==
  ASSUME NEW n \in Nat, NEW size \in Nat, NEW saved, WholeList(saved, size, n), NEW policy
  PROVE  WholeList(KeptCheckpoints(saved, policy), size, n)
<1>1. DOMAIN saved = 1 .. size /\ \A i \in 1 .. size : Whole(saved[i], n)
  BY DEF WholeList
<1>2. PICK f : f = [i \in 1 .. size |-> RedactedCheckpoint(saved[i], policy)]
  OBVIOUS
<1>3. \A i \in 1 .. size : Whole(f[i], n) /\ f[i].sequence = saved[i].sequence
  BY <1>1, <1>2, RedactedIsWhole
<1>4. Evaluated(f) = f /\ Len(f) = size /\ DOMAIN f = 1 .. size
  BY <1>2, EvaluatedIsSame
<1>5. KeptCheckpoints(saved, policy) = f
  BY <1>1, <1>2, <1>4 DEF KeptCheckpoints
<1>6. \A i, j \in 1 .. size : f[i].sequence = f[j].sequence => i = j
  BY <1>3 DEF WholeList
<1> QED
  BY <1>3, <1>4, <1>5, <1>6 DEF WholeList

LEMMA StoredEventsAreValid ==
  ASSUME NEW read \in Seq(Event), \A i \in 1 .. Len(read) : read[i].sequence = i
  PROVE  ValidList(StoredEvents(read), Len(read))
<1>1. DOMAIN read = 1 .. Len(read) /\ Len(read) \in Nat /\ \A i \in 1 .. Len(read) : read[i] \in Event
  OBVIOUS
<1>2. PICK f : f = [i \in 1 .. Len(read) |-> With(read[i], [eventId |-> i, sessionId |-> "session"])]
  OBVIOUS
<1>3. \A i \in 1 .. Len(read) : ValidEvent(f[i], i)
  <2> TAKE i \in 1 .. Len(read)
  <2>1. read[i] \in Event /\ read[i].sequence = i /\ i \in Nat \ {0}
    BY <1>1
  <2>2. f[i] = With(read[i], [eventId |-> i, sessionId |-> "session"])
    BY <1>2
  <2> QED
    BY <2>1, <2>2, StoredIsValid
<1>4. Evaluated(f) = f /\ Len(f) = Len(read) /\ DOMAIN f = 1 .. Len(read)
  BY <1>1, <1>2, EvaluatedIsSame
<1>5. StoredEvents(read) = f
  BY <1>1, <1>2, <1>4 DEF StoredEvents
<1> QED
  BY <1>3, <1>4, <1>5 DEF ValidList

LEMMA KeptEventsAreValid ==
  ASSUME NEW n \in Nat, NEW saved, ValidList(saved, n), NEW kept, NEW policy
  PROVE  ValidList(KeptEvents(RedactedEvents(saved, policy), kept), n)
<1>1. DOMAIN saved = 1 .. n /\ \A i \in 1 .. n : ValidEvent(saved[i], i)
  BY DEF ValidList
<1>2. PICK f : f = [i \in 1 .. n |-> RedactEvent(saved[i])]
  OBVIOUS
<1>3. \A i \in 1 .. n : ValidEvent(f[i], i)
  BY <1>1, <1>2, RedactedIsValid
<1>4. Evaluated(f) = f /\ DOMAIN f = 1 .. n
  BY <1>2, EvaluatedIsSame
<1>5. PICK g : g = RedactedEvents(saved, policy)
  OBVIOUS
<1>6. DOMAIN g = 1 .. n /\ \A i \in 1 .. n : ValidEvent(g[i], i)
  BY <1>1, <1>2, <1>3, <1>4, <1>5 DEF RedactedEvents
<1>7. PICK h : h = [i \in 1 .. n |-> WithWorkspaceHash(g[i], kept)]
  OBVIOUS
<1>8. \A i \in 1 .. n : ValidEvent(h[i], i)
  BY <1>6, <1>7, RehashedEventIsValid
<1>9. Evaluated(h) = h /\ Len(h) = n /\ DOMAIN h = 1 .. n
  BY <1>7, EvaluatedIsSame
<1>10. KeptEvents(RedactedEvents(saved, policy), kept) = h
  BY <1>5, <1>6, <1>7, <1>9 DEF KeptEvents
<1> QED
  BY <1>8, <1>9, <1>10 DEF ValidList

LEMMA RowIsValid ==
  ASSUME NEW n \in Nat
  PROVE  /\ IsSession(SessionRow(n)) /\ SessionRow(n).sessionId = "session"
         /\ SessionRow(n).eventCount = n
BY DEF SessionRow, IsSession, SessionKeys

\* Lists the session counts are valid contents.
LEMMA ContentsAreValid ==
  ASSUME NEW n \in Nat, NEW size \in Nat, NEW kept, NEW evs,
         WholeList(kept, size, n), ValidList(evs, n)
  PROVE  ValidContents(SessionRow(n), kept, evs, "session") /\ ValidHashes(kept)
<1>1. /\ IsSession(SessionRow(n)) /\ SessionRow(n).sessionId = "session"
      /\ SessionRow(n).eventCount = Len(evs)
  BY RowIsValid DEF ValidList
<1>2. /\ \A i \in DOMAIN evs : /\ IsEvent(evs[i]) /\ evs[i].sessionId = "session"
                                /\ evs[i].sequence = i
      /\ Distinct({evs[i].eventId : i \in DOMAIN evs}, evs)
  BY ValidListIsValid
<1>3. /\ ValidHashes(kept)
      /\ \A i \in DOMAIN kept : /\ IsCheckpoint(kept[i]) /\ kept[i].sessionId = "session"
                                 /\ kept[i].sequence <= Len(evs)
      /\ Distinct({kept[i].sequence : i \in DOMAIN kept}, kept)
  BY WholeListIsValid DEF ValidList
<1> QED
  BY <1>1, <1>2, <1>3 DEF ValidContents

\* The export of what was read, with the count read before.
LEMMA ExportedIs ==
  ASSUME NEW n \in Nat, NEW size \in Nat, NEW readE, NEW readC, NEW count, NEW policy,
         WholeList(StoredCheckpoints(readC), size, n), ValidList(StoredEvents(readE), n)
  PROVE  /\ count = n =>
              /\ Accepts(Exported(readE, readC, count, policy))
              /\ \E kept, evs : Exported(readE, readC, count, policy)
                                  = BundleOf(SessionRow(n), kept, evs, policy)
         /\ count # n => Exported(readE, readC, count, policy) = None
<1>1. PICK C : C = StoredCheckpoints(readC)
  OBVIOUS
<1>2. PICK E : E = StoredEvents(readE)
  OBVIOUS
<1>3. PICK s : s = SessionRow(count)
  OBVIOUS
<1>4. Exported(readE, readC, count, policy) = Export(s, C, E, policy)
  BY <1>1, <1>2, <1>3 DEF Exported, StoredCheckpoints, StoredEvents, SessionRow
<1>5. PICK kept : kept = KeptCheckpoints(C, policy)
  OBVIOUS
<1>6. PICK evs : evs = KeptEvents(RedactedEvents(E, policy), kept)
  OBVIOUS
<1>7. WholeList(kept, size, n) /\ ValidList(evs, n)
  BY <1>1, <1>2, <1>5, <1>6, KeptCheckpointsAreWhole, KeptEventsAreValid
<1>8. s.sessionId = "session" /\ s.eventCount = count
  BY <1>3 DEF SessionRow
<1>9. Export(s, C, E, policy) =
        IF /\ ValidContents(s, C, E, s.sessionId)
           /\ ValidHashes(C)
           /\ ValidContents(s, kept, evs, s.sessionId)
        THEN BundleOf(s, kept, evs, policy) ELSE None
  BY <1>5, <1>6, ExportIs
<1>10. CASE count = n
  <2>1. /\ ValidContents(s, C, E, s.sessionId) /\ ValidHashes(C)
        /\ ValidContents(s, kept, evs, s.sessionId) /\ ValidHashes(kept)
    BY <1>1, <1>2, <1>3, <1>7, <1>8, <1>10, ContentsAreValid
  <2>2. Export(s, C, E, policy) = BundleOf(s, kept, evs, policy)
    BY <1>9, <2>1
  <2>3. Accepts(BundleOf(s, kept, evs, policy))
    BY <2>1, BundleIsAccepted
  <2> QED
    BY <1>3, <1>4, <1>10, <2>2, <2>3
<1>11. CASE count # n
  <2>1. ~ValidContents(s, C, E, s.sessionId)
    BY <1>2, <1>8, <1>11 DEF ValidContents, ValidList
  <2> QED
    BY <1>4, <1>9, <1>11, <2>1
<1> QED
  BY <1>10, <1>11

-----------------------------------------------------------------------------
(* The theorems.                                                           *)

\* What a call has read when it creates its engine exports.
LEMMA ReadsAreValid ==
  ASSUME Inv, NEW call \in calls, call.at = "create"
  PROVE  /\ Len(call.events) \in Nat
         /\ \E size \in Nat : WholeList(StoredCheckpoints(call.checkpoints), size, Len(call.events))
         /\ ValidList(StoredEvents(call.events), Len(call.events))
<1>1. MakingOK(call)
  BY DEF Inv, CallsInv, CallOK, UsingOK, UsingCall
<1>2. /\ call.events \in Seq(Event) /\ call.checkpoints \in Seq(CheckpointType)
      /\ Len(call.events) \in Nat /\ Len(call.checkpoints) \in Nat
      /\ events \in Seq(Event) /\ checkpoints \in Seq(CheckpointType)
      /\ Len(events) \in Nat /\ Len(checkpoints) \in Nat
  BY <1>1 DEF MakingOK, MakingCall, Inv, LogInv, CheckpointsInv
<1>3. \A i \in 1 .. Len(call.events) : call.events[i].sequence = i
  BY <1>1, <1>2 DEF MakingOK, Inv, LogInv
<1>4. \A i \in 1 .. Len(call.checkpoints) :
        /\ i \in 1 .. Len(checkpoints)
        /\ call.checkpoints[i] = checkpoints[i]
        /\ call.checkpoints[i].sequence <= Len(call.events)
        /\ call.checkpoints[i].sequence \in Nat
  <2>1. \A c \in CheckpointType : c.sequence \in Nat
    BY DEF CheckpointType
  <2> QED
    BY <1>1, <1>2, <2>1 DEF MakingOK
<1>5. \A i, j \in 1 .. Len(call.checkpoints) :
        call.checkpoints[i].sequence = call.checkpoints[j].sequence => i = j
  <2> TAKE i, j \in 1 .. Len(call.checkpoints)
  <2>1. i < j => call.checkpoints[i].sequence < call.checkpoints[j].sequence
    BY <1>4 DEF Inv, CheckpointsInv
  <2>2. j < i => call.checkpoints[j].sequence < call.checkpoints[i].sequence
    BY <1>4 DEF Inv, CheckpointsInv
  <2>3. i < j \/ j < i \/ i = j
    OBVIOUS
  <2> QED
    BY <1>4, <2>1, <2>2, <2>3
<1>6. WholeList(StoredCheckpoints(call.checkpoints), Len(call.checkpoints), Len(call.events))
  BY <1>2, <1>4, <1>5, StoredCheckpointsAreWhole
<1>7. ValidList(StoredEvents(call.events), Len(call.events))
  BY <1>2, <1>3, StoredEventsAreValid
<1> QED
  BY <1>2, <1>6, <1>7

\* Whatever operations, saves and other calls came between its reads, a replay
\* exports a bundle its own import accepts, under either policy, exactly when the
\* session it read counts the events it read (exportLogBundle and importLogBundle,
\* bundle.ts; loadReplayBundle, main.ts).
THEOREM BundlesRoundTrip == Spec => []BundleRoundTrips
<1>1. Inv => BundleRoundTrips
  <2> SUFFICES ASSUME Inv, NEW call \in calls, call.at = "create", NEW policy
               PROVE  IF Consistent(call)
                      THEN Accepts(Exported(call.events, call.checkpoints, call.count, policy))
                      ELSE Exported(call.events, call.checkpoints, call.count, policy) = None
    BY DEF BundleRoundTrips
  <2> QED
    BY ReadsAreValid, ExportedIs DEF Consistent
<1> QED
  BY <1>1, Invariance, PTL

\* An exported bundle of which the manifest, the session, a checkpoint or an event
\* was changed, taken out or put in afterwards is refused (importLogBundle).
THEOREM DamageIsRefused == Spec => []DamageIsRejected
<1>1. ASSUME NEW s, NEW kept, NEW evs, NEW b, b = BundleOf(s, kept, evs, "default-v1"), Accepts(b),
             NEW other \in Damaged(b)
      PROVE  ~Accepts(other)
  <2>1. /\ b = [manifest |-> b.manifest, session |-> s, checkpoints |-> kept, events |-> evs]
        /\ b.session = s /\ b.checkpoints = kept /\ b.events = evs
    BY <1>1 DEF BundleOf
  <2>2. b.manifest = [key \in DOMAIN b.manifest |-> b.manifest[key]]
    <3>1. "manifestHash" \notin DOMAIN ManifestOf(s, kept, evs, "default-v1")
      BY DEF ManifestOf
    <3> QED
      BY <1>1, <3>1, SealedIsIntact DEF BundleOf
  <2>3. other # b
    BY <1>1 DEF Damaged
  <2>4. CASE \E manifest \in DamagedManifests(b.manifest) : other = [b EXCEPT !.manifest = manifest]
    <3>1. PICK m \in DamagedManifests(b.manifest) : other = [b EXCEPT !.manifest = m]
      BY <2>4
    <3>2. other.manifest = m /\ (m = b.manifest => other = b)
      BY <2>1, <3>1
    <3>3. /\ DOMAIN m = DOMAIN b.manifest /\ m.manifestHash = b.manifest.manifestHash
          /\ m = [key \in DOMAIN m |-> m[key]]
      <4>1. "manifestHash" \in DOMAIN b.manifest
        BY <1>1 DEF Accepts, ManifestIntact
      <4> QED
        BY <4>1 DEF DamagedManifests
    <3> QED
      BY <1>1, <2>2, <2>3, <3>2, <3>3, ChangedManifestIsRefused
  <2>5. CASE other = [b EXCEPT !.session = [@ EXCEPT !.status = "abnormal"]]
    <3>1. PICK changed : changed = [b.session EXCEPT !.status = "abnormal"]
      OBVIOUS
    <3>2. other = [b EXCEPT !.session = changed]
      BY <2>5, <3>1
    <3>3. /\ other.manifest = b.manifest /\ other.session = changed
          /\ changed = b.session => other = b
      BY <2>1, <3>2
    <3> QED
      BY <1>1, <2>3, <3>3, ChangedSectionIsRefused
  <2>6. CASE \E damaged : other = [b EXCEPT !.checkpoints = damaged]
    <3>1. PICK damaged : other = [b EXCEPT !.checkpoints = damaged]
      BY <2>6
    <3>2. /\ other.manifest = b.manifest /\ other.checkpoints = damaged
          /\ damaged = b.checkpoints => other = b
      BY <2>1, <3>1
    <3> QED
      BY <1>1, <2>3, <3>2, ChangedSectionIsRefused
  <2>7. CASE \E damaged : other = [b EXCEPT !.events = damaged]
    <3>1. PICK damaged : other = [b EXCEPT !.events = damaged]
      BY <2>7
    <3>2. /\ other.manifest = b.manifest /\ other.events = damaged
          /\ damaged = b.events => other = b
      BY <2>1, <3>1
    <3> QED
      BY <1>1, <2>3, <3>2, ChangedSectionIsRefused
  <2> QED
    BY <1>1, <2>4, <2>5, <2>6, <2>7 DEF Damaged
<1>2. Inv => DamageIsRejected
  <2> SUFFICES ASSUME Inv, NEW call \in calls, call.at = "create", Consistent(call),
                      NEW other \in Damaged(Exported(call.events, call.checkpoints, call.count,
                                                     "default-v1"))
               PROVE  ~Accepts(other)
    BY DEF DamageIsRejected
  <2>1. PICK b : b = Exported(call.events, call.checkpoints, call.count, "default-v1")
    OBVIOUS
  <2>2. Accepts(b) /\ \E kept, evs : b = BundleOf(SessionRow(Len(call.events)), kept, evs, "default-v1")
    BY <2>1, ReadsAreValid, ExportedIs DEF Consistent
  <2> QED
    BY <1>1, <2>1, <2>2
<1> QED
  BY <1>2, Invariance, PTL
================================================================================
