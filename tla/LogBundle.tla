------------------------------ MODULE LogBundle ------------------------------
(***************************************************************************)
(* The log bundle (packages/operation-log/src/bundle.ts): what an export   *)
(* writes and what an import accepts.                                      *)
(*                                                                         *)
(* A bundle is its parsed JSON.  A hash is its value wrapped: two values   *)
(* hash alike only when they are equal.  A record's keys are its DOMAIN,   *)
(* so the checks for unknown and missing keys are about domains; the       *)
(* patterns of ids, hashes and timestamps and the schema of a document's   *)
(* records are left out, as are wording and the byte limit.                *)
(***************************************************************************)
EXTENDS Integers, Sequences, SequencesExt, FiniteSets, TLC

CONSTANTS
  None,
  Url, CutUrl      \* a text with a query, and the text without it

\* The record with more fields, or others in their place: { ...record, ...more }.
With(record, more) ==
  [key \in DOMAIN record \cup DOMAIN more |->
    IF key \in DOMAIN more THEN more[key] ELSE record[key]]

\* The sequence, with each element computed once.
Evaluated(sequence) == SubSeq(sequence, 1, Len(sequence))

Hash(value) == <<"hash", value>>

IsHash(value) == DOMAIN value = {1, 2} /\ value[1] = "hash"

-----------------------------------------------------------------------------
(* Redaction.                                                              *)

RedactText(text) == IF text = Url THEN CutUrl ELSE text

RedactPatch(patch) == [from |-> RedactText(patch.from), to |-> RedactText(patch.to)]

\* defaultRedactor, where an event holds texts: hashes stay as they are.
RedactEvent(event) ==
  IF event.category # "document" THEN event
  ELSE IF event.status # "succeeded" THEN [event EXCEPT !.command = RedactText(@)]
  ELSE [event EXCEPT !.command = RedactText(@),
                     !.transaction = [@ EXCEPT !.forward = RedactPatch(@),
                                               !.inverse = RedactPatch(@)]]

RedactCheckpoint(checkpoint) == [checkpoint EXCEPT !.document = RedactText(@)]

-----------------------------------------------------------------------------
(* The contents.                                                           *)

SessionKeys == {"sessionId", "status", "endedAt", "eventCount"}

IsSession(session) ==
  /\ DOMAIN session \subseteq SessionKeys
  /\ {"sessionId", "status", "eventCount"} \subseteq DOMAIN session
  /\ session.status \in {"active", "ended", "abnormal"}
  /\ session.status = "ended" => "endedAt" \in DOMAIN session
  /\ session.status = "active" => "endedAt" \notin DOMAIN session
  /\ session.eventCount >= 0

EventKeys == {"eventId", "sessionId", "sequence", "category", "type", "status", "transactionId",
              "afterHash", "code"}
             \cup {"command", "transaction", "index", "field", "value", "panel", "layout",
                   "workspaceHash"}   \* the payload

IsEvent(event) ==
  /\ DOMAIN event \subseteq EventKeys
  /\ {"eventId", "sessionId", "sequence", "category", "type", "status"} \subseteq DOMAIN event
  /\ event.sequence > 0
  /\ event.category \in {"document", "history", "session", "workspace", "diagnostic", "system"}
  /\ event.status \in {"observed", "started", "succeeded", "failed"}

CheckpointKeys == {"sessionId", "sequence", "document", "session", "documentHash", "sessionHash"}

WorkspaceKeys == {"workspace", "workspaceHash"}

IsCheckpoint(checkpoint) ==
  /\ CheckpointKeys \subseteq DOMAIN checkpoint
  /\ DOMAIN checkpoint \subseteq CheckpointKeys \cup WorkspaceKeys
  /\ DOMAIN checkpoint \cap WorkspaceKeys \in {{}, WorkspaceKeys}
  /\ checkpoint.sequence >= 0
  /\ IsHash(checkpoint.documentHash) /\ IsHash(checkpoint.sessionHash)

Distinct(values, sequence) == Cardinality(values) = Len(sequence)

\* validateBundleContents: the session counts the events, which are 1, 2, ...
ValidContents(session, checkpoints, events, sessionId) ==
  /\ IsSession(session)
  /\ session.sessionId = sessionId
  /\ session.eventCount = Len(events)
  /\ \A i \in DOMAIN events :
       /\ IsEvent(events[i])
       /\ events[i].sessionId = sessionId
       /\ events[i].sequence = i
  /\ Distinct({events[i].eventId : i \in DOMAIN events}, events)
  /\ \A i \in DOMAIN checkpoints :
       /\ IsCheckpoint(checkpoints[i])
       /\ checkpoints[i].sessionId = sessionId
       /\ checkpoints[i].sequence <= Len(events)
  /\ Distinct({checkpoints[i].sequence : i \in DOMAIN checkpoints}, checkpoints)

\* validateCheckpointHashes.
ValidHashes(checkpoints) ==
  \A i \in DOMAIN checkpoints :
    /\ checkpoints[i].documentHash = Hash(checkpoints[i].document)
    /\ checkpoints[i].sessionHash = Hash(checkpoints[i].session)
    /\ "workspace" \in DOMAIN checkpoints[i] =>
         checkpoints[i].workspaceHash = Hash(checkpoints[i].workspace)

Rehashed(checkpoint) ==
  With(checkpoint,
       With([documentHash |-> Hash(checkpoint.document), sessionHash |-> Hash(checkpoint.session)],
            IF "workspace" \in DOMAIN checkpoint
            THEN [workspaceHash |-> Hash(checkpoint.workspace)] ELSE << >>))

InitialHash(checkpoints) ==
  LET initial == {i \in DOMAIN checkpoints : checkpoints[i].sequence = 0}
  IN  IF initial = {} THEN None ELSE Hash(checkpoints[Min(initial)])

\* computeChainHash: each event hashed with the hash before it tells as much as
\* all of them hashed together.
ChainHash(session, checkpoints, events) ==
  Hash(<<session.sessionId, InitialHash(checkpoints), events>>)

Integrity(session, checkpoints, events) ==
  [eventCount |-> Len(events), checkpointCount |-> Len(checkpoints),
   chainHash |-> ChainHash(session, checkpoints, events),
   initialSnapshotHash |-> InitialHash(checkpoints),
   firstEventId |-> IF events = << >> THEN None ELSE Head(events).eventId,
   lastEventId |-> IF events = << >> THEN None ELSE Last(events).eventId]

SectionHashes(session, checkpoints, events) ==
  [session |-> Hash(session), checkpoints |-> Hash(checkpoints), events |-> Hash(events)]

\* The hash of a manifest without the hash.
ManifestHash(manifest) ==
  Hash([key \in DOMAIN manifest \ {"manifestHash"} |-> manifest[key]])

Sealed(manifest) == With(manifest, [manifestHash |-> ManifestHash(manifest)])

-----------------------------------------------------------------------------
(* Export and import.                                                      *)

\* A checkpoint event's workspace hash follows the redacted checkpoint.
WithWorkspaceHash(event, checkpoints) ==
  LET own == {i \in DOMAIN checkpoints : checkpoints[i].sequence = event.sequence
                                         /\ "workspace" \in DOMAIN checkpoints[i]}
  IN  IF event.type = "system.checkpoint" /\ own # {}
      THEN With(event, [workspaceHash |-> checkpoints[Max(own)].workspaceHash])
      ELSE event

\* A redacted checkpoint that keeps its hashes.
KeepsHashes(checkpoint, policy) ==
  IF policy = "default-v1" THEN RedactCheckpoint(checkpoint) ELSE checkpoint

RedactedCheckpoint(checkpoint, policy) ==
  Rehashed(IF policy = "default-v1" THEN RedactCheckpoint(checkpoint) ELSE checkpoint)

\* exportLogBundle, after its reads.
Export(session, storedCheckpoints, storedEvents, policy) ==
  LET checkpoints == Evaluated([i \in DOMAIN storedCheckpoints |->
                                 RedactedCheckpoint(storedCheckpoints[i], policy)])
      redacted == IF policy = "default-v1"
                  THEN Evaluated([i \in DOMAIN storedEvents |-> RedactEvent(storedEvents[i])])
                  ELSE storedEvents
      events == Evaluated([i \in DOMAIN redacted |-> WithWorkspaceHash(redacted[i], checkpoints)])
  IN  IF /\ ValidContents(session, storedCheckpoints, storedEvents, session.sessionId)
         /\ ValidHashes(storedCheckpoints)
         /\ ValidContents(session, checkpoints, events, session.sessionId)
      THEN [manifest |-> Sealed([bundleVersion |-> 2, sessionId |-> session.sessionId,
                                 productVersion |-> "product", redaction |-> policy,
                                 integrity |-> Integrity(session, checkpoints, events),
                                 sectionHashes |-> SectionHashes(session, checkpoints, events)]),
            session |-> session, checkpoints |-> checkpoints, events |-> events]
      ELSE None

ManifestKeys == {"bundleVersion", "sessionId", "productVersion", "redaction", "integrity",
                 "sectionHashes", "manifestHash"}

\* An import that takes the manifest at its word.
TrustsManifest(manifest) == "manifestHash" \in DOMAIN manifest

ManifestIntact(manifest) ==
  "manifestHash" \in DOMAIN manifest /\ manifest.manifestHash = ManifestHash(manifest)

\* validateManifest.
ValidManifest(bundle) ==
  /\ DOMAIN bundle.manifest = ManifestKeys
  /\ bundle.manifest.integrity = Integrity(bundle.session, bundle.checkpoints, bundle.events)

SectionsIntact(bundle) ==
  bundle.manifest.sectionHashes = SectionHashes(bundle.session, bundle.checkpoints, bundle.events)

ContentsIntact(bundle) ==
  ValidContents(bundle.session, bundle.checkpoints, bundle.events, bundle.manifest.sessionId)

\* importLegacyBundle: version 1 had neither workspace states nor integrity data.
AcceptsLegacy(bundle) ==
  /\ DOMAIN bundle.manifest = ManifestKeys \ {"redaction", "integrity"}
  /\ SectionsIntact(bundle)
  /\ \A i \in DOMAIN bundle.checkpoints : DOMAIN bundle.checkpoints[i] \cap WorkspaceKeys = {}
  /\ ContentsIntact(bundle)

\* importLogBundle.
Accepts(bundle) ==
  /\ ManifestIntact(bundle.manifest)
  /\ IF bundle.manifest.bundleVersion = 1 THEN AcceptsLegacy(bundle)
     ELSE /\ bundle.manifest.bundleVersion = 2
          /\ SectionsIntact(bundle)
          /\ ContentsIntact(bundle)
          /\ ValidManifest(bundle)
          /\ ValidHashes(bundle.checkpoints)
===============================================================================
