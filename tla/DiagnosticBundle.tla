-------------------------- MODULE DiagnosticBundle --------------------------
(***************************************************************************)
(* The two diagnostic bundles: diagnostic-bundle.ts and                    *)
(* content-inclusive-diagnostic-bundle.ts.  Everything here is a pure      *)
(* operator: the closed grammar the evidence of a runtime has to satisfy,  *)
(* the redaction with per-bundle aliases, the checksum, and the grammar a  *)
(* copied bundle is verified against.  A digest is taken to be free of     *)
(* collisions: it holds what went into it.  A version and a stack symbol   *)
(* tell whether they are in their grammar, and are not spelt out.          *)
(***************************************************************************)
EXTENDS Integers, Sequences, SequencesExt

CONSTANT None  \* null

MachineCodes ==
  {"content_tools_not_ready", "search_snapshot_building", "search_snapshot_unavailable",
   "writes_paused", "mutation_executor_not_ready", "upgrade_failed", "upgrade_in_progress",
   "recovery_blocked", "recovery_in_progress"}
ReadinessStates == {"ready", "building", "unavailable"}
RecoveryStates == {"none", "in_progress", "blocked"}
OverallStates == {"healthy", "degraded", "blocked"}
OperatorActions ==
  {"none", "finish_initialization", "wait_for_readiness", "wait_for_recovery",
   "review_recovery", "resume_writes", "finish_upgrade"}
GateCodes == {"writes_paused", "upgrade_in_progress", "recovery_in_progress", "recovery_blocked"}
OutcomeStates == {"not_run", "succeeded", "failed"}
ChangeSetStates == {"in_progress", "intent_applied", "intent_not_applied", "result_unproven"}
ExecutionPhases == {"queued", "executing", "terminal"}
JournalPhases == {"PREPARED", "COMMITTED", "ROLLED_BACK", "FAILED"}
Slots == {0, 1}
ListenerPorts == 1..65535

Distinct(s) == \A i, j \in DOMAIN s : s[i] = s[j] => i = j
Increasing(s) == \A i \in 1..(Len(s) - 1) : s[i] < s[i + 1]
Each(s, field) == [i \in DOMAIN s |-> s[i][field]]

\* requireExactRecord: these fields, and no other.
Exact(record, keys) == DOMAIN record = keys
Positive == Nat \ {0}

-----------------------------------------------------------------------------
(* What both producers accept: parseEvidence.                              *)

ParseHealthField(h) ==
  /\ Exact(h, {"readiness", "recovery", "write", "effectiveGate", "overall", "reasonCodes",
               "operatorAction"})
  /\ Exact(h.readiness, {"searchSnapshot", "cache", "index"})
  /\ Exact(h.write, {"gate", "state", "pauseSource"})
  /\ \A part \in {"searchSnapshot", "cache", "index"} : h.readiness[part] \in ReadinessStates
  /\ h.recovery \in RecoveryStates
  /\ h.write.gate \in {"open", "blocked"}
  /\ h.write.state \in {"writable", "pausing", "paused"}
  /\ h.write.pauseSource \in {"manual", "maintenance", None}
  /\ h.effectiveGate \in GateCodes \cup {None}
  /\ h.overall \in OverallStates
  /\ \A i \in DOMAIN h.reasonCodes : h.reasonCodes[i] \in MachineCodes
  /\ Distinct(h.reasonCodes)
  /\ h.operatorAction \in OperatorActions

ParseLifecycleField(l) ==
  /\ Exact(l, {"startup", "upgrade", "migration", "recovery"})
  /\ l.startup \in {"ready", "failed"}
  /\ \A part \in {"upgrade", "migration", "recovery"} : l[part] \in OutcomeStates

\* name: the field that says whose frame it is, an id or its alias.
ParseFrames(frames, name) ==
  /\ {f.slot : f \in ToSet(frames)} = Slots /\ Distinct(Each(frames, "slot"))
  /\ \A f \in ToSet(frames) :
       IF f.state = "valid"
       THEN /\ Exact(f, {"slot", "state", "checksum", "sequence", "phase", "frameSchemaVersion",
                         name})
            /\ f.checksum = "valid" /\ f.phase \in JournalPhases
            /\ {f.sequence, f.frameSchemaVersion} \subseteq Positive /\ f[name] # None
       ELSE /\ Exact(f, {"slot", "state", "checksum"})
            /\ <<f.state, f.checksum>> \in {<<"empty", "not_present">>, <<"invalid", "invalid">>}

ParseJournalFacts(j, name) ==
  IF j.availability = "unavailable"
  THEN Exact(j, {"availability", "frames"}) /\ j.frames = << >>
  ELSE /\ j.availability = "available"
       /\ Exact(j, {"availability", "journalVersion", "headerChecksum", "frames"})
       /\ j.headerChecksum = "valid" /\ j.journalVersion \in Positive
       /\ ParseFrames(j.frames, name)

ParseEntries(entries) ==
  /\ \A field \in {"changeSetId", "submissionKey", "enqueueSeq"} : Distinct(Each(entries, field))
  /\ \A e \in ToSet(entries) :
       /\ Exact(e, {"changeSetId", "submissionKey", "enqueueSeq", "state", "executionPhase"})
       /\ e.changeSetId # None /\ e.submissionKey # None /\ e.enqueueSeq \in Positive
       /\ e.state \in ChangeSetStates /\ e.executionPhase \in ExecutionPhases \cup {None}

ParseMachineEvents(events) ==
  /\ Increasing(<<0>> \o Each(events, "sequence"))
  /\ \A e \in ToSet(events) :
       /\ Exact(e, {"sequence", "code", "stackSymbols"})
       /\ e.code \in MachineCodes
       /\ \A symbol \in ToSet(e.stackSymbols) : symbol.pathFree

\* parseDiagnosticVersionField.
ParseVersionField(v) ==
  /\ Exact(v, {"bridge", "plugin", "protocol", "persistentStateSchema", "recoveryJournalSchema"})
  /\ \A version \in {"bridge", "plugin", "protocol"} : v[version].wellFormed
  /\ {v.persistentStateSchema, v.recoveryJournalSchema} \subseteq Positive

ParseEvidence(e) ==
  /\ Exact(e, {"vaultId", "versions", "health", "listener", "queue", "lifecycle", "journal",
               "changeSets", "machineEvents"})
  /\ Exact(e.listener, {"address", "port"})
  /\ Exact(e.queue, {"currentExecutionId", "length", "headChangeSetId"})
  /\ e.vaultId # None
  /\ ParseVersionField(e.versions)
  /\ ParseHealthField(e.health)
  /\ e.listener.address = "127.0.0.1" /\ e.listener.port \in ListenerPorts
  /\ e.queue.length \in Nat
  /\ ParseLifecycleField(e.lifecycle)
  /\ ParseJournalFacts(e.journal, "changeSetId")
  /\ ParseEntries(e.changeSets)
  /\ ParseMachineEvents(e.machineEvents)

-----------------------------------------------------------------------------
(* The standard bundle.                                                    *)

Sha256Digest(content) == [algorithm |-> "sha256", of |-> content]
IsDigest(x) == x # None /\ DOMAIN x = {"algorithm", "of"}

Alias(salt, kind, value) == [label |-> kind, digest |-> Sha256Digest(<<salt, kind, value>>)]
AliasOrNull(salt, value) == IF value = None THEN None ELSE Alias(salt, "change-set", value)
SubmissionKeyDigest(salt, key) == Sha256Digest(<<salt, "submission-key", key>>)
Checksum(content) == [algorithm |-> "sha256", canonicalPayload |-> Sha256Digest(content)]

BySlot(a, b) == a.slot < b.slot
ByEnqueueSeq(a, b) == a.enqueueSeq < b.enqueueSeq

RedactFrame(f, salt) ==
  IF f.state # "valid" THEN f
  ELSE [slot |-> f.slot, state |-> f.state, checksum |-> f.checksum, sequence |-> f.sequence,
        phase |-> f.phase, frameSchemaVersion |-> f.frameSchemaVersion,
        changeSetAlias |-> Alias(salt, "change-set", f.changeSetId)]

RedactJournal(j, salt) ==
  IF j.availability = "unavailable" THEN j
  ELSE [j EXCEPT !.frames =
          LET sorted == SortSeq(j.frames, BySlot) IN
          [i \in DOMAIN sorted |-> RedactFrame(sorted[i], salt)]]

RedactEntry(e, salt) ==
  [changeSetAlias |-> Alias(salt, "change-set", e.changeSetId),
   submissionKeyDigest |-> SubmissionKeyDigest(salt, e.submissionKey),
   enqueueSeq |-> e.enqueueSeq, state |-> e.state, executionPhase |-> e.executionPhase]

\* The content of a bundle: what its checksum covers.
Redact(e, salt) ==
  [schemaVersion |-> 1, bundleVersion |-> "1.0",
   vault |-> [alias |-> Alias(salt, "vault", e.vaultId)],
   versions |-> e.versions, health |-> e.health,
   listenerTimeline |-> <<[ordinal |-> 1, state |-> "listening", address |-> "loopback",
                           port |-> e.listener.port]>>,
   queueTimeline |-> <<[ordinal |-> 1,
                        currentExecutionAlias |-> AliasOrNull(salt, e.queue.currentExecutionId),
                        length |-> e.queue.length,
                        headChangeSetAlias |-> AliasOrNull(salt, e.queue.headChangeSetId)]>>,
   lifecycleOutcomes |-> e.lifecycle,
   journal |-> RedactJournal(e.journal, salt),
   changeSetOutcomes |->
     LET sorted == SortSeq(e.changeSets, ByEnqueueSeq) IN
     [i \in DOMAIN sorted |-> RedactEntry(sorted[i], salt)],
   machineEvents |-> e.machineEvents]

Signed(content) == content @@ [checksum |-> Checksum(content)]
Content(bundle) == [key \in DOMAIN bundle \ {"checksum"} |-> bundle[key]]

CreateStandardDiagnosticBundle(e, salt) == Signed(Redact(e, salt))

-----------------------------------------------------------------------------
(* verifyStandardDiagnosticBundle: without the salt and without the        *)
(* evidence.                                                               *)

\* The form of an alias, which its label and a digest's digits make.
IsAlias(a, label) == a # None /\ DOMAIN a = {"label", "digest"} /\ a.label = label

ParseRedactedJournal(j) ==
  /\ ParseJournalFacts(j, "changeSetAlias")
  /\ \A f \in ToSet(j.frames) : f.state = "valid" => IsAlias(f.changeSetAlias, "change-set")

ParseRedactedOutcomes(outcomes) ==
  /\ Distinct(Each(outcomes, "enqueueSeq"))
  /\ \A o \in ToSet(outcomes) :
       /\ Exact(o, {"changeSetAlias", "submissionKeyDigest", "enqueueSeq", "state",
                    "executionPhase"})
       /\ IsAlias(o.changeSetAlias, "change-set") /\ IsDigest(o.submissionKeyDigest)
       /\ o.enqueueSeq \in Positive
       /\ o.state \in ChangeSetStates /\ o.executionPhase \in ExecutionPhases \cup {None}

ParseListenerTimeline(timeline) ==
  /\ Len(timeline) = 1
  /\ LET l == timeline[1] IN
     /\ Exact(l, {"ordinal", "state", "address", "port"})
     /\ l.ordinal = 1 /\ l.state = "listening" /\ l.address = "loopback"
     /\ l.port \in ListenerPorts

ParseQueueTimeline(timeline) ==
  /\ Len(timeline) = 1
  /\ LET q == timeline[1] IN
     /\ Exact(q, {"ordinal", "currentExecutionAlias", "length", "headChangeSetAlias"})
     /\ q.ordinal = 1 /\ q.length \in Nat
     /\ \A alias \in {q.currentExecutionAlias, q.headChangeSetAlias} :
          alias = None \/ IsAlias(alias, "change-set")

ParseChecksum(bundle) ==
  /\ Exact(bundle.checksum, {"algorithm", "canonicalPayload"})
  /\ bundle.checksum.algorithm = "sha256"
  /\ bundle.checksum.canonicalPayload = Sha256Digest(Content(bundle))

VerifyStandardDiagnosticBundle(b) ==
  /\ Exact(b, {"schemaVersion", "bundleVersion", "vault", "versions", "health",
               "listenerTimeline", "queueTimeline", "lifecycleOutcomes", "journal",
               "changeSetOutcomes", "machineEvents", "checksum"})
  /\ b.schemaVersion = 1 /\ b.bundleVersion = "1.0"
  /\ Exact(b.vault, {"alias"}) /\ IsAlias(b.vault.alias, "vault")
  /\ ParseListenerTimeline(b.listenerTimeline) /\ ParseQueueTimeline(b.queueTimeline)
  /\ ParseRedactedOutcomes(b.changeSetOutcomes)
  /\ ParseVersionField(b.versions) /\ ParseHealthField(b.health)
  /\ ParseLifecycleField(b.lifecycleOutcomes)
  /\ ParseRedactedJournal(b.journal)
  /\ ParseMachineEvents(b.machineEvents)
  /\ ParseChecksum(b)

-----------------------------------------------------------------------------
(* The content-inclusive bundle: the same evidence has to be accepted, and *)
(* nothing of it but the versions goes in.  A selection is None when it is *)
(* the empty string.                                                       *)

CreateContentInclusiveDiagnosticBundle(e, selection) ==
  Signed([schemaVersion |-> 1, bundleVersion |-> "1.0",
          purpose |-> "selected_content_diagnostic",
          trace |-> [source |-> "managed_vault_bridge", versions |-> e.versions],
          selection |-> [tracer |-> "active_editor_selection", content |-> selection]])

VerifyContentInclusiveDiagnosticBundle(b) ==
  /\ Exact(b, {"schemaVersion", "bundleVersion", "purpose", "trace", "selection", "checksum"})
  /\ b.schemaVersion = 1 /\ b.bundleVersion = "1.0"
  /\ b.purpose = "selected_content_diagnostic"
  /\ Exact(b.trace, {"source", "versions"}) /\ b.trace.source = "managed_vault_bridge"
  /\ ParseVersionField(b.trace.versions)
  /\ Exact(b.selection, {"tracer", "content"})
  /\ b.selection.tracer = "active_editor_selection" /\ b.selection.content # None
  /\ ParseChecksum(b)

\* performContentInclusiveDiagnosticCopy: what is answered, and what reaches the
\* clipboard.  Evidence the producer refuses makes it throw: nothing is written.
ContentInclusiveCopy(selection, confirmed, e) ==
  IF selection = None THEN [outcome |-> "not_available", clipboard |-> None]
  ELSE IF ~confirmed THEN [outcome |-> "cancelled", clipboard |-> None]
  ELSE IF ~ParseEvidence(e) THEN [outcome |-> "throws", clipboard |-> None]
  ELSE [outcome |-> "copied",
        clipboard |-> CreateContentInclusiveDiagnosticBundle(e, selection)]
=============================================================================
