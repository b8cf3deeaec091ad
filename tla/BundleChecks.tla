---------------------------- MODULE BundleChecks ----------------------------
(***************************************************************************)
(* The checks verify() runs on a record to tie it to the public log: the   *)
(* run entry, the leaf it must name, the form and identifier of the        *)
(* record, the actor signature, the pre-anchor table, the complete-record  *)
(* anchor, and who logged the entries and when.                            *)
(*                                                                         *)
(* A digest is the tuple of what it covers, so two digests are equal       *)
(* exactly when the covered values are.  The hash rows, which anyone who   *)
(* changes a section can recompute, are taken as recomputed: a record here *)
(* always agrees with its own hashes.  The order of table rows is left     *)
(* out; their names, values and presence are not.                          *)
(***************************************************************************)
EXTENDS Verdict, PublicLog, Integers

CONSTANTS
  RunIds,      \* envelope identifiers of the form env- and sixteen hex digits
  TableSince,  \* preTableLeafCutover
  Skew,        \* anchoringClockSkew
  MaxWindow,   \* maxAnchoringWindowSeconds
  PoteDiffers  \* poteLedgerDiffers: times of run entries copied without their time

----------------------------------------------------------------------------
(* The record's pre-anchor table: a function from row names to values. *)

RequirementRow == "complete_record_anchor"
WindowRow == "anchoring_window_seconds"

PreAnchorNames == {"envelope_id", "aer_hash", "sections", "nrep_actor_id",
                   "nrep_signature", "nrep_signed_at", "scaffold_flags", "clock_epoch"}
PreAnchorNamesV2 == PreAnchorNames \cup {RequirementRow}
PreAnchorNamesV3 == PreAnchorNamesV2 \cup {WindowRow}

TableSealsAnchoringWindow(t) == WindowRow \in DOMAIN t
TableRequiresCompleteRecordAnchor(t) == RequirementRow \in DOMAIN t

\* PreAnchorTableForm: a misplaced row still selects the later form.
TableNames(t) ==
  CASE TableSealsAnchoringWindow(t) -> PreAnchorNamesV3
    [] ~TableSealsAnchoringWindow(t) /\ TableRequiresCompleteRecordAnchor(t) ->
         PreAnchorNamesV2
    [] OTHER -> PreAnchorNames

\* parseAnchoringWindow.
WindowReadable(w) == w \in 1 .. MaxWindow

----------------------------------------------------------------------------
(* Leaves and digests. *)

\* The form verifyLeafBinding selects from what the record carries.
LeafForm(d) ==
  CASE TableSealsAnchoringWindow(d.table) -> "v7"
    [] ~TableSealsAnchoringWindow(d.table) /\ TableRequiresCompleteRecordAnchor(d.table) ->
         "v6"
    [] OTHER -> IF DOMAIN d.table # {} \/ d.tableDigest # None THEN "v5"
                ELSE IF d.sealingDigests THEN "v3"
                ELSE IF d.nonce # 0 THEN "v2" ELSE "v1"

TableForms == {"v5", "v6", "v7"}
OldForms == {"v1", "v2", "v3"}

\* Mutant: one domain and one digest over the first table's rows for all.
LeafOneDomain(d) ==
  CASE LeafForm(d) \in TableForms ->
         <<"v5", d.env, d.aer, d.nonce, [row \in DOMAIN d.table \cap PreAnchorNames |-> d.table[row]]>>
    [] LeafForm(d) = "v3" -> <<"v3", d.env, d.aer, d.nonce, d.actor, d.scaffold>>
    [] LeafForm(d) = "v2" -> <<"v2", d.env, d.aer, d.nonce>>
    [] LeafForm(d) = "v1" -> <<"v1", d.env, d.aer>>

Leaf(d) ==
  CASE LeafForm(d) \in TableForms -> <<LeafForm(d), d.env, d.aer, d.nonce, d.table>>
    [] LeafForm(d) = "v3" -> <<"v3", d.env, d.aer, d.nonce, d.actor, d.scaffold>>
    [] LeafForm(d) = "v2" -> <<"v2", d.env, d.aer, d.nonce>>
    [] LeafForm(d) = "v1" -> <<"v1", d.env, d.aer>>

\* AnchoredRecordPairs: everything in the record but its two log proofs.
RecordDigest(d) ==
  <<d.env, d.aer, d.sections, d.desc, d.actor, d.scaffold, d.table, d.tableDigest,
    d.sealingDigests, d.pote>>

BundleLeaf(env, digest) == <<"bundle", env, digest>>

----------------------------------------------------------------------------
(* The checks, on a record d and the entries log of the public log. *)

RekorOutcome(d, log) ==
  CASE ~d.run.onLog \/ d.run.signer = None -> "absent"
    [] OTHER -> IF Logged(d.run, log) THEN "passed" ELSE "failed"

LeafOutcome(d) ==
  IF ~d.run.onLog THEN "absent"
  ELSE IF d.run.leaf = Leaf(d) THEN "passed" ELSE "failed"

\* Mutant: any identifier will do, as before v0.15.2.
IdentityOutcomeAnyId(d) ==
  IF ~d.run.onLog THEN "absent"
  ELSE IF LeafForm(d) \in OldForms /\ d.run.time # 0 /\ d.run.time >= TableSince
  THEN "failed" ELSE "passed"

\* verifyRecordIdentity.
IdentityOutcome(d) ==
  IF ~d.run.onLog THEN "absent"
  ELSE IF \/ d.env \notin RunIds
          \/ LeafForm(d) \in OldForms /\ d.run.time # 0 /\ d.run.time >= TableSince
  THEN "failed" ELSE "passed"

\* verifyNrepSignature; the signature is the tuple it was made over.
NrepOutcome(d) ==
  LET a == d.actor
  IN CASE a.id = None /\ a.signature = None -> "absent"
       [] (a.id = None) # (a.signature = None) -> "failed"
       [] a.id # None /\ a.signature # None /\ a.signedAt = None -> "absent"
       [] OTHER -> IF a.signature = <<d.env, d.aer, a.id, a.signedAt>>
                   THEN "passed" ELSE "failed"

\* preAnchorDisplayedRows.
Displayed(d, row) ==
  CASE row = "envelope_id" -> d.env
    [] row = "aer_hash" -> d.aer
    [] row = "sections" -> d.sections
    [] row = "nrep_actor_id" -> d.actor.id
    [] row = "nrep_signature" -> d.actor.signature
    [] row \in {"nrep_signed_at", "clock_epoch"} -> d.actor.signedAt
    [] row = "scaffold_flags" -> d.scaffold

\* The clock is displayed only where an actor signed it.
ComparedRows(t) ==
  IF "nrep_signed_at" \in DOMAIN t /\ t["nrep_signed_at"] # None THEN PreAnchorNames
  ELSE PreAnchorNames \ {"clock_epoch"}

\* verifyPreAnchor.
PreAnchorOutcome(d) ==
  IF DOMAIN d.table = {} /\ d.tableDigest = None THEN "absent"
  ELSE IF /\ DOMAIN d.table = TableNames(d.table)
          /\ RequirementRow \in DOMAIN d.table => d.table[RequirementRow] = "required"
          /\ WindowRow \in DOMAIN d.table => WindowReadable(d.table[WindowRow])
          /\ d.tableDigest = d.table
          /\ \A row \in ComparedRows(d.table) \cap DOMAIN d.table :
               d.table[row] = Displayed(d, row)
  THEN "passed" ELSE "failed"

\* Mutant: the copies are not compared.
PoteUncompared(d) == TRUE

\* verifyBoundCopies on the proof section's copy of the run entry.
PoteAgrees(d) == d.run.onLog =>
  /\ d.pote.number = d.run.number
  /\ d.run.time \notin PoteDiffers => d.pote.time = d.run.time

\* verifyBundleAnchor.
RecordAnchorOutcomeOf(d, log) ==
  LET a == d.record
  IN CASE a = None -> "absent"
       [] a # None /\ (\/ a.digest # RecordDigest(d)
                       \/ a.leaf # BundleLeaf(d.env, RecordDigest(d))) -> "failed"
       [] OTHER -> IF ~a.onLog THEN "local"
                   ELSE IF a.signer # None /\ Logged(a, log) THEN "logged" ELSE "failed"

\* Mutant: the last second of the window is left out.
WithinOpen(t, clock, window) == t - clock >= -Skew /\ t - clock < window

\* The sealed window, on the time of one entry.
Within(t, clock, window) == t - clock >= -Skew /\ t - clock <= window

\* verifyEntryAuthentication: who logged the two entries.
SignersHold(d, log) ==
  /\ d.run.signer \in PinnedKeys
  /\ SignerAcceptsAt(d.run.signer, d.run.time)
  /\ RecordAnchorOutcomeOf(d, log) = "logged" =>
       /\ d.record.signer = d.run.signer
       /\ SignerAcceptsAt(d.run.signer, d.record.time)
       /\ d.record.time >= d.run.time

\* Mutant: the window is checked on the run's entry alone.
WindowHoldsForRun(d, log) ==
  /\ "clock_epoch" \in DOMAIN d.table => d.table["clock_epoch"] # None
  /\ WindowRow \in DOMAIN d.table =>
       /\ WindowReadable(d.table[WindowRow])
       /\ "clock_epoch" \in DOMAIN d.table
       /\ Within(d.run.time, d.table["clock_epoch"], d.table[WindowRow])

\* verifyEntryAuthentication: when they were logged, where a clock and a
\* window are sealed.
WindowHolds(d, log) ==
  /\ "clock_epoch" \in DOMAIN d.table => d.table["clock_epoch"] # None
  /\ WindowRow \in DOMAIN d.table =>
       /\ WindowReadable(d.table[WindowRow])
       /\ "clock_epoch" \in DOMAIN d.table
       /\ Within(d.run.time, d.table["clock_epoch"], d.table[WindowRow])
       /\ RecordAnchorOutcomeOf(d, log) = "logged" =>
            Within(d.record.time, d.table["clock_epoch"], d.table[WindowRow])

\* Mutant: performed for every entry on the log, one that failed included.
EntryAuthOutcomeAlways(d, log) ==
  IF ~d.run.onLog THEN "absent"
  ELSE IF SignersHold(d, log) /\ WindowHolds(d, log) THEN "passed" ELSE "failed"

EntryAuthOutcome(d, log) ==
  IF RekorOutcome(d, log) # "passed" THEN "absent"
  ELSE IF SignersHold(d, log) /\ WindowHolds(d, log) THEN "passed" ELSE "failed"

----------------------------------------------------------------------------

\* What verify() hands to the roll-up.  Request signature, timing and job
\* blocks are left out of these records, as records may leave them out.
ChecksOfRecord(d, log) ==
  [hashes |-> TRUE, onLog |-> d.run.onLog, rekor |-> RekorOutcome(d, log),
   leaf |-> LeafOutcome(d), identity |-> IdentityOutcome(d), nrep |-> NrepOutcome(d),
   request |-> "absent", timing |-> "absent", preAnchor |-> PreAnchorOutcome(d),
   recordAnchor |-> RecordAnchorOutcomeOf(d, log),
   requires |-> TableRequiresCompleteRecordAnchor(d.table), cross |-> PoteAgrees(d),
   entryAuth |-> EntryAuthOutcome(d, log), job |-> "none", scaffold |-> d.scaffold]

TierOf(d, log) ==
  LET c == ChecksOfRecord(d, log) IN VerdictTier(c, RollUp(c, TRUE))

\* Mutant: sealed as soon as the leaf is the one the record itself names.
ActorSealedUnlogged(d, log) ==
  /\ NrepOutcome(d) = "passed"
  /\ LeafOutcome(d) = "passed"
  /\ LeafForm(d) = "v3" \/ (LeafForm(d) \in TableForms /\ PreAnchorOutcome(d) = "passed")

\* verifyNrepSignature, sealedByPreAnchor and sealedOnlyWhenLogged: when
\* the report calls the actor section sealed to the anchor.
ActorSealed(d, log) ==
  /\ NrepOutcome(d) = "passed"
  /\ LeafOutcome(d) = "passed"
  /\ \/ LeafForm(d) = "v3"
     \/ LeafForm(d) \in TableForms /\ PreAnchorOutcome(d) = "passed"
  /\ RekorOutcome(d, log) = "passed"
  /\ EntryAuthOutcome(d, log) = "passed"
=============================================================================
