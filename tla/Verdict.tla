------------------------------ MODULE Verdict ------------------------------
(***************************************************************************)
(* The roll-up of one audit bundle: what verify() (main.go) makes of the   *)
(* individual checks it ran, and what main() makes of the resulting        *)
(* report when it picks an exit code.                                      *)
(*                                                                         *)
(* A check that carries Performed and Match in the code is one of three    *)
(* outcomes here.  The details a check reports (hashes, reasons, names)    *)
(* are left out: nothing below reads them.                                 *)
(***************************************************************************)
EXTENDS Naturals

\* Performed = FALSE, Performed /\ ~Match, Performed /\ Match.
Outcome == {"absent", "failed", "passed"}

\* BundleAnchorCheck: not carried; carried and not holding; holding on a
\* backend that is no public log; holding as a verified public-log entry.
RecordAnchorOutcome == {"absent", "failed", "local", "logged"}

\* The optional job block of the record (job.Validate).
JobShape == {"none", "malformed", "wellformed"}

\* The checks whose failed outcome alone clears the roll-up.
PerformedChecks == {"rekor", "leaf", "identity", "nrep", "request", "timing",
                    "preAnchor", "entryAuth"}

Tier == {"none", "FAILED", "VERIFIED_ANCHORED", "ANCHORED_PARTIAL_COVERAGE",
         "SELF_CONSISTENT_NOT_ANCHORED"}

Coverage == {"none", "failed", "not_anchored", "complete_record_anchored",
             "partial_descriptive_sections_bundle_sealed",
             "partial_pre_v5_identity_only"}

(***************************************************************************)
(* What the checks of one bundle returned.  hashes: every artifact,        *)
(* category, seal and bundle hash row matches.  onLog: the run anchor      *)
(* names the public log.  requires: the pre-anchor table carries the       *)
(* complete_record_anchor row.  cross: no cross-check failure is listed.   *)
(***************************************************************************)
Checks ==
  [hashes : BOOLEAN, onLog : BOOLEAN, rekor : Outcome, leaf : Outcome,
   identity : Outcome, nrep : Outcome, request : Outcome, timing : Outcome,
   preAnchor : Outcome, recordAnchor : RecordAnchorOutcome,
   requires : BOOLEAN, cross : BOOLEAN, entryAuth : Outcome,
   job : JobShape, scaffold : BOOLEAN]

(***************************************************************************)
(* The combinations verify() can produce.  The three anchor checks run     *)
(* only for a public-log anchor (the inclusion check may still report an   *)
(* entry without a body as not performed); the entry's signer is read      *)
(* only when the inclusion check passed; a requirement row lives in a      *)
(* table.                                                                  *)
(***************************************************************************)
Coherent(c) ==
  /\ c.onLog => c.leaf # "absent" /\ c.identity # "absent"
  /\ ~c.onLog => c.rekor = "absent" /\ c.leaf = "absent" /\ c.identity = "absent"
  /\ (c.entryAuth # "absent") <=> (c.rekor = "passed")
  /\ c.requires => c.preAnchor # "absent"

----------------------------------------------------------------------------

\* verifyCompleteRecordRequirement: a row in the anchored table demands a
\* record anchor that holds, on the public log if the run's anchor is.
RequirementSealed(c) == c.requires

RequirementSatisfied(c) ==
  /\ c.requires
  /\ c.recordAnchor \notin {"absent", "failed"}
  /\ c.onLog => c.recordAnchor = "logged"

\* verify(): the roll-up before the requirement.  The job block's shape is
\* not part of it: verify() stores that error in the report field it
\* overwrites when the roll-up ends.
PassedExceptRequirement(c, gatesHold) ==
  /\ c.hashes
  /\ \A n \in PerformedChecks : c[n] # "failed"
  /\ c.cross
  /\ c.recordAnchor # "failed"
  /\ gatesHold

\* Mutant: the requirement row is read and never enforced.
RollUpWithoutRequirement(c, gatesHold) == PassedExceptRequirement(c, gatesHold)

RollUp(c, gatesHold) ==
  /\ PassedExceptRequirement(c, gatesHold)
  /\ RequirementSealed(c) => RequirementSatisfied(c)

Anchored(c) == c.rekor = "passed" /\ c.leaf = "passed"

\* completeRecordAnchored reads AllPassed as it stands when it is called.
CompleteRecordAnchored(c, allPassed) ==
  allPassed /\ Anchored(c) /\ c.preAnchor = "passed" /\ c.recordAnchor = "logged"

\* Mutant: a partial record is named as one kind, which no reader knows.
RecordCoverageUnlisted(c, allPassed) ==
  IF ~allPassed THEN "failed"
  ELSE IF CompleteRecordAnchored(c, allPassed) THEN "complete_record_anchored" ELSE "partial"

RecordCoverage(c, allPassed) ==
  CASE ~allPassed -> "failed"
    [] allPassed /\ ~Anchored(c) -> "not_anchored"
    [] CompleteRecordAnchored(c, allPassed) -> "complete_record_anchored"
    [] OTHER -> IF c.preAnchor # "absent"
                THEN "partial_descriptive_sections_bundle_sealed"
                ELSE "partial_pre_v5_identity_only"

\* Mutant: the tier before v0.16.0, which called every anchored record verified.
VerdictTierWithoutPartial(c, allPassed) ==
  IF ~allPassed THEN "FAILED"
  ELSE IF Anchored(c) THEN "VERIFIED_ANCHORED" ELSE "SELF_CONSISTENT_NOT_ANCHORED"

VerdictTier(c, allPassed) ==
  CASE ~allPassed -> "FAILED"
    [] allPassed /\ ~Anchored(c) -> "SELF_CONSISTENT_NOT_ANCHORED"
    [] CompleteRecordAnchored(c, allPassed) -> "VERIFIED_ANCHORED"
    [] OTHER -> "ANCHORED_PARTIAL_COVERAGE"

----------------------------------------------------------------------------

\* exitShouldFail and partialCoverageExit, in the order main() asks them.
\* Mutant: --allow-unanchored forgives a failed record too.
ExitShouldFailUnlessAllowed(c, allPassed, strict, allowUnanchored) ==
  \/ strict /\ c.scaffold
  \/ (~allPassed \/ ~Anchored(c)) /\ ~allowUnanchored

ExitShouldFail(c, allPassed, strict, allowUnanchored) ==
  \/ ~allPassed
  \/ strict /\ c.scaffold
  \/ ~Anchored(c) /\ ~allowUnanchored

\* Mutant: the flag is read the wrong way round.
PartialCoverageExitWhenAllowed(c, allPassed, allowPartial) ==
  allPassed /\ Anchored(c) /\ ~CompleteRecordAnchored(c, allPassed) /\ allowPartial

PartialCoverageExit(c, allPassed, allowPartial) ==
  /\ allPassed
  /\ Anchored(c)
  /\ ~CompleteRecordAnchored(c, allPassed)
  /\ ~allowPartial

ExitCode(c, allPassed, flags) ==
  CASE ExitShouldFail(c, allPassed, flags.strict, flags.allowUnanchored) -> 1
    [] ~ExitShouldFail(c, allPassed, flags.strict, flags.allowUnanchored)
       /\ PartialCoverageExit(c, allPassed, flags.allowPartial) -> 3
    [] OTHER -> 0
============================================================================
