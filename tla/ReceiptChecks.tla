---------------------------- MODULE ReceiptChecks ----------------------------
(***************************************************************************)
(* The checks of a refused or halted run's receipt (receipt.go): what its  *)
(* date demands of its public-log entry, what the entry binds, who logged  *)
(* it and when.  A receipt's hash is the tuple of what it covers; a copy   *)
(* always agrees with its own hash, which anyone who rewrites it can       *)
(* recompute.  The context's own checks (policy, account, job, signature)  *)
(* are in ReceiptRun.                                                      *)
(*                                                                         *)
(* The receipt's clock is finer than the log's, which counts seconds.      *)
(***************************************************************************)
EXTENDS PublicLog, Integers

CONSTANTS
  LeafEnvs,      \* envelope identifiers a leaf may carry: not empty, no dot
  Second,        \* clock ticks in a second
  ExpectedSince, \* receiptAnchorExpectedSince, in ticks
  RequiredSince, \* receiptAnchorRequiredSince, in ticks
  ReceiptWindow, \* ReceiptAnchoringWindowSeconds
  Skew           \* anchoringClockSkew, in seconds

\* receipt_anchor.kind; any other text is "other".
AnchorForms == {"v1", "v2", "v3"}

\* The kinds hash different fields, so no two kinds share a hash.
ReceiptHash(d) == <<d.kind, d.env, d.clock, d.body, d.required>>

\* Mutant: the leaf of every form leaves the run number out.
ReceiptLeafWithoutRun(d, form) ==
  CASE form = "v3" -> <<"v3", d.kind, d.env, ReceiptHash(d), d.context>>
    [] OTHER -> <<form, d.kind, d.env, ReceiptHash(d)>>

ReceiptLeaf(d, form) ==
  CASE form = "v3" -> <<"v3", d.kind, d.env, ReceiptHash(d), d.runId, d.context>>
    [] form = "v2" -> <<"v2", d.kind, d.env, ReceiptHash(d), d.runId>>
    [] OTHER -> <<"v1", d.kind, d.env, ReceiptHash(d)>>

LeafFieldsValid(d, form) ==
  /\ d.env \in LeafEnvs
  /\ form \in {"v2", "v3"} => d.runId > 0

\* The anchor is of a known form, as strong as the receipt demands, binds a
\* context exactly when there is one, and names this receipt and its leaf.
AnchorBinds(d) ==
  LET a == d.anchor
  IN /\ a.form \in AnchorForms
     /\ d.required => a.form # "v1"
     /\ (a.form = "v3") <=> (d.context # None)
     /\ a.kind = d.kind /\ a.hash = ReceiptHash(d)
     /\ LeafFieldsValid(d, a.form)
     /\ a.leaf = ReceiptLeaf(d, a.form)

\* The seconds between the receipt's clock and its entry, without the
\* fraction: int64 rounds toward zero.
Gap(d) ==
  LET ticks == d.anchor.time * Second - d.clock
  IN IF ticks >= 0 THEN ticks \div Second ELSE -((-ticks) \div Second)

\* Mutant: the entry may be as late as it likes.
InReceiptWindowFrom(d) == Gap(d) >= -Skew

InReceiptWindow(d) == Gap(d) >= -Skew /\ Gap(d) <= ReceiptWindow

EntryHolds(d, log) ==
  /\ Logged(d.anchor, log)
  /\ d.anchor.signer \in PinnedKeys
  /\ SignerAcceptsAt(d.anchor.signer, d.anchor.time)
  /\ InReceiptWindow(d)

\* What a receipt without a public-log entry is.
UnanchoredTier(d, selfHosted) ==
  IF d.required \/ (~selfHosted /\ d.clock >= ExpectedSince)
  THEN "FAILED" ELSE "SELF_CONSISTENT_NOT_ANCHORED"

\* Mutant: a backend that is no public log is consistent, whatever the date.
ReceiptTierOffLogAccepted(d, log, selfHosted) ==
  IF ~d.ok \/ (~d.required /\ ~selfHosted /\ d.clock >= RequiredSince) THEN "FAILED"
  ELSE IF d.anchor = None THEN UnanchoredTier(d, selfHosted)
  ELSE IF ~AnchorBinds(d) THEN "FAILED"
  ELSE IF ~d.anchor.onLog THEN "SELF_CONSISTENT_NOT_ANCHORED"
  ELSE IF EntryHolds(d, log) THEN "VERIFIED_ANCHORED" ELSE "FAILED"

\* verifyReceiptDocumentWith.
ReceiptTier(d, log, selfHosted) ==
  IF ~d.ok \/ (~d.required /\ ~selfHosted /\ d.clock >= RequiredSince) THEN "FAILED"
  ELSE IF d.anchor = None THEN UnanchoredTier(d, selfHosted)
  ELSE IF ~AnchorBinds(d) THEN "FAILED"
  ELSE IF ~d.anchor.onLog THEN UnanchoredTier(d, selfHosted)
  ELSE IF EntryHolds(d, log) THEN "VERIFIED_ANCHORED" ELSE "FAILED"
=============================================================================
