----------------------------- MODULE VerifyRun -----------------------------
(***************************************************************************)
(* One invocation of verdifax-verify on an audit bundle: main() from the   *)
(* decoded bundle to the exit code.  verify() rolls the checks up into a   *)
(* report; the optional files (--policy, --policy-history,                 *)
(* --account-policy, --account-policy-history, --signer-key, --request)    *)
(* are then read and applied to that same report one after another; the    *)
(* exit code is taken from what is left.                                   *)
(***************************************************************************)
EXTENDS Verdict, OptionalFiles

CONSTANTS
  Invocations, \* [records, flagSets]: decoded bundles, as what their checks return
               \* and what they seal, and the command lines given with them
  Keys,     \* request-signing public keys
  Bodies,   \* exact signed requests
  AccountNames \* what a record may carry in account_id, well formed or not

VARIABLES
  record,  \* the bundle
  flags,   \* the command line
  report,  \* the Report main() builds
  pc,      \* the next step of main()
  exit     \* the exit code, None while the process runs

vars == <<record, flags, report, pc, exit>>

RequestCheck == [outcome : Outcome, pinned : BOOLEAN, matched : BOOLEAN]

\* A decoded bundle.  requestBody is None under a version 1 signature.
Record ==
  [checks : {c \in Checks : Coherent(c)},
   gate : {g \in GateCheck : Sealed(g) \/ g = NoGate},
   accountGate : {g \in GateCheck : Sealed(g) \/ g = NoGate},
   account : AccountNames \cup {None},
   requestKey : Keys \cup {None}, requestBody : Bodies \cup {None}]

Flags ==
  [policy : Texts \cup {None, Missing}, history : Chain \cup {None, Missing},
   accountPolicy : Texts \cup {None, Missing},
   accountHistory : Chain \cup {None, Missing},
   signerKey : Keys \cup {None, Missing}, request : Bodies \cup {None, Missing},
   strict : BOOLEAN, allowPartial : BOOLEAN, allowUnanchored : BOOLEAN]

ASSUME InvocationsAssumption ==
  \A i \in Invocations : i.records \subseteq Record /\ i.flagSets \subseteq Flags

\* The flags main() reads a file for.
FileSteps == {"policy", "history", "accountPolicy", "accountHistory",
              "signerKey", "request"}

StepAfter ==
  [verify |-> "policy", policy |-> "history", history |-> "accountPolicy",
   accountPolicy |-> "accountHistory", accountHistory |-> "accountVerdict",
   accountVerdict |-> "signerKey", signerKey |-> "request", request |-> "exit",
   exit |-> "done"]

Unread == [allPassed |-> FALSE, tier |-> "none", coverage |-> "none",
           request |-> [outcome |-> "absent", pinned |-> FALSE, matched |-> FALSE],
           gate |-> NoGate, accountGate |-> NoGate, accountHistoryOK |-> TRUE]

Init ==
  /\ \E i \in Invocations : record \in i.records /\ flags \in i.flagSets
  /\ report = Unread
  /\ pc = "verify"
  /\ exit = None

Advance == pc' = StepAfter[pc]

----------------------------------------------------------------------------

\* applyPolicyDocument, the --policy-history block and applyAccountFlags
\* all fail a report the same way.
FailReport(r) == [r EXCEPT !.allPassed = FALSE, !.tier = "FAILED", !.coverage = "failed"]

FailReportIf(failed, r) == IF failed THEN FailReport(r) ELSE r

\* accountGateOfBundle.
AccountGateOf(rec) ==
  IF rec.accountGate.present THEN CheckAccountGate(rec.accountGate, rec.account)
  ELSE rec.accountGate

\* A number the server could not have assigned is a cross-check failure.
ChecksOf(rec) == [rec.checks EXCEPT !.cross = @ /\ AccountIDKnown(rec.account)]

GatesHold(rec) ==
  ~PolicyFailed(CheckBuiltIn(rec.gate)) /\ ~PolicyFailed(AccountGateOf(rec))

Verify ==
  /\ pc = "verify"
  /\ LET c      == ChecksOf(record)
         passed == RollUp(c, GatesHold(record))
     IN report' = [allPassed |-> passed,
                   tier |-> VerdictTier(c, passed),
                   coverage |-> RecordCoverage(c, passed),
                   request |-> [outcome |-> c.request, pinned |-> FALSE, matched |-> FALSE],
                   gate |-> CheckBuiltIn(record.gate),
                   accountGate |-> AccountGateOf(record),
                   accountHistoryOK |-> TRUE]
  /\ Advance
  /\ UNCHANGED <<record, flags, exit>>

\* A flag that was not given leaves the report as it is.
SkipFile ==
  /\ pc \in FileSteps
  /\ flags[pc] = None
  /\ Advance
  /\ UNCHANGED <<record, flags, report, exit>>

\* os.ReadFile failed: the process ends with 2 and prints no report.
FileUnreadable ==
  /\ pc \in FileSteps
  /\ flags[pc] = Missing
  /\ exit' = 2
  /\ pc' = "done"
  /\ UNCHANGED <<record, flags, report>>

FileAt(step) == pc = step /\ flags[step] \notin {None, Missing}

ApplyPolicy ==
  /\ FileAt("policy")
  /\ LET g == CheckPolicyDocument(report.gate, flags.policy)
     IN report' = FailReportIf(PolicyFailed(g), [report EXCEPT !.gate = g])
  /\ Advance
  /\ UNCHANGED <<record, flags, exit>>

ApplyHistory ==
  /\ FileAt("history")
  /\ report' = FailReportIf(~RecordInChain(flags.history, report.gate.activation), report)
  /\ Advance
  /\ UNCHANGED <<record, flags, exit>>

ApplyAccountPolicy ==
  /\ FileAt("accountPolicy")
  /\ report' = [report EXCEPT !.accountGate = ApplyAccountDocument(@, flags.accountPolicy)]
  /\ Advance
  /\ UNCHANGED <<record, flags, exit>>

ApplyAccountHistory ==
  /\ FileAt("accountHistory")
  /\ report' = [report EXCEPT !.accountHistoryOK =
                  AccountHistoryHolds(flags.accountHistory, record.account,
                                      report.accountGate.activation)]
  /\ Advance
  /\ UNCHANGED <<record, flags, exit>>

\* Mutant: accountFailed reads the policy check and not the history.
JudgeAccountWithoutHistory ==
  /\ pc = "accountVerdict"
  /\ report' = FailReportIf(PolicyFailed(report.accountGate), report)
  /\ Advance
  /\ UNCHANGED <<record, flags, exit>>

\* The end of applyAccountFlags, which runs whatever flags were given.
JudgeAccount ==
  /\ pc = "accountVerdict"
  /\ report' = FailReportIf(PolicyFailed(report.accountGate) \/ ~report.accountHistoryOK,
                            report)
  /\ Advance
  /\ UNCHANGED <<record, flags, exit>>

\* applySignerKey: it clears AllPassed alone, not the tier or the coverage.
ApplySignerKey ==
  /\ FileAt("signerKey")
  /\ LET c == report.request
     IN report' =
          CASE c.outcome = "passed" /\ record.requestKey = flags.signerKey ->
                 [report EXCEPT !.request.pinned = TRUE]
            [] c.outcome = "failed" -> report
            [] OTHER -> [report EXCEPT !.request.outcome = "failed", !.allPassed = FALSE]
  /\ Advance
  /\ UNCHANGED <<record, flags, exit>>

\* Mutant: --request puts its own result in place of the verdict.
ApplyRequestAssigned ==
  /\ FileAt("request")
  /\ LET matched == report.request.outcome = "passed" /\ record.requestBody = flags.request
     IN report' = [report EXCEPT !.request.matched = matched, !.allPassed = matched]
  /\ Advance
  /\ UNCHANGED <<record, flags, exit>>

\* applyRequestFile and the assignment after it: only a version 2
\* signature covers a body, and it must be the one in the file.
ApplyRequest ==
  /\ FileAt("request")
  /\ report' =
       IF report.request.outcome = "passed" /\ record.requestBody = flags.request
       THEN [report EXCEPT !.request.matched = TRUE]
       ELSE [report EXCEPT !.request.outcome = "failed", !.allPassed = FALSE]
  /\ Advance
  /\ UNCHANGED <<record, flags, exit>>

Exit ==
  /\ pc = "exit"
  /\ exit' = ExitCode(record.checks, report.allPassed, flags)
  /\ Advance
  /\ UNCHANGED <<record, flags, report>>

Next ==
  \/ Verify \/ SkipFile \/ FileUnreadable
  \/ ApplyPolicy \/ ApplyHistory \/ ApplyAccountPolicy \/ ApplyAccountHistory
  \/ JudgeAccount \/ ApplySignerKey \/ ApplyRequest \/ Exit

\* main() is sequential and every step of it returns.
Spec == Init /\ [][Next]_vars /\ WF_vars(Next)

----------------------------------------------------------------------------
(* Properties *)

Report ==
  [allPassed : BOOLEAN, tier : Tier, coverage : Coverage, request : RequestCheck,
   gate : GateCheck, accountGate : GateCheck, accountHistoryOK : BOOLEAN]

\* Every step leaves a report of the type --json prints, on a bundle and a
\* command line that do not change.
TypeOK ==
  /\ record \in Record
  /\ flags \in Flags
  /\ report \in Report
  /\ pc \in DOMAIN StepAfter \cup {"done"}
  /\ exit \in {None, 0, 1, 2, 3}

Accepted == pc = "done" /\ exit \in {0, 3}

\* A script that treats exit 0 as a pass, and gave neither allow flag,
\* accepts only a record whose run entry, table and record entry all hold
\* on the public log, with nothing in it failing (main.go exit codes).
CleanExitIsComplete ==
  (pc = "done" /\ exit = 0 /\ ~flags.allowPartial /\ ~flags.allowUnanchored) =>
    /\ CompleteRecordAnchored(record.checks, TRUE)
    /\ RollUp(ChecksOf(record), GatesHold(record))
    /\ ~(flags.strict /\ record.checks.scaffold)

\* A record whose anchored table requires a record anchor, and that carries
\* none that holds on the log, exits 1 (or 2 when a file cannot be read)
\* whatever flags are given: never the partial verdict an older record earns.
RequirementIsFinal ==
  (RequirementSealed(record.checks) /\ ~RequirementSatisfied(record.checks)) =>
    /\ ~Accepted
    /\ report.tier # "ANCHORED_PARTIAL_COVERAGE"

\* The tier a reader sees and the exit code a script sees tell one story
\* on a record no request file or key was checked against.
TierMatchesExit ==
  (/\ pc = "done" /\ exit # 2
   /\ flags.signerKey = None /\ flags.request = None
   /\ ~flags.allowPartial /\ ~flags.allowUnanchored) =>
    /\ report.tier = "VERIFIED_ANCHORED" <=> report.coverage = "complete_record_anchored"
    /\ exit = 0 <=> report.tier = "VERIFIED_ANCHORED"
                    /\ ~(flags.strict /\ record.checks.scaffold)
    /\ exit = 3 => report.tier = "ANCHORED_PARTIAL_COVERAGE"

\* What the report says at every step, given what verify() found: the
\* facts that make the three invariants above inductive.
\* Only the request flags may leave a failed report with its old words.
VerdictStands ==
  LET c      == ChecksOf(record)
      passed == RollUp(c, GatesHold(record))
  IN /\ report.allPassed => passed
     /\ report.tier \in {"none", "FAILED", VerdictTier(c, passed)}
     /\ (pc # "verify" /\ report.allPassed) =>
          report.tier = VerdictTier(c, TRUE) /\ report.coverage = RecordCoverage(c, TRUE)
     /\ (pc # "verify" /\ ~report.allPassed /\ flags.signerKey = None /\ flags.request = None) =>
          report.tier = "FAILED" /\ report.coverage = "failed"
     /\ pc # "done" => exit = None
     /\ (pc = "done" /\ exit # 2) => exit = ExitCode(record.checks, report.allPassed, flags)

\* Every history, account, key and request file on the command line of an
\* accepted record was read and agrees with what the record seals: no
\* later step forgives what an earlier file showed.
SuppliedFilesHold ==
  Accepted =>
    /\ flags.history # None =>
         flags.history # Missing /\ RecordInChain(flags.history, record.gate.activation)
    /\ flags.accountPolicy # None =>
         /\ flags.accountPolicy \in Readable /\ record.accountGate.present
         /\ DocumentIsSealedOne(record.accountGate, flags.accountPolicy)
    /\ flags.accountHistory # None =>
         /\ flags.accountHistory # Missing
         /\ AccountHistoryHolds(flags.accountHistory, record.account,
                                record.accountGate.activation)
    /\ flags.signerKey # None =>
         record.checks.request = "passed" /\ record.requestKey = flags.signerKey
    /\ flags.request # None =>
         record.checks.request = "passed" /\ record.requestBody = flags.request

\* An accepted record checked against a --policy document seals that
\* document's policy, and where it seals inputs the document's rules reach
\* the sealed decision.
PolicyFileHoldsFor(g) ==
  (Accepted /\ flags.policy # None) =>
    /\ flags.policy \in Readable /\ g.present
    /\ DocumentIsSealedOne(g, flags.policy)
    /\ g.inputs # None => RulesAgree(g, flags.policy)

\* This holds for every record but one under Verdifax's own policy, whose
\* check already matched before the file is read.
PolicyFileHolds == record.gate.source # "verdifax" => PolicyFileHoldsFor(record.gate)

\* README, --policy: the verifier fails unless the document's hash and
\* identity equal the sealed values, whoever wrote the policy.
EveryPolicyFileHolds == PolicyFileHoldsFor(record.gate)

\* main.go, RecordCoverage: a failed record is reported as "failed".
FailedRecordSaysFailed ==
  (pc = "done" /\ exit # 2 /\ ~report.allPassed) => report.coverage = "failed"

\* job.go: a job block whose lists are unsorted or repeat is no job block
\* of a verified record.
AcceptedJobIsWellFormed == Accepted => record.checks.job # "malformed"

\* Once the report has failed, no later file brings it back.
FailureIsFinal ==
  [][(pc # "verify" /\ ~report.allPassed) => ~report'.allPassed]_vars

Promise == INSTANCE VerifierPromise WITH
  standing <- IF pc = "verify" THEN "unjudged"
              ELSE IF report.allPassed THEN "holds" ELSE "fails",
  exit <- exit

\* One run of main() on a bundle keeps the verifier's promise.
KeepsPromise == Promise!Spec
=============================================================================
