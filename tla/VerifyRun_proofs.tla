-------------------------- MODULE VerifyRun_proofs --------------------------
(***************************************************************************)
(* Proofs about VerifyRun, for every set of records, command lines, texts, *)
(* policies and accounts.                                                  *)
(***************************************************************************)
EXTENDS VerifyRun, TLAPS

(***************************************************************************)
(* The type invariant.                                                     *)
(***************************************************************************)

\* Checking a document only records what was checked.
LEMMA CheckPolicyDocumentType ==
  ASSUME NEW g \in GateCheck, NEW text
  PROVE  CheckPolicyDocument(g, text) \in GateCheck
BY DEF CheckPolicyDocument, GateCheck

LEMMA GateTypes ==
  ASSUME NEW g \in GateCheck, NEW text, NEW account
  PROVE  /\ CheckBuiltIn(g) \in GateCheck
         /\ CheckAccountGate(g, account) \in GateCheck
<1>1. Fail(g) \in GateCheck
  BY DEF Fail, GateCheck
<1>2. CheckPolicyDocument(g, g.document) \in GateCheck
  BY CheckPolicyDocumentType
<1> QED
  BY <1>1, <1>2 DEF CheckBuiltIn, CheckAccountGate

LEMMA NoGateType == NoGate \in GateCheck
BY DEF NoGate, GateCheck, Source, Effect

LEMMA ApplyAccountDocumentType ==
  ASSUME NEW g \in GateCheck, NEW text
  PROVE  ApplyAccountDocument(g, text) \in GateCheck
<1>1. [NoGate EXCEPT !.checked = TRUE] \in GateCheck
  BY NoGateType DEF GateCheck
<1> QED
  BY <1>1, CheckPolicyDocumentType DEF ApplyAccountDocument

\* The checks of a record stay checks when its account is judged.
LEMMA ChecksOfType ==
  ASSUME NEW rec \in Record
  PROVE  ChecksOf(rec) \in Checks
BY DEF Record, ChecksOf, Checks

\* What a file leaves of a report is a report.
LEMMA FailReportType ==
  ASSUME NEW r \in Report, NEW failed \in BOOLEAN
  PROVE  FailReportIf(failed, r) \in Report
BY DEF Report, FailReportIf, FailReport, Tier, Coverage

LEMMA StepAfterType ==
  ASSUME NEW step \in DOMAIN StepAfter
  PROVE  StepAfter[step] \in DOMAIN StepAfter \cup {"done"}
BY DEF StepAfter

LEMMA TypeInit == Init => TypeOK
<1> SUFFICES ASSUME Init PROVE TypeOK
  OBVIOUS
<1>1. Unread \in Report
  BY NoGateType DEF Unread, Report, RequestCheck, Outcome, Tier, Coverage
<1>2. record \in Record /\ flags \in Flags
  BY InvocationsAssumption DEF Init
<1>3. pc \in DOMAIN StepAfter
  BY DEF Init, StepAfter
<1> QED
  BY <1>1, <1>2, <1>3 DEF Init, TypeOK

\* Reading the record gives a report.
LEMMA VerifyType ==
  ASSUME TypeOK, Verify
  PROVE  report' \in Report
<1>1. record \in Record
  BY DEF TypeOK
<1>2. ChecksOf(record) \in Checks
  BY <1>1, ChecksOfType
<1>3. RollUp(ChecksOf(record), GatesHold(record)) \in BOOLEAN
  BY DEF RollUp
<1>4. record.gate \in GateCheck /\ record.accountGate \in GateCheck
  BY <1>1, NoGateType DEF Record
<1>5. CheckBuiltIn(record.gate) \in GateCheck
  BY <1>4, GateTypes
<1>6. AccountGateOf(record) \in GateCheck
  BY <1>4, GateTypes DEF AccountGateOf
<1>7. ChecksOf(record).request \in Outcome
  BY <1>2 DEF Checks
<1>8. ASSUME NEW c, NEW passed \in BOOLEAN
      PROVE  VerdictTier(c, passed) \in Tier /\ RecordCoverage(c, passed) \in Coverage
  BY DEF VerdictTier, RecordCoverage, Tier, Coverage
<1> QED
  BY <1>3, <1>5, <1>6, <1>7, <1>8 DEF Verify, Report, RequestCheck

\* Every step of main() but the first leaves the record and the command
\* line alone and goes to a step main() has.
LEMMA TypeStep == TypeOK /\ [Next]_vars => TypeOK'
<1> SUFFICES ASSUME TypeOK, [Next]_vars PROVE TypeOK'
  OBVIOUS
<1>1. record \in Record /\ flags \in Flags /\ report \in Report
  BY DEF TypeOK
<1>2. report.gate \in GateCheck /\ report.accountGate \in GateCheck
      /\ report.request \in RequestCheck
  BY <1>1 DEF Report
<1>3. ASSUME record' = record, flags' = flags, exit' = exit,
             pc \in DOMAIN StepAfter, pc' = StepAfter[pc], report' \in Report
      PROVE  TypeOK'
  BY <1>1, <1>3, StepAfterType DEF TypeOK
<1>4. FileSteps \subseteq DOMAIN StepAfter
  BY DEF FileSteps, StepAfter
<1>5. CASE Verify
  <2>1. pc \in DOMAIN StepAfter
    BY <1>5 DEF Verify, StepAfter
  <2> QED
    BY <1>3, <1>5, <2>1, VerifyType DEF Verify, Advance
<1>6. CASE SkipFile
  BY <1>1, <1>3, <1>4, <1>6 DEF SkipFile, Advance
<1>7. CASE FileUnreadable
  BY <1>7 DEF FileUnreadable, TypeOK
<1>8. CASE ApplyPolicy
  <2> DEFINE g == CheckPolicyDocument(report.gate, flags.policy)
  <2>1. g \in GateCheck
    BY <1>2, CheckPolicyDocumentType
  <2>2. [report EXCEPT !.gate = g] \in Report
    BY <1>1, <2>1 DEF Report
  <2>3. PolicyFailed(g) \in BOOLEAN
    BY DEF PolicyFailed
  <2>4. FailReportIf(PolicyFailed(g), [report EXCEPT !.gate = g]) \in Report
    BY <2>2, <2>3, FailReportType
  <2>5. pc \in DOMAIN StepAfter
    BY <1>8 DEF ApplyPolicy, FileAt, StepAfter
  <2> QED
    BY <1>3, <1>8, <2>4, <2>5 DEF ApplyPolicy, Advance
<1>9. CASE ApplyHistory
  <2>1. (~RecordInChain(flags.history, report.gate.activation)) \in BOOLEAN
    OBVIOUS
  <2>2. report' \in Report
    BY <1>1, <1>9, <2>1, FailReportType DEF ApplyHistory
  <2>3. pc \in DOMAIN StepAfter
    BY <1>9 DEF ApplyHistory, FileAt, StepAfter
  <2> QED
    BY <1>3, <1>9, <2>2, <2>3 DEF ApplyHistory, Advance
<1>10. CASE ApplyAccountPolicy
  <2>1. ApplyAccountDocument(report.accountGate, flags.accountPolicy) \in GateCheck
    BY <1>2, ApplyAccountDocumentType
  <2>2. report' \in Report
    BY <1>1, <1>10, <2>1 DEF ApplyAccountPolicy, Report
  <2>3. pc \in DOMAIN StepAfter
    BY <1>10 DEF ApplyAccountPolicy, FileAt, StepAfter
  <2> QED
    BY <1>3, <1>10, <2>2, <2>3 DEF ApplyAccountPolicy, Advance
<1>11. CASE ApplyAccountHistory
  <2>1. AccountHistoryHolds(flags.accountHistory, record.account,
                            report.accountGate.activation) \in BOOLEAN
    BY DEF AccountHistoryHolds
  <2>2. report' \in Report
    BY <1>1, <1>11, <2>1 DEF ApplyAccountHistory, Report
  <2>3. pc \in DOMAIN StepAfter
    BY <1>11 DEF ApplyAccountHistory, FileAt, StepAfter
  <2> QED
    BY <1>3, <1>11, <2>2, <2>3 DEF ApplyAccountHistory, Advance
<1>12. CASE JudgeAccount
  <2>1. (PolicyFailed(report.accountGate) \/ ~report.accountHistoryOK) \in BOOLEAN
    OBVIOUS
  <2>2. report' \in Report
    BY <1>1, <1>12, <2>1, FailReportType DEF JudgeAccount
  <2>3. pc \in DOMAIN StepAfter
    BY <1>12 DEF JudgeAccount, StepAfter
  <2> QED
    BY <1>3, <1>12, <2>2, <2>3 DEF JudgeAccount, Advance
<1>13. CASE ApplySignerKey
  <2>1. [report EXCEPT !.request.pinned = TRUE] \in Report
    BY <1>1, <1>2 DEF Report, RequestCheck
  <2>2. [report EXCEPT !.request.outcome = "failed", !.allPassed = FALSE] \in Report
    BY <1>1, <1>2 DEF Report, RequestCheck, Outcome
  <2>3. report' \in Report
    BY <1>1, <1>13, <2>1, <2>2 DEF ApplySignerKey
  <2>4. pc \in DOMAIN StepAfter
    BY <1>13 DEF ApplySignerKey, FileAt, StepAfter
  <2> QED
    BY <1>3, <1>13, <2>3, <2>4 DEF ApplySignerKey, Advance
<1>14. CASE ApplyRequest
  <2>1. [report EXCEPT !.request.matched = TRUE] \in Report
    BY <1>1, <1>2 DEF Report, RequestCheck
  <2>2. [report EXCEPT !.request.outcome = "failed", !.allPassed = FALSE] \in Report
    BY <1>1, <1>2 DEF Report, RequestCheck, Outcome
  <2>3. report' \in Report
    BY <1>14, <2>1, <2>2 DEF ApplyRequest
  <2>4. pc \in DOMAIN StepAfter
    BY <1>14 DEF ApplyRequest, FileAt, StepAfter
  <2> QED
    BY <1>3, <1>14, <2>3, <2>4 DEF ApplyRequest, Advance
<1>15. CASE Exit
  <2>1. exit' \in {0, 1, 3}
    BY <1>15 DEF Exit, ExitCode
  <2>2. pc' = "done"
    BY <1>15 DEF Exit, Advance, StepAfter
  <2> QED
    BY <1>1, <1>15, <2>1, <2>2 DEF Exit, TypeOK
<1>16. CASE UNCHANGED vars
  BY <1>16 DEF vars, TypeOK
<1> QED
  BY <1>5, <1>6, <1>7, <1>8, <1>9, <1>10, <1>11, <1>12, <1>13, <1>14, <1>15, <1>16 DEF Next

\* Main() keeps the record, the command line, the report and its own
\* progress within their types, on every bundle and every command line.
THEOREM TypeCorrect == Spec => []TypeOK
BY TypeInit, TypeStep, PTL DEF Spec

(***************************************************************************)
(* The verdict.  VerdictStands is inductive together with TypeOK: only     *)
(* Verify writes a passing report, and whatever lowers it later either     *)
(* lowers its words with it or was asked for by a request flag.            *)
(***************************************************************************)

\* The steps between the judgement and the exit code.
Between == DOMAIN StepAfter \ {"verify", "exit"}

LEMMA BetweenSteps ==
  ASSUME NEW step \in Between
  PROVE  StepAfter[step] \notin {"verify", "done"}
BY DEF Between, StepAfter

\* What a file step may do to the three words of the report.
Keeps(r, q) == q.allPassed = r.allPassed /\ q.tier = r.tier /\ q.coverage = r.coverage
Fails(q) == q.allPassed = FALSE /\ q.tier = "FAILED" /\ q.coverage = "failed"
FailsOnly(r, q) == q.allPassed = FALSE /\ q.tier = r.tier /\ q.coverage = r.coverage

LEMMA FailReportIfFails ==
  ASSUME NEW r \in Report, NEW q \in Report, NEW failed, Keeps(r, q)
  PROVE  Keeps(r, FailReportIf(failed, q)) \/ Fails(FailReportIf(failed, q))
BY DEF FailReportIf, FailReport, Keeps, Fails, Report

\* Between the judgement and the exit, the report keeps its words, fails
\* with them, or fails because a request flag was given.
LEMMA FileStep ==
  ASSUME TypeOK, Next, ~Verify, ~Exit, ~FileUnreadable
  PROVE  /\ pc \in Between /\ pc' = StepAfter[pc]
         /\ record' = record /\ flags' = flags /\ exit' = exit
         /\ \/ Keeps(report, report')
            \/ Fails(report')
            \/ /\ FailsOnly(report, report')
               /\ flags.signerKey # None \/ flags.request # None
<1>1. report \in Report
  BY DEF TypeOK
<1>2. report.request \in RequestCheck
  BY <1>1 DEF Report
<1>3. CASE SkipFile
  BY <1>3 DEF SkipFile, Advance, FileSteps, Between, StepAfter, Keeps
<1>4. CASE ApplyPolicy
  <2> DEFINE g == CheckPolicyDocument(report.gate, flags.policy)
  <2>1. g \in GateCheck
    BY <1>1, CheckPolicyDocumentType DEF Report
  <2>2. /\ [report EXCEPT !.gate = g] \in Report
        /\ Keeps(report, [report EXCEPT !.gate = g])
    BY <1>1, <2>1 DEF Report, Keeps
  <2>3. report' = FailReportIf(PolicyFailed(g), [report EXCEPT !.gate = g])
    BY <1>4 DEF ApplyPolicy
  <2>4. Keeps(report, report') \/ Fails(report')
    BY <1>1, <2>2, <2>3, FailReportIfFails
  <2> QED
    BY <1>4, <2>4 DEF ApplyPolicy, FileAt, Advance, Between, StepAfter
<1>5. CASE ApplyHistory
  <2>1. Keeps(report, report)
    BY DEF Keeps
  <2>2. Keeps(report, report') \/ Fails(report')
    BY <1>1, <1>5, <2>1, FailReportIfFails DEF ApplyHistory
  <2> QED
    BY <1>5, <2>2 DEF ApplyHistory, FileAt, Advance, Between, StepAfter
<1>6. CASE ApplyAccountPolicy
  <2>1. Keeps(report, report')
    BY <1>1, <1>6 DEF ApplyAccountPolicy, Report, Keeps
  <2> QED
    BY <1>6, <2>1 DEF ApplyAccountPolicy, FileAt, Advance, Between, StepAfter
<1>7. CASE ApplyAccountHistory
  <2>1. Keeps(report, report')
    BY <1>1, <1>7 DEF ApplyAccountHistory, Report, Keeps
  <2> QED
    BY <1>7, <2>1 DEF ApplyAccountHistory, FileAt, Advance, Between, StepAfter
<1>8. CASE JudgeAccount
  <2>1. Keeps(report, report)
    BY DEF Keeps
  <2>2. Keeps(report, report') \/ Fails(report')
    BY <1>1, <1>8, <2>1, FailReportIfFails DEF JudgeAccount
  <2> QED
    BY <1>8, <2>2 DEF JudgeAccount, Advance, Between, StepAfter
<1>9. CASE ApplySignerKey
  <2>1. flags.signerKey # None
    BY <1>9 DEF ApplySignerKey, FileAt
  <2>2. Keeps(report, report') \/ FailsOnly(report, report')
    BY <1>1, <1>2, <1>9 DEF ApplySignerKey, Report, RequestCheck, Keeps, FailsOnly
  <2> QED
    BY <1>9, <2>1, <2>2 DEF ApplySignerKey, FileAt, Advance, Between, StepAfter
<1>10. CASE ApplyRequest
  <2>1. flags.request # None
    BY <1>10 DEF ApplyRequest, FileAt
  <2>2. Keeps(report, report') \/ FailsOnly(report, report')
    BY <1>1, <1>2, <1>10 DEF ApplyRequest, Report, RequestCheck, Keeps, FailsOnly
  <2> QED
    BY <1>10, <2>1, <2>2 DEF ApplyRequest, FileAt, Advance, Between, StepAfter
<1> QED
  BY <1>3, <1>4, <1>5, <1>6, <1>7, <1>8, <1>9, <1>10 DEF Next

LEMMA VerdictInit == Init => VerdictStands
BY DEF Init, VerdictStands, Unread

LEMMA VerdictStep == TypeOK /\ VerdictStands /\ [Next]_vars => VerdictStands'
<1> SUFFICES ASSUME TypeOK, VerdictStands, [Next]_vars PROVE VerdictStands'
  OBVIOUS
<1>1. CASE Verify
  <2> DEFINE c == ChecksOf(record)
             passed == RollUp(c, GatesHold(record))
  <2>1. /\ report'.allPassed = passed
        /\ report'.tier = VerdictTier(c, passed)
        /\ report'.coverage = RecordCoverage(c, passed)
    BY <1>1 DEF Verify
  <2>2. passed \in BOOLEAN
    BY DEF RollUp
  <2>3. pc' \notin {"verify", "done"} /\ exit' = None /\ record' = record /\ flags' = flags
    BY <1>1 DEF Verify, Advance, StepAfter, VerdictStands
  <2>4. VerdictTier(c, FALSE) = "FAILED" /\ RecordCoverage(c, FALSE) = "failed"
    BY DEF VerdictTier, RecordCoverage, CompleteRecordAnchored
  <2> QED
    BY <2>1, <2>2, <2>3, <2>4 DEF VerdictStands
<1>2. CASE Exit
  <2>1. pc' = "done" /\ pc = "exit"
    BY <1>2 DEF Exit, Advance, StepAfter
  <2>2. record' = record /\ flags' = flags /\ report' = report
    BY <1>2 DEF Exit
  <2>3. exit' = ExitCode(record.checks, report.allPassed, flags)
    BY <1>2 DEF Exit
  <2> QED
    BY <2>1, <2>2, <2>3 DEF VerdictStands
<1>3. CASE FileUnreadable
  <2>1. pc # "verify" /\ pc' = "done" /\ exit' = 2
    BY <1>3 DEF FileUnreadable, FileSteps
  <2>2. record' = record /\ flags' = flags /\ report' = report
    BY <1>3 DEF FileUnreadable
  <2> QED
    BY <2>1, <2>2 DEF VerdictStands
<1>4. CASE Next /\ ~Verify /\ ~Exit /\ ~FileUnreadable
  <2>1. /\ record' = record /\ flags' = flags /\ exit' = exit
        /\ pc \notin {"verify", "done"} /\ pc' \notin {"verify", "done"}
    BY <1>4, FileStep, BetweenSteps DEF Between, StepAfter
  <2>2. CASE Keeps(report, report')
    BY <2>1, <2>2 DEF VerdictStands, Keeps
  <2>3. CASE Fails(report')
    BY <2>1, <2>3 DEF VerdictStands, Fails
  <2>4. CASE FailsOnly(report, report') /\ (flags.signerKey # None \/ flags.request # None)
    BY <2>1, <2>4 DEF VerdictStands, FailsOnly
  <2> QED
    BY <1>4, <2>2, <2>3, <2>4, FileStep
<1>5. CASE UNCHANGED vars
  BY <1>5 DEF vars, VerdictStands
<1> QED
  BY <1>1, <1>2, <1>3, <1>4, <1>5

\* At every step of main() the report says what verify() found, lowered by
\* what the files showed, and the exit code is the report's.
THEOREM VerdictStandsAlways == Spec => [](TypeOK /\ VerdictStands)
<1>1. Init => TypeOK /\ VerdictStands
  BY TypeInit, VerdictInit
<1>2. TypeOK /\ VerdictStands /\ [Next]_vars => (TypeOK /\ VerdictStands)'
  BY TypeStep, VerdictStep
<1> QED
  BY <1>1, <1>2, PTL DEF Spec

----------------------------------------------------------------------------
(* What follows from it. *)

\* The account number decides one cross-check and nothing else.
LEMMA AccountLeavesAnchors ==
  ASSUME NEW rec \in Record, NEW passed
  PROVE  /\ Anchored(ChecksOf(rec)) = Anchored(rec.checks)
         /\ CompleteRecordAnchored(ChecksOf(rec), passed) =
              CompleteRecordAnchored(rec.checks, passed)
         /\ RequirementSealed(ChecksOf(rec)) = RequirementSealed(rec.checks)
         /\ RequirementSatisfied(ChecksOf(rec)) = RequirementSatisfied(rec.checks)
<1>1. \A f \in {"rekor", "leaf", "preAnchor", "recordAnchor", "requires", "onLog"} :
        ChecksOf(rec)[f] = rec.checks[f]
  BY DEF Record, ChecksOf, Checks
<1>2. /\ ChecksOf(rec).rekor = rec.checks.rekor /\ ChecksOf(rec).leaf = rec.checks.leaf
      /\ ChecksOf(rec).preAnchor = rec.checks.preAnchor
      /\ ChecksOf(rec).recordAnchor = rec.checks.recordAnchor
      /\ ChecksOf(rec).requires = rec.checks.requires
      /\ ChecksOf(rec).onLog = rec.checks.onLog
  BY <1>1
<1> QED
  BY <1>2 DEF Anchored, CompleteRecordAnchored, RequirementSealed, RequirementSatisfied

\* No script that treats exit 0 as a pass accepts a record the public log
\* covers only in part, or one with a failed check.
THEOREM CleanExit == Spec => []CleanExitIsComplete
<1>1. TypeOK /\ VerdictStands => CleanExitIsComplete
  <2> SUFFICES ASSUME TypeOK, VerdictStands, pc = "done", exit = 0,
                      ~flags.allowPartial, ~flags.allowUnanchored
               PROVE  /\ CompleteRecordAnchored(record.checks, TRUE)
                      /\ RollUp(ChecksOf(record), GatesHold(record))
                      /\ ~(flags.strict /\ record.checks.scaffold)
    BY DEF CleanExitIsComplete
  <2>1. ExitCode(record.checks, report.allPassed, flags) = 0
    BY DEF VerdictStands
  <2>2. ~ExitShouldFail(record.checks, report.allPassed, flags.strict, flags.allowUnanchored)
    BY <2>1 DEF ExitCode
  <2>3. ~PartialCoverageExit(record.checks, report.allPassed, flags.allowPartial)
    BY <2>1, <2>2 DEF ExitCode
  <2>4. /\ report.allPassed /\ Anchored(record.checks)
        /\ ~(flags.strict /\ record.checks.scaffold)
    BY <2>2 DEF ExitShouldFail
  <2>5. CompleteRecordAnchored(record.checks, TRUE)
    BY <2>3, <2>4 DEF PartialCoverageExit, CompleteRecordAnchored
  <2> QED
    BY <2>4, <2>5 DEF VerdictStands
<1> QED
  BY <1>1, VerdictStandsAlways, PTL

\* A record that seals the requirement and does not meet it is neither
\* accepted nor given the tier of a record that seals none.
THEOREM RequirementFinal == Spec => []RequirementIsFinal
<1>1. TypeOK /\ VerdictStands => RequirementIsFinal
  <2> SUFFICES ASSUME TypeOK, VerdictStands, RequirementSealed(record.checks),
                      ~RequirementSatisfied(record.checks)
               PROVE  ~Accepted /\ report.tier # "ANCHORED_PARTIAL_COVERAGE"
    BY DEF RequirementIsFinal
  <2>1. ~RollUp(ChecksOf(record), GatesHold(record))
    BY AccountLeavesAnchors DEF TypeOK, RollUp
  <2>2. ~report.allPassed
    BY <2>1 DEF VerdictStands
  <2>3. RollUp(ChecksOf(record), GatesHold(record)) \in BOOLEAN
    BY DEF RollUp
  <2>4. report.tier \in {"none", "FAILED"}
    BY <2>1, <2>3 DEF VerdictStands, VerdictTier, CompleteRecordAnchored
  <2>5. ExitCode(record.checks, report.allPassed, flags) = 1
    BY <2>2 DEF ExitCode, ExitShouldFail
  <2>6. ~Accepted
    BY <2>5 DEF Accepted, VerdictStands
  <2> QED
    BY <2>4, <2>6
<1> QED
  BY <1>1, VerdictStandsAlways, PTL

\* No file brings a failed report back.
THEOREM FailureStays == Spec => FailureIsFinal
<1>1. TypeOK /\ [Next]_vars => [(pc # "verify" /\ ~report.allPassed) => ~report'.allPassed]_vars
  <2> SUFFICES ASSUME TypeOK, Next, pc # "verify", ~report.allPassed
               PROVE  ~report'.allPassed
    OBVIOUS
  <2>1. ~Verify
    BY DEF Verify
  <2>2. CASE Exit \/ FileUnreadable
    BY <2>2 DEF Exit, FileUnreadable
  <2>3. CASE ~Exit /\ ~FileUnreadable
    BY <2>1, <2>3, FileStep DEF Keeps, Fails, FailsOnly
  <2> QED
    BY <2>2, <2>3
<1> QED
  BY <1>1, TypeCorrect, PTL DEF Spec, FailureIsFinal

\* The tier a reader is shown and the exit code a script sees agree.
THEOREM TierAgreesWithExit == Spec => []TierMatchesExit
<1>1. TypeOK /\ VerdictStands => TierMatchesExit
  <2> SUFFICES ASSUME TypeOK, VerdictStands, pc = "done", exit # 2,
                      flags.signerKey = None, flags.request = None,
                      ~flags.allowPartial, ~flags.allowUnanchored
               PROVE  /\ report.tier = "VERIFIED_ANCHORED" <=>
                           report.coverage = "complete_record_anchored"
                      /\ exit = 0 <=> report.tier = "VERIFIED_ANCHORED"
                                      /\ ~(flags.strict /\ record.checks.scaffold)
                      /\ exit = 3 => report.tier = "ANCHORED_PARTIAL_COVERAGE"
    BY DEF TierMatchesExit
  <2> DEFINE A == Anchored(record.checks)
             C == CompleteRecordAnchored(record.checks, TRUE)
             S == flags.strict /\ record.checks.scaffold
  <2>1. exit = ExitCode(record.checks, report.allPassed, flags)
    BY DEF VerdictStands
  <2>2. C => A
    BY DEF CompleteRecordAnchored
  <2>3. CASE report.allPassed
    <3>1. /\ Anchored(ChecksOf(record)) = A
          /\ CompleteRecordAnchored(ChecksOf(record), TRUE) = C
      BY AccountLeavesAnchors DEF TypeOK
    <3>2. /\ report.tier = VerdictTier(ChecksOf(record), TRUE)
          /\ report.coverage = RecordCoverage(ChecksOf(record), TRUE)
      BY <2>3 DEF VerdictStands
    <3>3. CASE A /\ C
      <4>1. /\ report.tier = "VERIFIED_ANCHORED"
            /\ report.coverage = "complete_record_anchored"
        BY <3>1, <3>2, <3>3 DEF VerdictTier, RecordCoverage
      <4>2. exit = IF S THEN 1 ELSE 0
        BY <2>1, <2>3, <3>3
           DEF ExitCode, ExitShouldFail, PartialCoverageExit, CompleteRecordAnchored
      <4> QED
        BY <4>1, <4>2
    <3>4. CASE A /\ ~C
      <4>1. /\ report.tier = "ANCHORED_PARTIAL_COVERAGE"
            /\ report.coverage \notin {"complete_record_anchored"}
        BY <3>1, <3>2, <3>4 DEF VerdictTier, RecordCoverage
      <4>2. exit = IF S THEN 1 ELSE 3
        BY <2>1, <2>3, <3>4
           DEF ExitCode, ExitShouldFail, PartialCoverageExit, CompleteRecordAnchored
      <4> QED
        BY <4>1, <4>2
    <3>5. CASE ~A
      <4>1. /\ report.tier = "SELF_CONSISTENT_NOT_ANCHORED"
            /\ report.coverage = "not_anchored"
        BY <2>2, <3>1, <3>2, <3>5 DEF VerdictTier, RecordCoverage
      <4>2. exit = 1
        BY <2>1, <3>5 DEF ExitCode, ExitShouldFail
      <4> QED
        BY <4>1, <4>2
    <3> QED
      BY <3>3, <3>4, <3>5
  <2>4. CASE ~report.allPassed
    <3>1. report.tier = "FAILED" /\ report.coverage = "failed"
      BY <2>4 DEF VerdictStands
    <3>2. exit = 1
      BY <2>1, <2>4 DEF ExitCode, ExitShouldFail
    <3> QED
      BY <3>1, <3>2
  <2> QED
    BY <2>3, <2>4
<1> QED
  BY <1>1, VerdictStandsAlways, PTL

----------------------------------------------------------------------------
(***************************************************************************)
(* The files.  What a file showed is kept by the report it was applied to: *)
(* the decisions it names stay the record's, and once main() is past a     *)
(* flag, a report that still passes agrees with that flag's file.          *)
(***************************************************************************)

StepNumber ==
  [verify |-> 0, policy |-> 1, history |-> 2, accountPolicy |-> 3, accountHistory |-> 4,
   accountVerdict |-> 5, signerKey |-> 6, request |-> 7, exit |-> 8, done |-> 9]

\* main() has left a step behind.
Past(step) == StepNumber[step] < StepNumber[pc]

\* A checked decision is the sealed one but for what the checks found.
SameDecision(g, s) ==
  /\ g.present = s.present /\ g.source = s.source
  /\ g.policyHash = s.policyHash /\ g.identity = s.identity /\ g.document = s.document
  /\ g.activation = s.activation /\ g.outcome = s.outcome
  /\ g.rule = s.rule /\ g.inputs = s.inputs

\* A document the reader holds is the one a record seals.
DocumentHolds(s, text) ==
  /\ text \in Readable /\ s.present /\ DocumentIsSealedOne(s, text)
  /\ s.inputs # None => RulesAgree(s, text)

\* Only a document can make a check of somebody else's policy match.
GateStands ==
  /\ SameDecision(report.gate, record.gate)
  /\ (~Past("policy") /\ record.gate.source # "verdifax") => ~report.gate.match
  /\ (Past("policy") /\ flags.policy # None /\ record.gate.source # "verdifax"
        /\ report.allPassed) => DocumentHolds(record.gate, flags.policy)

HistoryStands ==
  (Past("history") /\ flags.history # None) =>
    /\ flags.history # Missing
    /\ report.allPassed => RecordInChain(flags.history, record.gate.activation)

\* The account's files are judged together, after both were read.
AccountGateStands ==
  /\ SameDecision(report.accountGate, record.accountGate)
  /\ ~Past("accountPolicy") => ~report.accountGate.match
  /\ (Past("accountPolicy") /\ flags.accountPolicy # None) =>
       /\ report.accountGate.checked
       /\ report.accountGate.match => DocumentHolds(record.accountGate, flags.accountPolicy)

AccountHistoryStands ==
  (Past("accountHistory") /\ flags.accountHistory # None) =>
    /\ flags.accountHistory # Missing
    /\ report.accountHistoryOK =>
         AccountHistoryHolds(flags.accountHistory, record.account,
                             record.accountGate.activation)

AccountStands ==
  (Past("accountVerdict") /\ report.allPassed) =>
    ~PolicyFailed(report.accountGate) /\ report.accountHistoryOK

RequestStands ==
  /\ report.request.outcome \in {"failed", record.checks.request}
  /\ report.allPassed => report.request.outcome = record.checks.request
  /\ (Past("signerKey") /\ flags.signerKey # None /\ report.allPassed) =>
       record.checks.request = "passed" /\ record.requestKey = flags.signerKey
  /\ (Past("request") /\ flags.request # None /\ report.allPassed) =>
       record.checks.request = "passed" /\ record.requestBody = flags.request

FilesStand ==
  (pc # "verify" /\ exit # 2) =>
    /\ GateStands /\ HistoryStands
    /\ AccountGateStands /\ AccountHistoryStands /\ AccountStands
    /\ RequestStands

LEMMA PastStep ==
  ASSUME pc \in Between, pc' = StepAfter[pc]
  PROVE  \A step \in Between : Past(step)' <=> Past(step) \/ step = pc
BY DEF Past, Between, StepAfter, StepNumber

\* A document leaves the decision it is checked against alone, and makes
\* it match only when it is the sealed one.
LEMMA DocumentChecks ==
  ASSUME NEW g \in GateCheck, NEW s, NEW text, SameDecision(g, s)
  PROVE  /\ SameDecision(CheckPolicyDocument(g, text), s)
         /\ CheckPolicyDocument(g, text).checked = TRUE
         /\ CheckPolicyDocument(g, text).match => g.match \/ DocumentHolds(s, text)
<1> DEFINE refused == ~g.present \/ text \notin Readable \/ ~DocumentIsSealedOne(g, text)
           checked == [g EXCEPT !.checked = TRUE]
           rerun   == [checked EXCEPT !.rulesChecked = TRUE]
           agreed  == [checked EXCEPT !.match = TRUE]
           rerunAgreed == [rerun EXCEPT !.match = TRUE]
<1>1. \A h \in {checked, rerun, agreed, rerunAgreed} : SameDecision(h, s) /\ h.checked = TRUE
  BY DEF SameDecision, GateCheck
<1>2. checked.match = g.match /\ rerun.match = g.match
  BY DEF GateCheck
<1>3. DocumentIsSealedOne(g, text) <=> DocumentIsSealedOne(s, text)
  BY DEF DocumentIsSealedOne, SameDecision
<1>4. RulesAgree(g, text) <=> RulesAgree(s, text)
  BY DEF RulesAgree, SameDecision
<1>5. CASE refused
  <2>1. CheckPolicyDocument(g, text) = checked
    BY <1>5 DEF CheckPolicyDocument
  <2> QED
    BY <1>1, <1>2, <2>1
<1>6. CASE ~refused /\ g.inputs = None
  <2>1. CheckPolicyDocument(g, text) = agreed
    BY <1>6 DEF CheckPolicyDocument
  <2>2. DocumentHolds(s, text)
    BY <1>3, <1>6 DEF DocumentHolds, SameDecision
  <2> QED
    BY <1>1, <2>1, <2>2
<1>7. CASE ~refused /\ g.inputs # None /\ RulesAgree(g, text)
  <2>1. CheckPolicyDocument(g, text) = rerunAgreed
    BY <1>7 DEF CheckPolicyDocument
  <2>2. DocumentHolds(s, text)
    BY <1>3, <1>4, <1>7 DEF DocumentHolds, SameDecision
  <2> QED
    BY <1>1, <2>1, <2>2
<1>8. CASE ~refused /\ g.inputs # None /\ ~RulesAgree(g, text)
  <2>1. CheckPolicyDocument(g, text) = rerun
    BY <1>8 DEF CheckPolicyDocument
  <2> QED
    BY <1>1, <1>2, <2>1
<1> QED
  BY <1>5, <1>6, <1>7, <1>8

\* The same for what verify() itself checks a decision against.
LEMMA BuiltInChecks ==
  ASSUME NEW rec \in Record
  PROVE  /\ SameDecision(CheckBuiltIn(rec.gate), rec.gate)
         /\ rec.gate.source # "verdifax" => ~CheckBuiltIn(rec.gate).match
         /\ SameDecision(AccountGateOf(rec), rec.accountGate)
         /\ ~AccountGateOf(rec).match
<1>1. /\ rec.gate \in GateCheck /\ rec.accountGate \in GateCheck
      /\ ~rec.gate.match /\ ~rec.accountGate.match
  <2>1. ASSUME NEW g, Sealed(g) \/ g = NoGate
        PROVE  ~g.match
    <3>1. NoGate.match = FALSE
      BY DEF NoGate
    <3> QED
      BY <2>1, <3>1 DEF Sealed
  <2>2. /\ rec.gate \in {g \in GateCheck : Sealed(g) \/ g = NoGate}
        /\ rec.accountGate \in {g \in GateCheck : Sealed(g) \/ g = NoGate}
    BY DEF Record
  <2> QED
    BY <2>1, <2>2
<1>2. ASSUME NEW g \in GateCheck
      PROVE  SameDecision(g, g) /\ SameDecision(Fail(g), g) /\ ~Fail(g).match
  BY DEF SameDecision, Fail, GateCheck
<1>3. SameDecision(CheckPolicyDocument(rec.gate, rec.gate.document), rec.gate)
  BY <1>1, <1>2, DocumentChecks
<1>4. CheckBuiltIn(rec.gate) \in
        {rec.gate, Fail(rec.gate), CheckPolicyDocument(rec.gate, rec.gate.document)}
  BY DEF CheckBuiltIn
<1>5. rec.gate.source # "verdifax" => CheckBuiltIn(rec.gate) \in {rec.gate, Fail(rec.gate)}
  BY DEF CheckBuiltIn
<1>6. AccountGateOf(rec) \in {rec.accountGate, Fail(rec.accountGate)}
  BY DEF AccountGateOf, CheckAccountGate
<1> QED
  BY <1>1, <1>2, <1>3, <1>4, <1>5, <1>6

\* Which part of the report a file step may write, and that a given flag
\* is not stepped over.
LEMMA FileFrame ==
  ASSUME TypeOK, Next, ~Verify, ~Exit, ~FileUnreadable
  PROVE  /\ pc \in Between /\ pc' = StepAfter[pc]
         /\ record' = record /\ flags' = flags /\ exit' = exit
         /\ report'.allPassed => report.allPassed
         /\ ApplyPolicy \/ report'.gate = report.gate
         /\ ApplyAccountPolicy \/ report'.accountGate = report.accountGate
         /\ ApplyAccountHistory \/ report'.accountHistoryOK = report.accountHistoryOK
         /\ ApplySignerKey \/ ApplyRequest \/ report'.request = report.request
         /\ pc = "policy" => ApplyPolicy \/ flags.policy = None
         /\ pc = "history" => ApplyHistory \/ flags.history = None
         /\ pc = "accountPolicy" => ApplyAccountPolicy \/ flags.accountPolicy = None
         /\ pc = "accountHistory" => ApplyAccountHistory \/ flags.accountHistory = None
         /\ pc = "accountVerdict" => JudgeAccount
         /\ pc = "signerKey" => ApplySignerKey \/ flags.signerKey = None
         /\ pc = "request" => ApplyRequest \/ flags.request = None
<1>1. report \in Report /\ report.gate \in GateCheck
  BY DEF TypeOK, Report
<1>2. /\ pc \in Between /\ pc' = StepAfter[pc]
      /\ record' = record /\ flags' = flags /\ exit' = exit
      /\ report'.allPassed => report.allPassed
  BY FileStep DEF Keeps, Fails, FailsOnly
<1>3. ASSUME NEW r \in Report, NEW failed
      PROVE  /\ FailReportIf(failed, r).gate = r.gate
             /\ FailReportIf(failed, r).accountGate = r.accountGate
             /\ FailReportIf(failed, r).accountHistoryOK = r.accountHistoryOK
             /\ FailReportIf(failed, r).request = r.request
  BY DEF FailReportIf, FailReport, Report
<1>4. CASE SkipFile
  BY <1>2, <1>4 DEF SkipFile, FileSteps
<1>5. CASE ApplyPolicy
  <2> DEFINE g == CheckPolicyDocument(report.gate, flags.policy)
  <2>1. g \in GateCheck
    BY <1>1, CheckPolicyDocumentType
  <2>2. /\ [report EXCEPT !.gate = g] \in Report
        /\ [report EXCEPT !.gate = g].accountGate = report.accountGate
        /\ [report EXCEPT !.gate = g].accountHistoryOK = report.accountHistoryOK
        /\ [report EXCEPT !.gate = g].request = report.request
    BY <1>1, <2>1 DEF Report
  <2>3. report' = FailReportIf(PolicyFailed(g), [report EXCEPT !.gate = g])
    BY <1>5 DEF ApplyPolicy
  <2>4. /\ report'.accountGate = report.accountGate /\ report'.request = report.request
        /\ report'.accountHistoryOK = report.accountHistoryOK
    BY <1>3, <2>2, <2>3
  <2> QED
    BY <1>2, <1>5, <2>4 DEF ApplyPolicy, FileAt
<1>6. CASE ApplyHistory
  BY <1>1, <1>2, <1>3, <1>6 DEF ApplyHistory, FileAt
<1>7. CASE ApplyAccountPolicy
  BY <1>1, <1>2, <1>7 DEF ApplyAccountPolicy, FileAt, Report
<1>8. CASE ApplyAccountHistory
  BY <1>1, <1>2, <1>8 DEF ApplyAccountHistory, FileAt, Report
<1>9. CASE JudgeAccount
  BY <1>1, <1>2, <1>3, <1>9 DEF JudgeAccount
<1>10. CASE ApplySignerKey
  <2>1. /\ report'.gate = report.gate /\ report'.accountGate = report.accountGate
        /\ report'.accountHistoryOK = report.accountHistoryOK
    BY <1>1, <1>10 DEF ApplySignerKey, Report
  <2> QED
    BY <1>2, <1>10, <2>1 DEF ApplySignerKey, FileAt
<1>11. CASE ApplyRequest
  <2>1. /\ report'.gate = report.gate /\ report'.accountGate = report.accountGate
        /\ report'.accountHistoryOK = report.accountHistoryOK
    BY <1>1, <1>11 DEF ApplyRequest, Report
  <2> QED
    BY <1>2, <1>11, <2>1 DEF ApplyRequest, FileAt
<1> QED
  BY <1>4, <1>5, <1>6, <1>7, <1>8, <1>9, <1>10, <1>11 DEF Next

LEMMA GateStep ==
  ASSUME TypeOK, GateStands, Next, ~Verify, ~Exit, ~FileUnreadable
  PROVE  GateStands'
<1>1. /\ Past("policy")' <=> Past("policy") \/ pc = "policy"
      /\ record' = record /\ flags' = flags
      /\ report'.allPassed => report.allPassed
  BY FileFrame, PastStep DEF Between, StepAfter
<1>2. CASE ApplyPolicy
  <2> DEFINE g == CheckPolicyDocument(report.gate, flags.policy)
             r == [report EXCEPT !.gate = g]
  <2>1. pc = "policy" /\ report' = FailReportIf(PolicyFailed(g), r)
    BY <1>2 DEF ApplyPolicy, FileAt
  <2>2. report \in Report /\ report.gate \in GateCheck
    BY DEF TypeOK, Report
  <2>3. g \in GateCheck
    BY <2>2, CheckPolicyDocumentType
  <2>4. /\ SameDecision(g, record.gate) /\ g.checked = TRUE
        /\ g.match => report.gate.match \/ DocumentHolds(record.gate, flags.policy)
    BY <2>2, DocumentChecks DEF GateStands
  <2>5. ~Past("policy")
    BY <2>1 DEF Past, StepNumber
  <2>6. r \in Report /\ r.gate = g
    BY <2>2, <2>3 DEF Report
  <2>7. report'.gate = g /\ (report'.allPassed => ~PolicyFailed(g))
    BY <2>1, <2>6 DEF FailReportIf, FailReport, Report
  <2> QED
    BY <1>1, <2>1, <2>4, <2>5, <2>7 DEF GateStands, PolicyFailed
<1>3. CASE ~ApplyPolicy
  <2>1. report'.gate = report.gate /\ (pc = "policy" => flags.policy = None)
    BY <1>3, FileFrame
  <2> QED
    BY <1>1, <2>1 DEF GateStands
<1> QED
  BY <1>2, <1>3

LEMMA HistoryStep ==
  ASSUME TypeOK, GateStands, HistoryStands, Next, ~Verify, ~Exit, ~FileUnreadable
  PROVE  HistoryStands'
<1>1. /\ Past("history")' <=> Past("history") \/ pc = "history"
      /\ record' = record /\ flags' = flags
      /\ report'.allPassed => report.allPassed
  BY FileFrame, PastStep DEF Between, StepAfter
<1>2. CASE ApplyHistory
  <2>1. /\ flags.history # Missing
        /\ report' = FailReportIf(~RecordInChain(flags.history, record.gate.activation), report)
    BY <1>2 DEF ApplyHistory, FileAt, GateStands, SameDecision
  <2>2. report'.allPassed => RecordInChain(flags.history, record.gate.activation)
    BY <2>1 DEF FailReportIf, FailReport, TypeOK, Report
  <2> QED
    BY <1>1, <2>1, <2>2 DEF HistoryStands
<1>3. CASE ~ApplyHistory
  <2>1. pc = "history" => flags.history = None
    BY <1>3, FileFrame
  <2> QED
    BY <1>1, <2>1 DEF HistoryStands
<1> QED
  BY <1>2, <1>3

LEMMA AccountGateStep ==
  ASSUME TypeOK, AccountGateStands, Next, ~Verify, ~Exit, ~FileUnreadable
  PROVE  AccountGateStands'
<1>1. /\ Past("accountPolicy")' <=> Past("accountPolicy") \/ pc = "accountPolicy"
      /\ record' = record /\ flags' = flags
  BY FileFrame, PastStep DEF Between, StepAfter
<1>2. CASE ApplyAccountPolicy
  <2> DEFINE g == ApplyAccountDocument(report.accountGate, flags.accountPolicy)
  <2>1. pc = "accountPolicy" /\ report' = [report EXCEPT !.accountGate = g]
    BY <1>2 DEF ApplyAccountPolicy, FileAt
  <2>2. report \in Report /\ report.accountGate \in GateCheck
    BY DEF TypeOK, Report
  <2>3. ~Past("accountPolicy")
    BY <2>1 DEF Past, StepNumber
  <2>4. ~report.accountGate.match /\ SameDecision(report.accountGate, record.accountGate)
    BY <2>3 DEF AccountGateStands
  <2>5. /\ SameDecision(g, record.accountGate) /\ g.checked = TRUE
        /\ g.match => DocumentHolds(record.accountGate, flags.accountPolicy)
    <3>1. CASE report.accountGate.present
      BY <2>2, <2>4, <3>1, DocumentChecks DEF ApplyAccountDocument
    <3>2. CASE ~report.accountGate.present
      <4> DEFINE refused == [NoGate EXCEPT !.checked = TRUE]
      <4>1. g = refused
        BY <3>2 DEF ApplyAccountDocument
      <4>2. record.accountGate = NoGate
        BY <2>4, <3>2 DEF SameDecision, TypeOK, Record, Sealed
      <4>3. SameDecision(refused, NoGate) /\ refused.checked = TRUE /\ refused.match = FALSE
        BY DEF SameDecision, NoGate
      <4> QED
        BY <4>1, <4>2, <4>3
    <3> QED
      BY <3>1, <3>2
  <2>6. report'.accountGate = g
    BY <2>1, <2>2 DEF Report
  <2> QED
    BY <1>1, <2>1, <2>5, <2>6 DEF AccountGateStands
<1>3. CASE ~ApplyAccountPolicy
  <2>1. /\ report'.accountGate = report.accountGate
        /\ pc = "accountPolicy" => flags.accountPolicy = None
    BY <1>3, FileFrame
  <2> QED
    BY <1>1, <2>1 DEF AccountGateStands
<1> QED
  BY <1>2, <1>3

LEMMA AccountHistoryStep ==
  ASSUME TypeOK, AccountGateStands, AccountHistoryStands,
         Next, ~Verify, ~Exit, ~FileUnreadable
  PROVE  AccountHistoryStands'
<1>1. /\ Past("accountHistory")' <=> Past("accountHistory") \/ pc = "accountHistory"
      /\ record' = record /\ flags' = flags
  BY FileFrame, PastStep DEF Between, StepAfter
<1>2. CASE ApplyAccountHistory
  <2>1. flags.accountHistory # Missing
    BY <1>2 DEF ApplyAccountHistory, FileAt
  <2>2. report'.accountHistoryOK =
          AccountHistoryHolds(flags.accountHistory, record.account,
                              record.accountGate.activation)
    BY <1>2 DEF ApplyAccountHistory, AccountGateStands, SameDecision, TypeOK, Report
  <2> QED
    BY <1>1, <2>1, <2>2 DEF AccountHistoryStands
<1>3. CASE ~ApplyAccountHistory
  <2>1. /\ report'.accountHistoryOK = report.accountHistoryOK
        /\ pc = "accountHistory" => flags.accountHistory = None
    BY <1>3, FileFrame
  <2> QED
    BY <1>1, <2>1 DEF AccountHistoryStands
<1> QED
  BY <1>2, <1>3

LEMMA AccountStep ==
  ASSUME TypeOK, AccountStands, Next, ~Verify, ~Exit, ~FileUnreadable
  PROVE  AccountStands'
<1>1. /\ Past("accountVerdict")' <=> Past("accountVerdict") \/ pc = "accountVerdict"
     
      /\ report'.allPassed => report.allPassed
  BY FileFrame, PastStep DEF Between, StepAfter
<1>2. pc \in {"accountVerdict", "signerKey", "request"} =>
        ~ApplyAccountPolicy /\ ~ApplyAccountHistory
  BY DEF ApplyAccountPolicy, ApplyAccountHistory, FileAt
<1>3. (Past("accountVerdict") \/ pc = "accountVerdict") =>
        pc \in {"accountVerdict", "signerKey", "request"}
  BY FileFrame DEF Past, StepNumber, Between, StepAfter
<1>4. Past("accountVerdict")' =>
        report'.accountGate = report.accountGate
        /\ report'.accountHistoryOK = report.accountHistoryOK
  BY <1>1, <1>2, <1>3, FileFrame
<1>5. CASE pc = "accountVerdict"
  <2>1. report' = FailReportIf(PolicyFailed(report.accountGate)
                               \/ ~report.accountHistoryOK, report)
    BY <1>5, FileFrame DEF JudgeAccount
  <2>2. report'.allPassed => ~PolicyFailed(report.accountGate) /\ report.accountHistoryOK
    BY <2>1 DEF FailReportIf, FailReport, TypeOK, Report
  <2> QED
    BY <1>1, <1>4, <1>5, <2>2 DEF AccountStands
<1>6. CASE pc # "accountVerdict"
  BY <1>1, <1>4, <1>6 DEF AccountStands
<1> QED
  BY <1>5, <1>6

LEMMA RequestStep ==
  ASSUME TypeOK, VerdictStands, RequestStands, Next, ~Verify, ~Exit, ~FileUnreadable
  PROVE  RequestStands'
<1>1. /\ Past("signerKey")' <=> Past("signerKey") \/ pc = "signerKey"
      /\ Past("request")' <=> Past("request") \/ pc = "request"
      /\ record' = record /\ flags' = flags
      /\ report'.allPassed => report.allPassed
  BY FileFrame, PastStep DEF Between, StepAfter
<1>2. report \in Report /\ report.request \in RequestCheck
  BY DEF TypeOK, Report
<1>3. report.allPassed => record.checks.request # "failed"
  <2>1. ChecksOf(record)["request"] = record.checks.request
    BY DEF ChecksOf, TypeOK, Record, Checks
  <2>2. report.allPassed => ChecksOf(record)["request"] # "failed"
    BY DEF VerdictStands, RollUp, PassedExceptRequirement, PerformedChecks
  <2> QED
    BY <2>1, <2>2
<1>4. CASE ApplySignerKey
  <2>1. pc = "signerKey" /\ flags.signerKey # None
    BY <1>4 DEF ApplySignerKey, FileAt
  <2>2. CASE report.request.outcome = "passed" /\ record.requestKey = flags.signerKey
    <3>1. report' = [report EXCEPT !.request.pinned = TRUE]
      BY <1>4, <2>2 DEF ApplySignerKey
    <3>2. report'.request.outcome = report.request.outcome
      BY <1>2, <3>1 DEF Report, RequestCheck
    <3> QED
      BY <1>1, <2>1, <2>2, <3>2 DEF RequestStands
  <2>3. CASE report.request.outcome = "failed"
    <3>1. report' = report
      BY <1>4, <2>3 DEF ApplySignerKey
    <3>2. report.allPassed => FALSE
      BY <1>3, <2>3 DEF RequestStands
    <3> QED
      BY <1>1, <2>1, <3>1, <3>2 DEF RequestStands
  <2>4. CASE /\ ~(report.request.outcome = "passed" /\ record.requestKey = flags.signerKey)
             /\ report.request.outcome # "failed"
    <3>1. report' = [report EXCEPT !.request.outcome = "failed", !.allPassed = FALSE]
      BY <1>4, <2>4 DEF ApplySignerKey
    <3>2. report'.request.outcome = "failed" /\ report'.allPassed = FALSE
      BY <1>2, <3>1 DEF Report, RequestCheck
    <3> QED
      BY <1>1, <3>2 DEF RequestStands
  <2> QED
    BY <2>2, <2>3, <2>4
<1>5. CASE ApplyRequest
  <2>1. pc = "request"
    BY <1>5 DEF ApplyRequest, FileAt
  <2>2. CASE report.request.outcome = "passed" /\ record.requestBody = flags.request
    <3>1. report' = [report EXCEPT !.request.matched = TRUE]
      BY <1>5, <2>2 DEF ApplyRequest
    <3>2. report'.request.outcome = report.request.outcome
      BY <1>2, <3>1 DEF Report, RequestCheck
    <3> QED
      BY <1>1, <2>1, <2>2, <3>2 DEF RequestStands
  <2>3. CASE ~(report.request.outcome = "passed" /\ record.requestBody = flags.request)
    <3>1. report' = [report EXCEPT !.request.outcome = "failed", !.allPassed = FALSE]
      BY <1>5, <2>3 DEF ApplyRequest
    <3>2. report'.request.outcome = "failed" /\ report'.allPassed = FALSE
      BY <1>2, <3>1 DEF Report, RequestCheck
    <3> QED
      BY <1>1, <3>2 DEF RequestStands
  <2> QED
    BY <2>2, <2>3
<1>6. CASE ~ApplySignerKey /\ ~ApplyRequest
  <2>1. /\ report'.request = report.request
        /\ pc = "signerKey" => flags.signerKey = None
        /\ pc = "request" => flags.request = None
    BY <1>6, FileFrame
  <2> QED
    BY <1>1, <2>1 DEF RequestStands
<1> QED
  BY <1>4, <1>5, <1>6

LEMMA FilesFromVerify ==
  ASSUME TypeOK, Verify
  PROVE  FilesStand'
<1> DEFINE c == ChecksOf(record)
<1>1. /\ record' = record /\ flags' = flags /\ pc' = "policy"
      /\ report'.gate = CheckBuiltIn(record.gate)
      /\ report'.accountGate = AccountGateOf(record)
      /\ report'.request.outcome = c.request
  BY DEF Verify, Advance, StepAfter
<1>2. \A step \in Between : ~Past(step)'
  BY <1>1 DEF Past, StepNumber, Between, StepAfter
<1>3. /\ ~Past("policy")' /\ ~Past("history")' /\ ~Past("accountPolicy")'
      /\ ~Past("accountHistory")' /\ ~Past("accountVerdict")'
      /\ ~Past("signerKey")' /\ ~Past("request")'
  BY <1>2 DEF Between, StepAfter
<1>4. c.request = record.checks.request
  BY DEF ChecksOf, TypeOK, Record, Checks
<1>5. record \in Record
  BY DEF TypeOK
<1>6. GateStands' /\ AccountGateStands'
  BY <1>1, <1>3, <1>5, BuiltInChecks DEF GateStands, AccountGateStands
<1>7. HistoryStands' /\ AccountHistoryStands' /\ AccountStands'
  BY <1>3 DEF HistoryStands, AccountHistoryStands, AccountStands
<1>8. RequestStands'
  BY <1>1, <1>3, <1>4 DEF RequestStands
<1> QED
  BY <1>6, <1>7, <1>8 DEF FilesStand

LEMMA FilesStep == TypeOK /\ VerdictStands /\ FilesStand /\ [Next]_vars => FilesStand'
<1> SUFFICES ASSUME TypeOK, VerdictStands, FilesStand, [Next]_vars PROVE FilesStand'
  OBVIOUS
<1>1. CASE Verify
  BY <1>1, FilesFromVerify
<1>2. CASE Exit
  <2>1. /\ pc = "exit" /\ pc' = "done"
        /\ record' = record /\ flags' = flags /\ report' = report
    BY <1>2 DEF Exit, Advance, StepAfter
  <2>2. exit # 2
    BY <2>1, NoneAssumption DEF VerdictStands
  <2>3. \A step \in Between : Past(step) /\ Past(step)'
    BY <2>1 DEF Past, StepNumber, Between, StepAfter
  <2>4. /\ Past("policy") /\ Past("policy")' /\ Past("history") /\ Past("history")'
        /\ Past("accountPolicy") /\ Past("accountPolicy")'
        /\ Past("accountHistory") /\ Past("accountHistory")'
        /\ Past("accountVerdict") /\ Past("accountVerdict")'
        /\ Past("signerKey") /\ Past("signerKey")' /\ Past("request") /\ Past("request")'
    BY <2>3 DEF Between, StepAfter
  <2>5. /\ GateStands /\ HistoryStands /\ AccountGateStands /\ AccountHistoryStands
        /\ AccountStands /\ RequestStands
    BY <2>1, <2>2 DEF FilesStand
  <2>6. GateStands' /\ HistoryStands' /\ AccountGateStands'
    BY <2>1, <2>4, <2>5 DEF GateStands, HistoryStands, AccountGateStands
  <2>7. AccountHistoryStands' /\ AccountStands' /\ RequestStands'
    BY <2>1, <2>4, <2>5 DEF AccountHistoryStands, AccountStands, RequestStands
  <2> QED
    BY <2>6, <2>7 DEF FilesStand
<1>3. CASE FileUnreadable
  <2>1. exit' = 2
    BY <1>3 DEF FileUnreadable
  <2> QED
    BY <2>1 DEF FilesStand
<1>4. CASE Next /\ ~Verify /\ ~Exit /\ ~FileUnreadable
  <2>1. pc \in Between
    BY <1>4, FileFrame
  <2>2. pc # "verify" /\ exit # 2
    BY <2>1, NoneAssumption DEF Between, StepAfter, VerdictStands
  <2> QED
    BY <1>4, <2>2, GateStep, HistoryStep, AccountGateStep, AccountHistoryStep,
       AccountStep, RequestStep DEF FilesStand
<1>5. CASE UNCHANGED vars
  BY <1>5 DEF vars, FilesStand, Past, GateStands, HistoryStands, AccountGateStands,
              AccountHistoryStands, AccountStands, RequestStands
<1> QED
  BY <1>1, <1>2, <1>3, <1>4, <1>5

\* At every step of main() the report agrees with the files read so far.
THEOREM FilesStandAlways == Spec => [](TypeOK /\ VerdictStands /\ FilesStand)
<1>1. Init => TypeOK /\ VerdictStands /\ FilesStand
  BY TypeInit, VerdictInit DEF Init, FilesStand
<1>2. TypeOK /\ VerdictStands /\ FilesStand /\ [Next]_vars
        => (TypeOK /\ VerdictStands /\ FilesStand)'
  BY TypeStep, VerdictStep, FilesStep
<1> QED
  BY <1>1, <1>2, PTL DEF Spec

\* main() accepts a record only when it read every flag's file and the
\* report still passed after it.
LEMMA AcceptedPassed ==
  ASSUME VerdictStands, FilesStand, Accepted
  PROVE  /\ report.allPassed /\ \A step \in Between : Past(step)
         /\ GateStands /\ HistoryStands /\ AccountGateStands
         /\ AccountHistoryStands /\ AccountStands /\ RequestStands
<1>1. pc = "done" /\ exit \in {0, 3}
  BY DEF Accepted
<1>2. exit = ExitCode(record.checks, report.allPassed, flags)
  BY <1>1 DEF VerdictStands
<1>3. report.allPassed
  BY <1>1, <1>2 DEF ExitCode, ExitShouldFail
<1>4. \A step \in Between : Past(step)
  BY <1>1 DEF Past, StepNumber, Between, StepAfter
<1> QED
  BY <1>1, <1>3, <1>4 DEF FilesStand

\* No later file, and no order of the flags, forgives what a history, an
\* account policy, a key or a request showed.
THEOREM SuppliedFiles == Spec => []SuppliedFilesHold
<1>1. VerdictStands /\ FilesStand => SuppliedFilesHold
  <2> SUFFICES ASSUME VerdictStands, FilesStand, Accepted PROVE SuppliedFilesHold
    BY DEF SuppliedFilesHold
  <2>1. /\ Past("history") /\ Past("accountPolicy") /\ Past("accountHistory")
        /\ Past("accountVerdict") /\ Past("signerKey") /\ Past("request")
    BY AcceptedPassed DEF Between, StepAfter
  <2>2. flags.history # None =>
          flags.history # Missing /\ RecordInChain(flags.history, record.gate.activation)
    BY <2>1, AcceptedPassed DEF HistoryStands
  <2>3. ~PolicyFailed(report.accountGate) /\ report.accountHistoryOK
    BY <2>1, AcceptedPassed DEF AccountStands
  <2>4. flags.accountPolicy # None => DocumentHolds(record.accountGate, flags.accountPolicy)
    BY <2>1, <2>3, AcceptedPassed DEF AccountGateStands, PolicyFailed
  <2>5. flags.accountHistory # None =>
          /\ flags.accountHistory # Missing
          /\ AccountHistoryHolds(flags.accountHistory, record.account,
                                 record.accountGate.activation)
    BY <2>1, <2>3, AcceptedPassed DEF AccountHistoryStands
  <2>6. /\ flags.signerKey # None =>
             record.checks.request = "passed" /\ record.requestKey = flags.signerKey
        /\ flags.request # None =>
             record.checks.request = "passed" /\ record.requestBody = flags.request
    BY <2>1, AcceptedPassed DEF RequestStands
  <2> QED
    BY <2>2, <2>4, <2>5, <2>6 DEF SuppliedFilesHold, DocumentHolds
<1> QED
  BY <1>1, FilesStandAlways, PTL

\* A record under a policy that is not Verdifax's own is accepted with a
\* policy document only when it seals that document and its rules agree.
THEOREM PolicyFile == Spec => []PolicyFileHolds
<1>1. VerdictStands /\ FilesStand => PolicyFileHolds
  <2> SUFFICES ASSUME VerdictStands, FilesStand, record.gate.source # "verdifax",
                      Accepted, flags.policy # None
               PROVE  DocumentHolds(record.gate, flags.policy)
    BY DEF PolicyFileHolds, PolicyFileHoldsFor, DocumentHolds
  <2>1. Past("policy")
    BY AcceptedPassed DEF Between, StepAfter
  <2> QED
    BY <2>1, AcceptedPassed DEF GateStands
<1> QED
  BY <1>1, FilesStandAlways, PTL

\* main() implements the verifier's promise step by step (that it also
\* concludes is left to the model checker).
THEOREM StepsKeepPromise == Spec => Promise!Init /\ [][Promise!Next]_(Promise!vars)
<1>1. Init => Promise!Init
  BY DEF Init, Promise!Init
<1>2. TypeOK /\ VerdictStands /\ [Next]_vars => [Promise!Next]_(Promise!vars)
  <2> SUFFICES ASSUME TypeOK, VerdictStands, [Next]_vars
               PROVE  [Promise!Next]_(Promise!vars)
    OBVIOUS
  <2>1. CASE Verify
    <3>1. pc = "verify" /\ pc' = "policy" /\ exit' = exit /\ exit = None
      BY <2>1 DEF Verify, Advance, StepAfter, VerdictStands
    <3>2. Promise!Judge
      BY <3>1 DEF Promise!Judge
    <3> QED
      BY <3>2 DEF Promise!Next
  <2>2. CASE Exit
    <3>1. /\ pc = "exit" /\ pc' = "done" /\ exit = None /\ report' = report
          /\ exit' = ExitCode(record.checks, report.allPassed, flags)
      BY <2>2 DEF Exit, Advance, StepAfter, VerdictStands
    <3>2. exit' \in {0, 1, 3} /\ (~report.allPassed => exit' = 1)
      BY <3>1 DEF ExitCode, ExitShouldFail
    <3>3. Promise!Conclude
      BY <3>1, <3>2 DEF Promise!Conclude
    <3> QED
      BY <3>3 DEF Promise!Next
  <2>3. CASE FileUnreadable
    <3>1. /\ pc \notin {"verify", "done"} /\ pc' = "done" /\ exit' = 2
          /\ report' = report
      BY <2>3 DEF FileUnreadable, FileSteps
    <3>2. exit = None
      BY <3>1 DEF VerdictStands
    <3>3. Promise!Refuse
      BY <3>1, <3>2 DEF Promise!Refuse
    <3> QED
      BY <3>3 DEF Promise!Next
  <2>4. CASE Next /\ ~Verify /\ ~Exit /\ ~FileUnreadable
    <3>1. pc \notin {"verify", "done"} /\ pc' \notin {"verify", "done"} /\ exit' = exit
      BY <2>4, FileStep, BetweenSteps DEF Between, StepAfter
    <3>2. exit = None
      BY <3>1 DEF VerdictStands
    <3>3. report'.allPassed = report.allPassed \/ report'.allPassed = FALSE
      BY <2>4, FileStep DEF Keeps, Fails, FailsOnly
    <3>4. CASE report'.allPassed = report.allPassed
      BY <3>1, <3>4 DEF Promise!vars
    <3>5. CASE report.allPassed /\ report'.allPassed = FALSE
      <4>1. Promise!Lower
        BY <3>1, <3>2, <3>5 DEF Promise!Lower
      <4> QED
        BY <4>1 DEF Promise!Next
    <3>6. CASE ~report.allPassed /\ report'.allPassed = FALSE
      BY <3>1, <3>6 DEF Promise!vars
    <3> QED
      BY <3>3, <3>4, <3>5, <3>6
  <2>5. CASE UNCHANGED vars
    BY <2>5 DEF vars, Promise!vars
  <2> QED
    BY <2>1, <2>2, <2>3, <2>4, <2>5
<1> QED
  BY <1>1, <1>2, VerdictStandsAlways, PTL DEF Spec
=============================================================================
