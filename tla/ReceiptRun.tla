----------------------------- MODULE ReceiptRun -----------------------------
(***************************************************************************)
(* One invocation of verdifax-verify on the copy of a receipt that a       *)
(* reader of AnchoredReceipt holds: main() from the decoded document to    *)
(* the exit code.  The document is checked in a fixed order with early     *)
(* failures, the decisions and the signature of its context among the      *)
(* checks of its entry; then the optional files are applied, the request's *)
(* before the policies', unlike a bundle's.                                *)
(***************************************************************************)
EXTENDS AnchoredReceipt

CONSTANTS
  ContextOf,    \* what a context seals: [job, gate, accountGate, account, request,
                \* requestKey, requestBody]; job is TRUE when well formed or absent
  HaltedKinds,  \* haltedReceiptKinds, among Kinds
  CommandLines, \* the command lines a reader gives, by scope
  Keys, Requests, \* request-signing public keys; exact signed requests
  Missing, Texts, Readable, BuiltInTexts, Policies, PolicyHash, Identities,
  IdentityOf, Inputs, Rules, Decide, Activations, Accounts \* as in OptionalFiles

INSTANCE OptionalFiles

VARIABLES
  flags,   \* the command line, None until the verifier is started
  report,  \* the ReceiptReport main() builds
  pc,      \* the next step of main(), "waiting" until it is started
  exit     \* the exit code, None while the process runs

world == <<scope, now, log, issued, copy, edits>>
runVars == <<flags, report, pc, exit>>

Flags ==
  [policy : Texts \cup {None, Missing}, history : Chain \cup {None, Missing},
   accountPolicy : Texts \cup {None, Missing},
   accountHistory : Chain \cup {None, Missing},
   signerKey : Keys \cup {None, Missing}, request : Requests \cup {None, Missing},
   selfHosted : BOOLEAN, allowUnanchored : BOOLEAN]

\* A context as it is decoded; whatever stands as an account is kept.
IsContext(c) ==
  /\ DOMAIN c = {"job", "gate", "accountGate", "account", "request", "requestKey", "requestBody"}
  /\ c.job \in BOOLEAN /\ c.request \in {"absent", "failed", "passed"}
  /\ {c.gate, c.accountGate} \subseteq {g \in GateCheck : Sealed(g) \/ g = NoGate}

ASSUME ContextsAssumption ==
  /\ \A x \in DOMAIN ContextOf : IsContext(ContextOf[x])
  /\ \A s \in Scopes :
       s.contexts \cup {r.context : r \in s.refusals} \subseteq DOMAIN ContextOf
ASSUME CommandLinesAssumption == \A s \in Scopes : CommandLines[s] \subseteq Flags
ASSUME MissingAssumption == Missing # None
ASSUME HaltedKindsAssumption == HaltedKinds \subseteq Kinds

FileSteps == {"signerKey", "request", "policy", "history", "accountPolicy", "accountHistory"}

StepAfter ==
  [verify |-> "signerKey", signerKey |-> "request", request |-> "policy",
   policy |-> "history", history |-> "accountPolicy", accountPolicy |-> "accountHistory",
   accountHistory |-> "accountVerdict", accountVerdict |-> "exit", exit |-> "done"]

Advance == pc' = StepAfter[pc]

NoRequest == [outcome |-> "absent", key |-> None, body |-> None]

Unread == [allPassed |-> FALSE, tier |-> "FAILED", gate |-> NoGate, account |-> None,
           accountGate |-> NoGate, accountHistoryOK |-> TRUE, request |-> NoRequest]

----------------------------------------------------------------------------
(* The checks of the context. *)

\* The check gets as far as the context: every failure before it has an
\* early return, and only a v3 anchor binds one.
ContextReached(d, selfHosted) ==
  /\ d.ok
  /\ d.required \/ selfHosted \/ d.clock < RequiredSince
  /\ d.anchor # None /\ d.anchor.form = "v3" /\ d.context # None
  /\ d.anchor.kind = d.kind /\ d.anchor.hash = ReceiptHash(d)

\* admittedDecisionError: a halted run was admitted by its policies.
AdmittedDecision(d, g) ==
  (d.kind \in HaltedKinds /\ g.present) => g.outcome \in {"", "allow"}

\* accountGateOfReceipt.
AccountGateOf(c) ==
  IF c.accountGate.present THEN CheckAccountGate(c.accountGate, c.account) ELSE c.accountGate

\* The checks of a context in their order.
ContextChecks(d) ==
  LET c == ContextOf[d.context]
  IN <<c.job,
       ~PolicyFailed(CheckBuiltIn(c.gate)),
       AccountIDKnown(c.account),
       ~PolicyFailed(AccountGateOf(c)),
       AdmittedDecision(d, c.gate) /\ AdmittedDecision(d, c.accountGate),
       c.request # "failed">>

\* Whether the check numbered i of the context is made.
Made(d, selfHosted, i) ==
  ContextReached(d, selfHosted) /\ \A j \in 1 .. i - 1 : ContextChecks(d)[j]

\* verifyReceiptDocumentWith.  A field of the report is read off the context
\* just before its check; a failure leaves the later ones empty.
Judged(d, selfHosted) ==
  LET made(i) == Made(d, selfHosted, i)
      held    == ContextReached(d, selfHosted) => made(Len(ContextChecks(d)) + 1)
      tier    == IF held THEN ReceiptTier(d, log, selfHosted) ELSE "FAILED"
      c       == ContextOf[d.context]
  IN [allPassed |-> tier # "FAILED", tier |-> tier,
      gate |-> IF made(2) THEN CheckBuiltIn(c.gate) ELSE NoGate,
      account |-> IF made(3) THEN c.account ELSE None,
      accountGate |-> IF made(4) THEN AccountGateOf(c) ELSE NoGate,
      accountHistoryOK |-> TRUE,
      request |-> IF made(6)
                  THEN [outcome |-> c.request, key |-> c.requestKey, body |-> c.requestBody]
                  ELSE NoRequest]

----------------------------------------------------------------------------
(* main(). *)

\* The reader gives the copy to the verifier, with a command line.
Start ==
  /\ pc = "waiting" /\ copy # None
  /\ flags' \in CommandLines[scope]
  /\ pc' = "verify"
  /\ UNCHANGED <<world, report, exit>>

Verify ==
  /\ pc = "verify"
  /\ report' = Judged(copy, flags.selfHosted)
  /\ Advance
  /\ UNCHANGED <<world, flags, exit>>

SkipFile ==
  /\ pc \in FileSteps /\ flags[pc] = None
  /\ Advance
  /\ UNCHANGED <<world, flags, report, exit>>

\* os.ReadFile failed: the process ends with 2 and prints no report.
FileUnreadable ==
  /\ pc \in FileSteps /\ flags[pc] = Missing
  /\ exit' = 2
  /\ pc' = "done"
  /\ UNCHANGED <<world, flags, report>>

FileAt(step) == pc = step /\ flags[step] \notin {None, Missing}

FailReportIf(failed, r) ==
  IF failed THEN [r EXCEPT !.allPassed = FALSE, !.tier = "FAILED"] ELSE r

\* Mutant: the shadow report's verdict is not copied back into the tier.
ApplySignerKeyShadowLost ==
  /\ FileAt("signerKey")
  /\ LET c == report.request
         held == c.outcome = "passed" /\ c.key = flags.signerKey
     IN report' = IF held \/ c.outcome = "failed" THEN report
                  ELSE [report EXCEPT !.request.outcome = "failed"]
  /\ Advance
  /\ UNCHANGED <<world, flags, exit>>

\* applyReceiptSignerKey.  A signature that failed has failed the receipt.
ApplySignerKey ==
  /\ FileAt("signerKey")
  /\ LET c == report.request
         held == c.outcome = "passed" /\ c.key = flags.signerKey
     IN report' = IF held \/ c.outcome = "failed" THEN report
                  ELSE FailReportIf(TRUE, [report EXCEPT !.request.outcome = "failed"])
  /\ Advance
  /\ UNCHANGED <<world, flags, exit>>

\* applyRequestFile: only a version 2 signature covers a body.
ApplyRequest ==
  /\ FileAt("request")
  /\ report' = IF report.request.outcome = "passed" /\ report.request.body = flags.request
               THEN report
               ELSE FailReportIf(TRUE, [report EXCEPT !.request.outcome = "failed"])
  /\ Advance
  /\ UNCHANGED <<world, flags, exit>>

\* Mutant: the tier is judged again by the document alone.
ApplyPolicyAssigned ==
  /\ FileAt("policy")
  /\ LET g == CheckPolicyDocument(report.gate, flags.policy)
     IN report' = [report EXCEPT !.gate = g, !.allPassed = ~PolicyFailed(g),
                     !.tier = IF PolicyFailed(g) THEN "FAILED" ELSE ReceiptTier(copy, log, flags.selfHosted)]
  /\ Advance
  /\ UNCHANGED <<world, flags, exit>>

\* applyReceiptPolicyDocument.
ApplyPolicy ==
  /\ FileAt("policy")
  /\ LET g == CheckPolicyDocument(report.gate, flags.policy)
     IN report' = FailReportIf(PolicyFailed(g), [report EXCEPT !.gate = g])
  /\ Advance
  /\ UNCHANGED <<world, flags, exit>>

ApplyHistory ==
  /\ FileAt("history")
  /\ report' = FailReportIf(~RecordInChain(flags.history, report.gate.activation), report)
  /\ Advance
  /\ UNCHANGED <<world, flags, exit>>

ApplyAccountPolicy ==
  /\ FileAt("accountPolicy")
  /\ report' = [report EXCEPT !.accountGate = ApplyAccountDocument(@, flags.accountPolicy)]
  /\ Advance
  /\ UNCHANGED <<world, flags, exit>>

ApplyAccountHistory ==
  /\ FileAt("accountHistory")
  /\ report' = [report EXCEPT !.accountHistoryOK =
                  AccountHistoryHolds(flags.accountHistory, report.account,
                                      report.accountGate.activation)]
  /\ Advance
  /\ UNCHANGED <<world, flags, exit>>

\* The end of applyReceiptAccountFlags, which runs whatever flags were given.
JudgeAccount ==
  /\ pc = "accountVerdict"
  /\ report' = FailReportIf(PolicyFailed(report.accountGate) \/ ~report.accountHistoryOK,
                            report)
  /\ Advance
  /\ UNCHANGED <<world, flags, exit>>

\* receiptExitShouldFail: the exit code is read off the tier.
ReceiptExitShouldFail(tier, allowUnanchored) ==
  ~(tier = "VERIFIED_ANCHORED" \/ (tier = "SELF_CONSISTENT_NOT_ANCHORED" /\ allowUnanchored))

Exit ==
  /\ pc = "exit"
  /\ exit' = IF ReceiptExitShouldFail(report.tier, flags.allowUnanchored) THEN 1 ELSE 0
  /\ Advance
  /\ UNCHANGED <<world, flags, report>>

RunInit == Init /\ flags = None /\ report = Unread /\ pc = "waiting" /\ exit = None

RunNext ==
  \/ pc = "waiting" /\ Next /\ UNCHANGED runVars
  \/ Start \/ Verify \/ SkipFile \/ FileUnreadable
  \/ ApplySignerKey \/ ApplyRequest \/ ApplyPolicy \/ ApplyHistory
  \/ ApplyAccountPolicy \/ ApplyAccountHistory \/ JudgeAccount \/ Exit

RunSpec == RunInit /\ [][RunNext]_<<world, runVars>>

----------------------------------------------------------------------------
(* Properties *)

Accepted == pc = "done" /\ exit = 0

\* receipt.go, receipt anchor v3: what a v3 entry binds is what the context
\* may say.  Decisions are the customer's or of a built-in policy that
\* decides so, an account's names its account and change, a halted run was
\* refused by none, and a signature holds.
ContextHolds(d) ==
  LET c == ContextOf[d.context]
      decisions == {g \in {c.gate, c.accountGate} : g.present}
  IN /\ c.job /\ c.request # "failed" /\ c.account \in Accounts \cup {None}
     /\ (c.gate.present /\ c.gate.source = "verdifax") =>
          /\ c.gate.document \in BuiltInTexts /\ c.gate.activation = None
          /\ DocumentIsSealedOne(c.gate, c.gate.document)
          /\ c.gate.inputs # None => RulesAgree(c.gate, c.gate.document)
     /\ c.accountGate.present => /\ c.account # None /\ c.accountGate.source = "customer"
                                 /\ c.accountGate.activation # None
     /\ d.kind \in HaltedKinds => \A g \in decisions : g.outcome # "deny"

\* README, receipts with --policy, --policy-history, the account files,
\* --signer-key and --request: an accepted receipt passed on its own, its
\* context holds, and every file given was read and agrees with what a
\* context bound by the entry says.  The one exception is known: --policy
\* beside a built-in policy (EveryPolicyFileHolds).
AcceptedReceiptHolds ==
  LET c == ContextOf[copy.context]
      bound == copy.anchor # None /\ copy.context # None /\ copy.anchor.form = "v3"
  IN Accepted =>
       /\ ReceiptTier(copy, log, flags.selfHosted) # "FAILED"
       /\ bound => ContextHolds(copy)
       /\ (\E step \in FileSteps : flags[step] # None) => bound
       /\ \A step \in FileSteps : flags[step] # Missing
       /\ flags.signerKey # None => c.request = "passed" /\ c.requestKey = flags.signerKey
       /\ flags.request # None => c.request = "passed" /\ c.requestBody = flags.request
       /\ (flags.policy # None /\ c.gate.source # "verdifax") =>
            /\ c.gate.present /\ flags.policy \in Readable
            /\ DocumentIsSealedOne(c.gate, flags.policy)
            /\ c.gate.inputs # None => RulesAgree(c.gate, flags.policy)
       /\ flags.history # None => RecordInChain(flags.history, c.gate.activation)
       /\ flags.accountPolicy # None =>
            /\ c.accountGate.present /\ flags.accountPolicy \in Readable
            /\ DocumentIsSealedOne(c.accountGate, flags.accountPolicy)
       /\ flags.accountHistory # None =>
            AccountHistoryHolds(flags.accountHistory, c.account, c.accountGate.activation)

Promise == INSTANCE VerifierPromise WITH
  standing <- IF pc \in {"waiting", "verify"} THEN "unjudged"
              ELSE IF report.tier # "FAILED" THEN "holds" ELSE "fails",
  exit <- exit

\* Every step of one run of main() on a receipt keeps the verifier's promise
\* (its safety; that the run ends is VerifyRun's).  all_passed and the tier
\* a reader sees never part, unlike a bundle's.
ReceiptKeepsPromise ==
  /\ Promise!Init
  /\ [][Promise!Next /\ (report'.allPassed <=> report'.tier # "FAILED")]_(Promise!vars)
=============================================================================
