---------------------------- MODULE MCReceiptRun ----------------------------
(***************************************************************************)
(* An instance of ReceiptRun for TLC: MCAnchoredReceipt's scopes, in which *)
(* no verifier is started, and two in which one is.  In the first a halted *)
(* run's every context meets every pair of files; in the second a refusal  *)
(* and a few files meet every form, late entries and changed copies.       *)
(***************************************************************************)
EXTENDS MCAnchoredReceipt, ReceiptRun

CONSTANTS
  builtinText, customerText, reformatted, otherText, brokenText,
  builtinPolicy, customerPolicy, inA, inB, change1, change2,
  account1, account2, unknownAccount, keyA, keyB, bodyA, bodyB, ruleAllow, ruleDeny

MCTexts == {builtinText, customerText, reformatted, otherText, brokenText}
MCReadable == MCTexts \ {brokenText}
MCBuiltIn == {builtinText}
\* Two texts of one policy, and a policy under the customer's identity.
MCPolicyHash ==
  [t \in MCReadable |-> CASE t = builtinText -> builtinPolicy
                          [] t \in {customerText, reformatted} -> customerPolicy
                          [] OTHER -> otherText]
MCPolicies == {builtinPolicy, customerPolicy, otherText}
MCIdentityOf == [p \in MCPolicies |-> IF p = builtinPolicy THEN p ELSE customerPolicy]
MCInputs == {inA, inB}
MCDecide ==
  [t \in MCReadable, i \in MCInputs |->
     IF i = inA THEN [rule |-> ruleAllow, outcome |-> "allow"]
     ELSE [rule |-> ruleDeny, outcome |-> "deny"]]
MCActivations == {change1, change2}
MCAccounts == {account1, account2}
MCRules == {ruleAllow, ruleDeny}
MCKeys == {keyA, keyB}
MCRequests == {bodyA, bodyB}
MCHaltedKinds == {halt}

\* Sealed decisions.
Gate(source, policy, text, change) ==
  [NoGate EXCEPT !.present = TRUE, !.source = source, !.policyHash = policy,
                 !.identity = policy, !.document = text, !.activation = change,
                 !.outcome = "allow", !.rule = ruleAllow, !.inputs = inA]
CustomerGate == Gate("customer", customerPolicy, customerText, change1)
BuiltInGate == Gate("verdifax", builtinPolicy, builtinText, None)
AccountGate == [Gate("customer", customerPolicy, customerText, change2) EXCEPT !.inputs = None]
Refused(g) == [g EXCEPT !.outcome = "deny", !.rule = ruleDeny, !.inputs = inB]
\* The run stopped before the rules ran.
Undecided(g) == [g EXCEPT !.outcome = "", !.rule = None, !.inputs = None]

\* What a context seals: a decision, an account with one, a signature.
Sealing(gate, account, accountGate, request, body) ==
  [job |-> TRUE, gate |-> gate, account |-> account, accountGate |-> accountGate,
   request |-> request, requestKey |-> IF request = "absent" THEN None ELSE keyA,
   requestBody |-> body]
Bare == Sealing(NoGate, None, NoGate, "absent", None)
Full == Sealing(CustomerGate, account1, AccountGate, "passed", bodyA)

MCContextOf ==
  [bare |-> Bare,
   signed |-> Sealing(NoGate, None, NoGate, "passed", None),
   customer |-> Sealing(CustomerGate, None, NoGate, "passed", bodyA),
   misjudged |-> [Full EXCEPT !.gate.inputs = inB],
   builtin |-> Sealing(BuiltInGate, account1, NoGate, "absent", None),
   full |-> Full,
   refused |-> [Full EXCEPT !.gate = Refused(@)],
   accountRefused |-> [Full EXCEPT !.accountGate = Refused(@)],
   undecided |-> [Full EXCEPT !.gate = Undecided(@)],
   badJob |-> [Full EXCEPT !.job = FALSE],
   badBuiltIn |-> [Full EXCEPT !.gate = [BuiltInGate EXCEPT !.document = customerText]],
   changedBuiltIn |-> [Full EXCEPT !.gate = [BuiltInGate EXCEPT !.activation = change1]],
   wrongBuiltIn |-> [Full EXCEPT !.gate = [BuiltInGate EXCEPT !.policyHash = customerPolicy]],
   unknownSource |-> [Full EXCEPT !.gate.source = "unknown"],
   badAccount |-> [Full EXCEPT !.account = unknownAccount],
   noAccount |-> [Full EXCEPT !.account = None],
   builtinAccount |-> [Full EXCEPT !.accountGate = BuiltInGate],
   unchangedAccount |-> [Full EXCEPT !.accountGate.activation = None],
   badSignature |-> [Full EXCEPT !.request = "failed"]]

AllContexts == DOMAIN MCContextOf

Chains == {[ok |-> TRUE, owner |-> account1, members |-> {change1, change2}],
           [ok |-> TRUE, owner |-> account2, members |-> {change2}],
           [ok |-> FALSE, owner |-> account1, members |-> {change1, change2}]}

NoFiles ==
  [policy |-> None, history |-> None, accountPolicy |-> None, accountHistory |-> None,
   signerKey |-> None, request |-> None, selfHosted |-> FALSE, allowUnanchored |-> FALSE]

With(flagSets, step, values) ==
  flagSets \cup {[f EXCEPT ![step] = v] : f \in flagSets, v \in values \cup {Missing}}

OneFile ==
  With({NoFiles}, "signerKey", Keys) \cup With({NoFiles}, "request", Requests)
  \cup With({NoFiles}, "policy", Texts) \cup With({NoFiles}, "history", Chains)
  \cup With({NoFiles}, "accountPolicy", Texts) \cup With({NoFiles}, "accountHistory", Chains)
TwoFiles ==
  With(OneFile, "signerKey", Keys) \cup With(OneFile, "request", Requests)
  \cup With(OneFile, "policy", Texts) \cup With(OneFile, "history", Chains)
  \cup With(OneFile, "accountPolicy", Texts) \cup With(OneFile, "accountHistory", Chains)

FewFlags ==
  {[NoFiles EXCEPT !.selfHosted = s, !.allowUnanchored = u] : s \in BOOLEAN, u \in BOOLEAN}
  \cup {[NoFiles EXCEPT !.signerKey = keyB, !.policy = customerText, !.allowUnanchored = TRUE]}

\* The server may seal a context that the checks then refuse: they read the
\* document and know nothing else of the run.
Judging(kinds, contexts, since, clock, entries, changes) ==
  [relogs |-> FALSE,
   refusals |-> {[kind |-> k, env |-> env1, body |-> body1, context |-> c] :
                   k \in kinds, c \in contexts},
   contexts |-> contexts, since |-> since, maxTime |-> clock, maxReceipts |-> 1,
   maxLog |-> entries, maxEdits |-> changes]

EveryContext == Judging({halt}, AllContexts, 7, 7, 1, 0)
EveryCopy == Judging({deny}, {"full", "refused"}, 2, 7, 1, 1)

MCRunScopes == MCScopes \cup {EveryContext, EveryCopy}
MCCommandLines ==
  [s \in MCRunScopes |-> CASE s = EveryContext -> TwoFiles
                           [] s = EveryCopy -> FewFlags
                           [] OTHER -> {}]
MCContexts ==
  [c \in {ctx1, ctx2} \cup AllContexts |-> IF c \in AllContexts THEN MCContextOf[c] ELSE Bare]
=============================================================================
