---------------------------- MODULE MCVerifyRun ----------------------------
(***************************************************************************)
(* An instance of VerifyRun for TLC.  Records start from the five kinds of *)
(* bundle the verifier meets and differ from them in up to two checks, so  *)
(* every check is seen failing alone and beside another; others fix the    *)
(* checks and vary the sealed decisions and the files instead.             *)
(***************************************************************************)
EXTENDS VerifyRun

CONSTANTS
  builtinText, customerText, reformatted, otherText, brokenText,
  builtinPolicy, customerPolicy, otherPolicy,
  inA, inB, change1, change2, account1, account2, unknownAccount,
  keyA, keyB, bodyA, bodyB, ruleAllow, ruleDeny

MCTexts == {builtinText, customerText, reformatted, otherText, brokenText}
MCReadable == MCTexts \ {brokenText}
MCBuiltIn == {builtinText}
\* Two texts of one policy, and two other policies.
MCPolicyHash ==
  [t \in MCReadable |-> CASE t = builtinText -> builtinPolicy
                          [] t \in {customerText, reformatted} -> customerPolicy
                          [] OTHER -> otherPolicy]
MCPolicies == {builtinPolicy, customerPolicy, otherPolicy}
MCIdentityOf == [p \in MCPolicies |-> p]
MCInputs == {inA, inB}
\* The built-in policy admits everything; the customer's refuses inB.
MCDecide ==
  [t \in MCReadable, i \in MCInputs |->
     IF t = builtinText \/ i = inA THEN [rule |-> ruleAllow, outcome |-> "allow"]
     ELSE [rule |-> ruleDeny, outcome |-> "deny"]]
MCActivations == {change1, change2}
MCAccounts == {account1, account2}
MCAccountNames == {account1, account2, unknownAccount}
MCRules == {ruleAllow, ruleDeny}
MCKeys == {keyA, keyB}
MCBodies == {bodyA, bodyB}

\* Sealed decisions.
Gate(source, policy, text, change, input) ==
  [NoGate EXCEPT !.present = TRUE, !.source = source, !.policyHash = policy,
                 !.identity = policy, !.document = text, !.activation = change,
                 !.outcome = "allow", !.rule = ruleAllow, !.inputs = input]
CustomerGate == Gate("customer", customerPolicy, customerText, change1, inA)
BuiltInGate == Gate("verdifax", builtinPolicy, builtinText, None, inA)
OldGate == Gate("", customerPolicy, None, None, None)

Complete ==
  [hashes |-> TRUE, onLog |-> TRUE, rekor |-> "passed", leaf |-> "passed",
   identity |-> "passed", nrep |-> "passed", request |-> "passed",
   timing |-> "passed", preAnchor |-> "passed", recordAnchor |-> "logged",
   requires |-> TRUE, cross |-> TRUE, entryAuth |-> "passed",
   job |-> "wellformed", scaffold |-> FALSE]
V5 == [Complete EXCEPT !.requires = FALSE]
PreV5 == [V5 EXCEPT !.preAnchor = "absent", !.recordAnchor = "absent",
                    !.request = "absent", !.job = "none"]
OffLog == [Complete EXCEPT !.onLog = FALSE, !.rekor = "absent", !.leaf = "absent",
                           !.identity = "absent", !.entryAuth = "absent",
                           !.recordAnchor = "local"]
OldOffLog == [OffLog EXCEPT !.requires = FALSE, !.preAnchor = "absent",
                            !.recordAnchor = "absent", !.nrep = "absent"]
Kinds == {Complete, V5, PreV5, OffLog, OldOffLog}

Vary(s) ==
  s \cup {[c EXCEPT ![f] = o] : c \in s, f \in PerformedChecks, o \in Outcome}
    \cup {[c EXCEPT ![f] = b] : c \in s, f \in {"hashes", "cross", "requires", "scaffold"},
                                b \in BOOLEAN}
    \cup {[c EXCEPT !.recordAnchor = o] : c \in s, o \in RecordAnchorOutcome}
    \cup {[c EXCEPT !.job = "malformed"] : c \in s}

Bundle(c, gate, account, accountGate) ==
  [checks |-> c, gate |-> gate, account |-> account, accountGate |-> accountGate,
   requestKey |-> keyA, requestBody |-> bodyA]

VerdictRecords ==
  {Bundle(c, CustomerGate, None, NoGate) : c \in {x \in Vary(Vary(Kinds)) : Coherent(x)}}

NoFiles ==
  [policy |-> None, history |-> None, accountPolicy |-> None, accountHistory |-> None,
   signerKey |-> None, request |-> None, strict |-> FALSE, allowPartial |-> FALSE,
   allowUnanchored |-> FALSE]

VerdictFlags ==
  {[NoFiles EXCEPT !.strict = s, !.allowPartial = p, !.allowUnanchored = u] :
     s \in BOOLEAN, p \in BOOLEAN, u \in BOOLEAN}
  \cup {[NoFiles EXCEPT !.policy = Missing, !.allowPartial = TRUE]}

\* Sealed decisions and files.
Gates ==
  {NoGate, CustomerGate, BuiltInGate, OldGate,
   [CustomerGate EXCEPT !.inputs = inB],
   [CustomerGate EXCEPT !.identity = otherPolicy],
   [CustomerGate EXCEPT !.document = None, !.inputs = None],
   [BuiltInGate EXCEPT !.activation = change1],
   [BuiltInGate EXCEPT !.document = customerText],
   [BuiltInGate EXCEPT !.policyHash = customerPolicy],
   [CustomerGate EXCEPT !.source = "unknown"]}

AccountGates ==
  {NoGate, [CustomerGate EXCEPT !.activation = change2],
   [CustomerGate EXCEPT !.activation = None], BuiltInGate}

PolicyRecords ==
  {Bundle(c, g, a, ag) : c \in {Complete, [Complete EXCEPT !.request = "absent"],
                                [V5 EXCEPT !.recordAnchor = "absent"]},
                         g \in Gates, a \in {None, account1, unknownAccount},
                         ag \in AccountGates}
  \cup {[Bundle(Complete, CustomerGate, None, NoGate) EXCEPT !.requestBody = None]}

Chains == {[ok |-> TRUE, owner |-> account1, members |-> {change1}],
           [ok |-> TRUE, owner |-> account1, members |-> {change1, change2}],
           [ok |-> TRUE, owner |-> account2, members |-> {change2}],
           [ok |-> FALSE, owner |-> account1, members |-> {change1, change2}]}

\* One file of each kind at a time, and two that could make up for each other.
PolicyFlags ==
  {NoFiles}
  \cup {[NoFiles EXCEPT !.policy = t] : t \in Texts \cup {Missing}}
  \cup {[NoFiles EXCEPT !.history = h] : h \in Chains \cup {Missing}}
  \cup {[NoFiles EXCEPT !.accountPolicy = t, !.accountHistory = h] :
          t \in {None, customerText, otherText, Missing}, h \in Chains \cup {None, Missing}}
  \cup {[NoFiles EXCEPT !.policy = t, !.history = h, !.allowPartial = TRUE] :
          t \in {customerText, reformatted, otherText}, h \in Chains}
  \cup {[NoFiles EXCEPT !.signerKey = k, !.request = b, !.allowPartial = p] :
          k \in {None, keyA, keyB, Missing}, b \in {None, bodyA, bodyB, Missing},
          p \in BOOLEAN}

\* Every check with the exit flags, and every decision with the files.
MCInvocations ==
  {[records |-> VerdictRecords, flagSets |-> VerdictFlags],
   [records |-> PolicyRecords, flagSets |-> PolicyFlags]}
============================================================================
