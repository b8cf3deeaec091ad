----------------------------- MODULE PolicyGate -----------------------------
(***************************************************************************)
(* The checks of a sealed policy decision (policygate.go, accountgate.go): *)
(* holding a record to the built-in policy it names, comparing a policy    *)
(* document the reader holds with the sealed decision and running its      *)
(* rules again, and holding an account decision to what only an account    *)
(* policy can be.  A text's SHA-256 is the text itself; the canonical      *)
(* policy hash, which leaves comments, layout and a few fields out, is a   *)
(* function of the text.                                                   *)
(***************************************************************************)
EXTENDS Naturals

CONSTANTS
  Texts,        \* exact texts a file or a built-in policy may hold
  Readable,     \* the texts policyhash.FromDocument accepts
  BuiltInTexts, \* the built-in policies this verifier carries (pslbuiltin)
  Policies,     \* canonical policy hashes
  PolicyHash,   \* the canonical hash of a readable text
  Identities,   \* identifier, name and version of a policy
  IdentityOf,   \* the identity a policy hash covers
  Inputs,       \* sealed inputs of a decision
  Rules,        \* rule identifiers
  Decide,       \* psleval.Decide: [rule, outcome] of a readable text on inputs
  Activations,  \* hashes of policy change records
  Accounts,     \* account numbers of the form the server assigns
  None          \* an empty or absent field

ASSUME TextsAssumption == BuiltInTexts \subseteq Readable /\ Readable \subseteq Texts
ASSUME NoneAssumption ==
  None \notin Texts \cup Inputs \cup Activations \cup Accounts \cup 0 .. 3
ASSUME PolicyAssumption == /\ PolicyHash \in [Readable -> Policies]
                           /\ IdentityOf \in [Policies -> Identities]

Source == {"customer", "verdifax", "", "unknown"}
Effect == {"allow", "deny", ""}

\* A sealed decision and what the checks found about it.
GateCheck ==
  [present : BOOLEAN, source : Source, policyHash : Policies \cup {None},
   identity : Identities \cup {None}, document : Texts \cup {None},
   activation : Activations \cup {None}, outcome : Effect, rule : Rules \cup {None},
   inputs : Inputs \cup {None}, checked : BOOLEAN, match : BOOLEAN,
   rulesChecked : BOOLEAN]

\* A record that seals no decision.
NoGate == [present |-> FALSE, source |-> "", policyHash |-> None,
           identity |-> None, document |-> None, activation |-> None,
           outcome |-> "", rule |-> None, inputs |-> None,
           checked |-> FALSE, match |-> FALSE, rulesChecked |-> FALSE]

\* What a record carries, before any check ran (gateOf, policyBindingOf).
Sealed(g) == g.present /\ ~g.checked /\ ~g.match /\ ~g.rulesChecked

PolicyFailed(g) == g.checked /\ ~g.match

\* The fail closures of checkBuiltIn and checkAccountGate.
Fail(g) == [g EXCEPT !.checked = TRUE, !.match = FALSE]

----------------------------------------------------------------------------

\* The switch of checkPolicyDocument, then the rules: a text that reads as
\* the sealed policy, with the sealed identity and exact text where sealed.
DocumentIsSealedOne(g, text) ==
  /\ PolicyHash[text] = g.policyHash
  /\ g.identity # None => IdentityOf[PolicyHash[text]] = g.identity
  /\ g.document # None => text = g.document

\* rerunRules.  Decide gives no decision the record can name when a rule
\* cannot be read on these inputs.
RulesAgree(g, text) ==
  Decide[text, g.inputs] = [rule |-> g.rule, outcome |-> g.outcome]

\* Mutant: the rules run again and their decision is not compared.
CheckPolicyDocumentUncompared(g, text) ==
  IF ~g.present \/ text \notin Readable \/ ~DocumentIsSealedOne(g, text)
  THEN [g EXCEPT !.checked = TRUE]
  ELSE [g EXCEPT !.checked = TRUE, !.match = TRUE, !.rulesChecked = g.inputs # None]

\* checkPolicyDocument.  Only a success assigns DocumentMatch: every early
\* return leaves the value the check was called with.
CheckPolicyDocument(g, text) ==
  LET checked == [g EXCEPT !.checked = TRUE]
      rerun   == [checked EXCEPT !.rulesChecked = TRUE]
  IN CASE \/ ~g.present
          \/ text \notin Readable
          \/ ~DocumentIsSealedOne(g, text) -> checked
       [] OTHER ->
            IF g.inputs = None THEN [checked EXCEPT !.match = TRUE]
            ELSE IF RulesAgree(g, text) THEN [rerun EXCEPT !.match = TRUE]
            ELSE rerun

\* checkBuiltIn.
CheckBuiltIn(g) ==
  CASE ~g.present \/ g.source \in {"customer", ""} -> g
    [] g.present /\ g.source = "verdifax" ->
         IF g.activation # None \/ g.document \notin BuiltInTexts
         THEN Fail(g)
         ELSE CheckPolicyDocument(g, g.document)
    [] OTHER -> Fail(g)

----------------------------------------------------------------------------

\* checkAccountID: no account, or a number of the server's form.
AccountIDKnown(account) == account \in Accounts \cup {None}

\* checkAccountGate, on a decision the record seals.
CheckAccountGate(g, account) ==
  IF \/ account = None
     \/ g.source # "customer"
     \/ g.activation = None
     \/ g.outcome \notin Effect
  THEN Fail(g)
  ELSE g

\* applyAccountPolicyDocument: with no sealed account decision the flag
\* builds a check that ran and did not hold.
ApplyAccountDocument(g, text) ==
  IF ~g.present THEN [NoGate EXCEPT !.checked = TRUE] ELSE CheckPolicyDocument(g, text)
=============================================================================
