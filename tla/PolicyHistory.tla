---------------------------- MODULE PolicyHistory ----------------------------
(***************************************************************************)
(* --policy-history and --account-policy-history (policyhistory.go,        *)
(* policy_activation.go): the check of a file of policy changes, oldest    *)
(* first.  A change's hash is the tuple of what it covers, so a hash holds *)
(* the hash of the change before it.                                       *)
(***************************************************************************)
EXTENDS PublicLog, Integers

CONSTANTS
  ChainIDs,     \* identifiers a leaf may carry: not empty, no dot
  AccountForm,  \* those of the form account-N
  NoPrevious,   \* NoPreviousActivation
  Second,       \* clock ticks in a second
  EntryWindow,  \* ReceiptAnchoringWindowSeconds
  Skew          \* anchoringClockSkew, in seconds

\* Mutant: the chain is not covered.
ActivationHashOfAnyChain(a) == <<a.seq, a.previous, a.policy, a.doc, a.at, a.sig>>

\* ComputeHash: everything but the hash itself and the log entry.
ActivationHash(a) == <<a.chain, a.seq, a.previous, a.policy, a.doc, a.at, a.sig>>

\* LeafHash: the receipt leaf of form v3.
ActivationLeaf(a) == <<"v3", "policy_activation", a.chain, a.hash, a.seq, a.previous>>

\* Mutant: the place in the chain is not signed.
SignatureHoldsAnywhere(a) == a.sig = None \/ (a.sig.chain = a.chain /\ a.sig.doc = a.doc)

\* checkActivationSignature: none, or one over the chain, the text and the
\* change before.
SignatureHolds(a) ==
  a.sig = None \/
    (a.sig.chain = a.chain /\ a.sig.doc = a.doc /\ a.sig.previous = a.previous)

\* Mutant: a signer that is not published has no period to check.
EntryHoldsAnySigner(a, log) ==
  LET e == a.anchor
  IN /\ e # None
     /\ e.onLog
     /\ e.kind = "policy_activation" /\ e.hash = a.hash /\ e.leaf = ActivationLeaf(a)
     /\ Logged(e, log)
     /\ e.signer \in PinnedKeys => SignerAcceptsAt(e.signer, e.time)
     /\ e.time * Second - a.at >= -Skew * Second
     /\ e.time * Second - a.at <= EntryWindow * Second

\* checkActivationEntry.  The gap is compared with its fraction.
EntryHolds(a, log) ==
  LET e == a.anchor
  IN /\ e # None
     /\ e.onLog
     /\ e.kind = "policy_activation" /\ e.hash = a.hash /\ e.leaf = ActivationLeaf(a)
     /\ Logged(e, log)
     /\ e.signer \in PinnedKeys
     /\ SignerAcceptsAt(e.signer, e.time)
     /\ e.time * Second - a.at >= -Skew * Second
     /\ e.time * Second - a.at <= EntryWindow * Second

\* Mutant: the link to the change before is not compared.
ChangeHoldsUnlinked(f, i, log) ==
  LET a == f[i]
  IN /\ a.chain \in ChainIDs
     /\ a.seq = i
     /\ a.hash = ActivationHash(a)
     /\ i > 1 => a.at >= f[i - 1].at
     /\ SignatureHolds(a)
     /\ EntryHolds(a, log)

\* Mutant: two changes may not carry one date.
ChangeHoldsLater(f, i, log) ==
  LET a == f[i]
  IN /\ a.chain \in ChainIDs
     /\ a.seq = i
     /\ a.previous = IF i = 1 THEN NoPrevious ELSE f[i - 1].hash
     /\ a.hash = ActivationHash(a)
     /\ i > 1 => a.at > f[i - 1].at
     /\ SignatureHolds(a)
     /\ EntryHolds(a, log)

\* checkActivation, for change i of file f.
ChangeHolds(f, i, log) ==
  LET a == f[i]
  IN /\ a.chain \in ChainIDs
     /\ a.seq = i
     /\ a.previous = IF i = 1 THEN NoPrevious ELSE f[i - 1].hash
     /\ a.hash = ActivationHash(a)
     /\ i > 1 => a.at >= f[i - 1].at
     /\ SignatureHolds(a)
     /\ EntryHolds(a, log)

\* checkPolicyHistory.
HistoryHolds(f, log) == f # <<>> /\ \A i \in DOMAIN f : ChangeHolds(f, i, log)

\* checkAccountChain.
AccountChainHolds(f, log) ==
  HistoryHolds(f, log) /\ \A i \in DOMAIN f : f[i].chain \in AccountForm /\ f[i].chain = f[1].chain

\* recordInChain, for the change a record names.
NamedIn(f, log, activation) == HistoryHolds(f, log) /\ \E i \in DOMAIN f : f[i].hash = activation

\* Mutant: the history is not asked to be the record's account's.
AccountHistoryHoldsOfAny(f, log, account, activation) ==
  /\ account # None
  /\ AccountChainHolds(f, log)
  /\ NamedIn(f, log, activation)

\* loadAccountPolicyHistory, for the account and the change a record seals.  No
\* change has the empty hash, so a record that seals none is in no history.
AccountHistoryHolds(f, log, account, activation) ==
  /\ account # None
  /\ AccountChainHolds(f, log)
  /\ f[1].chain = account
  /\ NamedIn(f, log, activation)
=============================================================================
