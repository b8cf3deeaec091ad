----------------------------- MODULE PublicLog -----------------------------
(***************************************************************************)
(* What the verifier relies on of the public log, for bundles and receipts *)
(* alike: an anchor that verifies names an entry the log holds, and the    *)
(* published log-signing keys are accepted each in its own period.         *)
(***************************************************************************)
EXTENDS Naturals, Sequences

CONSTANTS
  PinnedKeys, \* the published log-signing keys
  NotBefore,  \* when a pinned key is first accepted; 0 for no bound
  NotAfter,   \* when it is no longer accepted; 0 for no bound
  None        \* an empty or absent field

\* VerifyAnchor accepts exactly the entries the log holds: the body names
\* the leaf and the signer, the signed entry timestamp fixes the number and
\* the time.  An anchor whose signer is None carries no entry body.
Logged(a, log) ==
  /\ a.number \in DOMAIN log
  /\ log[a.number] = [leaf |-> a.leaf, signer |-> a.signer, time |-> a.time]

\* Mutant: the first accepted second is left out.
SignerAcceptsAfter(k, t) ==
  /\ NotBefore[k] = 0 \/ t > NotBefore[k]
  /\ NotAfter[k] = 0 \/ t < NotAfter[k]

\* signerAcceptsAt.
SignerAcceptsAt(k, t) ==
  /\ NotBefore[k] = 0 \/ t >= NotBefore[k]
  /\ NotAfter[k] = 0 \/ t < NotAfter[k]
=============================================================================
