--------------------------- MODULE OptionalFiles ---------------------------
(***************************************************************************)
(* The files a reader may give beside a record, as a bundle's and a        *)
(* receipt's verification both read them: policy documents (PolicyGate),   *)
(* histories of policy changes, and their own request.                     *)
(***************************************************************************)
EXTENDS PolicyGate

CONSTANT Missing \* the content of a file that cannot be read

(***************************************************************************)
(* A policy history file as checkPolicyHistory leaves it: whether every    *)
(* change and link held, the one account all changes belong to (None when  *)
(* they belong to none or to several), and the changes.                    *)
(***************************************************************************)
Chain == [ok : BOOLEAN, owner : Accounts \cup {None}, members : SUBSET Activations]

\* recordInChain.
RecordInChain(chain, activation) ==
  chain.ok /\ activation # None /\ activation \in chain.members

\* loadAccountPolicyHistory with checkAccountChain.
AccountHistoryHolds(chain, account, activation) ==
  /\ account # None
  /\ chain.owner = account
  /\ RecordInChain(chain, activation)
=============================================================================
