--------------------------- MODULE MCPolicyChain ---------------------------
(***************************************************************************)
(* An instance of PolicyChain for TLC.  Two ticks are a second.            *)
(***************************************************************************)
EXTENDS PolicyChain, TLC

CONSTANTS account1, account2, customerKey, strict, loose, key1, other

MCAccounts == {account1, account2}
MCChains == MCAccounts \cup {customerKey}
MCPolicies == {strict, loose}
MCPinnedKeys == {key1}
MCUnbounded == [k \in MCPinnedKeys |-> 0]
MCScopes ==
  {\* Three changes at one moment, in files that change none of them.
   [relogs |-> FALSE, maxTime |-> 2, maxChanges |-> 3, maxApprovals |-> 0,
    maxLog |-> 3, maxFile |-> 3, maxEdits |-> 0],
   \* Two changes at different moments.
   [relogs |-> FALSE, maxTime |-> 6, maxChanges |-> 2, maxApprovals |-> 0,
    maxLog |-> 2, maxFile |-> 2, maxEdits |-> 1],
   \* Two changes, one approved, and the server's key in other hands.
   [relogs |-> TRUE, maxTime |-> 2, maxChanges |-> 2, maxApprovals |-> 1,
    maxLog |-> 3, maxFile |-> 2, maxEdits |-> 1]}
MCSymmetry == Permutations(MCPolicies) \cup Permutations(MCAccounts)
=============================================================================
