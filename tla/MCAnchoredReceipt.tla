-------------------------- MODULE MCAnchoredReceipt --------------------------
(***************************************************************************)
(* An instance of AnchoredReceipt for TLC.  Two ticks are a second.        *)
(* Second 1 comes before receipt anchoring, tick 4 is run 241's, from tick *)
(* 5 on every receipt seals anchor_required, and second 3 switches the     *)
(* key.                                                                    *)
(***************************************************************************)
EXTENDS AnchoredReceipt

CONSTANTS deny, halt, env1, dotted, body1, body2, ctx1, ctx2, key1, key3, other

MCKinds == {deny, halt}
MCLeafEnvs == {env1}
MCEnvs == {env1, dotted}
MCBodies == {body1, body2}
MCPinnedKeys == {key1, key3}
MCNotBefore == [k \in MCPinnedKeys |-> IF k = key3 THEN 3 ELSE 0]
MCNotAfter == [k \in MCPinnedKeys |-> IF k = key1 THEN 3 ELSE 0]
MCKeyAt == <<key1, key1, key3, key3, key3>>
MCFormsAt == <<{}, {"none"}, {"none"}, {"v1"}, {"v2", "v3"}, {"v2", "v3"}, {"v3"}, {}, {}, {}>>
\* Two receipts on either side of the cutovers; one that whoever holds the
\* server's key logs again; one and time enough for any window to close.
Refusal == [kind |-> deny, env |-> env1, body |-> body1, context |-> ctx1]
OneRefusal(relogs, since, clock, receipts, entries, changes) ==
  [relogs |-> relogs, refusals |-> {Refusal}, contexts |-> {ctx2}, since |-> since,
   maxTime |-> clock, maxReceipts |-> receipts, maxLog |-> entries, maxEdits |-> changes]
MCScopes ==
  {OneRefusal(FALSE, 3, 5, 2, MaxLog, MaxEdits), OneRefusal(TRUE, 6, 7, 1, MaxLog, MaxEdits),
   OneRefusal(FALSE, 4, MaxTime, 1, 1, 1)}
=============================================================================
