-------------------------- MODULE MCAnchoredRecord --------------------------
(***************************************************************************)
(* An instance of AnchoredRecord for TLC.  Time 1 stands for the           *)
(* generations before the pre-anchor table, time 2 for the ones that       *)
(* introduced it, time 3 for the switch of the server's key, time 4 for    *)
(* after it.                                                               *)
(***************************************************************************)
EXTENDS AnchoredRecord

CONSTANTS run1, attest1, aer1, aer2, sec1, sec2, desc1, desc2, alice, key1, key3, other

MCRunIds == {run1}
MCAttestIds == {attest1}
MCAers == {aer1, aer2}
MCSectionValues == {sec1, sec2}
MCDescs == {desc1, desc2}
MCActorIds == {alice}
MCPinnedKeys == {key1, key3}
MCNotBefore == [k \in MCPinnedKeys |-> IF k = key3 THEN 3 ELSE 0]
MCNotAfter == [k \in MCPinnedKeys |-> IF k = key1 THEN 3 ELSE 0]
MCKeyAt == <<key1, key1, key3, key3>>
MCFormsAt == <<OldForms, {"v5", "v6", "v7"}, {"v7"}, {"v7"}>>
MCPoteDiffers == {1}

\* One payload sent by a signing caller, and sent again without a signature.
MCSubmissions ==
  {[env |-> run1, aer |-> aer1, sections |-> sec1, desc |-> desc1,
    actorId |-> alice, scaffold |-> FALSE],
   [env |-> run1, aer |-> aer2, sections |-> sec1, desc |-> desc2,
    actorId |-> None, scaffold |-> TRUE]}
Signed == {s \in MCSubmissions : s.actorId = alice}
MCScopes ==
  {\* One signed run in any form, a third entry, and two changes to the copy.
   [relogs |-> FALSE, attests |-> TRUE, submissions |-> Signed,
    forms |-> OldForms \cup TableForms, maxTime |-> 3, maxLog |-> 3, maxRuns |-> 1, maxEdits |-> 2],
   \* One unsigned run in any form, two entries, and two changes.
   [relogs |-> FALSE, attests |-> TRUE, submissions |-> MCSubmissions \ Signed,
    forms |-> OldForms \cup TableForms, maxTime |-> 3, maxLog |-> 2, maxRuns |-> 1, maxEdits |-> 2],
   \* Two runs, and one change.
   [relogs |-> FALSE, attests |-> FALSE, submissions |-> MCSubmissions,
    forms |-> {"v3", "v5", "v6", "v7"}, maxTime |-> 3, maxLog |-> 4, maxRuns |-> 2, maxEdits |-> 1],
   \* One run under leaf v7, and the server's key in other hands.
   [relogs |-> TRUE, attests |-> FALSE, submissions |-> Signed,
    forms |-> {"v7"}, maxTime |-> 4, maxLog |-> 3, maxRuns |-> 1, maxEdits |-> 2]}
=============================================================================
