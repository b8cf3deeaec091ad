------------------------------ MODULE MCJobMap ------------------------------
(***************************************************************************)
(* An instance of JobMap for TLC: two jobs of few records, with anything   *)
(* that can go wrong, and one job of more records, where nothing does.     *)
(***************************************************************************)
EXTENDS JobMap, TLC

CONSTANTS jobA, jobB, step1, step2, step3

MCJobs == {jobA, jobB}
MCSteps == {step1, step2, step3}
MCScopes ==
  {[maxJobs |-> 2, maxSteps |-> 2, maxRecords |-> 3, maxFiles |-> 3, anyOrder |-> TRUE,
    maxExternal |-> 2, maxOdd |-> 1, unanchored |-> FALSE, maxAltered |-> 0],
   [maxJobs |-> 1, maxSteps |-> 3, maxRecords |-> 4, maxFiles |-> 4, anyOrder |-> FALSE,
    maxExternal |-> 0, maxOdd |-> 0, unanchored |-> FALSE, maxAltered |-> 0],
   [maxJobs |-> 2, maxSteps |-> 2, maxRecords |-> 2, maxFiles |-> 2, anyOrder |-> TRUE,
    maxExternal |-> 1, maxOdd |-> 1, unanchored |-> FALSE, maxAltered |-> 1],
   [maxJobs |-> 2, maxSteps |-> 2, maxRecords |-> 2, maxFiles |-> 3, anyOrder |-> TRUE,
    maxExternal |-> 1, maxOdd |-> 0, unanchored |-> TRUE, maxAltered |-> 1]}
MCSymmetry == Permutations(MCJobs) \cup Permutations(MCSteps)
=============================================================================
