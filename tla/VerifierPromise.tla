-------------------------- MODULE VerifierPromise --------------------------
(***************************************************************************)
(* What one invocation of the verifier promises, whatever it is given: it  *)
(* judges its input once, what it learns afterwards can only lower that    *)
(* judgement, a failed input exits 1, an input that holds exits 0, 3 or    *)
(* (when the reader asked for more than it shows) 1, and a file that       *)
(* cannot be read ends the run with 2 and no verdict.                      *)
(***************************************************************************)
EXTENDS Naturals

CONSTANT None

VARIABLES standing, exit

vars == <<standing, exit>>

Standing == {"unjudged", "holds", "fails"}

TypeOK == standing \in Standing /\ exit \in {None, 0, 1, 2, 3}

Init == standing = "unjudged" /\ exit = None

Judge ==
  /\ exit = None /\ standing = "unjudged"
  /\ standing' \in {"holds", "fails"}
  /\ UNCHANGED exit

Lower ==
  /\ exit = None /\ standing = "holds"
  /\ standing' = "fails"
  /\ UNCHANGED exit

Refuse ==
  /\ exit = None
  /\ exit' = 2
  /\ UNCHANGED standing

Conclude ==
  /\ exit = None
  /\ \/ standing = "holds" /\ exit' \in {0, 1, 3}
     \/ standing = "fails" /\ exit' = 1
  /\ UNCHANGED standing

Next == Judge \/ Lower \/ Refuse \/ Conclude

Spec == Init /\ [][Next]_vars /\ WF_vars(Refuse \/ Conclude)
=============================================================================
