--------------------------- MODULE MCLogInclusion ---------------------------
(***************************************************************************)
(* An instance of LogInclusion for TLC: nine entries, so that every shape  *)
(* of tree up to three levels and the first of four appear with their right *)
(* borders; two bodies are submitted twice, one entry is of a kind the      *)
(* verifier does not read and one under a key it does not accept.           *)
(***************************************************************************)
EXTENDS LogInclusion

CONSTANTS leaf1, leaf2, leaf3, keyA, keyB

Body(leaf, key) ==
  [kind |-> "hashedrekord", algorithm |-> "sha256", value |-> leaf,
   signer |-> key, keyType |-> "P-256", signs |-> leaf]

MCSubmissions ==
  <<[body |-> Body(leaf1, keyA), time |-> 1],
    [body |-> Body(leaf2, keyA), time |-> 2],
    [body |-> [Body(leaf3, keyB) EXCEPT !.kind = "rekord"], time |-> 2],
    [body |-> Body(leaf1, keyA), time |-> 3],
    [body |-> Body(leaf1, keyB), time |-> 3],
    [body |-> [Body(leaf3, keyA) EXCEPT !.keyType = "RSA"], time |-> 4],
    [body |-> Body(leaf3, keyA), time |-> 5],
    [body |-> Body(leaf2, keyB), time |-> 6],
    [body |-> Body(leaf2, keyA), time |-> 7]>>

MCForeignBodies == {Body(leaf3, keyB), [Body(leaf2, keyA) EXCEPT !.signs = leaf1]}
=============================================================================
