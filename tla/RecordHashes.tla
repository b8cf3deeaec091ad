---------------------------- MODULE RecordHashes ----------------------------
(***************************************************************************)
(* The hashes a record determines itself, and the rewrite of all of them   *)
(* after a change.  A value is a tuple: <<>> reads as empty or deleted, a  *)
(* hash is <<"hash", field, content>>, so two hashes are equal exactly     *)
(* when they are of the same content.                                      *)
(***************************************************************************)
EXTENDS BoundCopies, FiniteSets

CONSTANT MaxRounds \* tamperRecompute's rounds

Empty == <<>>
IsHash(v) == v # Absent /\ v # Empty /\ v[1] = "hash"

\* What field h should hold: the hash of the fields and lists `covers` names
\* for it.  The domain of `covers` is the fields that hold a hash.
HashOf(r, covers, h) ==
  <<"hash", h, [f \in covers[h] |-> IF f \in DOMAIN r.at THEN r.at[f] ELSE r.lists[f]]>>

HashesAgree(r, covers) == \A h \in DOMAIN covers : r.at[h] = HashOf(r, covers, h)

\* tamperDerivedHashes: the hash values verification recomputes.
DerivedHashes(r, covers) == {v \in {r.at[h] : h \in DOMAIN covers} : IsHash(v)}

\* tamperReplaceValues: every value found in `stale` becomes its new one.
ReplaceValues(r, stale) ==
  LET new(v) == IF v \in DOMAIN stale THEN stale[v] ELSE v
  IN [r EXCEPT !.at = [f \in DOMAIN r.at |-> new(r.at[f])],
               !.lists = [l \in DOMAIN r.lists |->
                  IF r.lists[l] = Absent THEN Absent
                  ELSE [i \in DOMAIN r.lists[l] |-> new(r.lists[l][i])]]]

\* The hashes that no longer recompute, each with its new value.  A hash
\* emptied or overwritten by other text is not one a rewrite can find.
Stale(r, covers) ==
  LET old == {h \in DOMAIN covers : IsHash(r.at[h]) /\ r.at[h] # HashOf(r, covers, h)}
  IN [v \in {r.at[h] : h \in old} |->
        HashOf(r, covers, CHOOSE h \in old : r.at[h] = v)]

\* One round of the rewrite; as a mutant of Recompute, the only one, so that
\* a hash of a hash stays behind.
RecomputeOnce(r, covers) == ReplaceValues(r, Stale(r, covers))

\* tamperRecompute on a record that decodes: rounds until nothing is stale.
Recompute(r, covers) ==
  LET again(s) == IF HashesAgree(s, covers) THEN s ELSE RecomputeOnce(s, covers)
      round[n \in 0 .. MaxRounds] == IF n = 0 THEN r ELSE again(round[n - 1])
  IN round[MaxRounds]
=============================================================================
