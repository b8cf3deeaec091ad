----------------------------- MODULE TamperTest -----------------------------
(***************************************************************************)
(* --tamper-test: every change to a record, one at a time, judged by the   *)
(* full verification.  With --recompute-hashes it plays a forger who       *)
(* rewrites the whole record: a change is made in every copy, in one copy, *)
(* and in one copy with a gate of its group switched off, the hashes are   *)
(* recomputed, and the form that gets furthest names the change's tier.    *)
(***************************************************************************)
EXTENDS RecordHashes, SequencesExt

CONSTANTS
  Tests,     \* what may be tested: [original, covers, binds, kind, recompute]
  FieldForm, \* what a field holds: text, number, hash, clock, typed, needed
  None,      \* no exit yet
  Unattributed \* a check no catch group names (policy, request signature)

ASSUME NoneIsNoExit == None \notin {0, 1}

VARIABLES
  test,      \* the record, what binds it, and the mode of the test
  todo,      \* the changes not tried yet
  unchanged, \* the changes the rewrite undoes
  results,   \* one result per change tried
  exit       \* None until the test ends

vars == <<test, todo, unchanged, results, exit>>

(***************************************************************************)
(* Changes                                                                 *)
(***************************************************************************)
Zero(r, f) == IF f \in DOMAIN r.at THEN r.at[f] \in {Empty, Absent}
              ELSE r.lists[f] = Absent \/ \A i \in DOMAIN r.lists[f] : r.lists[f][i] = Empty

ItemPaths(r) ==
  UNION {{Item(l, i) : i \in DOMAIN r.lists[l]} : l \in {l \in DOMAIN r.lists : r.lists[l] # Absent}}

Change(kinds, paths) == [kind : kinds, path : paths]

\* tamperChanges: deleting what reads as empty anyway is not a change.
Changes(r) ==
  LET carried == {f \in DOMAIN r.at : r.at[f] # Absent}
      lists   == {l \in DOMAIN r.lists : r.lists[l] # Absent}
  IN Change({"changed"}, {Field(f) : f \in carried} \cup ItemPaths(r))
     \cup Change({"deleted"}, {Field(f) : f \in {g \in carried \cup lists : ~Zero(r, g)}})
     \cup Change({"removed"}, ItemPaths(r))
     \cup Change({"appended"}, {Field(l) : l \in {m \in lists : r.lists[m] # <<>>}})
     \cup Change({"added"}, {Field("record")})

Form(p) == IF p.item = 0 THEN FieldForm[p.at] ELSE "text"

\* tamperAltered: a crude edit.  One more is still a number, another digit
\* still a hash; an "x" appended leaves a value that is not of its form.
Altered(p, v) == CASE IsHash(v)           -> <<"hash", "altered", <<v>> >>
                   [] Form(p) = "number"  -> Append(v, "+1")
                   [] OTHER               -> Append(v, "x")
Crude(v) == v \notin {Empty, Absent} /\ ~IsHash(v) /\ Last(v) = "x"

\* tamperWellFormed: another value of the form the first one has.
HasWellFormed(p, v) == v # Empty /\ Form(p) # "number"
WellFormed(v) == IF IsHash(v) THEN <<"hash", "reformed", <<v>> >> ELSE Append(v, "+1")

SetAt(r, p, v) == IF p.item = 0 THEN [r EXCEPT !.at[p.at] = v]
                  ELSE [r EXCEPT !.lists[p.at][p.item] = v]

AppendLast(s) == Append(s, Last(s))

\* tamperApply.
Apply(r, c) ==
  LET p == c.path
  IN CASE c.kind = "added"    -> [r EXCEPT !.unknown = TRUE]
       [] c.kind = "changed"  -> SetAt(r, p, Altered(p, ValueAt(r, p)))
       [] c.kind = "removed"  -> [r EXCEPT !.lists[p.at] = RemoveAt(@, p.item)]
       [] c.kind = "appended" -> [r EXCEPT !.lists[p.at] = AppendLast(@)]
       [] c.kind = "deleted"  -> IF p.at \in DOMAIN r.at THEN SetAt(r, p, Empty)
                                 ELSE [r EXCEPT !.lists[p.at] = <<>>]

(***************************************************************************)
(* Judging a changed record                                                *)
(***************************************************************************)
LogGroups == {"first entry", "complete entry", "receipt entry", "entry signer"}

Content(r, f) == IF f \in DOMAIN r.at THEN r.at[f] ELSE r.lists[f]

\* Strict reading: no key it does not know, values of their types, and the
\* kind and manifest hash that make it a bundle.
Decodes(r) ==
  /\ ~r.unknown
  /\ \A f \in DOMAIN r.at : /\ FieldForm[f] = "typed" => ~Crude(r.at[f])
                            /\ FieldForm[f] = "needed" => r.at[f] # Empty

\* transcriptFromProof: an unreadable clock reads as the older generation's,
\* whose copy of the transcript's input differs.
ClocksRead(r) == \A f \in DOMAIN r.at : FieldForm[f] = "clock" => ~Crude(r.at[f])

\* The check groups that fail.  A group of t.binds binds its fields to what
\* the original holds: no rewrite of the record can satisfy it otherwise.
Failing(t, r) ==
  {g \in DOMAIN t.binds : \E f \in t.binds[g] : Content(r, f) # Content(t.original, f)}
  \cup (IF HashesAgree(r, t.covers) THEN {} ELSE {"internal"})
  \cup (IF ClocksRead(r) /\ (t.kind = "bundle" => CopiesAgree(r)) THEN {} ELSE {"consistency"})

\* judgeForTamper and tamperCatchers.
JudgeBundle(t, r) ==
  [accepted |-> Failing(t, r) = {}, caughtBy |-> Failing(t, r) \ {Unattributed}]

\* judgeReceiptForTamper: a receipt's check stops at its first failure, and
\* its entry is asked on its own.
ReceiptOrder == <<"internal", "consistency", "receipt entry", "entry signer">>
JudgeReceipt(t, r) ==
  LET failed == SelectSeq(ReceiptOrder, LAMBDA g : g \in Failing(t, r))
  IN [accepted |-> failed = <<>>,
      caughtBy |-> IF failed = <<>> THEN {}
                   ELSE {failed[1]} \cup (Failing(t, r) \cap {"receipt entry"})]

Judge(t, r) ==
  IF ~Decodes(r) THEN [accepted |-> FALSE, caughtBy |-> {"decode"}]
  ELSE IF t.kind = "bundle" THEN JudgeBundle(t, r) ELSE JudgeReceipt(t, r)

(***************************************************************************)
(* The forms of a change a forger can make                                 *)
(***************************************************************************)
\* tamperRecompute and tamperRecomputeReceipt.
Rewrite(t, r) == IF Decodes(r) THEN Recompute(r, t.covers) ELSE r

\* tamperSpreadList: an item of a list stored twice is changed, removed or
\* added at the same place in every copy, scalar copies of it included.
ListGroupOf(c) ==
  {g \in ListGroups : c.path.at \in g.lists
     /\ (c.path.item > 0 \/ c.kind = "appended")}
SpreadList(t, r, c) ==
  LET g      == CHOOSE g \in ListGroupOf(c) : TRUE
      i      == c.path.item
      value  == ValueAt(r, c.path)
      new(l) ==
        LET was == t.original.lists[l]
        IN CASE r.lists[l] = Absent                       -> Absent
             [] c.kind = "changed"                        ->
                  IF i \in DOMAIN r.lists[l] THEN [r.lists[l] EXCEPT ![i] = value] ELSE r.lists[l]
             [] c.kind = "removed" /\ r.lists[l] = was    ->
                  IF i \in DOMAIN was THEN RemoveAt(was, i) ELSE was
             [] c.kind = "appended" /\ r.lists[l] = was   ->
                  IF was # <<>> THEN AppendLast(was) ELSE was
             [] OTHER                                     -> r.lists[l]
      extras == IF c.kind = "changed" /\ i \in DOMAIN g.extras
                THEN {p \in g.extras[i] : ValueAt(t.original, p) # Absent} ELSE {}
  IN [r EXCEPT !.lists = [l \in DOMAIN r.lists |-> IF l \in g.lists THEN new(l) ELSE r.lists[l]],
               !.at = [f \in DOMAIN r.at |-> IF Field(f) \in extras THEN value ELSE r.at[f]]]

\* tamperSpreadCopies: the change in every copy that held the same value.
Spread(t, r, c) ==
  LET same == {p \in Peers(c.path) : ValueAt(t.original, p) = ValueAt(t.original, c.path)}
      value == ValueAt(r, c.path)
  IN IF ListGroupOf(c) # {} THEN SpreadList(t, r, c)
     ELSE IF c.kind \notin {"changed", "deleted"} \/ c.path.at \in DOMAIN r.lists THEN r
     ELSE [r EXCEPT !.at = [f \in DOMAIN r.at |-> IF Field(f) \in same THEN value ELSE r.at[f]],
                    !.lists = [l \in DOMAIN r.lists |->
                       IF r.lists[l] = Absent THEN Absent
                       ELSE [i \in DOMAIN r.lists[l] |->
                               IF Item(l, i) \in same THEN value ELSE r.lists[l][i]]]]

\* The change with one gate of one of its groups switched off.
GatesOff(t, r, c) ==
  IF c.kind \notin {"changed", "deleted"} THEN {}
  ELSE {SetAt(r, Field(gate.path), gate.off) :
          gate \in {gate \in UNION {g.gates : g \in GroupsOf(c.path)} :
                      Meets(gate.when, t.original) /\ Field(gate.path) # c.path}}

\* prepare: a form the rewrite turns back into the original is not a change.
Prepared(t, forms) ==
  {x \in {[turn |-> form.turn, record |-> Rewrite(t, form.record)] : form \in forms} :
     x.record # t.original}

\* Mutant: no form switches a gate off.
CandidatesGatesOn(t, base, c) ==
  IF ~t.recompute THEN {[turn |-> 1, record |-> base]}
  ELSE Prepared(t, {[turn |-> 1, record |-> Spread(t, base, c)], [turn |-> 2, record |-> base]})

\* Mutant: a form the rewrite undoes counts as a change.
CandidatesKept(t, base, c) ==
  IF ~t.recompute THEN {[turn |-> 1, record |-> base]} ELSE {[turn |-> 2, record |-> Rewrite(t, base)]}

\* candidates: the change in every copy, then in one copy (the same form
\* when there is nothing to spread), then in one copy with a gate off.
Candidates(t, base, c) ==
  IF ~t.recompute THEN {[turn |-> 1, record |-> base]}
  ELSE Prepared(t, {[turn |-> 1, record |-> Spread(t, base, c)], [turn |-> 2, record |-> base]}
                   \cup {[turn |-> 3, record |-> off] : off \in GatesOff(t, base, c)})

(***************************************************************************)
(* Tiers                                                                   *)
(***************************************************************************)
\* tamperTier: the strongest check that caught it.
Tier(t, v) ==
  CASE v.accepted                           -> "notStopped"
    [] ~v.accepted /\ ~t.recompute          -> "rejected"
    [] OTHER ->
       CASE v.caughtBy \cap LogGroups # {}  -> "log"
         [] OTHER -> CASE "AMD" \in v.caughtBy    -> "AMD"
                       [] OTHER -> CASE "decode" \in v.caughtBy -> "strict"
                                     [] OTHER -> IF "actor" \in v.caughtBy THEN "actorOnly"
                                                 ELSE "noRewrite"

\* tamperForgerRank: how far a form got for the forger.
ForgerRank(tier) ==
  [tr \in {"notStopped", "rejected", "actorOnly", "strict", "AMD", "log", "noRewrite"} |->
     CASE tr = "notStopped" -> 6 [] tr = "rejected" -> 5 [] tr = "actorOnly" -> 4
       [] tr = "strict" -> 3 [] tr = "AMD" -> 2 [] tr = "log" -> 1 [] OTHER -> 0][tier]

\* weakest: the verdict most favourable to the forger, the first of equals.
Weakest(t, forms) ==
  LET verdict(x) == Judge(t, x.record)
      rank(x)    == ForgerRank(Tier(t, verdict(x)))
  IN verdict(CHOOSE x \in forms :
               \A y \in forms : rank(y) < rank(x) \/ (rank(y) = rank(x) /\ x.turn <= y.turn))

\* Whether the crude edit's verdict is replaced by a well-formed edit's.
Retried(t, c, v) ==
  /\ c.kind = "changed"
  /\ Tier(t, v) = "noRewrite" \/ v.caughtBy = {"decode"}
  /\ HasWellFormed(c.path, ValueAt(t.original, c.path))

Again(t, c) == Candidates(t, SetAt(t.original, c.path, WellFormed(ValueAt(t.original, c.path))), c)

Verdict(t, c) ==
  LET v == Weakest(t, Candidates(t, Apply(t.original, c), c))
  IN IF Retried(t, c, v) /\ Again(t, c) # {} THEN Weakest(t, Again(t, c)) ELSE v

(***************************************************************************)
(* The test                                                                *)
(***************************************************************************)
Init ==
  /\ test \in Tests
  /\ todo = Changes(test.original)
  /\ unchanged = {} /\ results = {} /\ exit = None

\* A record that does not verify leaves nothing to test.
Refuse ==
  /\ exit = None /\ ~Judge(test, test.original).accepted
  /\ exit' = 1
  /\ UNCHANGED <<test, todo, unchanged, results>>

\* The changes are tried in one order; their results do not meet.
NextChange == CHOOSE c \in todo : TRUE
Turn == exit = None /\ todo # {} /\ Judge(test, test.original).accepted

\* A forger recomputes a stored hash rather than deleting it.
DeletesStoredHash(c) ==
  /\ test.recompute /\ c.kind = "deleted" /\ c.path.at \in DOMAIN test.original.at
  /\ ValueAt(test.original, c.path) \in DerivedHashes(test.original, test.covers)

SkipStoredHash ==
  /\ Turn /\ DeletesStoredHash(NextChange)
  /\ unchanged' = unchanged \cup {NextChange}
  /\ todo' = todo \ {NextChange}
  /\ UNCHANGED <<test, results, exit>>

Undone(c) == Candidates(test, Apply(test.original, c), c) = {}

\* Mutant: an undone change is not counted.
CountUndoneLost ==
  /\ Turn /\ ~DeletesStoredHash(NextChange) /\ Undone(NextChange)
  /\ todo' = todo \ {NextChange}
  /\ UNCHANGED <<test, unchanged, results, exit>>

CountUndone ==
  /\ Turn /\ ~DeletesStoredHash(NextChange) /\ Undone(NextChange)
  /\ unchanged' = unchanged \cup {NextChange}
  /\ todo' = todo \ {NextChange}
  /\ UNCHANGED <<test, results, exit>>

Try ==
  /\ Turn /\ ~DeletesStoredHash(NextChange) /\ ~Undone(NextChange)
  /\ LET v == Verdict(test, NextChange)
     IN results' = results \cup
          {[change |-> NextChange, accepted |-> v.accepted, caughtBy |-> v.caughtBy,
            tier |-> Tier(test, v)]}
  /\ todo' = todo \ {NextChange}
  /\ UNCHANGED <<test, unchanged, exit>>

\* notStopped: the results that count against the record.
NotStopped(rs) == {r \in rs : r.tier \in {"notStopped", "actorOnly", "noRewrite"}}

Finish ==
  /\ exit = None /\ todo = {}
  /\ exit' = IF NotStopped(results) = {} THEN 0 ELSE 1
  /\ UNCHANGED <<test, todo, unchanged, results>>

Next == Refuse \/ SkipStoredHash \/ CountUndone \/ Try \/ Finish

Spec == Init /\ [][Next]_vars /\ WF_vars(Next)

(***************************************************************************)
(* Properties                                                              *)
(***************************************************************************)
\* Every change of the record is waiting, undone or judged, and only one.
TypeOK ==
  LET judged == {r.change : r \in results}
  IN /\ test \in Tests /\ exit \in {None, 0, 1}
     /\ todo \cup unchanged \cup judged = Changes(test.original)
     /\ todo \cap (unchanged \cup judged) = {} /\ unchanged \cap judged = {}
     /\ Cardinality(judged) = Cardinality(results)
     /\ \A r \in results : r.accepted => r.caughtBy = {}

\* The places that hold the value at p: copies, copies of copies, and the
\* same item of the lists stored more than once.
Twins(t, p) ==
  LET items(q) == UNION {{Item(l, q.item) : l \in g.lists} \cup
                           (IF q.item \in DOMAIN g.extras THEN g.extras[q.item] ELSE {}) :
                           g \in {g \in ListGroups : q.at \in g.lists}}
      near(q)  == {x \in Peers(q) \cup items(q) : ValueAt(t.original, x) = ValueAt(t.original, p)}
      grown[n \in 0 .. 3] == IF n = 0 THEN {p}
                             ELSE grown[n - 1] \cup UNION {near(q) : q \in grown[n - 1]}
  IN grown[3]

Places(t, c) ==
  CASE c.kind \in {"changed", "deleted"} /\ c.path.at \notin DOMAIN t.original.lists -> Twins(t, c.path)
    [] c.kind = "changed" -> Twins(t, c.path)
    [] c.kind = "added"   -> {c.path}
    [] OTHER -> {[c.path EXCEPT !.at = l] : l \in
                   {c.path.at} \cup UNION {g.lists : g \in {g \in ListGroups : c.path.at \in g.lists}}}

\* The record with every hash it determines made to agree, from the hashes
\* of fields up; the other copies of a hash follow it unless edited.
Agreeing(t, r) ==
  LET orig == t.original.at
      up(s) == [s EXCEPT !.at = [f \in DOMAIN s.at |->
                  IF \E h \in DOMAIN t.covers : f = h \/ (orig[f] = orig[h] /\ r.at[f] = orig[f])
                  THEN HashOf(s, t.covers, CHOOSE h \in DOMAIN t.covers : f = h \/ orig[f] = orig[h])
                  ELSE s.at[f]]]
      built[n \in 0 .. Cardinality(DOMAIN t.covers)] == IF n = 0 THEN r ELSE up(built[n - 1])
  IN built[Cardinality(DOMAIN t.covers)]

\* Whatever a forger without keys can make of change c: either form of the
\* new value, in any of the places, with any gates off, hashes agreeing.
ForgerForms(t, c) ==
  LET old    == ValueAt(t.original, c.path)
      values == IF c.kind # "changed" THEN {Empty}
                ELSE {Altered(c.path, old)} \cup
                     (IF HasWellFormed(c.path, old) THEN {WellFormed(old)} ELSE {})
      gates  == UNION {g.gates : g \in GroupsOf(c.path)}
      edit(r, p, v) == IF c.kind = "changed" THEN SetAt(r, p, v) ELSE Apply(r, [c EXCEPT !.path = p])
      made(ps, v, off) ==
        LET changed == FoldSet(LAMBDA p, r : edit(r, p, v), t.original, ps)
        IN FoldSet(LAMBDA gate, r : SetAt(r, Field(gate.path), gate.off), changed, off)
  IN {Agreeing(t, made(ps, v, off)) :
        ps \in {ps \in SUBSET Places(t, c) : c.path \in ps}, v \in values, off \in SUBSET gates}

\* The changes the test says are stopped for good: all of them on a clean
\* exit, else those whose tier a forger without keys cannot get past.
SaidStopped ==
  IF exit = 0 THEN {c \in Changes(test.original) : ~DeletesStoredHash(c)}
  ELSE {r.change : r \in {r \in results : r.tier \in {"log", "AMD", "strict"}}}

\* tamper.go: "a change counts as stopped only when" a check no rewrite can
\* satisfy catches it.  That holds against more than the test itself made:
\* no form of such a change verifies or is left to the actor signature.
StoppedMeansNoRewrite ==
  (exit # None /\ test.recompute) =>
    \A c \in SaidStopped : \A f \in ForgerForms(test, c) :
      f # test.original => Tier(test, Judge(test, f)) \notin {"notStopped", "actorOnly"}

\* README: the rewritable paths are the ones a forger "is shown able to
\* change": a record other than the original verifies.
RewritablePathsAreReal ==
  exit # None =>
    \A r \in results : r.accepted =>
      \E f \in ForgerForms(test, r.change) : f # test.original /\ Judge(test, f).accepted
=============================================================================
