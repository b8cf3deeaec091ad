-------------------------- MODULE TamperTest_proofs --------------------------
(***************************************************************************)
(* Theorems about the tamper test.  The argument of each is one invariant  *)
(* of the loop over the changes: every change of the record waits, is      *)
(* undone or has one result, and a result says of every form the test      *)
(* tried of its change what the forger got out of it.                      *)
(***************************************************************************)
EXTENDS TamperTest, FiniteSetTheorems, TLAPS

(***************************************************************************)
(* The last of some places.                                                *)
(***************************************************************************)
\* The first place of a set of places, there being one.
LEMMA FirstPlace ==
  ASSUME NEW T \in SUBSET Nat, T # {}
  PROVE  \E x \in T : \A y \in T : x <= y
<1>1. PICK x \in T : \A y \in T : <<y, x>> \notin OpToRel(<, Nat)
  BY WFMin, NatLessThanWellFounded
<1>2. \A y \in T : ~(y < x)
  BY <1>1 DEF OpToRel
<1>. QED
  BY <1>2

\* The last place of a set of places up to n.
LEMMA LastPlace ==
  ASSUME NEW n \in Nat, NEW T \in SUBSET (1 .. n), T # {}
  PROVE  \E x \in T : \A y \in T : y <= x
<1>. DEFINE U == {k \in Nat : n - k \in T}
<1>1. U # {}
  <2>1. PICK x \in T : TRUE
    OBVIOUS
  <2>2. n - x \in Nat /\ n - (n - x) = x
    OBVIOUS
  <2>. QED
    BY <2>1, <2>2
<1>2. PICK u \in U : \A v \in U : u <= v
  BY <1>1, FirstPlace
<1>3. \A y \in T : n - y \in U
  <2>1. \A y \in T : n - y \in Nat /\ n - (n - y) = y
    OBVIOUS
  <2>. QED
    BY <2>1
<1>4. n - u \in T /\ u \in Nat /\ \A y \in T : y \in Nat /\ u <= n - y
  BY <1>2, <1>3
<1>. QED
  BY <1>4

(***************************************************************************)
(* Verdicts                                                                *)
(***************************************************************************)
Tiers == {"notStopped", "rejected", "actorOnly", "strict", "AMD", "log", "noRewrite"}

\* The forger's two successes: a record that verifies, and one that only
\* the actor's signature stands against.
Reached(t) == IF t.recompute THEN {"notStopped", "actorOnly"} ELSE {"notStopped"}

RankOf(t, x) == ForgerRank(Tier(t, Judge(t, x.record)))

\* An accepted record is caught by nothing.
LEMMA JudgedOnce ==
  ASSUME NEW t, NEW r
  PROVE  Judge(t, r).accepted \in BOOLEAN /\ (Judge(t, r).accepted => Judge(t, r).caughtBy = {})
<1>1. CASE ~Decodes(r)
  BY <1>1 DEF Judge
<1>2. CASE Decodes(r) /\ t.kind = "bundle"
  BY <1>2 DEF Judge, JudgeBundle
<1>3. CASE Decodes(r) /\ t.kind # "bundle"
  BY <1>3 DEF Judge, JudgeReceipt
<1>. QED
  BY <1>1, <1>2, <1>3

LEMMA TierIsTier ==
  ASSUME NEW t, NEW r
  PROVE  /\ Tier(t, Judge(t, r)) \in Tiers
         /\ Tier(t, Judge(t, r)) = "notStopped" <=> Judge(t, r).accepted
<1>1. Judge(t, r).accepted \in BOOLEAN
  BY JudgedOnce
<1>. QED
  BY <1>1 DEF Tier, Tiers

\* What the ranks say: the two successes are above every failure.
LEMMA RanksOrderTiers ==
  ASSUME NEW tier \in Tiers
  PROVE  /\ ForgerRank(tier) \in 0 .. 6
         /\ (ForgerRank(tier) > 5 <=> tier = "notStopped")
         /\ (ForgerRank(tier) > 3 <=> tier \in {"notStopped", "rejected", "actorOnly"})
<1>1. /\ ForgerRank("notStopped") = 6 /\ ForgerRank("rejected") = 5
      /\ ForgerRank("actorOnly") = 4 /\ ForgerRank("strict") = 3
      /\ ForgerRank("AMD") = 2 /\ ForgerRank("log") = 1 /\ ForgerRank("noRewrite") = 0
  BY DEF ForgerRank
<1>. QED
  BY <1>1 DEF Tiers

LEMMA RankIsRank ==
  ASSUME NEW t, NEW x
  PROVE  RankOf(t, x) \in 0 .. 6
BY TierIsTier, RanksOrderTiers DEF RankOf

\* The turn a form is tried in.
LEMMA CandidatesTakeTurns ==
  ASSUME NEW t, NEW base, NEW c, NEW x \in Candidates(t, base, c)
  PROVE  x.turn \in 1 .. 3
BY DEF Candidates, Prepared

\* The verdict kept is that of a form no other form outranks.
LEMMA WeakestIsTheWeakest ==
  ASSUME NEW t, NEW forms, forms # {}, \A x \in forms : x.turn \in 1 .. 3
  PROVE  \E x \in forms : /\ Weakest(t, forms) = Judge(t, x.record)
                          /\ \A y \in forms : RankOf(t, y) <= RankOf(t, x)
<1>. DEFINE Best(x) == \A y \in forms : \/ RankOf(t, y) < RankOf(t, x)
                                        \/ RankOf(t, y) = RankOf(t, x) /\ x.turn <= y.turn
            key(x) == 4 * RankOf(t, x) + (4 - x.turn)
            T == {key(x) : x \in forms}
<1>1. \A x \in forms : RankOf(t, x) \in 0 .. 6 /\ x.turn \in 1 .. 3
  BY RankIsRank
<1>2. \A x \in forms : key(x) \in 1 .. 27
  BY <1>1
<1>3. T \in SUBSET (1 .. 27) /\ T # {}
  BY <1>2
<1>4. PICK k \in T : \A j \in T : j <= k
  BY <1>3, LastPlace
<1>5. PICK x \in forms : key(x) = k
  BY <1>4
<1>6. Best(x)
  <2>1. TAKE y \in forms
  <2>2. key(y) <= key(x)
    BY <1>4, <1>5
  <2>. QED
    BY <1>1, <2>2
<1>. HIDE DEF key, T
<1>. DEFINE w == CHOOSE z \in forms : Best(z)
<1>7. w \in forms /\ Best(w)
  BY <1>6
<1>8. Weakest(t, forms) = Judge(t, w.record)
  BY DEF Weakest, RankOf
<1>9. \A y \in forms : RankOf(t, y) <= RankOf(t, w)
  BY <1>7, <1>1
<1>. QED
  BY <1>7, <1>8, <1>9

(***************************************************************************)
(* What a verdict says of the forms it was taken from                      *)
(***************************************************************************)
\* The forms the test makes of a change: the crude edit's, and when it is
\* retried those of the well-formed edit.
Tried(t, c) ==
  LET crude == Candidates(t, Apply(t.original, c), c)
  IN {x.record : x \in crude} \cup
     (IF crude # {} /\ Retried(t, c, Weakest(t, crude)) THEN {x.record : x \in Again(t, c)} ELSE {})

\* No form gets the forger further than the verdict says.
Bounds(t, v, records) ==
  Tier(t, v) \notin Reached(t) => \A f \in records : Tier(t, Judge(t, f)) \notin Reached(t)

\* The forger's successes outrank the failures, in either mode.
LEMMA RankReached ==
  ASSUME NEW t, NEW x
  PROVE  Tier(t, Judge(t, x.record)) \in Reached(t)
           <=> RankOf(t, x) > (IF t.recompute THEN 3 ELSE 5)
<1>1. Tier(t, Judge(t, x.record)) \in Tiers
  BY TierIsTier
<1>2. t.recompute => Tier(t, Judge(t, x.record)) # "rejected"
  BY DEF Tier
<1>. QED
  BY <1>1, <1>2, RanksOrderTiers DEF RankOf, Reached

\* A verdict that is retried: no form of the crude edit got through.
LEMMA RetriedFailed ==
  ASSUME NEW t, NEW c, NEW r, Retried(t, c, Judge(t, r))
  PROVE  Tier(t, Judge(t, r)) \notin Reached(t)
<1>. DEFINE v == Judge(t, r)
<1>1. Tier(t, v) = "noRewrite" \/ v.caughtBy = {"decode"}
  BY DEF Retried
<1>2. CASE Tier(t, v) = "noRewrite"
  BY <1>2 DEF Reached
<1>3. CASE v.caughtBy = {"decode"}
  <2>1. ~v.accepted
    BY <1>3, JudgedOnce
  <2>2. v.caughtBy \cap LogGroups = {} /\ "AMD" \notin v.caughtBy
    BY <1>3 DEF LogGroups
  <2>3. Tier(t, v) = IF t.recompute THEN "strict" ELSE "rejected"
    BY <1>3, <2>1, <2>2 DEF Tier
  <2>. QED
    BY <2>3 DEF Reached
<1>. QED
  BY <1>1, <1>2, <1>3

\* The weakest verdict is one of its forms' and bounds them all.
LEMMA WeakestBounds ==
  ASSUME NEW t, NEW base, NEW c, Candidates(t, base, c) # {}
  PROVE  LET forms == Candidates(t, base, c)
             v     == Weakest(t, forms)
         IN /\ \E x \in forms : v = Judge(t, x.record)
            /\ Bounds(t, v, {x.record : x \in forms})
<1>. DEFINE forms == Candidates(t, base, c)
            v == Weakest(t, forms)
<1>1. PICK x \in forms : v = Judge(t, x.record) /\ \A y \in forms : RankOf(t, y) <= RankOf(t, x)
  BY CandidatesTakeTurns, WeakestIsTheWeakest
<1>2. ASSUME Tier(t, v) \notin Reached(t), NEW y \in forms
      PROVE  Tier(t, Judge(t, y.record)) \notin Reached(t)
  <2>1. ~(RankOf(t, x) > (IF t.recompute THEN 3 ELSE 5))
    BY <1>1, <1>2, RankReached
  <2>2. RankOf(t, x) \in 0 .. 6 /\ RankOf(t, y) \in 0 .. 6 /\ RankOf(t, y) <= RankOf(t, x)
    BY <1>1, RankIsRank
  <2>3. ~(RankOf(t, y) > (IF t.recompute THEN 3 ELSE 5))
    BY <2>1, <2>2
  <2>. QED
    BY <2>3, RankReached
<1>. HIDE DEF forms, v
<1>3. Bounds(t, v, {y.record : y \in forms})
  BY <1>2 DEF Bounds
<1>. QED
  BY <1>1, <1>3 DEF forms, v

\* The verdict on a change is that of a form tried, and bounds them all:
\* what the retry throws away had not got through.
LEMMA VerdictIsOfTried ==
  ASSUME NEW t, NEW c, Candidates(t, Apply(t.original, c), c) # {}
  PROVE  /\ \E f \in Tried(t, c) : Verdict(t, c) = Judge(t, f)
         /\ Bounds(t, Verdict(t, c), Tried(t, c))
<1>. DEFINE crude == Candidates(t, Apply(t.original, c), c)
            v == Weakest(t, crude)
            w == Weakest(t, Again(t, c))
<1>1. /\ \E x \in crude : v = Judge(t, x.record)
      /\ Bounds(t, v, {x.record : x \in crude})
  BY WeakestBounds
<1>2. CASE Retried(t, c, v) /\ Again(t, c) # {}
  <2>1. /\ \E x \in Again(t, c) : w = Judge(t, x.record)
        /\ Bounds(t, w, {x.record : x \in Again(t, c)})
    BY <1>2, WeakestBounds DEF Again
  <2>2. Tier(t, v) \notin Reached(t)
    BY <1>1, <1>2, RetriedFailed
  <2>3. Verdict(t, c) = w
    BY <1>2 DEF Verdict
  <2>4. Tried(t, c) = {x.record : x \in crude} \cup {x.record : x \in Again(t, c)}
    BY <1>2 DEF Tried
  <2>. HIDE DEF crude, v, w
  <2>. QED
    BY <1>1, <2>1, <2>2, <2>3, <2>4 DEF Bounds
<1>3. CASE ~(Retried(t, c, v) /\ Again(t, c) # {})
  <2>1. Verdict(t, c) = v
    BY <1>3 DEF Verdict
  <2>2. Tried(t, c) = {x.record : x \in crude}
    BY <1>3 DEF Tried
  <2>. HIDE DEF crude, v
  <2>. QED
    BY <1>1, <2>1, <2>2
<1>. QED
  BY <1>2, <1>3

(***************************************************************************)
(* The loop                                                                *)
(***************************************************************************)
Judged == {r.change : r \in results}

ResultFor(t, c) ==
  [change |-> c, accepted |-> Verdict(t, c).accepted, caughtBy |-> Verdict(t, c).caughtBy,
   tier |-> Tier(t, Verdict(t, c))]

\* Each change is in one place, and has one result when it is judged.
EachChangeOnce ==
  /\ test \in Tests
  /\ todo \cup unchanged \cup Judged = Changes(test.original)
  /\ todo \cap (unchanged \cup Judged) = {} /\ unchanged \cap Judged = {}
  /\ IsFiniteSet(results) /\ IsFiniteSet(Judged)
  /\ Cardinality(Judged) = Cardinality(results)

\* What put it there.
PlacedByRule ==
  /\ \A c \in unchanged : DeletesStoredHash(c) \/ Undone(c)
  /\ \A r \in results : r = ResultFor(test, r.change) /\ ~Undone(r.change)

\* The exit code is the result of the whole loop.
ExitByRule ==
  /\ exit \in {None, 0, 1}
  /\ ~Judge(test, test.original).accepted => todo = Changes(test.original) /\ results = {}
  /\ exit # None => (exit = 0 <=> todo = {} /\ NotStopped(results) = {})
  /\ exit # None /\ Judge(test, test.original).accepted => todo = {}

LoopInv == EachChangeOnce /\ PlacedByRule /\ ExitByRule

\* A record can always be given a key it does not know.
LEMMA SomethingToTry ==
  ASSUME NEW r
  PROVE  Changes(r) # {}
<1>1. [kind |-> "added", path |-> Field("record")] \in Change({"added"}, {Field("record")})
  BY DEF Change
<1>. QED
  BY <1>1 DEF Changes

LEMMA InitEstablishesLoopInv == Init => LoopInv
<1>. SUFFICES ASSUME Init
              PROVE  LoopInv
  OBVIOUS
<1>1. Judged = {} /\ IsFiniteSet({})
  BY FS_EmptySet DEF Init, Judged
<1>2. EachChangeOnce
  BY <1>1 DEF Init, EachChangeOnce
<1>3. PlacedByRule
  BY DEF Init, PlacedByRule
<1>4. ExitByRule
  BY DEF Init, ExitByRule
<1>. QED
  BY <1>2, <1>3, <1>4 DEF LoopInv

\* A step that moves the next change to `unchanged` leaves the invariant.
LEMMA PutAside ==
  ASSUME LoopInv, Turn, DeletesStoredHash(NextChange) \/ Undone(NextChange),
         unchanged' = unchanged \cup {NextChange}, todo' = todo \ {NextChange},
         UNCHANGED <<test, results, exit>>
  PROVE  LoopInv'
<1>1. NextChange \in todo
  BY DEF Turn, NextChange
<1>2. Judged' = Judged
  BY DEF Judged
<1>. HIDE DEF NextChange
<1>3. EachChangeOnce'
  BY <1>1, <1>2 DEF LoopInv, EachChangeOnce
<1>4. PlacedByRule'
  BY DEF LoopInv, PlacedByRule, DeletesStoredHash, Undone
<1>5. ExitByRule'
  BY DEF LoopInv, ExitByRule, Turn
<1>. QED
  BY <1>3, <1>4, <1>5 DEF LoopInv

LEMMA StepKeepsLoopInv == LoopInv /\ [Next]_vars => LoopInv'
<1>. SUFFICES ASSUME LoopInv, [Next]_vars
              PROVE  LoopInv'
  OBVIOUS
<1>. USE NoneIsNoExit
<1>1. CASE Refuse
  <2>1. EachChangeOnce' /\ PlacedByRule'
    BY <1>1 DEF Refuse, LoopInv, EachChangeOnce, PlacedByRule, Judged, DeletesStoredHash, Undone
  <2>2. todo # {}
    BY <1>1, SomethingToTry DEF Refuse, LoopInv, ExitByRule
  <2>3. ExitByRule'
    BY <1>1, <2>2 DEF Refuse, LoopInv, ExitByRule
  <2>. QED
    BY <2>1, <2>3 DEF LoopInv
<1>2. CASE SkipStoredHash
  BY <1>2, PutAside DEF SkipStoredHash
<1>3. CASE CountUndone
  BY <1>3, PutAside DEF CountUndone
<1>4. CASE Try
  <2>. DEFINE c == NextChange
              r == ResultFor(test, c)
  <2>1. c \in todo /\ c \notin Judged /\ ~Undone(c) /\ exit = None
    BY <1>4 DEF Try, Turn, NextChange, LoopInv, EachChangeOnce
  <2>2. results' = results \cup {r}
    BY <1>4 DEF Try, ResultFor
  <2>3. r.change = c
    BY DEF ResultFor
  <2>4. /\ todo' = todo \ {c} /\ unchanged' = unchanged /\ test' = test /\ exit' = exit
        /\ Judge(test, test.original).accepted
    BY <1>4 DEF Try, Turn
  <2>5. r = ResultFor(test, r.change)
    BY <2>3
  <2>. HIDE DEF c, r
  <2>6. Judged' = Judged \cup {c} /\ r \notin results
    BY <2>1, <2>2, <2>3 DEF Judged
  <2>7. /\ IsFiniteSet(results') /\ IsFiniteSet(Judged')
        /\ Cardinality(Judged') = Cardinality(results')
    <3>1. IsFiniteSet(results) /\ IsFiniteSet(Judged) /\ Cardinality(Judged) = Cardinality(results)
      BY DEF LoopInv, EachChangeOnce
    <3>2. IsFiniteSet(results \cup {r}) /\ Cardinality(results \cup {r}) = Cardinality(results) + 1
      BY <3>1, <2>6, FS_AddElement
    <3>3. IsFiniteSet(Judged \cup {c}) /\ Cardinality(Judged \cup {c}) = Cardinality(Judged) + 1
      BY <3>1, <2>1, FS_AddElement
    <3>. QED
      BY <3>1, <3>2, <3>3, <2>2, <2>6
  <2>8. EachChangeOnce'
    <3>1. todo' \cup unchanged' \cup Judged' = Changes(test.original)
      BY <2>1, <2>4, <2>6 DEF LoopInv, EachChangeOnce
    <3>2. todo' \cap (unchanged' \cup Judged') = {} /\ unchanged' \cap Judged' = {}
      BY <2>1, <2>4, <2>6 DEF LoopInv, EachChangeOnce
    <3>. QED
      BY <3>1, <3>2, <2>4, <2>7 DEF LoopInv, EachChangeOnce
  <2>9. PlacedByRule'
    BY <2>1, <2>2, <2>3, <2>4, <2>5 DEF LoopInv, PlacedByRule, DeletesStoredHash, Undone
  <2>10. ExitByRule'
    BY <2>1, <2>4 DEF LoopInv, ExitByRule
  <2>. QED
    BY <2>8, <2>9, <2>10 DEF LoopInv
<1>5. CASE Finish
  <2>1. EachChangeOnce' /\ PlacedByRule'
    BY <1>5 DEF Finish, LoopInv, EachChangeOnce, PlacedByRule, Judged, DeletesStoredHash, Undone
  <2>2. ExitByRule'
    BY <1>5 DEF Finish, LoopInv, ExitByRule, NotStopped
  <2>. QED
    BY <2>1, <2>2 DEF LoopInv
<1>6. CASE UNCHANGED vars
  BY <1>6 DEF vars, LoopInv, EachChangeOnce, PlacedByRule, ExitByRule, Judged,
              DeletesStoredHash, Undone, NotStopped
<1>. QED
  BY <1>1, <1>2, <1>3, <1>4, <1>5, <1>6 DEF Next

LEMMA LoopInvHolds == Spec => []LoopInv
<1>1. Init => LoopInv
  BY InitEstablishesLoopInv
<1>2. LoopInv /\ [Next]_vars => LoopInv'
  BY StepKeepsLoopInv
<1>. QED
  BY <1>1, <1>2, PTL DEF Spec

(***************************************************************************)
(* Theorems                                                                *)
(***************************************************************************)
\* tamperRun: every change of the record is waiting, undone or judged, and
\* is counted once, whatever the record.
THEOREM TamperTypeOK == Spec => []TypeOK
<1>1. LoopInv => TypeOK
  <2>. SUFFICES ASSUME LoopInv
                PROVE  TypeOK
    OBVIOUS
  <2>1. \A r \in results : r.accepted => r.caughtBy = {}
    <3>. SUFFICES ASSUME NEW r \in results
                  PROVE  r.accepted => r.caughtBy = {}
      OBVIOUS
    <3>1. r = ResultFor(test, r.change) /\ ~Undone(r.change)
      BY DEF LoopInv, PlacedByRule
    <3>2. PICK f \in Tried(test, r.change) : Verdict(test, r.change) = Judge(test, f)
      BY <3>1, VerdictIsOfTried DEF Undone
    <3>3. r.accepted = Judge(test, f).accepted /\ r.caughtBy = Judge(test, f).caughtBy
      BY <3>1, <3>2 DEF ResultFor
    <3>. QED
      BY <3>3, JudgedOnce
  <2>2. ExitByRule /\ EachChangeOnce
    BY DEF LoopInv
  <2>. QED
    BY <2>1, <2>2 DEF TypeOK, EachChangeOnce, ExitByRule, Judged
<1>. QED
  BY <1>1, LoopInvHolds, PTL

\* A result tells of the whole attempt on its change: an accepted one was
\* accepted in a form tried, and one said to be stopped was stopped in
\* every form tried, the crude edits thrown away by a retry included.
ResultsBoundForms ==
  \A r \in results :
    /\ r.accepted => \E f \in Tried(test, r.change) : Judge(test, f).accepted
    /\ r.tier \notin Reached(test) =>
         \A f \in Tried(test, r.change) : Tier(test, Judge(test, f)) \notin Reached(test)

\* tamper.go, weakest: a change whose spread variant was caught while the
\* lone variant verified is not reported as stopped.
THEOREM ResultsBoundWhatWasTried == Spec => []ResultsBoundForms
<1>1. LoopInv => ResultsBoundForms
  <2>. SUFFICES ASSUME LoopInv, NEW r \in results
                PROVE  /\ r.accepted => \E f \in Tried(test, r.change) : Judge(test, f).accepted
                       /\ r.tier \notin Reached(test) =>
                            Bounds(test, Verdict(test, r.change), Tried(test, r.change))
                              /\ Tier(test, Verdict(test, r.change)) \notin Reached(test)
    BY DEF ResultsBoundForms, Bounds
  <2>1. r = ResultFor(test, r.change) /\ ~Undone(r.change)
    BY DEF LoopInv, PlacedByRule
  <2>2. /\ \E f \in Tried(test, r.change) : Verdict(test, r.change) = Judge(test, f)
        /\ Bounds(test, Verdict(test, r.change), Tried(test, r.change))
    BY <2>1, VerdictIsOfTried DEF Undone
  <2>3. /\ r.accepted = Verdict(test, r.change).accepted
        /\ r.tier = Tier(test, Verdict(test, r.change))
    BY <2>1 DEF ResultFor
  <2>. QED
    BY <2>2, <2>3
<1>. QED
  BY <1>1, LoopInvHolds, PTL

\* What exit code 0 promises of the record: no form the test tried of any
\* change, other than the deletion of a stored hash, verifies or is left to
\* the actor's signature.
CleanExitStopsAll ==
  exit = 0 =>
    \A c \in Changes(test.original) :
      DeletesStoredHash(c) \/ \A f \in Tried(test, c) : Tier(test, Judge(test, f)) \notin Reached(test)

\* runTamperTestJudged: "0 when every change fails (in recompute mode: when
\* every change is stopped ...)", whatever the record and its checks.
THEOREM CleanExitMeansStopped == Spec => []CleanExitStopsAll
<1>1. LoopInv /\ ResultsBoundForms => CleanExitStopsAll
  <2>. SUFFICES ASSUME LoopInv, ResultsBoundForms, exit = 0,
                       NEW c \in Changes(test.original), ~DeletesStoredHash(c),
                       NEW f \in Tried(test, c)
                PROVE  Tier(test, Judge(test, f)) \notin Reached(test)
    BY DEF CleanExitStopsAll
  <2>1. todo = {} /\ NotStopped(results) = {}
    BY NoneIsNoExit DEF LoopInv, ExitByRule
  <2>2. ~Undone(c)
    BY DEF Undone, Tried
  <2>3. c \in Judged
    BY <2>1, <2>2 DEF LoopInv, EachChangeOnce, PlacedByRule
  <2>4. PICK r \in results : r.change = c
    BY <2>3 DEF Judged
  <2>5. r.tier \notin Reached(test)
    BY <2>1 DEF NotStopped, Reached
  <2>. QED
    BY <2>4, <2>5 DEF ResultsBoundForms
<1>. QED
  BY <1>1, LoopInvHolds, ResultsBoundWhatWasTried, PTL

\* A report is of all the changes, or of a record that does not verify.
ReportIsWhole ==
  exit # None =>
    /\ exit = 0 <=> Judge(test, test.original).accepted /\ NotStopped(results) = {}
    /\ Judge(test, test.original).accepted =>
         \A c \in Changes(test.original) :
           DeletesStoredHash(c) \/ Undone(c) \/ \E r \in results : r.change = c
    /\ ~Judge(test, test.original).accepted => results = {}

\* runTamperTestOutput: the code is 0 exactly for a record that verifies
\* and has no change that counts against it.
THEOREM ReportCoversEveryChange == Spec => []ReportIsWhole
<1>1. LoopInv => ReportIsWhole
  <2>. SUFFICES ASSUME LoopInv, exit # None
                PROVE  /\ (exit = 0 <=> Judge(test, test.original).accepted /\ NotStopped(results) = {})
                       /\ Judge(test, test.original).accepted =>
                            \A c \in Changes(test.original) :
                              DeletesStoredHash(c) \/ Undone(c) \/ c \in Judged
                       /\ ~Judge(test, test.original).accepted => results = {}
    BY DEF ReportIsWhole, Judged
  <2>1. ~Judge(test, test.original).accepted => todo # {}
    BY SomethingToTry DEF LoopInv, ExitByRule
  <2>2. exit = 0 <=> todo = {} /\ NotStopped(results) = {}
    BY DEF LoopInv, ExitByRule
  <2>3. Judge(test, test.original).accepted => todo = {}
    BY DEF LoopInv, ExitByRule
  <2>4. ~Judge(test, test.original).accepted => results = {}
    BY DEF LoopInv, ExitByRule
  <2>. QED
    BY <2>1, <2>2, <2>3, <2>4 DEF LoopInv, EachChangeOnce, PlacedByRule
<1>. QED
  BY <1>1, LoopInvHolds, PTL
=============================================================================
