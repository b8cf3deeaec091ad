-------------------------- MODULE PolicyText_proofs --------------------------
(***************************************************************************)
(* Theorems about a policy's text, for every text of a policy's form and   *)
(* every context: what the strict reading accepts is read alike by all     *)
(* readers, a rule that cannot be read leaves no decision, and the hash    *)
(* fixes the decision.                                                     *)
(***************************************************************************)
EXTENDS PolicyText, SequenceTheorems, WellFoundedInduction, TLAPS

(***************************************************************************)
(* The first of some places.                                               *)
(***************************************************************************)
\* The first place of a set of places, there being one.
LEMMA FirstPlace ==
  ASSUME NEW T \in SUBSET Nat, T # {}
  PROVE  \E x \in T : \A y \in T : x <= y
<1>1. PICK x \in T : \A y \in T : <<y, x>> \notin OpToRel(<, Nat)
  BY WFMin, NatLessThanWellFounded
<1>2. \A y \in T : ~(y < x)
  BY <1>1 DEF OpToRel
<1>. QED
  BY <1>2

(***************************************************************************)
(* Readers.  Where keys do not repeat and all are modelled, each reader    *)
(* finds a key at the same one place.                                      *)
(***************************************************************************)
StrictMembers(members, t) ==
  /\ NoKeyTwice(members)
  /\ \A i \in DOMAIN members : Modelled(members[i], Elem(t))

\* A key that is asked for is at one place at most, whatever is folded.
LEMMA SamePlaces ==
  ASSUME NEW members, NEW t, StrictMembers(members, t),
         NEW reader, NEW k \in KeysOf(members, t)
  PROVE  /\ PlacesOf(reader, members, k) = PlacesOf(GoReader, members, k)
         /\ PlacesOf(reader, members, k) # {} =>
              \E i \in DOMAIN members : PlacesOf(reader, members, k) = {i}
<1>1. \A i, j \in DOMAIN members : members[i].name = members[j].name => i = j
  BY DEF StrictMembers, NoKeyTwice
<1>2. ASSUME NEW i \in DOMAIN members, members[i].name = k[1]
      PROVE  members[i].exact = k[2]
  <2>1. CASE Elem(t).kind = "map"
    <3>1. PICK j \in DOMAIN members : k = Key(members[j])
      BY <2>1 DEF KeysOf
    <3>2. i = j
      BY <1>1, <1>2, <3>1 DEF Key
    <3>. QED
      BY <3>1, <3>2 DEF Key
  <2>2. CASE Elem(t).kind # "map"
    <3>1. k \in (DOMAIN Elem(t).fields) \X {TRUE}
      BY <2>2 DEF KeysOf
    <3>2. k[2] = TRUE
      BY <3>1
    <3>. QED
      BY <2>2, <3>2 DEF StrictMembers, Modelled
  <2>. QED
    BY <2>1, <2>2
<1>. QED
  BY <1>1, <1>2 DEF PlacesOf

\* So all readers ask an object for the same keys, find the same member at
\* each and show no other.
TypeAt(t, name) == IF Elem(t).kind = "map" THEN Elem(t).of ELSE Elem(t).fields[name]
KeysFound(reader, members, t) == {k \in KeysOf(members, t) : PlacesOf(reader, members, k) # {}}

LEMMA SameMembers ==
  ASSUME NEW members, NEW t, StrictMembers(members, t), NEW reader
  PROVE  /\ KeysFound(reader, members, t) = KeysFound(GoReader, members, t)
         /\ \A k \in KeysFound(reader, members, t) : \E i \in DOMAIN members :
              /\ TypeAt(t, k[1]) = TypeOfMember(members[i], Elem(t))
              /\ Pick(reader, PlacesOf(reader, members, k)) = i
              /\ Pick(GoReader, PlacesOf(GoReader, members, k)) = i
         /\ OtherKeys(reader, members, t) = {} /\ OtherKeys(GoReader, members, t) = {}
<1>1. KeysFound(reader, members, t) = KeysFound(GoReader, members, t)
  BY SamePlaces DEF KeysFound
<1>2. ASSUME NEW k \in KeysFound(reader, members, t)
      PROVE  \E i \in DOMAIN members :
               /\ TypeAt(t, k[1]) = TypeOfMember(members[i], Elem(t))
               /\ Pick(reader, PlacesOf(reader, members, k)) = i
               /\ Pick(GoReader, PlacesOf(GoReader, members, k)) = i
  <2>1. /\ k \in KeysOf(members, t) /\ PlacesOf(reader, members, k) # {}
        /\ PlacesOf(reader, members, k) = PlacesOf(GoReader, members, k)
    BY SamePlaces DEF KeysFound
  <2>2. PICK i \in DOMAIN members : PlacesOf(reader, members, k) = {i}
    BY <2>1, SamePlaces
  <2>3. members[i].name = k[1]
    BY <2>2 DEF PlacesOf
  <2>4. FirstOf({i}) = i /\ LastOf({i}) = i
    BY DEF FirstOf, LastOf
  <2>. QED
    BY <2>1, <2>2, <2>3, <2>4 DEF Pick, TypeAt, TypeOfMember
<1>3. ASSUME NEW r
      PROVE  OtherKeys(r, members, t) = {}
  BY DEF OtherKeys, StrictMembers
<1>. QED
  BY <1>1, <1>2, <1>3

LEMMA SameScalar ==
  ASSUME NEW v, v.plain, NEW reader
  PROVE  SeenScalar(reader, v) = SeenScalar(GoReader, v)
BY DEF SeenScalar, GoReader

(***************************************************************************)
(* Level by level: what is walked without fault is seen alike.             *)
(***************************************************************************)
LEMMA SeenAlike1 ==
  ASSUME NEW reader, NEW v, NEW t, Walk1(v, t)
  PROVE  Seen1(reader, v, t) = Seen1(GoReader, v, t)
BY SameScalar DEF Walk1, Seen1

LEMMA SeenAlike2 ==
  ASSUME NEW reader, NEW v, NEW t, Walk2(v, t)
  PROVE  Seen2(reader, v, t) = Seen2(GoReader, v, t)
<1>1. CASE v.is = "scalar"
  BY <1>1, SameScalar DEF Walk2, Seen2, WalkInto, SeenInto
<1>2. CASE v.is = "list"
  BY <1>2, SeenAlike1 DEF Walk2, Seen2, WalkInto, SeenInto
<1>3. CASE v.is \notin {"scalar", "list"}
  <2>. DEFINE sees(r, key) ==
                Seen1(r, v.members[Pick(r, PlacesOf(r, v.members, key))].value, TypeAt(t, key[1]))
  <2>1. /\ StrictMembers(v.members, t)
        /\ \A i \in DOMAIN v.members : Walk1(v.members[i].value, TypeOfMember(v.members[i], Elem(t)))
    BY <1>3 DEF Walk2, WalkInto, StrictMembers
  <2>2. \A key \in KeysFound(reader, v.members, t) : sees(reader, key) = sees(GoReader, key)
    BY <2>1, SameMembers, SeenAlike1
  <2>3. \A r : Seen2(r, v, t) =
          [fields |-> [key \in KeysFound(r, v.members, t) |-> sees(r, key)],
           others |-> OtherKeys(r, v.members, t)]
    BY <1>3 DEF Seen2, SeenInto, KeysFound, TypeAt
  <2>. HIDE DEF sees
  <2>. QED
    BY <2>1, <2>2, <2>3, SameMembers
<1>. QED
  BY <1>1, <1>2, <1>3

LEMMA SeenAlike3 ==
  ASSUME NEW reader, NEW v, NEW t, Walk3(v, t)
  PROVE  Seen3(reader, v, t) = Seen3(GoReader, v, t)
<1>1. CASE v.is = "scalar"
  BY <1>1, SameScalar DEF Walk3, Seen3, WalkInto, SeenInto
<1>2. CASE v.is = "list"
  BY <1>2, SeenAlike2 DEF Walk3, Seen3, WalkInto, SeenInto
<1>3. CASE v.is \notin {"scalar", "list"}
  <2>. DEFINE sees(r, key) ==
                Seen2(r, v.members[Pick(r, PlacesOf(r, v.members, key))].value, TypeAt(t, key[1]))
  <2>1. /\ StrictMembers(v.members, t)
        /\ \A i \in DOMAIN v.members : Walk2(v.members[i].value, TypeOfMember(v.members[i], Elem(t)))
    BY <1>3 DEF Walk3, WalkInto, StrictMembers
  <2>2. \A key \in KeysFound(reader, v.members, t) : sees(reader, key) = sees(GoReader, key)
    BY <2>1, SameMembers, SeenAlike2
  <2>3. \A r : Seen3(r, v, t) =
          [fields |-> [key \in KeysFound(r, v.members, t) |-> sees(r, key)],
           others |-> OtherKeys(r, v.members, t)]
    BY <1>3 DEF Seen3, SeenInto, KeysFound, TypeAt
  <2>. HIDE DEF sees
  <2>. QED
    BY <2>1, <2>2, <2>3, SameMembers
<1>. QED
  BY <1>1, <1>2, <1>3

LEMMA SeenAlike4 ==
  ASSUME NEW reader, NEW v, NEW t, Walk4(v, t)
  PROVE  Seen4(reader, v, t) = Seen4(GoReader, v, t)
<1>1. CASE v.is = "scalar"
  BY <1>1, SameScalar DEF Walk4, Seen4, WalkInto, SeenInto
<1>2. CASE v.is = "list"
  BY <1>2, SeenAlike3 DEF Walk4, Seen4, WalkInto, SeenInto
<1>3. CASE v.is \notin {"scalar", "list"}
  <2>. DEFINE sees(r, key) ==
                Seen3(r, v.members[Pick(r, PlacesOf(r, v.members, key))].value, TypeAt(t, key[1]))
  <2>1. /\ StrictMembers(v.members, t)
        /\ \A i \in DOMAIN v.members : Walk3(v.members[i].value, TypeOfMember(v.members[i], Elem(t)))
    BY <1>3 DEF Walk4, WalkInto, StrictMembers
  <2>2. \A key \in KeysFound(reader, v.members, t) : sees(reader, key) = sees(GoReader, key)
    BY <2>1, SameMembers, SeenAlike3
  <2>3. \A r : Seen4(r, v, t) =
          [fields |-> [key \in KeysFound(r, v.members, t) |-> sees(r, key)],
           others |-> OtherKeys(r, v.members, t)]
    BY <1>3 DEF Seen4, SeenInto, KeysFound, TypeAt
  <2>. HIDE DEF sees
  <2>. QED
    BY <2>1, <2>2, <2>3, SameMembers
<1>. QED
  BY <1>1, <1>2, <1>3

LEMMA SeenAlike5 ==
  ASSUME NEW reader, NEW v, NEW t, Walk5(v, t)
  PROVE  Seen5(reader, v, t) = Seen5(GoReader, v, t)
<1>1. CASE v.is = "scalar"
  BY <1>1, SameScalar DEF Walk5, Seen5, WalkInto, SeenInto
<1>2. CASE v.is = "list"
  BY <1>2, SeenAlike4 DEF Walk5, Seen5, WalkInto, SeenInto
<1>3. CASE v.is \notin {"scalar", "list"}
  <2>. DEFINE sees(r, key) ==
                Seen4(r, v.members[Pick(r, PlacesOf(r, v.members, key))].value, TypeAt(t, key[1]))
  <2>1. /\ StrictMembers(v.members, t)
        /\ \A i \in DOMAIN v.members : Walk4(v.members[i].value, TypeOfMember(v.members[i], Elem(t)))
    BY <1>3 DEF Walk5, WalkInto, StrictMembers
  <2>2. \A key \in KeysFound(reader, v.members, t) : sees(reader, key) = sees(GoReader, key)
    BY <2>1, SameMembers, SeenAlike4
  <2>3. \A r : Seen5(r, v, t) =
          [fields |-> [key \in KeysFound(r, v.members, t) |-> sees(r, key)],
           others |-> OtherKeys(r, v.members, t)]
    BY <1>3 DEF Seen5, SeenInto, KeysFound, TypeAt
  <2>. HIDE DEF sees
  <2>. QED
    BY <2>1, <2>2, <2>3, SameMembers
<1>. QED
  BY <1>1, <1>2, <1>3

LEMMA SeenAlike6 ==
  ASSUME NEW reader, NEW v, NEW t, Walk6(v, t)
  PROVE  Seen6(reader, v, t) = Seen6(GoReader, v, t)
<1>1. CASE v.is = "scalar"
  BY <1>1, SameScalar DEF Walk6, Seen6, WalkInto, SeenInto
<1>2. CASE v.is = "list"
  BY <1>2, SeenAlike5 DEF Walk6, Seen6, WalkInto, SeenInto
<1>3. CASE v.is \notin {"scalar", "list"}
  <2>. DEFINE sees(r, key) ==
                Seen5(r, v.members[Pick(r, PlacesOf(r, v.members, key))].value, TypeAt(t, key[1]))
  <2>1. /\ StrictMembers(v.members, t)
        /\ \A i \in DOMAIN v.members : Walk5(v.members[i].value, TypeOfMember(v.members[i], Elem(t)))
    BY <1>3 DEF Walk6, WalkInto, StrictMembers
  <2>2. \A key \in KeysFound(reader, v.members, t) : sees(reader, key) = sees(GoReader, key)
    BY <2>1, SameMembers, SeenAlike5
  <2>3. \A r : Seen6(r, v, t) =
          [fields |-> [key \in KeysFound(r, v.members, t) |-> sees(r, key)],
           others |-> OtherKeys(r, v.members, t)]
    BY <1>3 DEF Seen6, SeenInto, KeysFound, TypeAt
  <2>. HIDE DEF sees
  <2>. QED
    BY <2>1, <2>2, <2>3, SameMembers
<1>. QED
  BY <1>1, <1>2, <1>3

LEMMA SeenAlike ==
  ASSUME NEW reader, NEW v, NEW t, WalkStrict(v, t)
  PROVE  Seen(reader, v, t) = Seen(GoReader, v, t)
<1>1. CASE v.is = "scalar"
  BY <1>1, SameScalar DEF WalkStrict, Seen, WalkInto, SeenInto
<1>2. CASE v.is = "list"
  BY <1>2, SeenAlike6 DEF WalkStrict, Seen, WalkInto, SeenInto
<1>3. CASE v.is \notin {"scalar", "list"}
  <2>. DEFINE sees(r, key) ==
                Seen6(r, v.members[Pick(r, PlacesOf(r, v.members, key))].value, TypeAt(t, key[1]))
  <2>1. /\ StrictMembers(v.members, t)
        /\ \A i \in DOMAIN v.members : Walk6(v.members[i].value, TypeOfMember(v.members[i], Elem(t)))
    BY <1>3 DEF WalkStrict, WalkInto, StrictMembers
  <2>2. \A key \in KeysFound(reader, v.members, t) : sees(reader, key) = sees(GoReader, key)
    BY <2>1, SameMembers, SeenAlike6
  <2>3. \A r : Seen(r, v, t) =
          [fields |-> [key \in KeysFound(r, v.members, t) |-> sees(r, key)],
           others |-> OtherKeys(r, v.members, t)]
    BY <1>3 DEF Seen, SeenInto, KeysFound, TypeAt
  <2>. HIDE DEF sees
  <2>. QED
    BY <2>1, <2>2, <2>3, SameMembers
<1>. QED
  BY <1>1, <1>2, <1>3

\* strictjson.go: "every value any reader can see is a value this verifier
\* checked", for every text whatever, sealed or made.
THEOREM ReadersSeeAlike == Spec => []ReadersAgree
<1>1. ReadersAgree
  <2>. SUFFICES ASSUME CheckStrict(text, PolicyType), NEW reader \in Readers
                PROVE  SeenText(reader, text, PolicyType) = SeenText(GoReader, text, PolicyType)
    BY DEF ReadersAgree
  <2>1. WalkStrict(text.root, PolicyType) /\ ~text.trailing
    BY DEF CheckStrict
  <2>. QED
    BY <2>1, SeenAlike DEF SeenText, GoReader
<1>. QED
  BY <1>1, PTL

(***************************************************************************)
(* Rules.  What Decide asks of a rule in its two passes is what the rule   *)
(* says when every part of it is asked.                                    *)
(***************************************************************************)
LEMMA DigitRange ==
  ASSUME NEW c \in Range(Digits)
  PROVE  DigitOf(c) \in 0 .. 9
<1>1. PICK i \in DOMAIN Digits : Digits[i] = c
  BY DEF Range
<1>2. DOMAIN Digits = 1 .. 10
  BY DEF Digits
<1>. HIDE DEF Digits
<1>3. (CHOOSE j \in DOMAIN Digits : Digits[j] = c) \in 1 .. 10
  BY <1>1, <1>2
<1>. QED
  BY <1>3 DEF DigitOf

Minutes == 0 .. 1439

LEMMA MinuteRange ==
  ASSUME NEW s, ReadsHHMM(s)
  PROVE  HHMM(s) \in Minutes
<1>1. \A i \in {1, 2, 4, 5} : DigitOf(s[i]) \in 0 .. 9
  BY DigitRange DEF ReadsHHMM
<1>2. TwoDigits(s, 1) \in 0 .. 23 /\ TwoDigits(s, 4) \in 0 .. 59
  BY <1>1 DEF ReadsHHMM, TwoDigits
<1>. QED
  BY <1>2 DEF HHMM, Minutes

\* A window that wraps midnight holds the minutes walked from its start.
LEMMA WindowWraps ==
  ASSUME NEW start \in Minutes, NEW end \in Minutes, NEW now \in Minutes
  PROVE  InTimeWindow(start, end, now) <=> InWindow(start, end, now)
<1>1. (now - start) % 1440 = IF now >= start THEN now - start ELSE now - start + 1440
  BY DEF Minutes
<1>2. (end - start) % 1440 = IF end >= start THEN end - start ELSE end - start + 1440
  BY DEF Minutes
<1>. QED
  BY <1>1, <1>2 DEF Minutes, InTimeWindow, InWindow

\* A condition says what matchOneCondition answers, once checkCondition
\* has read it.
LEMMA ConditionAsked ==
  ASSUME NEW rule, NEW c, NEW ctx
  PROVE  /\ ConditionSays(rule, c, ctx) = "unread" <=> ~CheckCondition(c, ctx)
         /\ CheckCondition(c, ctx) =>
              (ConditionSays(rule, c, ctx) = "no" <=> ~Holds(rule.rule_id, c, ctx))
<1>1. CASE c.type = Word("time_window")
  <2>1. CheckCondition(c, ctx) <=>
          ReadsHHMM(c.start_utc) /\ ReadsHHMM(c.end_utc) /\ ctx.clock \in DOMAIN TimeOfDay
    BY <1>1 DEF CheckCondition, Word
  <2>2. Holds(rule.rule_id, c, ctx) <=>
          InTimeWindow(HHMM(c.start_utc), HHMM(c.end_utc), TimeOfDay[ctx.clock])
    BY <1>1 DEF Holds, Word
  <2>3. CheckCondition(c, ctx) =>
          (Holds(rule.rule_id, c, ctx) <=>
             InWindow(HHMM(c.start_utc), HHMM(c.end_utc), TimeOfDay[ctx.clock]))
    <3>. SUFFICES ASSUME CheckCondition(c, ctx)
                  PROVE  Holds(rule.rule_id, c, ctx) <=>
                           InWindow(HHMM(c.start_utc), HHMM(c.end_utc), TimeOfDay[ctx.clock])
      OBVIOUS
    <3>1. HHMM(c.start_utc) \in Minutes /\ HHMM(c.end_utc) \in Minutes
      BY <2>1, MinuteRange
    <3>2. TimeOfDay[ctx.clock] \in Minutes
      BY <2>1, TimeAssumption DEF Minutes
    <3>3. InTimeWindow(HHMM(c.start_utc), HHMM(c.end_utc), TimeOfDay[ctx.clock]) <=>
            InWindow(HHMM(c.start_utc), HHMM(c.end_utc), TimeOfDay[ctx.clock])
      BY <3>1, <3>2, WindowWraps
    <3>. QED
      BY <2>2, <3>3
  <2>. QED
    BY <1>1, <2>1, <2>3 DEF ConditionSays, Part
<1>2. CASE c.type # Word("time_window")
  BY <1>2 DEF ConditionSays, Part
<1>. QED
  BY <1>1, <1>2

LEMMA MatcherAsked ==
  ASSUME NEW m, NEW v
  PROVE  /\ MatcherSays(m, v) = "unread" <=> m.operator \notin Operators
         /\ m.operator \in Operators => (MatcherSays(m, v) = "no" <=> ~Match(m, v))
BY DEF MatcherSays, Part

LEMMA RoleAsked ==
  ASSUME NEW m, NEW v
  PROVE  /\ RoleSays(m, v) = "unread" <=> m # Nil /\ m.operator \notin Operators
         /\ (m # Nil => m.operator \in Operators) =>
              (RoleSays(m, v) = "no" <=> ~(m # Nil => Match(m, v)))
BY MatcherAsked DEF RoleSays

LEMMA LevelAsked ==
  ASSUME NEW b, NEW level
  PROVE  /\ LevelSays(b, level, Rank(level) <= Rank(b)) = "unread" <=>
              b # <<>> /\ ~(KnownClassification(b) /\ KnownClassification(level))
         /\ LevelSays(b, level, Rank(level) >= Rank(b)) = "unread" <=>
              b # <<>> /\ ~(KnownClassification(b) /\ KnownClassification(level))
         /\ (b # <<>> => KnownClassification(b) /\ KnownClassification(level)) =>
              /\ LevelSays(b, level, Rank(level) <= Rank(b)) = "no" <=>
                   ~(b # <<>> => Rank(level) <= Rank(b))
              /\ LevelSays(b, level, Rank(level) >= Rank(b)) = "no" <=>
                   ~(b # <<>> => Rank(level) >= Rank(b))
<1>1. {b, level} \subseteq Range(Levels) <=> KnownClassification(b) /\ KnownClassification(level)
  BY DEF KnownClassification
<1>. QED
  BY <1>1 DEF LevelSays, Part

\* A rule says it cannot be read when Decide's first pass stops at it.
LEMMA SaysUnread ==
  ASSUME NEW rule, NEW ctx
  PROVE  "unread" \in PartsSay(rule, ctx) <=> ~RuleReadable(rule, ctx)
<1>. DEFINE level == ctx.classification
            max   == rule.object.classification_max
            min   == rule.object.classification_min
<1>1. "unread" \in PartsSay(rule, ctx) <=>
        \/ rule.subject.id_match.operator \notin Operators
        \/ rule.verb.match.operator \notin Operators
        \/ rule.object.id_match.operator \notin Operators
        \/ rule.subject.role_match # Nil /\ rule.subject.role_match.operator \notin Operators
        \/ max # <<>> /\ ~(KnownClassification(max) /\ KnownClassification(level))
        \/ min # <<>> /\ ~(KnownClassification(min) /\ KnownClassification(level))
        \/ \E i \in DOMAIN rule.conditions : ~CheckCondition(rule.conditions[i], ctx)
  <2>1. "unread" \in PartsSay(rule, ctx) <=>
          \/ MatcherSays(rule.subject.id_match, ctx.subject_id) = "unread"
          \/ MatcherSays(rule.verb.match, ctx.verb) = "unread"
          \/ MatcherSays(rule.object.id_match, ctx.object_id) = "unread"
          \/ RoleSays(rule.subject.role_match, ctx.subject_role) = "unread"
          \/ LevelSays(max, level, Rank(level) <= Rank(max)) = "unread"
          \/ LevelSays(min, level, Rank(level) >= Rank(min)) = "unread"
          \/ \E i \in DOMAIN rule.conditions :
               ConditionSays(rule, rule.conditions[i], ctx) = "unread"
    BY DEF PartsSay, Part
  <2>2. /\ LevelSays(max, level, Rank(level) <= Rank(max)) = "unread" <=>
             max # <<>> /\ ~(KnownClassification(max) /\ KnownClassification(level))
        /\ LevelSays(min, level, Rank(level) >= Rank(min)) = "unread" <=>
             min # <<>> /\ ~(KnownClassification(min) /\ KnownClassification(level))
    BY LevelAsked
  <2>3. \A i \in DOMAIN rule.conditions :
          ConditionSays(rule, rule.conditions[i], ctx) = "unread" <=>
            ~CheckCondition(rule.conditions[i], ctx)
    BY ConditionAsked
  <2>. QED
    BY <2>1, <2>2, <2>3, MatcherAsked, RoleAsked
<1>2. RuleReadable(rule, ctx) <=>
        /\ rule.subject.id_match.operator \in Operators
        /\ rule.verb.match.operator \in Operators
        /\ rule.object.id_match.operator \in Operators
        /\ rule.subject.role_match # Nil => rule.subject.role_match.operator \in Operators
        /\ max # <<>> => KnownClassification(max) /\ KnownClassification(level)
        /\ min # <<>> => KnownClassification(min) /\ KnownClassification(level)
        /\ \A i \in DOMAIN rule.conditions : CheckCondition(rule.conditions[i], ctx)
  BY DEF RuleReadable, Matchers, Bounds
<1>. QED
  BY <1>1, <1>2

\* A rule that can be read says yes when Decide's second pass fires it.
LEMMA SaysFires ==
  ASSUME NEW rule, NEW ctx, RuleReadable(rule, ctx)
  PROVE  "no" \in PartsSay(rule, ctx) <=> ~Fires(rule, ctx)
<1>. DEFINE level == ctx.classification
            max   == rule.object.classification_max
            min   == rule.object.classification_min
<1>1. /\ rule.subject.id_match.operator \in Operators
      /\ rule.verb.match.operator \in Operators
      /\ rule.object.id_match.operator \in Operators
      /\ rule.subject.role_match # Nil => rule.subject.role_match.operator \in Operators
      /\ max # <<>> => KnownClassification(max) /\ KnownClassification(level)
      /\ min # <<>> => KnownClassification(min) /\ KnownClassification(level)
      /\ \A i \in DOMAIN rule.conditions : CheckCondition(rule.conditions[i], ctx)
  BY DEF RuleReadable, Matchers, Bounds
<1>2. "no" \in PartsSay(rule, ctx) <=>
        \/ MatcherSays(rule.subject.id_match, ctx.subject_id) = "no"
        \/ MatcherSays(rule.verb.match, ctx.verb) = "no"
        \/ MatcherSays(rule.object.id_match, ctx.object_id) = "no"
        \/ RoleSays(rule.subject.role_match, ctx.subject_role) = "no"
        \/ LevelSays(max, level, Rank(level) <= Rank(max)) = "no"
        \/ LevelSays(min, level, Rank(level) >= Rank(min)) = "no"
        \/ rule.subject.type \notin {Word("any"), ctx.subject_type}
        \/ rule.object.type \notin {Word("any"), ctx.object_type}
        \/ \E i \in DOMAIN rule.conditions : ConditionSays(rule, rule.conditions[i], ctx) = "no"
  BY DEF PartsSay, Part
<1>3. /\ MatcherSays(rule.subject.id_match, ctx.subject_id) = "no" <=>
           ~Match(rule.subject.id_match, ctx.subject_id)
      /\ MatcherSays(rule.verb.match, ctx.verb) = "no" <=> ~Match(rule.verb.match, ctx.verb)
      /\ MatcherSays(rule.object.id_match, ctx.object_id) = "no" <=>
           ~Match(rule.object.id_match, ctx.object_id)
      /\ RoleSays(rule.subject.role_match, ctx.subject_role) = "no" <=>
           ~(rule.subject.role_match # Nil => Match(rule.subject.role_match, ctx.subject_role))
  BY <1>1, MatcherAsked, RoleAsked
<1>4. /\ LevelSays(max, level, Rank(level) <= Rank(max)) = "no" <=>
           ~(max # <<>> => Rank(level) <= Rank(max))
      /\ LevelSays(min, level, Rank(level) >= Rank(min)) = "no" <=>
           ~(min # <<>> => Rank(level) >= Rank(min))
  BY <1>1, LevelAsked
<1>5. \A i \in DOMAIN rule.conditions :
        ConditionSays(rule, rule.conditions[i], ctx) = "no" <=>
          ~Holds(rule.rule_id, rule.conditions[i], ctx)
  BY <1>1, ConditionAsked
<1>6. Fires(rule, ctx) <=>
        /\ Match(rule.subject.id_match, ctx.subject_id)
        /\ Match(rule.verb.match, ctx.verb)
        /\ Match(rule.object.id_match, ctx.object_id)
        /\ rule.subject.role_match # Nil => Match(rule.subject.role_match, ctx.subject_role)
        /\ max # <<>> => Rank(level) <= Rank(max)
        /\ min # <<>> => Rank(level) >= Rank(min)
        /\ rule.subject.type \in {Word("any"), ctx.subject_type}
        /\ rule.object.type \in {Word("any"), ctx.object_type}
        /\ \A i \in DOMAIN rule.conditions : Holds(rule.rule_id, rule.conditions[i], ctx)
  BY <1>1 DEF Fires, MatchSubject, MatchObject
<1>. QED
  BY <1>2, <1>3, <1>4, <1>5, <1>6

(***************************************************************************)
(* Every rewrite leaves an object whose rules are a list.                  *)
(***************************************************************************)
LEMMA InOwnRange ==
  ASSUME NEW S, NEW s \in Seq(S)
  PROVE  InOrder(s) /\ Range(s) \subseteq S
<1>1. Len(s) \in Nat /\ s \in [1 .. Len(s) -> S]
  OBVIOUS
<1>2. s \in [1 .. Len(s) -> Range(s)] /\ Range(s) \subseteq S
  BY <1>1 DEF Range
<1>3. s \in Seq(Range(s))
  BY <1>1, <1>2, SeqDef
<1>. QED
  BY <1>2, <1>3 DEF InOrder

\* What a rewrite makes of a list is in order, and holds what was there and
\* at most one thing more.
LEMMA AppendInOrder ==
  ASSUME NEW s, InOrder(s), NEW e
  PROVE  InOrder(Append(s, e)) /\ Range(Append(s, e)) \subseteq Range(s) \cup {e}
<1>1. s \in Seq(Range(s) \cup {e})
  BY DEF InOrder
<1>2. Append(s, e) \in Seq(Range(s) \cup {e})
  BY <1>1
<1>. QED
  BY <1>2, InOwnRange

LEMMA ExceptInOrder ==
  ASSUME NEW s, InOrder(s), NEW i \in DOMAIN s, NEW e
  PROVE  InOrder([s EXCEPT ![i] = e]) /\ Range([s EXCEPT ![i] = e]) \subseteq Range(s) \cup {e}
<1>1. s \in Seq(Range(s) \cup {e}) /\ i \in 1 .. Len(s)
  BY DEF InOrder
<1>2. [s EXCEPT ![i] = e] \in Seq(Range(s) \cup {e})
  BY <1>1, ExceptSeq
<1>. QED
  BY <1>2, InOwnRange

LEMMA RemoveInOrder ==
  ASSUME NEW s, InOrder(s), NEW i \in DOMAIN s
  PROVE  InOrder(RemoveAt(s, i)) /\ Range(RemoveAt(s, i)) \subseteq Range(s)
<1>. DEFINE S == Range(s)
<1>1. s \in Seq(S)
  BY DEF InOrder
<1>. HIDE DEF S
<1>2. i \in 1 .. Len(s) /\ Len(s) \in Nat /\ \A j \in 1 .. Len(s) : s[j] \in S
  BY <1>1
<1>3. SubSeq(s, 1, i - 1) \in Seq(S)
  BY <1>2, SubSeqProperties
<1>4. SubSeq(s, i + 1, Len(s)) \in Seq(S)
  BY <1>2, SubSeqProperties
<1>5. RemoveAt(s, i) \in Seq(S)
  BY <1>3, <1>4, ConcatProperties DEF RemoveAt
<1>. QED
  BY <1>5, InOwnRange DEF S

LEMMA SwapInOrder ==
  ASSUME NEW s, InOrder(s), NEW i \in 1 .. Len(s) - 1
  PROVE  InOrder(Swapped(s, i)) /\ Range(Swapped(s, i)) \subseteq Range(s)
<1>. DEFINE S == Range(s)
<1>1. s \in Seq(S)
  BY DEF InOrder
<1>. HIDE DEF S
<1>2. /\ Len(s) \in Nat /\ i \in 1 .. Len(s) /\ i + 1 \in 1 .. Len(s)
      /\ \A j \in 1 .. Len(s) : s[j] \in S
  BY <1>1
<1>3. [s EXCEPT ![i] = s[i + 1]] \in Seq(S) /\ Len([s EXCEPT ![i] = s[i + 1]]) = Len(s)
  BY <1>1, <1>2, ExceptSeq
<1>4. [[s EXCEPT ![i] = s[i + 1]] EXCEPT ![i + 1] = s[i]] \in Seq(S)
  BY <1>2, <1>3, ExceptSeq
<1>5. Swapped(s, i) \in Seq(S)
  BY <1>4 DEF Swapped
<1>. QED
  BY <1>5, InOwnRange DEF S

LEMMA ListStaysInOrder ==
  ASSUME NEW items, InOrder(items), NEW of, NEW x \in ListRewritten(Rewritten5, items, of)
  PROVE  InOrder(x)
<1>1. ASSUME NEW i \in DOMAIN items, NEW y, x = [items EXCEPT ![i] = y]
      PROVE  InOrder(x)
  BY <1>1, ExceptInOrder
<1>2. ASSUME NEW i \in DOMAIN items, x = RemoveAt(items, i)
      PROVE  InOrder(x)
  BY <1>2, RemoveInOrder
<1>3. ASSUME NEW i \in 1 .. Len(items) - 1, x = Swapped(items, i)
      PROVE  InOrder(x)
  BY <1>3, SwapInOrder
<1>4. \/ \E i \in DOMAIN items : \E y \in Rewritten5(items[i], of) : x = [items EXCEPT ![i] = y]
      \/ \E i \in DOMAIN items : x = RemoveAt(items, i)
      \/ \E i \in 1 .. Len(items) - 1 : x = Swapped(items, i)
  BY DEF ListRewritten
<1>. QED
  BY <1>1, <1>2, <1>3, <1>4

\* A member that is edited stays well formed: the rules stay a list.
LEMMA EditedMember ==
  ASSUME NEW m, WellFormedMember(m), NEW x \in Rewritten6(m.value, TypeOfMember(m, PolicyType))
  PROVE  WellFormedMember([m EXCEPT !.value = x])
<1>1. /\ DOMAIN [m EXCEPT !.value = x] = {"name", "exact", "value"}
      /\ [m EXCEPT !.value = x].name = m.name /\ [m EXCEPT !.value = x].value = x
  BY DEF WellFormedMember
<1>2. CASE m.name # "rules"
  BY <1>1, <1>2 DEF WellFormedMember
<1>3. CASE m.name = "rules"
  <2>1. m.value.is = "list" /\ InOrder(m.value.items)
    BY <1>3 DEF WellFormedMember
  <2>2. x \in {List(y) : y \in ListRewritten(Rewritten5, m.value.items, TypeOfMember(m, PolicyType).of)}
    BY <2>1 DEF Rewritten6, RewrittenInto
  <2>3. PICK y \in ListRewritten(Rewritten5, m.value.items, TypeOfMember(m, PolicyType).of) :
          x = List(y)
    BY <2>2
  <2>4. x.is = "list" /\ x.items = y /\ InOrder(y)
    BY <2>1, <2>3, ListStaysInOrder DEF List
  <2>. QED
    BY <1>1, <2>4 DEF WellFormedMember
<1>. QED
  BY <1>2, <1>3

\* A member that is added holds a scalar; the rules do not.
LEMMA NewMember ==
  ASSUME NEW e \in NewMembers(PolicyType)
  PROVE  WellFormedMember(e)
<1>1. PICK f \in DOMAIN PolicyType.fields :
        /\ PolicyType.fields[f].kind = "scalar" /\ \E x : e = Member(f, Scalar(x))
  BY DEF NewMembers
<1>2. PolicyType.fields["rules"].kind # "scalar"
  BY DEF PolicyType, StructType, ListType
<1>. QED
  BY <1>1, <1>2 DEF WellFormedMember, Member

LEMMA MembersStayWellFormed ==
  ASSUME NEW m, InOrder(m), \A e \in Range(m) : WellFormedMember(e),
         NEW x \in ObjectRewritten(Rewritten6, m, PolicyType)
  PROVE  InOrder(x) /\ \A e \in Range(x) : WellFormedMember(e)
<1>. DEFINE edited(i) == {[m[i] EXCEPT !.value = y] : y \in Rewritten6(m[i].value, TypeOfMember(m[i], PolicyType))}
            again == {e \in UNION {edited(i) : i \in DOMAIN m} : e.value.is = "scalar" /\ e.value.plain}
            new   == {e \in NewMembers(PolicyType) : \A i \in DOMAIN m : m[i].name # e.name}
<1>1. \A i \in DOMAIN m : m[i] \in Range(m) /\ WellFormedMember(m[i])
  BY DEF Range
<1>2. \A i \in DOMAIN m : \A e \in edited(i) : WellFormedMember(e)
  BY <1>1, EditedMember
<1>3. \A e \in again : WellFormedMember(e) /\ e.value.is = "scalar"
  BY <1>2
<1>4. \A e \in new : WellFormedMember(e)
  BY NewMember
<1>5. \A e \in again : WellFormedMember([e EXCEPT !.exact = FALSE])
  BY <1>3 DEF WellFormedMember
<1>6. \A i \in DOMAIN m : WellFormedMember([m[i] EXCEPT !.exact = ~@])
  BY <1>1 DEF WellFormedMember
<1>7. PolicyType.kind # "map"
  BY DEF PolicyType, StructType
<1>8. \/ \E i \in DOMAIN m : \E e \in edited(i) : x = [m EXCEPT ![i] = e]
      \/ \E e \in again \cup new : x = Append(m, e)
      \/ \E e \in again : x = Append(m, [e EXCEPT !.exact = FALSE])
      \/ \E i \in DOMAIN m : x = RemoveAt(m, i)
      \/ \E i \in DOMAIN m : x = [m EXCEPT ![i].exact = ~@]
  BY <1>7 DEF ObjectRewritten
<1>. HIDE DEF edited, again, new
<1>9. ASSUME NEW i \in DOMAIN m, NEW e, WellFormedMember(e), x = [m EXCEPT ![i] = e]
       PROVE  InOrder(x) /\ \A f \in Range(x) : WellFormedMember(f)
  <2>1. InOrder([m EXCEPT ![i] = e]) /\ Range([m EXCEPT ![i] = e]) \subseteq Range(m) \cup {e}
    BY ExceptInOrder
  <2>2. InOrder(x) /\ Range(x) \subseteq Range(m) \cup {e}
    BY <1>9, <2>1
  <2>. QED
    BY <1>9, <2>2
<1>10. ASSUME NEW e, WellFormedMember(e), x = Append(m, e)
       PROVE  InOrder(x) /\ \A f \in Range(x) : WellFormedMember(f)
  BY <1>10, AppendInOrder
<1>11. ASSUME NEW i \in DOMAIN m, x = RemoveAt(m, i)
       PROVE  InOrder(x) /\ \A f \in Range(x) : WellFormedMember(f)
  BY <1>11, RemoveInOrder
<1>12. ASSUME NEW i \in DOMAIN m, x = [m EXCEPT ![i].exact = ~@]
       PROVE  InOrder(x) /\ \A f \in Range(x) : WellFormedMember(f)
  <2>. DEFINE e == [m[i] EXCEPT !.exact = ~@]
  <2>1. WellFormedMember(e)
    BY <1>6
  <2>2. x = [m EXCEPT ![i] = e]
    BY <1>12
  <2>. HIDE DEF e
  <2>. QED
    BY <1>9, <2>1, <2>2
<1>. QED
  BY <1>2, <1>3, <1>4, <1>5, <1>8, <1>9, <1>10, <1>11, <1>12

LEMMA TextsWellFormed == Spec => [](WellFormed(sealed) /\ WellFormed(text))
<1>. DEFINE Inv == WellFormed(sealed) /\ WellFormed(text)
<1>1. Init => Inv
  BY TextAssumption DEF Init
<1>2. Inv /\ [Next]_vars => Inv'
  <2>. SUFFICES ASSUME Inv, [Next]_vars PROVE Inv'
    OBVIOUS
  <2>1. CASE Rewrite
    <3>1. PICK v \in Rewritten(text.root, PolicyType) : text' = [text EXCEPT !.root = v]
      BY <2>1 DEF Rewrite
    <3>2. /\ text.root.is = "object" /\ InOrder(text.root.members)
          /\ \A m \in Range(text.root.members) : WellFormedMember(m)
      BY DEF WellFormed
    <3>3. Elem(PolicyType) = PolicyType
      BY DEF Elem, PolicyType, StructType
    <3>4. PICK x \in ObjectRewritten(Rewritten6, text.root.members, PolicyType) : v = Object(x)
      BY <3>1, <3>2, <3>3 DEF Rewritten, RewrittenInto
    <3>5. InOrder(x) /\ \A m \in Range(x) : WellFormedMember(m)
      BY <3>2, <3>4, MembersStayWellFormed
    <3>6. DOMAIN text' = {"root", "trailing"} /\ text'.root = v
      BY <3>1 DEF WellFormed
    <3>7. v.is = "object" /\ v.members = x
      BY <3>4 DEF Object
    <3>. QED
      BY <2>1, <3>5, <3>6, <3>7 DEF WellFormed, Rewrite
  <2>2. CASE Trail
    <3>1. DOMAIN text' = {"root", "trailing"} /\ text'.root = text.root /\ sealed' = sealed
      BY <2>2 DEF Trail, WellFormed
    <3>. QED
      BY <3>1 DEF WellFormed
  <2>3. CASE UNCHANGED vars
    BY <2>3 DEF vars
  <2>. QED
    BY <2>1, <2>2, <2>3 DEF Next
<1>. QED
  BY <1>1, <1>2, PTL DEF Spec

(***************************************************************************)
(* Decisions                                                               *)
(***************************************************************************)
\* The rules read from an accepted text are in places 1 to n.
LEMMA RulesInOrder ==
  ASSUME NEW t, WellFormed(t), CheckStrict(t, PolicyType)
  PROVE  \E n \in Nat : DOMAIN Policy(t).rules = 1 .. n
<1>. DEFINE ms == t.root.members
<1>1. /\ t.root.is = "object" /\ InOrder(ms)
      /\ \A i \in DOMAIN ms : WellFormedMember(ms[i])
  BY DEF WellFormed, Range
<1>2. NoKeyTwice(ms)
  BY <1>1 DEF CheckStrict, WalkStrict, WalkInto
<1>3. /\ Elem(PolicyType) = PolicyType /\ PolicyType.kind = "struct"
      /\ "rules" \in DOMAIN PolicyType.fields
      /\ PolicyType.fields["rules"].kind = "list"
  BY DEF Elem, PolicyType, StructType, ListType
<1>4. Policy(t) = [f \in DOMAIN PolicyType.fields |->
                     IF Named(ms, f) = {} THEN Zero(Read6, PolicyType.fields[f])
                     ELSE Read6(ms[LastOf(Named(ms, f))].value, PolicyType.fields[f])]
  BY <1>1, <1>3 DEF Policy, GoRead, ReadInto
<1>. HIDE DEF ms
<1>5. Policy(t).rules = IF Named(ms, "rules") = {} THEN Zero(Read6, PolicyType.fields["rules"])
                        ELSE Read6(ms[LastOf(Named(ms, "rules"))].value, PolicyType.fields["rules"])
  BY <1>3, <1>4
<1>6. CASE Named(ms, "rules") = {}
  <2>1. Policy(t).rules = <<>>
    BY <1>3, <1>5, <1>6 DEF Zero
  <2>2. DOMAIN Policy(t).rules = 1 .. 0
    BY <2>1
  <2>. QED
    BY <2>2
<1>7. CASE Named(ms, "rules") # {}
  <2>1. PICK i \in DOMAIN ms : Named(ms, "rules") = {i}
    BY <1>2, <1>7 DEF Named, NoKeyTwice
  <2>2. LastOf(Named(ms, "rules")) = i /\ ms[i].name = "rules"
    BY <2>1 DEF LastOf, Named
  <2>3. ms[i].value.is = "list" /\ InOrder(ms[i].value.items)
    BY <1>1, <2>2 DEF WellFormedMember
  <2>4. DOMAIN Policy(t).rules = DOMAIN ms[i].value.items
    BY <1>5, <1>7, <2>2, <2>3 DEF Read6, ReadInto
  <2>5. /\ Len(ms[i].value.items) \in Nat
        /\ DOMAIN ms[i].value.items = 1 .. Len(ms[i].value.items)
    BY <2>3 DEF InOrder
  <2>. QED
    BY <2>4, <2>5
<1>. QED
  BY <1>6, <1>7

\* The first of some rules.
LEMMA FirstRule ==
  ASSUME NEW T, T # {}, \A i \in T : i \in Nat
  PROVE  /\ (CHOOSE i \in T : \A j \in T : i <= j) \in T
         /\ \A k \in T : (CHOOSE i \in T : \A j \in T : i <= j) <= k
<1>1. T \in SUBSET Nat
  OBVIOUS
<1>2. \E i \in T : \A j \in T : i <= j
  BY <1>1, FirstPlace
<1>. QED
  BY <1>2

\* A decision names an outcome; no decision does not.
LEMMA ResultDecides ==
  ASSUME NEW outcome, NEW id, NEW reason
  PROVE  /\ Result(outcome, id, reason) # Undecided
         /\ Result(outcome, id, reason).outcome = outcome
         /\ Result(outcome, id, reason).rule = id
<1>1. "error" \notin DOMAIN Result(outcome, id, reason) /\ "error" \in DOMAIN Undecided
  BY DEF Result, Undecided
<1>. QED
  BY <1>1 DEF Result

\* decide.go: "a rule that sits after the one that fires cannot hide a
\* broken one", for every policy text and whatever the record's inputs: a
\* rule that cannot be read leaves no decision wherever it stands, and
\* without one the first rule that fires decides.
THEOREM BrokenRuleStopsDecision == Spec => []BrokenRuleNeverDecides
<1>1. WellFormed(text) => BrokenRuleNeverDecides
  <2>. SUFFICES ASSUME WellFormed(text), FromDocument(text), NEW ctx \in Contexts
                PROVE  LET policy == Policy(text)
                           rules  == policy.rules
                           said   == [i \in DOMAIN rules |-> Says(rules[i], ctx)]
                           d      == DecideBy(policy, ctx)
                       IN IF \E i \in DOMAIN rules : said[i] = "unread" THEN d = Undecided
                          ELSE /\ d # Undecided
                               /\ IF \A i \in DOMAIN rules : said[i] = "no"
                                  THEN d.outcome = policy.default_effect
                                  ELSE \E i \in DOMAIN rules :
                                         /\ said[i] = "yes" /\ \A j \in 1 .. i - 1 : said[j] = "no"
                                         /\ d.outcome = rules[i].effect /\ d.rule = rules[i].rule_id
    BY DEF BrokenRuleNeverDecides
  <2>. DEFINE policy == Policy(text)
              rules  == policy.rules
              said   == [i \in DOMAIN rules |-> Says(rules[i], ctx)]
              d      == DecideBy(policy, ctx)
              firing == {i \in DOMAIN rules : Fires(rules[i], ctx)}
              first  == CHOOSE i \in firing : \A j \in firing : i <= j
  <2>1. PICK n \in Nat : DOMAIN rules = 1 .. n
    BY RulesInOrder DEF FromDocument
  <2>2. \A i \in DOMAIN rules :
          /\ said[i] = "unread" <=> ~RuleReadable(rules[i], ctx)
          /\ said[i] \in {"unread", "no", "yes"}
          /\ RuleReadable(rules[i], ctx) => (said[i] = "yes" <=> Fires(rules[i], ctx))
    BY SaysUnread, SaysFires DEF Says
  <2>3. CASE \E i \in DOMAIN rules : said[i] = "unread"
    <3>1. ~CheckReadable(rules, ctx)
      BY <2>2, <2>3 DEF CheckReadable
    <3>2. d = Undecided
      BY <3>1 DEF DecideBy, Decide
    <3>. QED
      BY <2>3, <3>2
  <2>4. CASE ~\E i \in DOMAIN rules : said[i] = "unread"
    <3>1. CheckReadable(rules, ctx)
      BY <2>2, <2>4 DEF CheckReadable
    <3>2. \A i \in DOMAIN rules : said[i] \in {"no", "yes"} /\ (said[i] = "yes" <=> i \in firing)
      BY <2>2, <2>4
    <3>3. CASE firing = {}
      <4>1. \E id, reason : d = Result(policy.default_effect, id, reason)
        BY <3>1, <3>3 DEF DecideBy, Decide
      <4>2. d # Undecided /\ d.outcome = policy.default_effect
        BY <4>1, ResultDecides
      <4>3. \A i \in DOMAIN rules : said[i] = "no"
        BY <3>2, <3>3
      <4>. QED
        BY <2>4, <4>2, <4>3
    <3>4. CASE firing # {}
      <4>1. first \in firing /\ \A j \in firing : first <= j
        <5>1. \A i \in firing : i \in Nat
          BY <2>1
        <5>. HIDE DEF firing
        <5>. QED
          BY <3>4, <5>1, FirstRule
      <4>2. \E reason : d = Result(rules[first].effect, rules[first].rule_id, reason)
        BY <3>1, <3>4 DEF DecideBy, Decide
      <4>3. d # Undecided /\ d.outcome = rules[first].effect /\ d.rule = rules[first].rule_id
        BY <4>2, ResultDecides
      <4>. QED
        <5>1. said[first] = "yes"
          BY <3>2, <4>1
        <5>2. ASSUME NEW j \in 1 .. first - 1
              PROVE  said[j] = "no"
          <6>1. first \in 1 .. n /\ j \in 1 .. n /\ ~(first <= j)
            BY <2>1, <4>1
          <6>2. j \in DOMAIN rules /\ j \notin firing
            BY <2>1, <4>1, <6>1
          <6>. QED
            BY <3>2, <6>2
        <5>3. first \in DOMAIN rules /\ ~(\A i \in DOMAIN rules : said[i] = "no")
          BY <4>1, <5>1
        <5>. QED
          BY <2>4, <4>3, <5>1, <5>2, <5>3
    <3>. QED
      BY <3>3, <3>4
  <2>. QED
    BY <2>3, <2>4
<1>. QED
  BY <1>1, TextsWellFormed, PTL

(***************************************************************************)
(* The hash.  Two policies with one preimage ask a context the same.       *)
(***************************************************************************)
LEMMA MatcherAlike ==
  ASSUME NEW m, NEW n, MatcherPreimage(m) = MatcherPreimage(n)
  PROVE  m.operator = n.operator /\ \A v : Match(m, v) = Match(n, v)
<1>. DEFINE p == MatcherPreimage(m)
            q == MatcherPreimage(n)
<1>1. /\ p["operator"] = m.operator
      /\ "value" \in DOMAIN p <=> m.value # <<>>
      /\ m.value # <<>> => p["value"] = m.value
      /\ "values" \in DOMAIN p <=> m.values # <<>>
      /\ m.values # <<>> => p["values"] = m.values
  BY DEF MatcherPreimage, Keep, Used
<1>2. /\ q["operator"] = n.operator
      /\ "value" \in DOMAIN q <=> n.value # <<>>
      /\ n.value # <<>> => q["value"] = n.value
      /\ "values" \in DOMAIN q <=> n.values # <<>>
      /\ n.values # <<>> => q["values"] = n.values
  BY DEF MatcherPreimage, Keep, Used
<1>. HIDE DEF p, q
<1>3. p = q
  BY DEF p, q
<1>4. m.operator = n.operator /\ m.value = n.value /\ m.values = n.values
  BY <1>1, <1>2, <1>3
<1>. QED
  BY <1>4 DEF Match

LEMMA SubjectAlike ==
  ASSUME NEW s, NEW t, SubjectPreimage(s) = SubjectPreimage(t)
  PROVE  /\ s.type = t.type
         /\ MatcherPreimage(s.id_match) = MatcherPreimage(t.id_match)
         /\ s.role_match = Nil <=> t.role_match = Nil
         /\ s.role_match # Nil => MatcherPreimage(s.role_match) = MatcherPreimage(t.role_match)
<1>. DEFINE p == SubjectPreimage(s)
            q == SubjectPreimage(t)
<1>1. /\ p["type"] = s.type /\ p["id_match"] = MatcherPreimage(s.id_match)
      /\ "role_match" \in DOMAIN p <=> s.role_match # Nil
      /\ s.role_match # Nil => p["role_match"] = MatcherPreimage(s.role_match)
  BY DEF SubjectPreimage, Used
<1>2. /\ q["type"] = t.type /\ q["id_match"] = MatcherPreimage(t.id_match)
      /\ "role_match" \in DOMAIN q <=> t.role_match # Nil
      /\ t.role_match # Nil => q["role_match"] = MatcherPreimage(t.role_match)
  BY DEF SubjectPreimage, Used
<1>. HIDE DEF p, q
<1>3. p = q
  BY DEF p, q
<1>. QED
  BY <1>1, <1>2, <1>3

LEMMA ObjectAlike ==
  ASSUME NEW s, NEW t, ObjectPreimage(s) = ObjectPreimage(t)
  PROVE  /\ s.type = t.type
         /\ MatcherPreimage(s.id_match) = MatcherPreimage(t.id_match)
         /\ s.classification_max = t.classification_max
         /\ s.classification_min = t.classification_min
<1>. DEFINE p == ObjectPreimage(s)
            q == ObjectPreimage(t)
<1>1. /\ p["type"] = s.type /\ p["id_match"] = MatcherPreimage(s.id_match)
      /\ "classification_max" \in DOMAIN p <=> s.classification_max # <<>>
      /\ s.classification_max # <<>> => p["classification_max"] = s.classification_max
      /\ "classification_min" \in DOMAIN p <=> s.classification_min # <<>>
      /\ s.classification_min # <<>> => p["classification_min"] = s.classification_min
  BY DEF ObjectPreimage, Used
<1>2. /\ q["type"] = t.type /\ q["id_match"] = MatcherPreimage(t.id_match)
      /\ "classification_max" \in DOMAIN q <=> t.classification_max # <<>>
      /\ t.classification_max # <<>> => q["classification_max"] = t.classification_max
      /\ "classification_min" \in DOMAIN q <=> t.classification_min # <<>>
      /\ t.classification_min # <<>> => q["classification_min"] = t.classification_min
  BY DEF ObjectPreimage, Used
<1>. HIDE DEF p, q
<1>3. p = q
  BY DEF p, q
<1>. QED
  BY <1>1, <1>2, <1>3

\* Contexts that answer alike to whatever a rule may ask.
Alike(x, y) ==
  /\ x.subject_id = y.subject_id /\ x.subject_type = y.subject_type
  /\ x.subject_role = y.subject_role /\ x.verb = y.verb
  /\ x.object_type = y.object_type /\ x.object_id = y.object_id
  /\ x.classification = y.classification /\ x.mfa_satisfied = y.mfa_satisfied
  /\ x.session_age_seconds = y.session_age_seconds /\ x.clock = y.clock
  /\ x.rate_counts = y.rate_counts

\* A condition is hashed with what its type reads, so it answers alike.
LEMMA ConditionAlike ==
  ASSUME NEW c, NEW d, ConditionPreimage(c) = ConditionPreimage(d), NEW x, NEW y, Alike(x, y)
  PROVE  /\ CheckCondition(c, x) <=> CheckCondition(d, y)
         /\ \A id : Holds(id, c, x) <=> Holds(id, d, y)
<1>. DEFINE p == ConditionPreimage(c)
            q == ConditionPreimage(d)
<1>1. /\ p["type"] = c.type
      /\ c.type = Word("rate_limit") => p["max_per_window"] = c.max_per_window
      /\ c.type = Word("time_window") => p["start_utc"] = c.start_utc /\ p["end_utc"] = c.end_utc
      /\ c.type = Word("mfa_required") => p["required"] = c.required
      /\ c.type = Word("min_session_age") => p["seconds"] = c.seconds
      /\ c.type = Word("requires_role") => p["role"] = c.role
  BY DEF ConditionPreimage, Keep, Word
<1>2. /\ q["type"] = d.type
      /\ d.type = Word("rate_limit") => q["max_per_window"] = d.max_per_window
      /\ d.type = Word("time_window") => q["start_utc"] = d.start_utc /\ q["end_utc"] = d.end_utc
      /\ d.type = Word("mfa_required") => q["required"] = d.required
      /\ d.type = Word("min_session_age") => q["seconds"] = d.seconds
      /\ d.type = Word("requires_role") => q["role"] = d.role
  BY DEF ConditionPreimage, Keep, Word
<1>. HIDE DEF p, q
<1>3. p = q
  BY DEF p, q
<1>4. c.type = d.type
  BY <1>1, <1>2, <1>3
<1>5. CheckCondition(c, x) <=> CheckCondition(d, y)
  BY <1>1, <1>2, <1>3, <1>4 DEF CheckCondition, Alike
<1>6. ASSUME NEW id PROVE Holds(id, c, x) <=> Holds(id, d, y)
  <2>1. CASE c.type = Word("mfa_required")
    <3>1. c.required = d.required /\ x.mfa_satisfied = y.mfa_satisfied
      BY <1>1, <1>2, <1>3, <1>4, <2>1 DEF Alike
    <3>2. /\ Holds(id, c, x) <=> (c.required = Word("true") => x.mfa_satisfied)
          /\ Holds(id, d, y) <=> (d.required = Word("true") => y.mfa_satisfied)
      BY <1>4, <2>1 DEF Holds, Word
    <3>. QED
      BY <3>1, <3>2, Zenon
  <2>2. CASE c.type = Word("min_session_age")
    BY <1>1, <1>2, <1>3, <1>4, <2>2 DEF Holds, Alike, Word
  <2>3. CASE c.type = Word("requires_role")
    BY <1>1, <1>2, <1>3, <1>4, <2>3 DEF Holds, Alike, Word
  <2>4. CASE c.type = Word("time_window")
    BY <1>1, <1>2, <1>3, <1>4, <2>4 DEF Holds, Alike, Word
  <2>5. CASE c.type = Word("rate_limit")
    BY <1>1, <1>2, <1>3, <1>4, <2>5 DEF Holds, Alike, Word, RateCount
  <2>6. CASE c.type \notin {Word("mfa_required"), Word("min_session_age"), Word("requires_role"),
                            Word("time_window"), Word("rate_limit")}
    BY <1>4, <2>6 DEF Holds
  <2>. QED
    BY <2>1, <2>2, <2>3, <2>4, <2>5, <2>6
<1>. QED
  BY <1>5, <1>6

\* So two rules with one preimage do, on contexts that answer alike.
LEMMA RuleAlike ==
  ASSUME NEW r, NEW s, RulePreimage(r) = RulePreimage(s), NEW x, NEW y, Alike(x, y)
  PROVE  /\ r.effect = s.effect /\ r.rule_id = s.rule_id /\ r.reason_code = s.reason_code
         /\ RuleReadable(r, x) <=> RuleReadable(s, y)
         /\ Fires(r, x) <=> Fires(s, y)
<1>. DEFINE p == RulePreimage(r)
            q == RulePreimage(s)
<1>1. /\ p["effect"] = r.effect /\ p["rule_id"] = r.rule_id
      /\ p["subject"] = SubjectPreimage(r.subject) /\ p["object"] = ObjectPreimage(r.object)
      /\ p["verb"] = MatcherPreimage(r.verb.match)
      /\ "reason_code" \in DOMAIN p <=> r.reason_code # <<>>
      /\ r.reason_code # <<>> => p["reason_code"] = r.reason_code
      /\ "conditions" \in DOMAIN p <=> r.conditions # <<>>
      /\ r.conditions # <<>> =>
           p["conditions"] = [i \in DOMAIN r.conditions |-> ConditionPreimage(r.conditions[i])]
  BY DEF RulePreimage, Used
<1>2. /\ q["effect"] = s.effect /\ q["rule_id"] = s.rule_id
      /\ q["subject"] = SubjectPreimage(s.subject) /\ q["object"] = ObjectPreimage(s.object)
      /\ q["verb"] = MatcherPreimage(s.verb.match)
      /\ "reason_code" \in DOMAIN q <=> s.reason_code # <<>>
      /\ s.reason_code # <<>> => q["reason_code"] = s.reason_code
      /\ "conditions" \in DOMAIN q <=> s.conditions # <<>>
      /\ s.conditions # <<>> =>
           q["conditions"] = [i \in DOMAIN s.conditions |-> ConditionPreimage(s.conditions[i])]
  BY DEF RulePreimage, Used
<1>. HIDE DEF p, q
<1>3. p = q
  BY DEF p, q
<1>4. r.effect = s.effect /\ r.rule_id = s.rule_id /\ r.reason_code = s.reason_code
  BY <1>1, <1>2, <1>3
<1>5. /\ SubjectPreimage(r.subject) = SubjectPreimage(s.subject)
      /\ ObjectPreimage(r.object) = ObjectPreimage(s.object)
      /\ MatcherPreimage(r.verb.match) = MatcherPreimage(s.verb.match)
  BY <1>1, <1>2, <1>3
<1>6. /\ DOMAIN r.conditions = DOMAIN s.conditions
      /\ \A i \in DOMAIN r.conditions :
           ConditionPreimage(r.conditions[i]) = ConditionPreimage(s.conditions[i])
  <2>1. CASE r.conditions = <<>>
    <3>1. s.conditions = <<>>
      BY <1>1, <1>2, <1>3, <2>1
    <3>2. DOMAIN r.conditions = {}
      BY <2>1
    <3>. QED
      BY <2>1, <3>1, <3>2
  <2>2. CASE r.conditions # <<>>
    <3>. DEFINE f == [i \in DOMAIN r.conditions |-> ConditionPreimage(r.conditions[i])]
                g == [i \in DOMAIN s.conditions |-> ConditionPreimage(s.conditions[i])]
    <3>1. f = g
      BY <1>1, <1>2, <1>3, <2>2
    <3>2. DOMAIN f = DOMAIN r.conditions /\ DOMAIN g = DOMAIN s.conditions
      OBVIOUS
    <3>3. \A i \in DOMAIN r.conditions : f[i] = ConditionPreimage(r.conditions[i])
      OBVIOUS
    <3>4. \A i \in DOMAIN s.conditions : g[i] = ConditionPreimage(s.conditions[i])
      OBVIOUS
    <3>. HIDE DEF f, g
    <3>. QED
      BY <3>1, <3>2, <3>3, <3>4
  <2>. QED
    BY <2>1, <2>2
<1>7. \A i \in DOMAIN r.conditions :
        /\ CheckCondition(r.conditions[i], x) <=> CheckCondition(s.conditions[i], y)
        /\ Holds(r.rule_id, r.conditions[i], x) <=> Holds(s.rule_id, s.conditions[i], y)
  BY <1>4, <1>6, ConditionAlike
<1>8. /\ r.subject.type = s.subject.type
      /\ MatcherPreimage(r.subject.id_match) = MatcherPreimage(s.subject.id_match)
      /\ r.subject.role_match = Nil <=> s.subject.role_match = Nil
      /\ r.subject.role_match # Nil =>
           MatcherPreimage(r.subject.role_match) = MatcherPreimage(s.subject.role_match)
  BY <1>5, SubjectAlike
<1>9. /\ r.object.type = s.object.type
      /\ MatcherPreimage(r.object.id_match) = MatcherPreimage(s.object.id_match)
      /\ r.object.classification_max = s.object.classification_max
      /\ r.object.classification_min = s.object.classification_min
  BY <1>5, ObjectAlike
<1>10. /\ r.subject.id_match.operator = s.subject.id_match.operator
       /\ r.verb.match.operator = s.verb.match.operator
       /\ r.object.id_match.operator = s.object.id_match.operator
       /\ r.subject.role_match # Nil => r.subject.role_match.operator = s.subject.role_match.operator
  BY <1>5, <1>8, <1>9, MatcherAlike
<1>11. /\ Match(r.subject.id_match, x.subject_id) = Match(s.subject.id_match, y.subject_id)
       /\ Match(r.verb.match, x.verb) = Match(s.verb.match, y.verb)
       /\ Match(r.object.id_match, x.object_id) = Match(s.object.id_match, y.object_id)
       /\ r.subject.role_match # Nil =>
            Match(r.subject.role_match, x.subject_role) = Match(s.subject.role_match, y.subject_role)
  BY <1>5, <1>8, <1>9, MatcherAlike DEF Alike
<1>12. RuleReadable(r, x) <=> RuleReadable(s, y)
  BY <1>6, <1>7, <1>8, <1>9, <1>10 DEF RuleReadable, Matchers, Bounds, Alike
<1>13. MatchSubject(r.subject, x) <=> MatchSubject(s.subject, y)
  BY <1>8, <1>11 DEF MatchSubject, Alike
<1>14. MatchObject(r.object, x) <=> MatchObject(s.object, y)
  BY <1>9, <1>11 DEF MatchObject, Alike
<1>15. Fires(r, x) <=> Fires(s, y)
  BY <1>6, <1>7, <1>11, <1>13, <1>14 DEF Fires
<1>. QED
  BY <1>4, <1>12, <1>15

\* What the record seals of a context is all that a rule may ask of it.
LEMMA SealedContext ==
  ASSUME NEW ctx \in Contexts
  PROVE  Alike(Context(InputsOf(ctx)), ctx)
<1>. DEFINE x == Context(InputsOf(ctx))
<1>1. \A f \in DOMAIN ctx \ {"envelope"} : x[f] = ctx[f]
  BY DEF Context, InputsOf
<1>2. Asked \subseteq DOMAIN ctx \ {"envelope"}
  BY ContextAssumption DEF Asked
<1>3. \A f \in Asked : x[f] = ctx[f]
  BY <1>1, <1>2
<1>. HIDE DEF x
<1>4. Alike(x, ctx)
  BY <1>3 DEF Asked, Alike
<1>. QED
  BY <1>4 DEF x

LEMMA HashedRules ==
  ASSUME NEW p, NEW q, PolicyHash(p) = PolicyHash(q)
  PROVE  /\ p.default_effect = q.default_effect
         /\ DOMAIN p.rules = DOMAIN q.rules
         /\ \A i \in DOMAIN p.rules : RulePreimage(p.rules[i]) = RulePreimage(q.rules[i])
<1>. DEFINE h == PolicyHash(p)
            k == PolicyHash(q)
            f == [i \in DOMAIN p.rules |-> RulePreimage(p.rules[i])]
            g == [i \in DOMAIN q.rules |-> RulePreimage(q.rules[i])]
<1>1. h["default_effect"] = p.default_effect /\ h["rules"] = f
  BY DEF PolicyHash
<1>2. k["default_effect"] = q.default_effect /\ k["rules"] = g
  BY DEF PolicyHash
<1>3. /\ DOMAIN f = DOMAIN p.rules /\ \A i \in DOMAIN p.rules : f[i] = RulePreimage(p.rules[i])
      /\ DOMAIN g = DOMAIN q.rules /\ \A i \in DOMAIN q.rules : g[i] = RulePreimage(q.rules[i])
  OBVIOUS
<1>4. h = k
  OBVIOUS
<1>. HIDE DEF h, k, f, g
<1>5. p.default_effect = q.default_effect /\ f = g
  BY <1>1, <1>2, <1>4
<1>. QED
  BY <1>3, <1>5

\* The rules of two policies with one hash decide alike.
LEMMA DecideAlike ==
  ASSUME NEW p, NEW q, PolicyHash(p) = PolicyHash(q), NEW x, NEW y, Alike(x, y),
         NEW n \in Nat, DOMAIN p.rules = 1 .. n
  PROVE  DecideBy(p, x) = DecideBy(q, y)
<1>. DEFINE r == p.rules
            s == q.rules
            firing == {i \in DOMAIN r : Fires(r[i], x)}
            others == {i \in DOMAIN s : Fires(s[i], y)}
            least(T) == CHOOSE i \in T : \A j \in T : i <= j
            first  == least(firing)
<1>1. p.default_effect = q.default_effect /\ DOMAIN r = DOMAIN s
  BY HashedRules
<1>2. \A i \in DOMAIN r :
        /\ r[i].effect = s[i].effect /\ r[i].rule_id = s[i].rule_id
        /\ r[i].reason_code = s[i].reason_code
        /\ RuleReadable(r[i], x) <=> RuleReadable(s[i], y)
        /\ Fires(r[i], x) <=> Fires(s[i], y)
  BY HashedRules, RuleAlike
<1>3. CheckReadable(r, x) <=> CheckReadable(s, y)
  BY <1>1, <1>2 DEF CheckReadable
<1>4. firing = others
  BY <1>1, <1>2
<1>5. CASE ~CheckReadable(r, x)
  <2>1. DecideBy(p, x) = Undecided
    BY <1>5 DEF DecideBy, Decide
  <2>2. DecideBy(q, y) = Undecided
    BY <1>3, <1>5 DEF DecideBy, Decide
  <2>. QED
    BY <2>1, <2>2
<1>6. CASE CheckReadable(r, x) /\ firing = {}
  <2>. DEFINE res(e) == Result(e, Word("default"), Word("DEFAULT_EFFECT_APPLIED"))
  <2>1. DecideBy(p, x) = res(p.default_effect)
    BY <1>6 DEF DecideBy, Decide
  <2>2. DecideBy(q, y) = res(q.default_effect)
    BY <1>3, <1>4, <1>6 DEF DecideBy, Decide
  <2>. QED
    BY <1>1, <2>1, <2>2
<1>7. CASE CheckReadable(r, x) /\ firing # {}
  <2>. DEFINE res(rule) == Result(rule.effect, rule.rule_id,
                  IF rule.reason_code # <<>> THEN rule.reason_code ELSE ReasonFor(rule.effect))
  <2>1. DecideBy(p, x) = res(r[first])
    BY <1>7 DEF DecideBy, Decide
  <2>2. DecideBy(q, y) = res(s[first])
    <3>1. DecideBy(q, y) = res(s[least(others)])
      BY <1>3, <1>4, <1>7 DEF DecideBy, Decide
    <3>. HIDE DEF firing, others, res
    <3>. QED
      BY <1>4, <3>1
  <2>3. first \in DOMAIN r
    <3>1. \A i \in firing : i \in Nat /\ i \in DOMAIN r
      OBVIOUS
    <3>. HIDE DEF firing
    <3>. QED
      BY <1>7, <3>1, FirstRule
  <2>4. /\ r[first].effect = s[first].effect /\ r[first].rule_id = s[first].rule_id
        /\ r[first].reason_code = s[first].reason_code
    BY <1>2, <2>3
  <2>. HIDE DEF first, r, s
  <2>5. res(r[first]) = res(s[first])
    BY <2>4
  <2>. QED
    BY <2>1, <2>2, <2>5
<1>. QED
  BY <1>5, <1>6, <1>7

\* policyhash.go: the hash covers the substantive policy.  Whatever text is
\* handed over, one with the sealed text's hash decides on the sealed inputs
\* as the server did.
THEOREM HashFixesDecision == Spec => []SameHashSameDecision
<1>1. WellFormed(sealed) /\ WellFormed(text) => SameHashSameDecision
  <2>. SUFFICES ASSUME WellFormed(text), FromDocument(text),
                       PolicyHash(Policy(text)) = PolicyHash(Policy(sealed)),
                       NEW ctx \in Contexts
                PROVE  DecideBy(Policy(text), Context(InputsOf(ctx))) = DecideBy(Policy(sealed), ctx)
    BY DEF SameHashSameDecision
  <2>1. PICK n \in Nat : DOMAIN Policy(text).rules = 1 .. n
    BY RulesInOrder DEF FromDocument
  <2>. QED
    BY <2>1, SealedContext, DecideAlike
<1>. QED
  BY <1>1, TextsWellFormed, PTL
=============================================================================
