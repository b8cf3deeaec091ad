----------------------------- MODULE PolicyText -----------------------------
(***************************************************************************)
(* A policy's text, sealed by its hash, and what whoever hands the text to *)
(* the verifier may have made of it: members repeated, respelled, removed  *)
(* or added, values replaced, lists reordered.  What the strict reading    *)
(* accepts, every reader reads alike; what has the sealed hash decides as  *)
(* the sealed text did.                                                    *)
(***************************************************************************)
EXTENDS PolicyDecide, PolicyHash

CONSTANTS
  Texts,    \* the texts sealed
  Contexts, \* what the server may decide on
  MaxEdits  \* bound: the rewrites of one text

\* A text is an object, and the rules of a policy are a list.
InOrder(s) == s \in Seq(Range(s))
WellFormedMember(m) ==
  /\ DOMAIN m = {"name", "exact", "value"}
  /\ m.name = "rules" => m.value.is = "list" /\ InOrder(m.value.items)
WellFormed(t) ==
  /\ DOMAIN t = {"root", "trailing"}
  /\ t.root.is = "object" /\ InOrder(t.root.members)
  /\ \A m \in Range(t.root.members) : WellFormedMember(m)

ASSUME TextAssumption == \A t \in Texts : WellFormed(t)

\* What a rule may ask of a context.
Asked == {"subject_id", "subject_type", "subject_role", "verb", "object_type", "object_id",
          "classification", "mfa_satisfied", "session_age_seconds", "clock", "rate_counts"}

ASSUME ContextAssumption == \A ctx \in Contexts : Asked \subseteq DOMAIN ctx

VARIABLES
  sealed, \* the text the record was sealed under
  text,   \* the text given to the verifier
  edits

vars == <<sealed, text, edits>>

(***************************************************************************)
(* Rewrites                                                                *)
(***************************************************************************)
\* A new member: a scalar field with a value it may have.
NewMembers(t) ==
  UNION {{Member(f, Scalar(x)) : x \in IF t.fields[f].kind = "scalar" THEN t.fields[f].among ELSE {}} :
           f \in DOMAIN t.fields}

Swapped(s, i) == [s EXCEPT ![i] = s[i + 1], ![i + 1] = s[i]]

ScalarRewritten(v, t) ==
  {[v EXCEPT !.value = x] : x \in t.among \ {v.value}} \cup {[v EXCEPT !.plain = FALSE]}

\* Every value one rewrite away from v; Rewritten(x, t) is what is one
\* rewrite away from the value x inside it.
ListRewritten(Rewritten(_, _), items, of) ==
  (UNION {{[items EXCEPT ![i] = x] : x \in Rewritten(items[i], of)} : i \in DOMAIN items})
  \cup {RemoveAt(items, i) : i \in DOMAIN items}
  \cup {Swapped(items, i) : i \in 1 .. Len(items) - 1}

ObjectRewritten(Rewritten(_, _), m, t) ==
  LET edited(i) == {[m[i] EXCEPT !.value = x] : x \in Rewritten(m[i].value, TypeOfMember(m[i], t))}
      again     == {e \in UNION {edited(i) : i \in DOMAIN m} : e.value.is = "scalar" /\ e.value.plain}
      new       == IF t.kind = "map" THEN {}
                   ELSE {e \in NewMembers(t) : \A i \in DOMAIN m : m[i].name # e.name}
  IN (UNION {{[m EXCEPT ![i] = e] : e \in edited(i)} : i \in DOMAIN m})
     \cup {Append(m, e) : e \in again \cup new}
     \cup {Append(m, [e EXCEPT !.exact = FALSE]) : e \in again}
     \cup {RemoveAt(m, i) : i \in DOMAIN m}
     \cup {[m EXCEPT ![i].exact = ~@] : i \in DOMAIN m}

RewrittenInto(Rewritten(_, _), v, t) ==
  CASE v.is = "scalar" -> ScalarRewritten(v, t)
    [] v.is = "list"   -> {List(x) : x \in ListRewritten(Rewritten, v.items, t.of)}
    [] OTHER           -> {Object(x) : x \in ObjectRewritten(Rewritten, v.members, Elem(t))}

Rewritten1(v, t) == ScalarRewritten(v, t)
Rewritten2(v, t) == RewrittenInto(Rewritten1, v, t)
Rewritten3(v, t) == RewrittenInto(Rewritten2, v, t)
Rewritten4(v, t) == RewrittenInto(Rewritten3, v, t)
Rewritten5(v, t) == RewrittenInto(Rewritten4, v, t)
Rewritten6(v, t) == RewrittenInto(Rewritten5, v, t)
Rewritten(v, t) == RewrittenInto(Rewritten6, v, t)

Init == sealed \in Texts /\ text = sealed /\ edits = 0

\* One rewrite of the text, anywhere in it.
Rewrite ==
  /\ edits < MaxEdits
  /\ \E v \in Rewritten(text.root, PolicyType) : text' = [text EXCEPT !.root = v]
  /\ edits' = edits + 1
  /\ UNCHANGED sealed

\* Something after the closing brace.
Trail ==
  /\ edits < MaxEdits /\ ~text.trailing
  /\ text' = [text EXCEPT !.trailing = TRUE]
  /\ edits' = edits + 1
  /\ UNCHANGED sealed

Next == Rewrite \/ Trail

Spec == Init /\ [][Next]_vars

(***************************************************************************)
(* Properties                                                              *)
(***************************************************************************)
\* ReadDocument and Decide, on a text FromDocument has accepted.
DecideBy(policy, ctx) == Decide(policy.rules, policy.default_effect, ctx)

\* strictjson.go: "every value any reader can see is a value this verifier
\* checked": readers that fold case or not, take the first or the last of
\* two keys, keep literals or show unmodelled keys all see the same policy.
ReadersAgree ==
  CheckStrict(text, PolicyType) =>
    LET seen == SeenText(GoReader, text, PolicyType)
    IN \A reader \in Readers : SeenText(reader, text, PolicyType) = seen

\* The minutes of a window, walked from its start.
InWindow(start, end, now) == (now - start) % 1440 <= (end - start) % 1440

\* What a rule says on a context: it fires, it does not, or it cannot be
\* read.  Every part is asked, whatever the others say.
Part(readable, holds) == IF ~readable THEN "unread" ELSE IF holds THEN "yes" ELSE "no"
MatcherSays(m, v) == Part(m.operator \in Operators, Match(m, v))
RoleSays(m, v) == IF m = Nil THEN "yes" ELSE MatcherSays(m, v)
LevelSays(b, level, within) ==
  IF b = <<>> THEN "yes" ELSE Part({b, level} \subseteq Range(Levels), within)
ConditionSays(rule, c, ctx) ==
  IF c.type = Word("time_window")
  THEN Part(ReadsHHMM(c.start_utc) /\ ReadsHHMM(c.end_utc) /\ ctx.clock \in DOMAIN TimeOfDay,
            InWindow(HHMM(c.start_utc), HHMM(c.end_utc), TimeOfDay[ctx.clock]))
  ELSE Part(CheckCondition(c, ctx), Holds(rule.rule_id, c, ctx))
PartsSay(rule, ctx) ==
  LET level == ctx.classification
      max   == rule.object.classification_max
      min   == rule.object.classification_min
  IN {MatcherSays(rule.subject.id_match, ctx.subject_id), MatcherSays(rule.verb.match, ctx.verb),
      MatcherSays(rule.object.id_match, ctx.object_id),
      RoleSays(rule.subject.role_match, ctx.subject_role),
      LevelSays(max, level, Rank(level) <= Rank(max)), LevelSays(min, level, Rank(level) >= Rank(min)),
      Part(TRUE, rule.subject.type \in {Word("any"), ctx.subject_type}),
      Part(TRUE, rule.object.type \in {Word("any"), ctx.object_type})}
     \cup {ConditionSays(rule, rule.conditions[i], ctx) : i \in DOMAIN rule.conditions}
Says(rule, ctx) ==
  IF "unread" \in PartsSay(rule, ctx) THEN "unread"
  ELSE IF "no" \in PartsSay(rule, ctx) THEN "no" ELSE "yes"

\* decide.go: "a rule that sits after the one that fires cannot hide a
\* broken one".  A rule that cannot be read on the inputs leaves no decision
\* wherever it stands; without one, the first rule that fires decides, and
\* what stands after it changes nothing.
BrokenRuleNeverDecides ==
  FromDocument(text) =>
    LET policy == Policy(text)
        rules  == policy.rules
    IN \A ctx \in Contexts :
      LET said  == [i \in DOMAIN rules |-> Says(rules[i], ctx)]
          d     == DecideBy(policy, ctx)
      IN IF \E i \in DOMAIN rules : said[i] = "unread" THEN d = Undecided
         ELSE /\ d # Undecided
              /\ IF \A i \in DOMAIN rules : said[i] = "no" THEN d.outcome = policy.default_effect
                 ELSE \E i \in DOMAIN rules :
                        /\ said[i] = "yes" /\ \A j \in 1 .. i - 1 : said[j] = "no"
                        /\ d.outcome = rules[i].effect /\ d.rule = rules[i].rule_id

\* policyhash.go: the hash covers the substantive policy.  A text with the
\* sealed hash, run on the sealed inputs, decides as the server did with the
\* sealed text, so the hash alone is enough to check a decision.
SameHashSameDecision ==
  (/\ text # sealed /\ FromDocument(text) /\ FromDocument(sealed)
   /\ PolicyHash(Policy(text)) = PolicyHash(Policy(sealed))) =>
    LET given == Policy(text) server == Policy(sealed)
    IN \A ctx \in Contexts : DecideBy(given, Context(InputsOf(ctx))) = DecideBy(server, ctx)
=============================================================================
