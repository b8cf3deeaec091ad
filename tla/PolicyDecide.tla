---------------------------- MODULE PolicyDecide ----------------------------
(***************************************************************************)
(* The decision of a policy's rules on sealed inputs.  A rule is what Go   *)
(* reads of it, with the source's field names.                             *)
(***************************************************************************)
EXTENDS PolicyTypes

CONSTANT TimeOfDay \* the minute of day, UTC, of each RFC 3339 time that parses

ASSUME TimeAssumption == \A c \in DOMAIN TimeOfDay : TimeOfDay[c] \in 0 .. 1439

Operators == {Word("any"), Word("exact"), Word("prefix"), Word("suffix"),
              Word("substring"), Word("in"), Word("not_in")}

\* PUBLIC < INTERNAL < CONFIDENTIAL < RESTRICTED < TOP_SECRET < TS_SCI.
Levels == <<Word("PUBLIC"), Word("INTERNAL"), Word("CONFIDENTIAL"),
            Word("RESTRICTED"), Word("TOP_SECRET"), Word("TS_SCI")>>
KnownClassification(c) == c \in Range(Levels)
Rank(c) == CHOOSE i \in DOMAIN Levels : Levels[i] = c

Substring(part, s) ==
  \E i \in 0 .. Len(s) - Len(part) : SubSeq(s, i + 1, i + Len(part)) = part

\* Match.
Match(m, value) ==
  CASE m.operator = Word("any")       -> TRUE
    [] m.operator = Word("exact")     -> value = m.value
    [] m.operator = Word("prefix")    -> IsPrefix(m.value, value)
    [] m.operator = Word("suffix")    -> IsSuffix(m.value, value)
    [] m.operator = Word("substring") -> Substring(m.value, value)
    [] m.operator = Word("in")        -> value \in Range(m.values)
    [] m.operator = Word("not_in")    -> value \notin Range(m.values)
    [] OTHER                          -> FALSE

(***************************************************************************)
(* Times of day                                                            *)
(***************************************************************************)
\* ParseHHMM's test and its value.
TwoDigits(s, i) == 10 * DigitOf(s[i]) + DigitOf(s[i + 1])
ReadsHHMM(s) ==
  /\ Len(s) = 5 /\ s[3] = ":"
  /\ \A i \in {1, 2, 4, 5} : s[i] \in Range(Digits)
  /\ TwoDigits(s, 1) <= 23 /\ TwoDigits(s, 4) <= 59
HHMM(s) == 60 * TwoDigits(s, 1) + TwoDigits(s, 4)

\* inTimeWindow: both bounds belong to it, a start after the end wraps.
InTimeWindow(start, end, now) ==
  IF start <= end THEN now >= start /\ now <= end ELSE now >= start \/ now <= end

(***************************************************************************)
(* Readability                                                             *)
(***************************************************************************)
Matchers(rule) ==
  {rule.subject.id_match, rule.verb.match, rule.object.id_match}
  \cup (IF rule.subject.role_match = Nil THEN {} ELSE {rule.subject.role_match})
Bounds(rule) == {rule.object.classification_max, rule.object.classification_min} \ {<<>>}

\* checkCondition.
CheckCondition(c, ctx) ==
  \/ c.type \in {Word("mfa_required"), Word("min_session_age"),
                 Word("requires_role"), Word("rate_limit")}
  \/ /\ c.type = Word("time_window")
     /\ ReadsHHMM(c.start_utc) /\ ReadsHHMM(c.end_utc) /\ ctx.clock \in DOMAIN TimeOfDay

\* What checkReadable asks of one rule.
RuleReadable(rule, ctx) ==
  /\ \A m \in Matchers(rule) : m.operator \in Operators
  /\ Bounds(rule) # {} => KnownClassification(ctx.classification)
  /\ \A b \in Bounds(rule) : KnownClassification(b)
  /\ \A i \in DOMAIN rule.conditions : CheckCondition(rule.conditions[i], ctx)

CheckReadable(rules, ctx) == \A i \in DOMAIN rules : RuleReadable(rules[i], ctx)

(***************************************************************************)
(* Decide                                                                  *)
(***************************************************************************)
MatchSubject(s, ctx) ==
  /\ s.type \in {Word("any"), ctx.subject_type}
  /\ Match(s.id_match, ctx.subject_id)
  /\ s.role_match # Nil => Match(s.role_match, ctx.subject_role)

MatchObject(o, ctx) ==
  /\ o.type \in {Word("any"), ctx.object_type}
  /\ Match(o.id_match, ctx.object_id)
  /\ o.classification_max # <<>> =>
       /\ KnownClassification(ctx.classification) /\ KnownClassification(o.classification_max)
       /\ Rank(ctx.classification) <= Rank(o.classification_max)
  /\ o.classification_min # <<>> =>
       /\ KnownClassification(ctx.classification) /\ KnownClassification(o.classification_min)
       /\ Rank(ctx.classification) >= Rank(o.classification_min)

\* A rule with no count has admitted nothing.
RateCount(ctx, id) == IF id \in DOMAIN ctx.rate_counts THEN ctx.rate_counts[id] ELSE 0

\* matchOneCondition.
Holds(id, c, ctx) ==
  CASE c.type = Word("mfa_required")    -> c.required = Word("true") => ctx.mfa_satisfied
    [] c.type = Word("min_session_age") -> ctx.session_age_seconds >= NumberOf(c.seconds)
    [] c.type = Word("requires_role")   -> ctx.subject_role = c.role
    [] c.type = Word("time_window")     ->
         InTimeWindow(HHMM(c.start_utc), HHMM(c.end_utc), TimeOfDay[ctx.clock])
    [] c.type = Word("rate_limit")      -> RateCount(ctx, id) < NumberOf(c.max_per_window)
    [] OTHER                            -> FALSE

Fires(rule, ctx) ==
  /\ MatchSubject(rule.subject, ctx) /\ Match(rule.verb.match, ctx.verb)
  /\ MatchObject(rule.object, ctx)
  /\ \A i \in DOMAIN rule.conditions : Holds(rule.rule_id, rule.conditions[i], ctx)

ReasonFor(effect) ==
  CASE effect = Word("allow") -> Word("RULE_ALLOWED")
    [] effect = Word("deny")  -> Word("RULE_DENIED")
    [] OTHER                  -> <<>>

\* ErrUnreadable: the rules give no decision.
Undecided == [error |-> "unreadable"]

Result(outcome, id, reason) == [outcome |-> outcome, rule |-> id, reason |-> reason]

\* Mutant: rules are read only until one fires.
DecideAsRead(rules, default, ctx) ==
  LET firing == {i \in DOMAIN rules : RuleReadable(rules[i], ctx) /\ Fires(rules[i], ctx)}
      first  == CHOOSE i \in firing : \A j \in firing : i <= j
      read   == IF firing = {} THEN rules ELSE SubSeq(rules, 1, first)
      fired  == rules[first]
  IN IF ~CheckReadable(read, ctx) THEN Undecided
     ELSE IF firing = {} THEN Result(default, Word("default"), Word("DEFAULT_EFFECT_APPLIED"))
     ELSE Result(fired.effect, fired.rule_id,
                 IF fired.reason_code # <<>> THEN fired.reason_code ELSE ReasonFor(fired.effect))

\* Decide: every rule is read before the first one that fires decides.
Decide(rules, default, ctx) ==
  LET firing == {i \in DOMAIN rules : Fires(rules[i], ctx)}
      fired  == rules[CHOOSE i \in firing : \A j \in firing : i <= j]
  IN IF ~CheckReadable(rules, ctx) THEN Undecided
     ELSE IF firing = {} THEN Result(default, Word("default"), Word("DEFAULT_EFFECT_APPLIED"))
     ELSE Result(fired.effect, fired.rule_id,
                 IF fired.reason_code # <<>> THEN fired.reason_code ELSE ReasonFor(fired.effect))

(***************************************************************************)
(* Sealed inputs                                                           *)
(***************************************************************************)
\* InputsOf and Context: the envelope is not sealed with the inputs, and a
\* value left out of the record reads back as its zero value.
InputsOf(ctx) == [f \in DOMAIN ctx \ {"envelope"} |-> ctx[f]]
Context(inputs) == [f \in DOMAIN inputs \cup {"envelope"} |-> IF f = "envelope" THEN <<>> ELSE inputs[f]]
=============================================================================
