---------------------------- MODULE MCPolicyText ----------------------------
(***************************************************************************)
(* Four short policies and the contexts their rules tell apart: matchers   *)
(* and roles, classification bounds, a window over midnight with a rate    *)
(* limit, and the parts of a policy no rule reads.                         *)
(***************************************************************************)
EXTENDS PolicyText

W(w) == Scalar(Word(w))
M(operator, value) == Object(<<Member("operator", W(operator)), Member("value", Scalar(value))>>)
MIn(operator, values) ==
  Object(<<Member("operator", W(operator)),
           Member("values", List([i \in DOMAIN values |-> Scalar(values[i])]))>>)
Anyone == Object(<<Member("operator", W("any"))>>)

Verb(m) == Member("verb", Object(<<Member("match", m)>>))
Subject(m, more) == Member("subject", Object(<<Member("type", W("any")), Member("id_match", m)>> \o more))
Target(m, more) == Member("object", Object(<<Member("type", W("any")), Member("id_match", m)>> \o more))
Rule(id, effect, parts) ==
  Object(<<Member("rule_id", W(id)), Member("effect", W(effect))>> \o parts)
TextOf(rules, more) ==
  Text(Object(<<Member("schema", W("psl.v1")), Member("policy_id", W("p")),
                Member("default_effect", W("deny")), Member("rules", List(rules))>> \o more))

ab == <<"a", "b">>

MatcherText ==
  TextOf(<<Rule("r1", "deny", <<Subject(M("prefix", <<"b">>), <<>>), Verb(MIn("not_in", <<ab, <<"a">>>>)),
                                Target(Anyone, <<>>)>>),
           Rule("r2", "allow", <<Subject(Anyone, <<Member("role_match", M("exact", Word("admin")))>>),
                                 Verb(Anyone), Target(M("suffix", <<"b">>), <<>>),
                                 Member("reason_code", W("because"))>>)>>, <<>>)

LevelText ==
  TextOf(<<Rule("r1", "allow",
                <<Subject(Anyone, <<>>), Verb(Anyone),
                  Target(Anyone, <<Member("classification_max", W("RESTRICTED")),
                                 Member("classification_min", W("INTERNAL"))>>)>>),
           Rule("r2", "deny",
                <<Subject(M("substring", <<"b">>), <<>>), Verb(Anyone), Target(Anyone, <<>>),
                  Member("conditions", List(<<Object(<<Member("type", W("min_session_age")),
                                                       Member("seconds", Scalar(<<"6", "0">>))>>)>>))>>)>>, <<>>)

WindowText ==
  TextOf(<<Rule("r1", "allow",
                <<Subject(Anyone, <<>>), Verb(Anyone), Target(Anyone, <<>>),
                  Member("conditions", List(<<
                    Object(<<Member("type", W("time_window")),
                             Member("start_utc", Scalar(<<"2", "2", ":", "3", "0">>)),
                             Member("end_utc", Scalar(<<"0", "6", ":", "0", "0">>))>>),
                    Object(<<Member("type", W("rate_limit")), Member("max_per_window", W("2")),
                             Member("window_seconds", Scalar(<<"6", "0">>))>>)>>))>>)>>, <<>>)

SignedText ==
  TextOf(<<Rule("r1", "allow", <<Subject(Anyone, <<>>), Verb(Anyone), Target(Anyone, <<>>),
                                 Member("conditions", List(<<
                                   Object(<<Member("type", W("mfa_required")),
                                            Member("required", W("true"))>>)>>))>>)>>,
         <<Member("metadata", Object(<<Member("owner", W("ops"))>>)),
           Member("tags", List(<<W("x")>>)), Member("profile_tag", W("x")),
           Member("signature_policy", Object(<<Member("type", W("x")), Member("threshold", W("1")),
                                               Member("required", List(<<W("x")>>))>>)),
           Member("signers", List(<<Object(<<Member("signer_id", W("x")), Member("key_algorithm", W("x")),
                                             Member("signature_base64", W("x"))>>)>>))>>)

MCTexts == {MatcherText, LevelText, WindowText, SignedText}

MCTimeOfDay == [night |-> 23 * 60, end |-> 6 * 60, start |-> 22 * 60 + 30, day |-> 720]

MCAmong ==
  [p \in {"operator", "id", "subject type", "object type", "level", "condition type", "count",
          "time", "role", "rule", "name", "effect", "schema"} |->
     CASE p = "operator"       -> {Word("not_in"), Word("like")}
       [] p = "id"             -> {<<"b">>}
       [] p = "subject type"   -> {Word("user")}
       [] p = "object type"    -> {Word("data")}
       [] p = "level"          -> {Word("PUBLIC"), Word("SECRET")}
       [] p = "condition type" -> {Word("weekday")}
       [] p = "count"          -> {<<"0">>, <<"1">>}
       [] p = "time"           -> {<<"2", "2", ":", "3", "0">>, <<"2", "4", ":", "0", "0">>}
       [] p = "role"           -> {Word("admin")}
       [] p = "rule"           -> {Word("r1")}
       [] p = "name"           -> {Word("y")}
       [] p = "effect"         -> {Word("allow"), Word("deny")}
       [] p = "schema"         -> {Word("psl.v2")}]

Base ==
  [subject_id |-> ab, subject_type |-> Word("user"), subject_role |-> Word("admin"), verb |-> <<"a">>,
   object_type |-> Word("data"), object_id |-> ab, classification |-> Word("INTERNAL"),
   mfa_satisfied |-> FALSE, session_age_seconds |-> 60, clock |-> "night",
   rate_counts |-> <<>>, envelope |-> Word("e")]

MCContexts ==
  {Base,
   [Base EXCEPT !.subject_id = <<"b">>, !.verb = <<"b">>, !.classification = Word("TOP_SECRET")],
   [Base EXCEPT !.subject_role = <<>>, !.classification = Word("SECRET"), !.clock = "end"],
   [Base EXCEPT !.object_id = <<"a">>, !.mfa_satisfied = TRUE, !.clock = "day",
                !.classification = Word("RESTRICTED")],
   [Base EXCEPT !.clock = "never", !.subject_type = Word("agent")],
   [Base EXCEPT !.clock = "start", !.mfa_satisfied = TRUE, !.rate_counts = Word("r1") :> 2],
   [Base EXCEPT !.rate_counts = Word("r1") :> 1, !.session_age_seconds = 0, !.classification = Word("PUBLIC")]}
=============================================================================
