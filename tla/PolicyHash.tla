----------------------------- MODULE PolicyHash -----------------------------
(***************************************************************************)
(* The hash a record seals of a policy: the strict reading of its text,    *)
(* the validation, and the canonical preimage.  SHA-256 and the canonical  *)
(* writing of the preimage are one to one, so the preimage stands for the  *)
(* hash; a key the source leaves out of it is not in its domain.           *)
(***************************************************************************)
EXTENDS PolicyTypes

\* A policy as Go reads it.
Policy(text) == GoRead(text.root, PolicyType)

\* validate: priority is reserved, since the hash does not cover it.
Validate(p) ==
  /\ p.schema = Word("psl.v1") /\ p.policy_id # <<>>
  /\ p.default_effect \in {Word("allow"), Word("deny")}
  /\ \A i \in DOMAIN p.rules : NumberOf(p.rules[i].priority) = 0

\* The fields of r that are always there, and those that are there if used.
Keep(r, always, used) == [f \in always \cup used |-> r[f]]
Used(r, fields, zero) == {f \in fields : r[f] # zero}

\* Mutant: the values of `in` and `not_in` are left out.
MatcherPreimageScalar(m) == Keep(m, {"operator"}, Used(m, {"value"}, <<>>))

MatcherPreimage(m) == Keep(m, {"operator"}, Used(m, {"value", "values"}, <<>>))

SubjectPreimage(s) ==
  [f \in {"type", "id_match"} \cup Used(s, {"role_match"}, Nil) |->
     IF f = "type" THEN s.type ELSE MatcherPreimage(s[f])]

ObjectPreimage(o) ==
  [f \in {"type", "id_match"} \cup Used(o, {"classification_max", "classification_min"}, <<>>) |->
     IF f = "id_match" THEN MatcherPreimage(o.id_match) ELSE o[f]]

\* Only what the condition's type reads.
ConditionPreimage(c) ==
  Keep(c, {"type"},
       CASE c.type = Word("rate_limit")      -> {"max_per_window", "window_seconds"}
         [] c.type = Word("time_window")     -> {"start_utc", "end_utc"}
         [] c.type = Word("mfa_required")    -> {"required"}
         [] c.type = Word("min_session_age") -> {"seconds"}
         [] c.type = Word("requires_role")   -> {"role"}
         [] OTHER                            -> {})

RulePreimage(r) ==
  [f \in {"effect", "rule_id", "subject", "object", "verb"}
         \cup Used(r, {"reason_code", "conditions"}, <<>>) |->
     CASE f = "subject"    -> SubjectPreimage(r.subject)
       [] f = "object"     -> ObjectPreimage(r.object)
       [] f = "verb"       -> MatcherPreimage(r.verb.match)
       [] f = "conditions" -> [i \in DOMAIN r.conditions |-> ConditionPreimage(r.conditions[i])]
       [] OTHER            -> r[f]]

SignerPreimage(s) == Keep(s, {"key_algorithm", "key_fingerprint", "signer_id"}, {})
SignaturePolicyPreimage(sp) ==
  Keep(sp, {"type"}, Used(sp, {"required"}, <<>>) \cup (IF NumberOf(sp.threshold) > 0 THEN {"threshold"} ELSE {}))

\* canonicalPolicyForHash.
PolicyHash(p) ==
  [f \in {"default_effect", "effective_at", "policy_id", "policy_name", "policy_version", "schema", "rules"}
         \cup Used(p, {"required_attested_fields", "required_outcome_fields", "profile_tag", "signers"}, <<>>)
         \cup Used(p, {"signature_policy"}, Nil) |->
     CASE f = "rules"            -> [i \in DOMAIN p.rules |-> RulePreimage(p.rules[i])]
       [] f = "signers"          -> [i \in DOMAIN p.signers |-> SignerPreimage(p.signers[i])]
       [] f = "signature_policy" -> SignaturePolicyPreimage(p.signature_policy)
       [] OTHER                  -> p[f]]

\* FromDocument: the texts that have a policy hash at all.
FromDocument(text) == CheckStrict(text, PolicyType) /\ Validate(Policy(text))
=============================================================================
