---------------------------- MODULE PolicyTypes ----------------------------
(***************************************************************************)
(* The fields of a policy, as policyhash and psleval both declare them.    *)
(* Texts are sequences of symbols, the empty one <<>>; a word that is only *)
(* compared whole is one symbol.  A number is its decimal digits.          *)
(***************************************************************************)
EXTENDS StrictJson, Integers

CONSTANT Among \* what a rewrite may put in each place

Word(w) == <<w>>
Str(place) == ScalarType(<<>>, Among[place])
Num(place) == ScalarType(<<"0">>, Among[place])
Flag == ScalarType(Word("false"), {Word("false"), Word("true")})

Digits == <<"0", "1", "2", "3", "4", "5", "6", "7", "8", "9">>
DigitOf(c) == (CHOOSE i \in DOMAIN Digits : Digits[i] = c) - 1
NumberOf(digits) == FoldLeft(LAMBDA n, c : 10 * n + DigitOf(c), 0, digits)

Strs(place) == ListType(Str(place))

MatcherType ==
  StructType([operator |-> Str("operator"), value |-> Str("id"), values |-> Strs("id")])
SubjectType ==
  StructType([type |-> Str("subject type"), id_match |-> MatcherType,
              role_match |-> PointerType(MatcherType)])
VerbType == StructType([match |-> MatcherType])
ObjectType ==
  StructType([type |-> Str("object type"), id_match |-> MatcherType,
              classification_max |-> Str("level"), classification_min |-> Str("level")])
ConditionType ==
  StructType([type |-> Str("condition type"), max_per_window |-> Num("count"),
              window_seconds |-> Num("count"), start_utc |-> Str("time"), end_utc |-> Str("time"),
              required |-> Flag, seconds |-> Num("count"), role |-> Str("role")])
RuleType ==
  StructType([rule_id |-> Str("rule"), rule_name |-> Str("name"), effect |-> Str("effect"),
              subject |-> SubjectType, verb |-> VerbType, object |-> ObjectType,
              conditions |-> ListType(ConditionType), priority |-> Num("count"),
              reason_code |-> Str("name")])

SignatureType ==
  StructType([signer_id |-> Str("name"), key_algorithm |-> Str("name"), key_fingerprint |-> Str("name"),
              signature_base64 |-> Str("name"), signed_at |-> Str("name")])
SignaturePolicyType ==
  StructType([type |-> Str("name"), threshold |-> Num("count"), required |-> Strs("name")])
PolicyType ==
  StructType([schema |-> Str("schema"), policy_id |-> Str("name"), policy_name |-> Str("name"),
              policy_version |-> Str("name"), effective_at |-> Str("name"),
              default_effect |-> Str("effect"), rules |-> ListType(RuleType),
              metadata |-> MapType(Str("name")), tags |-> Strs("name"),
              required_attested_fields |-> Strs("name"), required_outcome_fields |-> Strs("name"),
              profile_tag |-> Str("name"), signature_policy |-> PointerType(SignaturePolicyType),
              signers |-> ListType(SignatureType)])
=============================================================================
