----------------------------- MODULE StrictJson -----------------------------
(***************************************************************************)
(* The strict reading of a JSON text.  A value is a scalar, a list or an   *)
(* object whose members come in order; a key is a name with its spelling,  *)
(* exact or a case variant, so two keys are equal under case folding when  *)
(* their names are.  A scalar is plain when its literal is the only one of *)
(* its value: a number in canonical form, a string without the text two    *)
(* readers decode differently.  A type says what is modelled where; a      *)
(* policy's nests six levels deep, so what the source does by recursion is *)
(* done level by level: the operator of a level takes that of the next.    *)
(***************************************************************************)
EXTENDS Naturals, Sequences, SequencesExt, TLC

CONSTANT Nil \* a pointer to nothing

\* Values.
Scalar(v) == [is |-> "scalar", value |-> v, plain |-> TRUE]
List(items) == [is |-> "list", items |-> items]
Member(name, v) == [name |-> name, exact |-> TRUE, value |-> v]
Object(members) == [is |-> "object", members |-> members]
\* A text: its value, and whether anything follows it.
Text(root) == [root |-> root, trailing |-> FALSE]

\* Types.  `among` is what a rewrite may put in a scalar's place.
ScalarType(zero, among) == [kind |-> "scalar", zero |-> zero, among |-> among]
StructType(fields) == [kind |-> "struct", fields |-> fields]
PointerType(to) == [kind |-> "pointer", to |-> to]
ListType(of) == [kind |-> "list", of |-> of]
\* Free-form keys with scalar values.
MapType(of) == [kind |-> "map", of |-> of]

Elem(t) == IF t.kind = "pointer" THEN t.to ELSE t

(***************************************************************************)
(* CheckStrict                                                             *)
(***************************************************************************)
\* Mutant: a key may appear again, spelled the same.
NoKeyTwiceAnySpelling(members) ==
  \A i, j \in DOMAIN members :
    (i # j /\ members[i].name = members[j].name) => members[i].exact = members[j].exact

NoKeyTwice(members) ==
  \A i, j \in DOMAIN members : i # j => members[i].name # members[j].name

Modelled(m, t) == t.kind = "map" \/ (m.exact /\ m.name \in DOMAIN t.fields)
TypeOfMember(m, t) == IF t.kind = "map" THEN t.of ELSE t.fields[m.name]

\* walkStrict, with checkStringText and checkCanonicalNumber in `plain`:
\* Walk is its call on what is inside.
WalkInto(Walk(_, _), v, t) ==
  CASE v.is = "scalar" -> v.plain
    [] v.is = "list"   -> \A i \in DOMAIN v.items : Walk(v.items[i], t.of)
    [] OTHER ->
         /\ NoKeyTwice(v.members)
         /\ \A i \in DOMAIN v.members :
              /\ Modelled(v.members[i], Elem(t))
              /\ Walk(v.members[i].value, TypeOfMember(v.members[i], Elem(t)))

Walk1(v, t) == v.plain
Walk2(v, t) == WalkInto(Walk1, v, t)
Walk3(v, t) == WalkInto(Walk2, v, t)
Walk4(v, t) == WalkInto(Walk3, v, t)
Walk5(v, t) == WalkInto(Walk4, v, t)
Walk6(v, t) == WalkInto(Walk5, v, t)
WalkStrict(v, t) == WalkInto(Walk6, v, t)

CheckStrict(text, t) == WalkStrict(text.root, t) /\ ~text.trailing

(***************************************************************************)
(* Readers                                                                 *)
(***************************************************************************)
\* The places of a key, and the first and the last of some places.
Named(members, f) == {i \in DOMAIN members : members[i].name = f}
FirstOf(places) == CHOOSE i \in places : \A j \in places : j = i \/ i < j
LastOf(places) == CHOOSE i \in places : \A j \in places : j = i \/ j < i

Zero(Read(_, _), t) ==
  CASE t.kind = "scalar"          -> t.zero
    [] t.kind = "struct"          -> Read(Object(<<>>), t)
    [] t.kind = "pointer"         -> Nil
    [] t.kind \in {"list", "map"} -> <<>>

\* json.Unmarshal: a key matches a field whatever its case, the last one
\* wins, a missing one leaves the zero value.
ReadInto(Read(_, _), v, t) ==
  CASE v.is = "scalar" -> v.value
    [] v.is = "list"   -> [i \in DOMAIN v.items |-> Read(v.items[i], t.of)]
    [] v.is = "object" /\ Elem(t).kind = "map" -> v.members
    [] OTHER ->
         [f \in DOMAIN Elem(t).fields |->
            IF Named(v.members, f) = {} THEN Zero(Read, Elem(t).fields[f])
            ELSE Read(v.members[LastOf(Named(v.members, f))].value, Elem(t).fields[f])]

Read1(v, t) == v.value
Read2(v, t) == ReadInto(Read1, v, t)
Read3(v, t) == ReadInto(Read2, v, t)
Read4(v, t) == ReadInto(Read3, v, t)
Read5(v, t) == ReadInto(Read4, v, t)
Read6(v, t) == ReadInto(Read5, v, t)
GoRead(v, t) == ReadInto(Read6, v, t)

\* How other readers differ: case, which of two keys, literals kept as they
\* are written, keys shown that the verifier does not model.
Readers == [folds : BOOLEAN, first : BOOLEAN, literal : BOOLEAN, open : BOOLEAN]
GoReader == [folds |-> TRUE, first |-> FALSE, literal |-> FALSE, open |-> FALSE]

Key(m) == <<m.name, m.exact>>
Pick(reader, places) == IF reader.first THEN FirstOf(places) ELSE LastOf(places)

SeenScalar(reader, v) == [value |-> v.value, otherwise |-> reader.literal /\ ~v.plain]

\* The keys of an object a reader may be asked for, the places it finds one
\* at, and the keys it shows besides.
KeysOf(members, t) ==
  IF Elem(t).kind = "map" THEN {Key(members[i]) : i \in DOMAIN members}
  ELSE (DOMAIN Elem(t).fields) \X {TRUE}
PlacesOf(reader, members, k) ==
  {i \in DOMAIN members : members[i].name = k[1] /\ (members[i].exact = k[2] \/ reader.folds)}
OtherKeys(reader, members, t) ==
  IF ~reader.open THEN {}
  ELSE {Key(members[i]) : i \in {i \in DOMAIN members : ~Modelled(members[i], Elem(t))}}

\* What a reader sees of a text, in one form for all of them.
SeenInto(Seen(_, _, _), reader, v, t) ==
  CASE v.is = "scalar" -> SeenScalar(reader, v)
    [] v.is = "list"   -> [i \in DOMAIN v.items |-> Seen(reader, v.items[i], t.of)]
    [] OTHER ->
         LET at(k)     == PlacesOf(reader, v.members, k)
             typ(name) == IF Elem(t).kind = "map" THEN Elem(t).of ELSE Elem(t).fields[name]
         IN [fields |-> [k \in {k \in KeysOf(v.members, t) : at(k) # {}} |->
               Seen(reader, v.members[Pick(reader, at(k))].value, typ(k[1]))],
             others |-> OtherKeys(reader, v.members, t)]

Seen1(reader, v, t) == SeenScalar(reader, v)
Seen2(reader, v, t) == SeenInto(Seen1, reader, v, t)
Seen3(reader, v, t) == SeenInto(Seen2, reader, v, t)
Seen4(reader, v, t) == SeenInto(Seen3, reader, v, t)
Seen5(reader, v, t) == SeenInto(Seen4, reader, v, t)
Seen6(reader, v, t) == SeenInto(Seen5, reader, v, t)
Seen(reader, v, t) == SeenInto(Seen6, reader, v, t)

SeenText(reader, text, t) ==
  [value |-> Seen(reader, text.root, t), more |-> reader.open /\ text.trailing]
=============================================================================
