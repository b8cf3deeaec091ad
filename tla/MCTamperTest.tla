---------------------------- MODULE MCTamperTest ----------------------------
(***************************************************************************)
(* An instance of TamperTest for TLC: a record cut down to one field of    *)
(* each kind the test tells apart, whose copies, gates, lists and hashes   *)
(* are those of boundcopies.go, with everything the checks may bind.       *)
(***************************************************************************)
EXTENDS TamperTest

Text(w) == <<w>>

\* The times a record may carry, and the window in which the review's hash
\* was not written into the execution ids.
TimeOf == (Text("5") :> 5) @@ (<<"5", "+1">> :> 6) @@ (Text("4") :> 4)
InPiaWindow == {v \in DOMAIN TimeOf :
                  TimeOf[v] \notin OutsideWindows({[from |-> 2, to |-> 4]}, 4 .. 6)}
OutsidePia == DOMAIN TimeOf \ InPiaWindow
ReviewRan == {Text("ran"), <<"ran", "x">>, <<"ran", "+1">>}

ReviewOn == ("outcome" :> ReviewRan) @@ ("time" :> OutsidePia)
Always == [f \in {} |-> {}]

Ungated(fields) == [reads |-> [p \in {Field(f) : f \in fields} |-> Always], gates |-> {}]
ReviewHash ==
  [reads |-> [p \in {Field("pia"), Item("ids", 1), Item("steps", 1)} |-> ReviewOn],
   gates |-> {[path |-> "outcome", off |-> Text("skipped"), when |-> ReviewOn],
              [path |-> "time", off |-> Text("4"), when |-> ReviewOn]}]

MCCopyGroups == {ReviewHash, Ungated({"decision", "context"}), Ungated({"aerHash", "vfaHash"})}
MCListGroups == {[lists |-> {"ids", "steps"}, extras |-> 1 :> {Field("pia")}]}

MCFieldForm ==
  [f \in {"manifest"} |-> "needed"] @@ [f \in {"time"} |-> "number"]
  @@ [f \in {"aerHash", "vfaHash", "bundleHash"} |-> "hash"]
  @@ [f \in {"clock"} |-> "clock"] @@ [f \in {"issued"} |-> "typed"]
  @@ [f \in {"decision", "context", "pia", "outcome"} |-> "text"]

Blank ==
  [at |-> [f \in DOMAIN MCFieldForm |-> Absent],
   lists |-> [l \in {"ids", "steps"} |-> Absent], unknown |-> FALSE]

Sealed(r, covers) ==
  LET seal(s) == [s EXCEPT !.at = [f \in DOMAIN s.at |->
                    IF f \in DOMAIN covers THEN HashOf(s, covers, f) ELSE s.at[f]]]
  IN seal(seal(r))

\* A bundle: the AER's hash and its copy, and the bundle hash over both.
BundleCovers ==
  ("aerHash" :> {"decision", "ids"}) @@ ("bundleHash" :> {"aerHash", "vfaHash", "context", "issued", "steps"})
BundleFields(issued) ==
  Sealed([Blank EXCEPT
    !.at = [f \in DOMAIN @ |-> CASE f \in {"decision", "context"} -> Text("go")
                                 [] f = "pia"      -> Text("id")
                                 [] f = "outcome"  -> Text("ran")
                                 [] f = "time"     -> Text("5")
                                 [] f = "manifest" -> Text("m")
                                 [] f = "clock"    -> Text("c")
                                 [] f = "issued"   -> issued
                                 [] OTHER          -> Absent],
    !.lists = [l \in DOMAIN @ |-> <<Text("id"), Text("id2")>>]], BundleCovers)
\* The AER hash's copy holds the same value.
Bundle(issued) ==
  LET r == BundleFields(issued)
      s == [r EXCEPT !.at["vfaHash"] = r.at["aerHash"]]
  IN [s EXCEPT !.at["bundleHash"] = HashOf(s, BundleCovers, "bundleHash")]

\* A receipt: one hash over its fields, no copies.
ReceiptCovers == "bundleHash" :> {"decision", "issued", "manifest"}
Receipt ==
  Sealed([Blank EXCEPT !.at = [f \in DOMAIN @ |->
    CASE f \in {"decision", "issued", "manifest"} -> Text("v")
      [] f = "time" -> Text("5") [] OTHER -> Absent]], ReceiptCovers)

\* What the log's entries, AMD's report, the actor's signature and the checks
\* of no group bind.  The ids are bound wherever the review's hash is: the
\* entry and AMD's report commit to the execution record, which lists them.
Binds(first, complete, amd, actor, other) ==
  ("first entry" :> first) @@ ("complete entry" :> complete) @@ ("entry signer" :> {"time"})
  @@ ("AMD" :> amd) @@ ("actor" :> actor) @@ (Unattributed :> other)

BundleTest(issued, binds, recompute) ==
  [original |-> Bundle(issued), covers |-> BundleCovers, binds |-> binds,
   kind |-> "bundle", recompute |-> recompute]

Entry == {"outcome", "clock", "manifest", "aerHash", "vfaHash"}
Whole == Entry \cup {"bundleHash", "pia", "steps", "ids", "decision", "context", "issued"}

BundleTests ==
  {BundleTest(Text("i"), Binds(first, complete, amd, actor, other), TRUE) :
     first \in {Entry, Entry \ {"outcome"}, Entry \ {"clock", "manifest"}, Entry \ {"aerHash"}, {}},
     complete \in {{}, {"bundleHash"}, Whole},
     amd \in {{}, {"ids", "decision"}, {"ids", "steps", "pia"}},
     actor \in {{}, {"aerHash", "issued"}},
     other \in {{}, {"outcome"}}}
  \cup {BundleTest(issued, Binds(first, {}, {}, {"aerHash"}, {}), recompute) :
          issued \in {Empty, Text("i"), Absent}, first \in {Entry, {}}, recompute \in BOOLEAN}

ReceiptTests ==
  {[original |-> Receipt, covers |-> ReceiptCovers, kind |-> "receipt", recompute |-> recompute,
    binds |-> ("receipt entry" :> entry) @@ ("entry signer" :> {"time"})] :
     entry \in {{}, {"bundleHash"}, {"decision", "bundleHash"}}, recompute \in BOOLEAN}

\* A record whose copies disagree does not verify.
Broken == {[t EXCEPT !.original.at["context"] = Text("other")] :
             t \in {BundleTest(Text("i"), Binds(Entry, {}, {}, {}, {}), TRUE)}}

MCTests == BundleTests \cup ReceiptTests \cup Broken
=============================================================================
