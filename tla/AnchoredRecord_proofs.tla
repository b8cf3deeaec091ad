----------------------- MODULE AnchoredRecord_proofs -----------------------
(***************************************************************************)
(* Theorems about AnchoredRecord, for every set of submissions, keys,      *)
(* times and leaf forms.  Nothing here depends on how the reader's copy    *)
(* came about: every statement about it follows from what the log holds.   *)
(***************************************************************************)
EXTENDS AnchoredRecord, TLAPS

(***************************************************************************)
(* Growing sequences.                                                      *)
(***************************************************************************)
\* An appended element takes the next place and moves no other.
LEMMA AppendKeeps ==
  ASSUME NEW s, NEW e, \E S : s \in Seq(S)
  PROVE  /\ \E S : Append(s, e) \in Seq(S)
         /\ Len(s) \in Nat
         /\ DOMAIN s = 1 .. Len(s)
         /\ DOMAIN Append(s, e) = 1 .. Len(s) + 1
         /\ Append(s, e)[Len(s) + 1] = e
         /\ \A n \in 1 .. Len(s) : Append(s, e)[n] = s[n]
<1>1. PICK S : s \in Seq(S)
  OBVIOUS
<1>2. s \in Seq(S \cup {e})
  BY <1>1
<1>3. Append(s, e) \in Seq(S \cup {e})
  BY <1>2
<1>. QED
  BY <1>2, <1>3

(***************************************************************************)
(* What holds of the sealed runs and of the log.                           *)
(***************************************************************************)
Fields == {"env", "aer", "sections", "desc", "scaffold", "actor", "nonce", "table",
           "tableDigest", "sealingDigests", "pote", "run", "record"}

LogIsSequence == \E S : log \in Seq(S)

\* SealedAsLogged, on any log.
SealedOn(d, l) ==
  /\ d.run.onLog /\ Logged(d.run, l)
  /\ d.run.leaf = Leaf(d)
  /\ d.pote = PoteOf(d.run.number, d.run.time)
  /\ d.run.time \in 1 .. MaxTime /\ LeafForm(d) \in FormsAt[d.run.time]
  /\ d.record # None =>
       Logged(d.record, l) /\ d.record.leaf = BundleLeaf(d.env, RecordDigest(d))

\* What holds however often an entry is logged again.
RunsOnLog ==
  /\ now \in 1 .. MaxTime
  /\ LogIsSequence
  /\ \A d \in runs : DOMAIN d = Fields
  /\ \A d \in runs : SealedOn(d, log)

\* None stands for what is absent: it is no record, no anchor, no
\* signature and no time.
NoneIsNothing ==
  /\ "run" \notin DOMAIN None
  /\ "onLog" \notin DOMAIN None
  /\ 1 \notin DOMAIN None
  /\ None \notin Int

----------------------------------------------------------------------------
(* Leaves. *)

AllForms == OldForms \cup TableForms

\* verifyLeafBinding recomputes a leaf of one of six forms, and the leaf
\* names its form.
LEMMA LeafTag ==
  ASSUME NEW d
  PROVE  LeafForm(d) \in AllForms /\ Leaf(d)[1] = LeafForm(d)
<1>1. LeafForm(d) \in AllForms
  BY DEF LeafForm, AllForms, OldForms, TableForms
<1>. QED
  BY <1>1 DEF Leaf, AllForms, OldForms, TableForms

LEMMA LeafIsNoBundleLeaf ==
  ASSUME NEW d, NEW env, NEW digest
  PROVE  Leaf(d) # BundleLeaf(env, digest)
BY LeafTag DEF BundleLeaf, AllForms, OldForms, TableForms

LEMMA UnloggedForm ==
  ASSUME NEW s, NEW clock, NEW form \in AllForms
  PROVE  LeafForm(Unlogged(s, clock, form)) = form
<1>. DEFINE d == Unlogged(s, clock, form)
            t == TableOf(s, clock, form)
<1>1. d.table = t /\ d.tableDigest = (IF form \in TableForms THEN t ELSE None)
      /\ d.sealingDigests = (form \notin {"v1", "v2"}) /\ d.nonce = (IF form = "v1" THEN 0 ELSE 1)
  BY DEF Unlogged
<1>2. DOMAIN t = (CASE form = "v7" -> PreAnchorNamesV3
                    [] form = "v6" -> PreAnchorNamesV2
                    [] form = "v5" -> PreAnchorNames
                    [] OTHER -> {})
  BY DEF TableOf
<1>3. CASE form \in TableForms
  <2>1. form = "v7" => WindowRow \in DOMAIN t
    BY <1>2 DEF PreAnchorNamesV3
  <2>2. form = "v6" => RequirementRow \in DOMAIN t /\ WindowRow \notin DOMAIN t
    BY <1>2 DEF PreAnchorNamesV2, PreAnchorNames, RequirementRow, WindowRow
  <2>3. form = "v5" => /\ RequirementRow \notin DOMAIN t /\ WindowRow \notin DOMAIN t
                       /\ "envelope_id" \in DOMAIN t
    BY <1>2 DEF PreAnchorNames, RequirementRow, WindowRow
  <2>. QED
    BY <1>1, <1>3, <2>1, <2>2, <2>3
       DEF LeafForm, TableForms, TableSealsAnchoringWindow, TableRequiresCompleteRecordAnchor
<1>4. CASE form \in OldForms
  <2>1. DOMAIN t = {} /\ d.tableDigest = None
    BY <1>1, <1>2, <1>4 DEF OldForms, TableForms
  <2>2. /\ ~TableSealsAnchoringWindow(d.table)
        /\ ~TableRequiresCompleteRecordAnchor(d.table)
    BY <1>1, <2>1 DEF TableSealsAnchoringWindow, TableRequiresCompleteRecordAnchor
  <2>3. LeafForm(d) = IF d.sealingDigests THEN "v3" ELSE IF d.nonce # 0 THEN "v2" ELSE "v1"
    BY <1>1, <2>1, <2>2 DEF LeafForm
  <2>4. CASE form = "v3"
    <3>1. d.sealingDigests = TRUE
      BY <1>1, <2>4
    <3>. QED
      BY <2>3, <2>4, <3>1
  <2>5. CASE form = "v2"
    <3>1. d.sealingDigests = FALSE /\ d.nonce = 1
      <4>1. (form \notin {"v1", "v2"}) = FALSE /\ (form = "v1") = FALSE
        BY <2>5
      <4>. QED
        BY <1>1, <4>1
    <3>. QED
      BY <2>3, <2>5, <3>1
  <2>6. CASE form = "v1"
    <3>1. d.sealingDigests = FALSE /\ d.nonce = 0
      BY <1>1, <2>6
    <3>. QED
      BY <2>3, <2>6, <3>1
  <2>. QED
    BY <1>4, <2>4, <2>5, <2>6 DEF OldForms
<1>. QED
  BY <1>3, <1>4 DEF AllForms

----------------------------------------------------------------------------
(* The records of runs stay on the log. *)

\* An entry added to the log leaves what was said of a record true.
LEMMA RecordStaysOnLog ==
  ASSUME NEW d, NEW e, NEW l, \E S : l \in Seq(S), SealedOn(d, l)
  PROVE  SealedOn(d, Append(l, e))
<1>1. Logged(d.run, Append(l, e))
  BY AppendKeeps DEF SealedOn, Logged
<1>2. d.record # None => Logged(d.record, Append(l, e))
  BY AppendKeeps DEF SealedOn, Logged
<1>. QED
  BY <1>1, <1>2 DEF SealedOn

LEMMA LogGrows ==
  ASSUME RunsOnLog, NEW e, log' = Append(log, e), UNCHANGED <<now, runs>>
  PROVE  RunsOnLog'
<1>1. LogIsSequence'
  BY AppendKeeps DEF RunsOnLog, LogIsSequence
<1>2. ASSUME NEW d \in runs
      PROVE  SealedOn(d, log')
    BY RecordStaysOnLog DEF RunsOnLog, LogIsSequence
<1>. QED
  BY <1>1, <1>2 DEF RunsOnLog

\* A run's entry: the record that joins is the one the entry is over.
LEMMA StartRunStep ==
  ASSUME RunsOnLog, NEW s \in Submissions, NEW form \in AllForms, StartRun(s, form)
  PROVE  RunsOnLog'
<1>. DEFINE u == Unlogged(s, now, form)
            e == Entry(Leaf(u), KeyAt[now], now)
            n == Len(log) + 1
            a == AnchorAt(n, e)
            d == [u EXCEPT !.run = a, !.pote = PoteOf(n, now)]
<1>1. /\ log' = Append(log, e) /\ runs' = runs \cup {d} /\ now' = now
      /\ form \in FormsAt[now]
  BY DEF StartRun, LogEntry
<1>2. LogIsSequence'
  BY <1>1, AppendKeeps DEF RunsOnLog, LogIsSequence
<1>3. DOMAIN u = Fields /\ u.record = None
  BY DEF Unlogged, Fields
<1>4. /\ DOMAIN d = Fields
      /\ d.run = a /\ d.pote = PoteOf(n, now) /\ d.record = None
      /\ d.env = u.env /\ d.aer = u.aer /\ d.nonce = u.nonce /\ d.table = u.table
      /\ d.actor = u.actor /\ d.scaffold = u.scaffold /\ d.tableDigest = u.tableDigest
      /\ d.sealingDigests = u.sealingDigests
  BY <1>3 DEF Fields
<1>5. LeafForm(d) = LeafForm(u) /\ Leaf(d) = Leaf(u)
  BY <1>4 DEF LeafForm, Leaf
<1>6. SealedOn(d, log')
  <2>1. a = [onLog |-> TRUE, number |-> n, leaf |-> Leaf(u), signer |-> KeyAt[now], time |-> now]
    BY DEF AnchorAt, Entry
  <2>2. Logged(a, log')
    BY <1>1, <2>1, AppendKeeps DEF Logged, Entry, RunsOnLog, LogIsSequence
  <2>3. LeafForm(d) \in FormsAt[now]
    BY <1>1, <1>5, UnloggedForm
  <2>. QED
    BY <1>4, <1>5, <2>1, <2>2, <2>3 DEF SealedOn, RunsOnLog
<1>7. ASSUME NEW r \in runs
      PROVE  SealedOn(r, log')
    BY <1>1, RecordStaysOnLog DEF RunsOnLog, LogIsSequence
<1>. QED
  BY <1>1, <1>2, <1>4, <1>6, <1>7 DEF RunsOnLog

\* What a record says is not changed by the proof of its second entry.
LEMMA RecordProofKeepsContent ==
  ASSUME NEW d, NEW a, DOMAIN d = Fields
  PROVE  LET f == [d EXCEPT !.record = a]
         IN /\ DOMAIN f = Fields /\ f.record = a /\ f.run = d.run /\ f.pote = d.pote
            /\ f.env = d.env
            /\ LeafForm(f) = LeafForm(d) /\ Leaf(f) = Leaf(d)
            /\ RecordDigest(f) = RecordDigest(d)
<1>. DEFINE f == [d EXCEPT !.record = a]
<1>1. /\ DOMAIN f = Fields /\ f.record = a
      /\ \A x \in Fields \ {"record"} : f[x] = d[x]
  BY DEF Fields
<1>2. /\ f.env = d.env /\ f.aer = d.aer /\ f.sections = d.sections /\ f.desc = d.desc
      /\ f.scaffold = d.scaffold /\ f.actor = d.actor /\ f.nonce = d.nonce
      /\ f.table = d.table /\ f.tableDigest = d.tableDigest
      /\ f.sealingDigests = d.sealingDigests /\ f.pote = d.pote /\ f.run = d.run
  BY <1>1 DEF Fields
<1>3. LeafForm(f) = LeafForm(d)
  BY <1>2 DEF LeafForm
<1>4. Leaf(f) = Leaf(d)
  BY <1>2, <1>3 DEF Leaf
<1>5. RecordDigest(f) = RecordDigest(d)
  BY <1>2 DEF RecordDigest
<1>. QED
  BY <1>1, <1>2, <1>3, <1>4, <1>5

\* A run's second entry: the record it is over is the one it joins.
LEMMA SealRecordStep ==
  ASSUME RunsOnLog, NEW d \in runs, SealRecord(d)
  PROVE  RunsOnLog'
<1>. DEFINE e == Entry(BundleLeaf(d.env, RecordDigest(d)), KeyAt[now], now)
            n == Len(log) + 1
            a == [onLog |-> TRUE, number |-> n, leaf |-> AnchorAt(n, e).leaf,
                  signer |-> AnchorAt(n, e).signer, time |-> AnchorAt(n, e).time,
                  digest |-> RecordDigest(d)]
            f == [d EXCEPT !.record = a]
<1>1. /\ log' = Append(log, e) /\ runs' = (runs \ {d}) \cup {f} /\ now' = now
  BY DEF SealRecord, LogEntry, AnchorAt, Entry
<1>2. LogIsSequence'
  BY <1>1, AppendKeeps DEF RunsOnLog, LogIsSequence
<1>3. /\ DOMAIN f = Fields /\ f.record = a /\ f.run = d.run /\ f.pote = d.pote
      /\ f.env = d.env
      /\ LeafForm(f) = LeafForm(d) /\ Leaf(f) = Leaf(d)
      /\ RecordDigest(f) = RecordDigest(d)
  BY RecordProofKeepsContent DEF RunsOnLog
<1>4. a.leaf = BundleLeaf(d.env, RecordDigest(d)) /\ Logged(a, log')
  BY <1>1, AppendKeeps DEF Logged, Entry, AnchorAt, RunsOnLog, LogIsSequence
<1>5. ASSUME NEW r \in runs
      PROVE  SealedOn(r, log')
    BY <1>1, RecordStaysOnLog DEF RunsOnLog, LogIsSequence
<1>6. SealedOn(f, log')
  BY <1>3, <1>4, <1>5 DEF SealedOn
<1>. QED
  BY <1>1, <1>2, <1>3, <1>5, <1>6 DEF RunsOnLog

\* Every sealed record's proofs are on the log, over that record.
THEOREM RunsStayOnLog == Spec => []RunsOnLog
<1>1. Init => RunsOnLog
  BY TimeAssumption DEF Init, RunsOnLog, LogIsSequence
<1>2. RunsOnLog /\ [Next]_vars => RunsOnLog'
  <2>. SUFFICES ASSUME RunsOnLog, [Next]_vars
                PROVE  RunsOnLog'
    OBVIOUS
  <2>1. CASE \E s \in Submissions, form \in OldForms \cup TableForms : StartRun(s, form)
    BY <2>1, StartRunStep DEF AllForms
  <2>2. CASE \E d \in runs : SealRecord(d)
    BY <2>2, SealRecordStep
  <2>3. CASE \E id \in AttestIds, digest \in Aers : Attest(id, digest)
    BY <2>3, LogGrows DEF Attest, LogEntry
  <2>4. CASE Tick
    BY <2>4, TimeAssumption DEF Tick, RunsOnLog, LogIsSequence
  <2>5. CASE \E leaf : LogAgain(leaf)
    BY <2>5, LogGrows DEF LogAgain, LogEntry
  <2>6. CASE UNCHANGED <<now, log, runs>>
    BY <2>6 DEF RunsOnLog, LogIsSequence
  <2>7. (\E d \in runs : Take(d)) \/ Rewrite \/ UNCHANGED vars => UNCHANGED <<now, log, runs>>
    BY DEF Take, Rewrite, ChangeSection, ChangeTable, ChangeAnchor, Change, vars
  <2>. QED
    BY <2>1, <2>2, <2>3, <2>4, <2>5, <2>6, <2>7 DEF Next
<1>. QED
  BY <1>1, <1>2, PTL DEF Spec

----------------------------------------------------------------------------
(* What a verdict says of the copy it is about. *)

\* An anchored tier: the checks the roll-up could not do without.
LEMMA AnchoredTier ==
  ASSUME NEW d, NEW l,
         TierOf(d, l) \in {"VERIFIED_ANCHORED", "ANCHORED_PARTIAL_COVERAGE"}
  PROVE  /\ TableRequiresCompleteRecordAnchor(d.table) =>
              (d.run.onLog => RecordAnchorOutcomeOf(d, l) = "logged")
         /\ RekorOutcome(d, l) = "passed" /\ LeafOutcome(d) = "passed"
         /\ IdentityOutcome(d) # "failed" /\ PreAnchorOutcome(d) # "failed"
         /\ EntryAuthOutcome(d, l) # "failed"
         /\ PoteAgrees(d)
         /\ TierOf(d, l) = "VERIFIED_ANCHORED" =>
              PreAnchorOutcome(d) = "passed" /\ RecordAnchorOutcomeOf(d, l) = "logged"
         /\ TierOf(d, l) = "ANCHORED_PARTIAL_COVERAGE" =>
              ~(PreAnchorOutcome(d) = "passed" /\ RecordAnchorOutcomeOf(d, l) = "logged")
<1>. DEFINE c == ChecksOfRecord(d, l)
<1>1. /\ c.rekor = RekorOutcome(d, l) /\ c.leaf = LeafOutcome(d)
      /\ c.identity = IdentityOutcome(d) /\ c.preAnchor = PreAnchorOutcome(d)
      /\ c.entryAuth = EntryAuthOutcome(d, l) /\ c.cross = PoteAgrees(d)
      /\ c.recordAnchor = RecordAnchorOutcomeOf(d, l)
      /\ c.onLog = d.run.onLog
      /\ c.requires = TableRequiresCompleteRecordAnchor(d.table)
  BY DEF ChecksOfRecord
<1>2. VerdictTier(c, RollUp(c, TRUE)) \in {"VERIFIED_ANCHORED", "ANCHORED_PARTIAL_COVERAGE"}
  BY DEF TierOf
<1>3. RollUp(c, TRUE) /\ Anchored(c)
  BY <1>2 DEF VerdictTier, CompleteRecordAnchored
<1>4. /\ c.identity # "failed" /\ c.preAnchor # "failed" /\ c.entryAuth # "failed" /\ c.cross
  BY <1>3 DEF RollUp, PassedExceptRequirement, PerformedChecks
<1>5. /\ TierOf(d, l) = "VERIFIED_ANCHORED" => CompleteRecordAnchored(c, RollUp(c, TRUE))
      /\ TierOf(d, l) = "ANCHORED_PARTIAL_COVERAGE" => ~CompleteRecordAnchored(c, RollUp(c, TRUE))
  BY <1>3 DEF TierOf, VerdictTier
<1>6. c.requires => (c.onLog => c.recordAnchor = "logged")
  BY <1>3 DEF RollUp, RequirementSealed, RequirementSatisfied
<1>. QED
  BY <1>1, <1>3, <1>4, <1>5, <1>6 DEF Anchored, CompleteRecordAnchored

\* The entry an anchored copy names holds the leaf of the copy.
LEMMA RunEntry ==
  ASSUME NEW d, NEW l, RekorOutcome(d, l) = "passed", LeafOutcome(d) = "passed"
  PROVE  /\ d.run.onLog /\ Logged(d.run, l) /\ d.run.leaf = Leaf(d)
         /\ l[d.run.number].leaf = Leaf(d)
BY DEF RekorOutcome, LeafOutcome, Logged

LEMMA SameLeafSameForm ==
  ASSUME NEW d, NEW e, Leaf(d) = Leaf(e)
  PROVE  /\ LeafForm(d) = LeafForm(e)
         /\ LeafForm(d) \in TableForms => d.table = e.table
<1>1. LeafForm(d) = LeafForm(e)
  BY LeafTag
<1>2. ASSUME LeafForm(d) \in TableForms
      PROVE  d.table = e.table
  <2>1. Leaf(d)[5] = d.table
    BY <1>2 DEF Leaf, TableForms
  <2>2. Leaf(e)[5] = e.table
    BY <1>1, <1>2 DEF Leaf, TableForms
  <2>. QED
    BY <2>1, <2>2
<1>. QED
  BY <1>1, <1>2

(***************************************************************************)
(* The requirement outlives every change to the copy: the entry of the run *)
(* fixes the leaf, the leaf its form and table, and a table of form v6 or  *)
(* v7 holds the row that turns a missing second entry into a failure       *)
(* (verifyLeafBinding and verifyCompleteRecordRequirement together).       *)
(***************************************************************************)
LEMMA PartialHasNoRequirement ==
  ASSUME RunsOnLog
  PROVE  RequirementCannotBeRemoved
<1>. SUFFICES ASSUME TierOf(doc, log) = "ANCHORED_PARTIAL_COVERAGE",
                     NEW d \in runs, d.run.number = doc.run.number,
                     LeafForm(d) \in {"v6", "v7"}
              PROVE  FALSE
  BY DEF RequirementCannotBeRemoved
<1>1. SealedOn(d, log)
  BY DEF RunsOnLog
<1>2. /\ TableRequiresCompleteRecordAnchor(doc.table) =>
           (doc.run.onLog => RecordAnchorOutcomeOf(doc, log) = "logged")
      /\ RekorOutcome(doc, log) = "passed" /\ LeafOutcome(doc) = "passed"
      /\ PreAnchorOutcome(doc) # "failed"
      /\ ~(PreAnchorOutcome(doc) = "passed" /\ RecordAnchorOutcomeOf(doc, log) = "logged")
  BY AnchoredTier
<1>3. log[doc.run.number].leaf = Leaf(doc) /\ doc.run.onLog
  BY <1>2, RunEntry
<1>4. Leaf(doc) = Leaf(d)
  BY <1>1, <1>3 DEF SealedOn, Logged
<1>5. LeafForm(doc) \in {"v6", "v7"}
  BY <1>4, SameLeafSameForm
<1>6. RequirementRow \in DOMAIN doc.table
  <2>1. CASE LeafForm(doc) = "v6"
    BY <2>1 DEF LeafForm, TableRequiresCompleteRecordAnchor
  <2>2. CASE LeafForm(doc) = "v7"
    <3>1. WindowRow \in DOMAIN doc.table
      BY <2>2 DEF LeafForm, TableSealsAnchoringWindow
    <3>2. PreAnchorOutcome(doc) = "passed"
      BY <1>2, <3>1 DEF PreAnchorOutcome
    <3>. QED
      BY <3>1, <3>2
         DEF PreAnchorOutcome, TableNames, TableSealsAnchoringWindow, PreAnchorNamesV3,
             PreAnchorNamesV2
  <2>. QED
    BY <1>5, <2>1, <2>2
<1>7. PreAnchorOutcome(doc) = "passed"
  BY <1>2, <1>6 DEF PreAnchorOutcome
<1>8. RecordAnchorOutcomeOf(doc, log) = "logged"
  BY <1>2, <1>3, <1>6 DEF TableRequiresCompleteRecordAnchor
<1>. QED
  BY <1>2, <1>7, <1>8

\* A record whose run entry was logged under leaf v6 or v7 never earns the
\* partial verdict, whatever was removed from the copy or put in its place.
THEOREM RequirementStays == Spec => []RequirementCannotBeRemoved
BY RunsStayOnLog, PartialHasNoRequirement, PTL

----------------------------------------------------------------------------
(* Under the server's key the log holds the server's entries only. *)

\* EntriesOf, on any log and records.
EntryOf(n, l, rs) ==
  \/ \E d \in rs : d.run.number = n
  \/ \E d \in rs : d.record # None /\ d.record.number = n
  \/ \E id \in AttestIds, digest \in Aers : l[n].leaf = <<"v2", id, digest, 1>>

PinnedOn(l, rs) == \A n \in DOMAIN l : l[n].signer \in PinnedKeys => EntryOf(n, l, rs)

LEMMA EntryStays ==
  ASSUME NEW l, NEW e, \E S : l \in Seq(S), NEW rs, NEW rt, PinnedOn(l, rs),
         \A d \in rs :
           \E f \in rt : f.run = d.run /\ (d.record # None => f.record = d.record),
         e.signer \in PinnedKeys => EntryOf(Len(l) + 1, Append(l, e), rt)
  PROVE  PinnedOn(Append(l, e), rt)
<1>. DEFINE m == Append(l, e)
<1>1. /\ Len(l) \in Nat /\ DOMAIN l = 1 .. Len(l) /\ DOMAIN m = 1 .. Len(l) + 1
      /\ m[Len(l) + 1] = e /\ \A n \in 1 .. Len(l) : m[n] = l[n]
  BY AppendKeeps
<1>2. ASSUME NEW n \in 1 .. Len(l), m[n].signer \in PinnedKeys
      PROVE  EntryOf(n, m, rt)
  <2>1. EntryOf(n, l, rs) /\ m[n] = l[n]
    BY <1>1, <1>2 DEF PinnedOn
  <2>. HIDE DEF m
  <2>2. CASE \E d \in rs : d.run.number = n
    BY <2>2 DEF EntryOf
  <2>3. CASE \E d \in rs : d.record # None /\ d.record.number = n
    BY <2>3 DEF EntryOf
  <2>4. CASE \E id \in AttestIds, digest \in Aers : l[n].leaf = <<"v2", id, digest, 1>>
    BY <2>1, <2>4 DEF EntryOf
  <2>. QED
    BY <2>1, <2>2, <2>3, <2>4 DEF EntryOf
<1>3. ASSUME NEW n \in DOMAIN m, m[n].signer \in PinnedKeys
      PROVE  EntryOf(n, m, rt)
  <2>1. n \in 1 .. Len(l) \/ n = Len(l) + 1
    BY <1>1
  <2>. QED
    BY <1>1, <1>2, <1>3, <2>1
<1>. QED
  BY <1>3 DEF PinnedOn

LEMMA PinnedStep ==
  ASSUME ~scope.relogs, NoneIsNothing, RunsOnLog, PinnedOn(log, runs), [Next]_vars
  PROVE  PinnedOn(log', runs')
<1>1. CASE \E s \in Submissions, form \in OldForms \cup TableForms : StartRun(s, form)
  <2>. PICK s \in Submissions, form \in AllForms : StartRun(s, form)
    BY <1>1 DEF AllForms
  <2>. DEFINE u == Unlogged(s, now, form)
              e == Entry(Leaf(u), KeyAt[now], now)
              n == Len(log) + 1
              d == [u EXCEPT !.run = AnchorAt(n, e), !.pote = PoteOf(n, now)]
  <2>1. log' = Append(log, e) /\ runs' = runs \cup {d}
    BY DEF StartRun, LogEntry
  <2>2. d.run.number = n
    BY DEF Unlogged, AnchorAt
  <2>3. EntryOf(n, log', runs')
    BY <2>1, <2>2 DEF EntryOf
  <2>. HIDE DEF d, e
  <2>. QED
    BY <2>1, <2>3, EntryStays DEF RunsOnLog, LogIsSequence
<1>2. CASE \E d \in runs : SealRecord(d)
  <2>. PICK d \in runs : SealRecord(d)
    BY <1>2
  <2>. DEFINE e == Entry(BundleLeaf(d.env, RecordDigest(d)), KeyAt[now], now)
              n == Len(log) + 1
              a == [onLog |-> TRUE, number |-> n, leaf |-> AnchorAt(n, e).leaf,
                    signer |-> AnchorAt(n, e).signer, time |-> AnchorAt(n, e).time,
                    digest |-> RecordDigest(d)]
              f == [d EXCEPT !.record = a]
  <2>1. log' = Append(log, e) /\ runs' = (runs \ {d}) \cup {f} /\ d.record = None
    BY DEF SealRecord, LogEntry, AnchorAt, Entry
  <2>2. f.run = d.run /\ f.record = a
    BY RecordProofKeepsContent DEF RunsOnLog
  <2>3. a # None
    BY DEF NoneIsNothing
  <2>4. EntryOf(n, log', runs')
    <3>1. a.number = n /\ f \in runs'
      BY <2>1
    <3>. HIDE DEF f, a
    <3>. QED
      BY <2>2, <2>3, <3>1 DEF EntryOf
  <2>5. ASSUME NEW r \in runs
        PROVE  \E x \in runs' : x.run = r.run /\ (r.record # None => x.record = r.record)
    BY <2>1, <2>2
  <2>. HIDE DEF e, f, a
  <2>. QED
    BY <2>1, <2>4, <2>5, EntryStays DEF RunsOnLog, LogIsSequence
<1>3. CASE \E id \in AttestIds, digest \in Aers : Attest(id, digest)
  <2>. PICK id \in AttestIds, digest \in Aers : Attest(id, digest)
    BY <1>3
  <2>. DEFINE e == Entry(<<"v2", id, digest, 1>>, KeyAt[now], now)
  <2>1. log' = Append(log, e) /\ runs' = runs
    BY DEF Attest, LogEntry
  <2>2. log'[Len(log) + 1].leaf = <<"v2", id, digest, 1>>
    BY <2>1, AppendKeeps DEF Entry, RunsOnLog, LogIsSequence
  <2>3. EntryOf(Len(log) + 1, log', runs')
    BY <2>2 DEF EntryOf
  <2>. HIDE DEF e
  <2>. QED
    BY <2>1, <2>3, EntryStays DEF RunsOnLog, LogIsSequence
<1>4. CASE \E leaf : LogAgain(leaf)
  <2>. PICK leaf : LogAgain(leaf)
    BY <1>4
  <2>. DEFINE e == Entry(leaf, OtherKey, now)
  <2>1. log' = Append(log, e) /\ runs' = runs
    BY DEF LogAgain, LogEntry
  <2>2. e.signer \notin PinnedKeys
    BY OtherKeyAssumption DEF Entry
  <2>. HIDE DEF e
  <2>. QED
    BY <2>1, <2>2, EntryStays DEF RunsOnLog, LogIsSequence
<1>5. CASE UNCHANGED <<log, runs>>
  BY <1>5
<1>6. Tick \/ (\E d \in runs : Take(d)) \/ Rewrite \/ UNCHANGED vars => UNCHANGED <<log, runs>>
  BY DEF Tick, Take, Rewrite, ChangeSection, ChangeTable, ChangeAnchor, Change, vars
<1>. QED
  BY <1>1, <1>2, <1>3, <1>4, <1>5, <1>6 DEF Next

LEMMA ScopeStays == [Next]_vars => scope' = scope
BY DEF Next, StartRun, SealRecord, Attest, Tick, Take, LogAgain, Rewrite, ChangeSection,
       ChangeTable, ChangeAnchor, Change, vars

PinnedInScope == ~scope.relogs => PinnedOn(log, runs)

\* Without entries logged again under the server's key, each of them is
\* one of a sealed record or of /attest.
THEOREM PinnedEntries ==
  ASSUME NoneIsNothing
  PROVE  Spec => []PinnedEntriesAreOurs
<1>1. Init => PinnedInScope
  BY DEF Init, PinnedOn, PinnedInScope
<1>2. RunsOnLog /\ PinnedInScope /\ [Next]_vars => PinnedInScope'
  BY PinnedStep, ScopeStays DEF PinnedInScope
<1>3. RunsOnLog /\ PinnedInScope => PinnedEntriesAreOurs
  <2>. SUFFICES ASSUME RunsOnLog, PinnedInScope
                PROVE  PinnedEntriesAreOurs
    OBVIOUS
  <2>1. ~scope.relogs => \A n \in DOMAIN log : log[n].signer \in PinnedKeys => EntriesOf(n)
    BY DEF PinnedInScope, PinnedOn, EntryOf, EntriesOf
  <2>2. \A d \in runs : SealedAsLogged(d)
    BY DEF RunsOnLog, SealedOn, SealedAsLogged
  <2>. QED
    BY <2>1, <2>2 DEF PinnedEntriesAreOurs
<1>. QED
  BY <1>1, <1>2, <1>3, RunsStayOnLog, PTL DEF Spec

LEMMA SealedEntries ==
  ASSUME PinnedEntriesAreOurs, NEW d \in runs
  PROVE  /\ log[d.run.number].leaf = Leaf(d) /\ log[d.run.number].time = d.run.time
         /\ d.pote = PoteOf(d.run.number, d.run.time)
         /\ d.run.time \in 1 .. MaxTime /\ LeafForm(d) \in FormsAt[d.run.time]
         /\ d.record # None =>
              log[d.record.number].leaf = BundleLeaf(d.env, RecordDigest(d))
<1>1. SealedAsLogged(d)
  BY DEF PinnedEntriesAreOurs
<1>2. d.record # None => log[d.record.number].leaf = BundleLeaf(d.env, RecordDigest(d))
  BY <1>1 DEF SealedAsLogged, Logged
<1>. QED
  BY <1>1, <1>2 DEF SealedAsLogged, Logged

(***************************************************************************)
(* The argument for the complete verdict.  The second entry is signed by   *)
(* the key of the first, so by the server; no run leaf and no /attest leaf *)
(* is in the record domain, so it is some record's, and its digest names   *)
(* that record.  The digest covers the proof section's copy of the run     *)
(* entry, whose number has to agree with the run entry shown, so the       *)
(* record's run is the run the copy shows.                                 *)
(***************************************************************************)
LEMMA CompleteIsGenuine ==
  ASSUME PinnedEntriesAreOurs
  PROVE  CompleteRecordIsGenuine
<1>. SUFFICES ASSUME ~scope.relogs, TierOf(doc, log) = "VERIFIED_ANCHORED"
              PROVE  \E d \in runs : SameContent(doc, d) /\ doc.run.number = d.run.number
  BY DEF CompleteRecordIsGenuine
<1>1. /\ RekorOutcome(doc, log) = "passed" /\ LeafOutcome(doc) = "passed"
      /\ EntryAuthOutcome(doc, log) # "failed" /\ PoteAgrees(doc)
      /\ PreAnchorOutcome(doc) = "passed" /\ RecordAnchorOutcomeOf(doc, log) = "logged"
  BY AnchoredTier
<1>2. EntryAuthOutcome(doc, log) = "passed"
  BY <1>1 DEF EntryAuthOutcome
<1>3. /\ Logged(doc.record, log)
      /\ doc.record.leaf = BundleLeaf(doc.env, RecordDigest(doc))
      /\ doc.record.signer = doc.run.signer /\ doc.run.signer \in PinnedKeys
  <2>1. SignersHold(doc, log)
    BY <1>2 DEF EntryAuthOutcome
  <2>. QED
    BY <1>1, <2>1 DEF SignersHold, RecordAnchorOutcomeOf
<1>. DEFINE n == doc.record.number
<1>4. log[n].leaf = BundleLeaf(doc.env, RecordDigest(doc)) /\ EntriesOf(n)
  BY <1>3 DEF Logged, PinnedEntriesAreOurs
<1>5. PICK d \in runs : d.record # None /\ d.record.number = n
  <2>1. ASSUME NEW e \in runs, e.run.number = n
        PROVE  FALSE
    <3>1. log[n].leaf = Leaf(e)
      BY <2>1, SealedEntries
    <3>. QED
      BY <1>4, <3>1, LeafIsNoBundleLeaf
  <2>2. ASSUME NEW id \in AttestIds, NEW digest \in Aers, log[n].leaf = <<"v2", id, digest, 1>>
        PROVE  FALSE
    BY <1>4, <2>2 DEF BundleLeaf
  <2>. QED
    BY <1>4, <2>1, <2>2 DEF EntriesOf
<1>6. SameContent(doc, d)
  <2>1. BundleLeaf(doc.env, RecordDigest(doc)) = BundleLeaf(d.env, RecordDigest(d))
    BY <1>4, <1>5, SealedEntries
  <2>. QED
    BY <2>1 DEF SameContent, BundleLeaf
<1>7. doc.run.number = d.run.number
  <2>1. doc.pote = d.pote
    <3>1. RecordDigest(doc)[10] = doc.pote /\ RecordDigest(d)[10] = d.pote
      BY DEF RecordDigest
    <3>. QED
      BY <1>6, <3>1 DEF SameContent
  <2>2. doc.pote.number = doc.run.number
    BY <1>1, RunEntry DEF PoteAgrees
  <2>3. d.pote.number = d.run.number
    <3>1. d.pote = PoteOf(d.run.number, d.run.time)
      BY SealedEntries
    <3>. QED
      BY <3>1 DEF PoteOf
  <2>. QED
    BY <2>1, <2>2, <2>3
<1>. QED
  BY <1>6, <1>7

\* README, exit code 0: a record called complete is, part for part, one the
\* server sealed, with its run entry, when nobody else holds its key.
THEOREM CompleteRecordGenuine ==
  ASSUME NoneIsNothing
  PROVE  Spec => []CompleteRecordIsGenuine
BY PinnedEntries, CompleteIsGenuine, PTL

----------------------------------------------------------------------------
(* What sealed records look like, and what is left of it on a copy. *)

AppearanceFields == Fields \ {"pote", "run", "record"}

\* A record says what the server was sent, under a leaf form of its time.
AsSubmitted(d) ==
  \E s \in Submissions, form \in FormsAt[d.run.time] :
    \A x \in AppearanceFields : d[x] = Unlogged(s, d.run.time, form)[x]

\* Both entries are the server's, one after the other.
SealedInOrder(d, t) ==
  /\ "onLog" \in DOMAIN d.run /\ d.run.time \in 1 .. t /\ d.run.signer = KeyAt[d.run.time]
  /\ d.record # None =>
       /\ LeafForm(d) \in TableForms
       /\ d.record.onLog = TRUE /\ d.record.digest = RecordDigest(d)
       /\ d.record.time \in 1 .. t /\ d.record.signer = KeyAt[d.record.time]
       /\ d.run.time <= d.record.time

RunsAsSealed == \A d \in runs : AsSubmitted(d) /\ SealedInOrder(d, now)

LogInOrder ==
  \A n \in DOMAIN log : /\ log[n].time \in 1 .. now
                        /\ log[n].signer \in PinnedKeys \cup {OtherKey}
                        /\ \A m \in 1 .. n : log[m].time <= log[n].time

IsActor(a) == a = [id |-> a.id, signature |-> a.signature, signedAt |-> a.signedAt]

\* What no change to a copy takes from it.
RecordShape(d) ==
  /\ DOMAIN d = Fields /\ d.scaffold \in BOOLEAN
  /\ IsActor(d.actor)
  /\ "onLog" \in DOMAIN d.run /\ d.run.onLog \in BOOLEAN
  /\ "clock_epoch" \in DOMAIN d.table => d.table["clock_epoch"] \in Nat

CopyShape ==
  /\ doc # None => RecordShape(doc)
  /\ doc = None => edits = 0

RecordsInOrder == RunsOnLog /\ RunsAsSealed /\ LogInOrder /\ CopyShape

TableNamesOf(form) ==
  CASE form = "v7" -> PreAnchorNamesV3
    [] form = "v6" -> PreAnchorNamesV2
    [] form = "v5" -> PreAnchorNames
    [] OTHER -> {}

\* The rows of a sealed table are the values the record displays.
LEMMA TableRows ==
  ASSUME NEW s, NEW clock, NEW form \in AllForms
  PROVE  LET t == TableOf(s, clock, form)
         IN /\ DOMAIN t = TableNamesOf(form)
            /\ RequirementRow \in DOMAIN t => t[RequirementRow] = "required"
            /\ WindowRow \in DOMAIN t => t[WindowRow] = Window
            /\ form \in TableForms =>
                 /\ t["envelope_id"] = s.env /\ t["aer_hash"] = s.aer
                 /\ t["sections"] = s.sections /\ t["scaffold_flags"] = s.scaffold
                 /\ t["nrep_actor_id"] = ActorOf(s, clock).id
                 /\ t["nrep_signature"] = ActorOf(s, clock).signature
                 /\ t["nrep_signed_at"] = ActorOf(s, clock).signedAt
                 /\ t["clock_epoch"] = clock
<1>. DEFINE t == TableOf(s, clock, form)
            base == [envelope_id |-> s.env, aer_hash |-> s.aer, sections |-> s.sections,
                     nrep_actor_id |-> ActorOf(s, clock).id,
                     nrep_signature |-> ActorOf(s, clock).signature,
                     nrep_signed_at |-> ActorOf(s, clock).signedAt,
                     scaffold_flags |-> s.scaffold, clock_epoch |-> clock]
<1>1. t = [row \in TableNamesOf(form) |->
             CASE row = RequirementRow -> "required" [] row = WindowRow -> Window
               [] OTHER -> base[row]]
  BY DEF TableOf, TableNamesOf
<1>2. /\ DOMAIN t = TableNamesOf(form)
      /\ RequirementRow \in DOMAIN t => t[RequirementRow] = "required"
      /\ WindowRow \in DOMAIN t => t[WindowRow] = Window
      /\ \A row \in PreAnchorNames \cap DOMAIN t : t[row] = base[row]
  <2>. HIDE DEF t, base
  <2>1. RequirementRow # WindowRow
        /\ \A row \in PreAnchorNames : row # RequirementRow /\ row # WindowRow
    BY DEF RequirementRow, WindowRow, PreAnchorNames
  <2>. QED
    BY <1>1, <2>1
<1>3. form \in TableForms => PreAnchorNames \subseteq DOMAIN t
  BY <1>2 DEF TableNamesOf, TableForms, PreAnchorNamesV2, PreAnchorNamesV3
<1>4. /\ base["envelope_id"] = s.env /\ base["aer_hash"] = s.aer
      /\ base["sections"] = s.sections /\ base["scaffold_flags"] = s.scaffold
      /\ base["nrep_actor_id"] = ActorOf(s, clock).id
      /\ base["nrep_signature"] = ActorOf(s, clock).signature
      /\ base["nrep_signed_at"] = ActorOf(s, clock).signedAt
      /\ base["clock_epoch"] = clock
  OBVIOUS
<1>5. {"envelope_id", "aer_hash", "sections", "scaffold_flags", "nrep_actor_id",
       "nrep_signature", "nrep_signed_at", "clock_epoch"} = PreAnchorNames
  BY DEF PreAnchorNames
<1>. HIDE DEF t, base
<1>6. form \in TableForms =>
        /\ t["envelope_id"] = s.env /\ t["aer_hash"] = s.aer
        /\ t["sections"] = s.sections /\ t["scaffold_flags"] = s.scaffold
        /\ t["nrep_actor_id"] = ActorOf(s, clock).id
        /\ t["nrep_signature"] = ActorOf(s, clock).signature
        /\ t["nrep_signed_at"] = ActorOf(s, clock).signedAt
        /\ t["clock_epoch"] = clock
  BY <1>2, <1>3, <1>4, <1>5
<1>. QED
  BY <1>2, <1>6 DEF t

LEMMA ActorShape ==
  ASSUME NEW s, NEW clock
  PROVE  /\ IsActor(ActorOf(s, clock))
         /\ s.actorId = None =>
              /\ ActorOf(s, clock).id = None /\ ActorOf(s, clock).signature = None
              /\ ActorOf(s, clock).signedAt = None
         /\ s.actorId # None =>
              /\ ActorOf(s, clock).id = s.actorId /\ ActorOf(s, clock).signedAt = clock
              /\ ActorOf(s, clock).signature = <<s.env, s.aer, s.actorId, clock>>
BY DEF ActorOf, IsActor

\* A sealed record, field by field.
LEMMA SubmittedParts ==
  ASSUME NEW d, AsSubmitted(d), d.run.time \in 1 .. MaxTime
  PROVE  \E s \in Submissions, form \in AllForms :
           /\ form \in FormsAt[d.run.time]
           /\ d.env = s.env /\ d.aer = s.aer /\ d.sections = s.sections
           /\ d.scaffold = s.scaffold
           /\ d.actor = ActorOf(s, d.run.time)
           /\ d.table = TableOf(s, d.run.time, form)
           /\ d.tableDigest = IF form \in TableForms THEN d.table ELSE None
           /\ LeafForm(d) = form
<1>. PICK s \in Submissions, form \in FormsAt[d.run.time] :
       \A x \in AppearanceFields : d[x] = Unlogged(s, d.run.time, form)[x]
  BY DEF AsSubmitted
<1>. DEFINE u == Unlogged(s, d.run.time, form)
<1>1. form \in AllForms
  BY FormsAssumption DEF AllForms
<1>2. /\ d.env = u.env /\ d.aer = u.aer /\ d.sections = u.sections /\ d.scaffold = u.scaffold
      /\ d.actor = u.actor /\ d.table = u.table /\ d.tableDigest = u.tableDigest
      /\ d.sealingDigests = u.sealingDigests /\ d.nonce = u.nonce
  BY DEF AppearanceFields, Fields
<1>3. /\ u.env = s.env /\ u.aer = s.aer /\ u.sections = s.sections /\ u.scaffold = s.scaffold
      /\ u.actor = ActorOf(s, d.run.time) /\ u.table = TableOf(s, d.run.time, form)
      /\ u.tableDigest = IF form \in TableForms THEN u.table ELSE None
  BY DEF Unlogged
<1>4. LeafForm(u) = form
  BY <1>1, UnloggedForm
<1>. HIDE DEF u
<1>5. LeafForm(d) = form
  BY <1>2, <1>4 DEF LeafForm
<1>. QED
  BY <1>1, <1>2, <1>3, <1>5

LEMMA SealedShape ==
  ASSUME NEW d, DOMAIN d = Fields, AsSubmitted(d), SealedInOrder(d, now), SealedOn(d, log)
  PROVE  RecordShape(d)
<1>. PICK s \in Submissions, form \in AllForms :
       /\ d.scaffold = s.scaffold /\ d.actor = ActorOf(s, d.run.time)
       /\ d.table = TableOf(s, d.run.time, form)
  BY SubmittedParts DEF SealedOn
<1>1. d.scaffold \in BOOLEAN
  BY SubmissionsAssumption
<1>2. IsActor(d.actor)
  BY ActorShape
<1>3. "clock_epoch" \in DOMAIN d.table => d.table["clock_epoch"] \in Nat
  <2>1. /\ DOMAIN d.table = TableNamesOf(form)
        /\ form \in TableForms => d.table["clock_epoch"] = d.run.time
    BY TableRows
  <2>2. form \notin TableForms => DOMAIN d.table = {}
    BY <2>1 DEF TableNamesOf, TableForms
  <2>3. d.run.time \in Nat
    BY TimeAssumption DEF SealedOn
  <2>. QED
    BY <2>1, <2>2, <2>3
<1>4. "onLog" \in DOMAIN d.run /\ d.run.onLog \in BOOLEAN
  BY DEF SealedInOrder, SealedOn
<1>. QED
  BY <1>1, <1>2, <1>3, <1>4 DEF RecordShape

\* An appended entry is dated now; earlier ones are dated no later.
LEMMA LogGrowsInOrder ==
  ASSUME RunsOnLog, LogInOrder, NEW e, log' = Append(log, e), now' = now,
         e.time = now, e.signer \in PinnedKeys \cup {OtherKey}
  PROVE  LogInOrder'
<1>1. /\ Len(log) \in Nat /\ DOMAIN log = 1 .. Len(log) /\ DOMAIN log' = 1 .. Len(log) + 1
      /\ log'[Len(log) + 1] = e /\ \A n \in 1 .. Len(log) : log'[n] = log[n]
  BY AppendKeeps DEF RunsOnLog, LogIsSequence
<1>2. now \in Int /\ now >= 1
  BY DEF RunsOnLog
<1>3. ASSUME NEW n \in 1 .. Len(log)
      PROVE  /\ log'[n].time \in 1 .. now /\ log'[n].signer \in PinnedKeys \cup {OtherKey}
             /\ \A m \in 1 .. n : log'[m].time <= log'[n].time
  <2>1. 1 .. n \subseteq 1 .. Len(log)
    BY <1>1
  <2>. QED
    BY <1>1, <2>1 DEF LogInOrder
<1>4. \A m \in 1 .. Len(log) + 1 : log'[m].time <= log'[Len(log) + 1].time
  <2>. SUFFICES ASSUME NEW m \in 1 .. Len(log) + 1
                PROVE  log'[m].time <= e.time
    BY <1>1
  <2>1. m \in 1 .. Len(log) \/ m = Len(log) + 1
    BY <1>1
  <2>. QED
    BY <1>1, <1>2, <1>3, <2>1
<1>5. ASSUME NEW n \in DOMAIN log'
      PROVE  n \in 1 .. Len(log) \/ n = Len(log) + 1
  BY <1>1
<1>. QED
  BY <1>1, <1>2, <1>3, <1>4, <1>5 DEF LogInOrder

LEMMA SealedStartsInOrder ==
  ASSUME RunsOnLog, RunsAsSealed, NEW s \in Submissions, NEW form \in AllForms,
         StartRun(s, form)
  PROVE  RunsAsSealed'
<1>. DEFINE u == Unlogged(s, now, form)
            e == Entry(Leaf(u), KeyAt[now], now)
            n == Len(log) + 1
            a == AnchorAt(n, e)
            d == [u EXCEPT !.run = a, !.pote = PoteOf(n, now)]
<1>1. runs' = runs \cup {d} /\ now' = now /\ form \in FormsAt[now]
  BY DEF StartRun, LogEntry
<1>2. DOMAIN u = Fields /\ u.record = None
  BY DEF Unlogged, Fields
<1>3. /\ d.run = a /\ d.record = None /\ \A x \in AppearanceFields : d[x] = u[x]
  BY <1>2 DEF Fields, AppearanceFields
<1>4. a.time = now /\ a.signer = KeyAt[now] /\ "onLog" \in DOMAIN a
  BY DEF AnchorAt, Entry
<1>. HIDE DEF d, a
<1>5. AsSubmitted(d)
  BY <1>1, <1>3, <1>4 DEF AsSubmitted
<1>6. SealedInOrder(d, now)
  BY <1>3, <1>4 DEF SealedInOrder, RunsOnLog
<1>. QED
  BY <1>1, <1>5, <1>6 DEF RunsAsSealed

LEMMA SealedEndsInOrder ==
  ASSUME RunsOnLog, RunsAsSealed, NEW d \in runs, SealRecord(d)
  PROVE  RunsAsSealed'
<1>. DEFINE e == Entry(BundleLeaf(d.env, RecordDigest(d)), KeyAt[now], now)
            n == Len(log) + 1
            a == [onLog |-> TRUE, number |-> n, leaf |-> AnchorAt(n, e).leaf,
                  signer |-> AnchorAt(n, e).signer, time |-> AnchorAt(n, e).time,
                  digest |-> RecordDigest(d)]
            f == [d EXCEPT !.record = a]
<1>1. runs' = (runs \ {d}) \cup {f} /\ now' = now /\ LeafForm(d) \in TableForms
  BY DEF SealRecord, LogEntry, AnchorAt, Entry
<1>2. DOMAIN d = Fields
  BY DEF RunsOnLog
<1>3. /\ a.onLog = TRUE /\ a.digest = RecordDigest(d) /\ a.time = now
      /\ a.signer = KeyAt[now]
  BY DEF AnchorAt, Entry
<1>4. \A x \in Fields \ {"record"} : f[x] = d[x]
  BY <1>2
<1>5. /\ f.record = a /\ f.run = d.run /\ RecordDigest(f) = RecordDigest(d)
      /\ LeafForm(f) = LeafForm(d)
  <2>. HIDE DEF a
  <2>. QED
    BY <1>2, RecordProofKeepsContent
<1>. HIDE DEF f, a
<1>6. AsSubmitted(f)
  BY <1>4, <1>5 DEF AsSubmitted, RunsAsSealed, AppearanceFields, Fields
<1>7. SealedInOrder(f, now)
  <2>1. "onLog" \in DOMAIN d.run /\ d.run.time \in 1 .. now /\ d.run.signer = KeyAt[d.run.time]
    BY DEF RunsAsSealed, SealedInOrder
  <2>. QED
    BY <1>1, <1>3, <1>5, <2>1 DEF SealedInOrder, RunsOnLog
<1>. QED
  BY <1>1, <1>6, <1>7 DEF RunsAsSealed

\* A changed copy keeps the shape of a record.
LEMMA RewriteKeepsShape ==
  ASSUME NoneIsNothing, RunsOnLog, CopyShape, Rewrite
  PROVE  CopyShape'
<1>. SUFFICES RecordShape(doc')
  BY DEF NoneIsNothing, CopyShape, RecordShape, Fields
<1>1. RecordShape(doc)
  BY DEF Rewrite, CopyShape
<1>. USE <1>1 DEF RecordShape
<1>2. now \in Nat /\ 1 .. now \subseteq Nat
  BY TimeAssumption DEF RunsOnLog
<1>3. ASSUME NEW x \in {"env", "aer", "sections", "desc", "record"}, NEW v,
             doc' = [doc EXCEPT ![x] = v]
      PROVE  RecordShape(doc')
  BY <1>3 DEF Fields
<1>4. CASE ChangeSection
  <2>1. CASE Change([doc EXCEPT !.scaffold = ~@])
    <3>1. (~doc.scaffold) \in BOOLEAN
      OBVIOUS
    <3>2. ASSUME NEW v \in BOOLEAN, doc' = [doc EXCEPT !.scaffold = v]
          PROVE  RecordShape(doc')
      BY <3>2 DEF Fields
    <3>. QED
      BY <2>1, <3>1, <3>2 DEF Change
  <2>2. ASSUME NEW v, NEW t,
               Change([doc EXCEPT !.actor =
                         ActorOf([env |-> doc.env, aer |-> doc.aer, actorId |-> v], t)])
        PROVE  RecordShape(doc')
    <3>. DEFINE b == ActorOf([env |-> doc.env, aer |-> doc.aer, actorId |-> v], t)
    <3>1. IsActor(b)
      BY ActorShape
    <3>2. doc' = [doc EXCEPT !.actor = b]
      BY <2>2 DEF Change
    <3>. HIDE DEF b
    <3>. QED
      BY <3>1, <3>2 DEF Fields
  <2>3. CASE Change([doc EXCEPT !.actor.signedAt = None])
    BY <2>3 DEF Change, Fields, IsActor
  <2>4. ASSUME NEW v, \/ Change([doc EXCEPT !.env = v])
                      \/ Change([doc EXCEPT !.aer = v])
                      \/ Change([doc EXCEPT !.sections = v])
                      \/ Change([doc EXCEPT !.desc = v])
        PROVE  RecordShape(doc')
    BY <1>3, <2>4 DEF Change
  <2>. QED
    BY <1>4, <2>1, <2>2, <2>3, <2>4, Zenon DEF ChangeSection
<1>5. CASE ChangeTable
  <2>1. ASSUME NEW t, NEW b, NEW c, doc' = [doc EXCEPT !.table = t, !.tableDigest = b, !.sealingDigests = c],
               "clock_epoch" \in DOMAIN t => t["clock_epoch"] \in Nat
        PROVE  RecordShape(doc')
    BY <2>1 DEF Fields
  <2>2. ASSUME NEW t, doc' = [doc EXCEPT !.table = t, !.tableDigest = t],
               "clock_epoch" \in DOMAIN t => t["clock_epoch"] \in Nat
        PROVE  RecordShape(doc')
    BY <2>2 DEF Fields
  <2>3. CASE Change([doc EXCEPT !.table = NoTable, !.tableDigest = None, !.sealingDigests = FALSE])
    <3>1. "clock_epoch" \notin DOMAIN NoTable
      BY DEF NoTable
    <3>. QED
      BY <2>1, <2>3, <3>1 DEF Change
  <2>4. ASSUME NEW row, NEW t \in {[r \in DOMAIN doc.table \ {row} |-> doc.table[r]]},
               Change([doc EXCEPT !.table = t, !.tableDigest = t])
        PROVE  RecordShape(doc')
    BY <2>2, <2>4 DEF Change
  <2>5. ASSUME NEW clock \in 1 .. now,
               NEW t \in {[r \in DOMAIN doc.table |->
                             IF r \in {RequirementRow, WindowRow} THEN doc.table[r]
                             ELSE IF r = "clock_epoch" THEN clock
                             ELSE Displayed(doc, r)]},
               Change([doc EXCEPT !.table = t, !.tableDigest = t])
        PROVE  RecordShape(doc')
    <3>1. "clock_epoch" \in DOMAIN t => t["clock_epoch"] = clock
      BY <2>5 DEF RequirementRow, WindowRow
    <3>. QED
      BY <1>2, <2>2, <2>5, <3>1 DEF Change
  <2>. QED
    BY <1>5, <2>3, <2>4, <2>5 DEF ChangeTable
<1>6. CASE ChangeAnchor
  <2>1. ASSUME NEW a, NEW b, doc' = [doc EXCEPT !.run = a, !.pote = b],
               "onLog" \in DOMAIN a, a.onLog = TRUE
        PROVE  RecordShape(doc')
    BY <2>1 DEF Fields
  <2>2. ASSUME NEW n, NEW b, Change([doc EXCEPT !.run = AnchorAt(n, log[n]), !.pote = b])
        PROVE  RecordShape(doc')
    <3>1. "onLog" \in DOMAIN AnchorAt(n, log[n]) /\ AnchorAt(n, log[n]).onLog = TRUE
      BY DEF AnchorAt
    <3>. QED
      BY <2>1, <2>2, <3>1 DEF Change
  <2>3. CASE Change([doc EXCEPT !.run.signer = None])
    BY <2>3 DEF Change, Fields
  <2>4. CASE Change([doc EXCEPT !.run.onLog = FALSE])
    BY <2>4 DEF Change, Fields
  <2>. QED
    BY <1>3, <1>6, <2>2, <2>3, <2>4 DEF ChangeAnchor, Change
<1>. QED
  BY <1>4, <1>5, <1>6 DEF Rewrite

LEMMA ServersKey ==
  ASSUME RunsOnLog
  PROVE  KeyAt[now] \in PinnedKeys
BY KeyAssumption DEF RunsOnLog

LEMMA InOrderStep ==
  ASSUME NoneIsNothing, RecordsInOrder, RunsOnLog', [Next]_vars
  PROVE  RecordsInOrder'
<1>. USE DEF RecordsInOrder
<1>1. CASE \E s \in Submissions, form \in OldForms \cup TableForms : StartRun(s, form)
  <2>. PICK s \in Submissions, form \in AllForms : StartRun(s, form)
    BY <1>1 DEF AllForms
  <2>. DEFINE e == Entry(Leaf(Unlogged(s, now, form)), KeyAt[now], now)
  <2>1. log' = Append(log, e) /\ now' = now /\ UNCHANGED <<doc, edits>>
    BY DEF StartRun, LogEntry
  <2>2. e.time = now /\ e.signer \in PinnedKeys
    BY ServersKey DEF Entry
  <2>. HIDE DEF e
  <2>3. LogInOrder'
    BY <2>1, <2>2, LogGrowsInOrder
  <2>4. RunsAsSealed'
    BY SealedStartsInOrder
  <2>. QED
    BY <2>1, <2>3, <2>4 DEF CopyShape
<1>2. CASE \E d \in runs : SealRecord(d)
  <2>. PICK d \in runs : SealRecord(d)
    BY <1>2
  <2>. DEFINE e == Entry(BundleLeaf(d.env, RecordDigest(d)), KeyAt[now], now)
  <2>1. log' = Append(log, e) /\ now' = now /\ UNCHANGED <<doc, edits>>
    BY DEF SealRecord, LogEntry
  <2>2. e.time = now /\ e.signer \in PinnedKeys
    BY ServersKey DEF Entry
  <2>. HIDE DEF e
  <2>3. LogInOrder'
    BY <2>1, <2>2, LogGrowsInOrder
  <2>4. RunsAsSealed'
    BY SealedEndsInOrder
  <2>. QED
    BY <2>1, <2>3, <2>4 DEF CopyShape
<1>3. CASE \E id \in AttestIds, digest \in Aers : Attest(id, digest)
  <2>. PICK id \in AttestIds, digest \in Aers : Attest(id, digest)
    BY <1>3
  <2>. DEFINE e == Entry(<<"v2", id, digest, 1>>, KeyAt[now], now)
  <2>1. log' = Append(log, e) /\ UNCHANGED <<now, runs, doc, edits>>
    BY DEF Attest, LogEntry
  <2>2. e.time = now /\ e.signer \in PinnedKeys
    BY ServersKey DEF Entry
  <2>. HIDE DEF e
  <2>3. LogInOrder'
    BY <2>1, <2>2, LogGrowsInOrder
  <2>. QED
    BY <2>1, <2>3 DEF CopyShape, RunsAsSealed
<1>4. CASE \E leaf : LogAgain(leaf)
  <2>. PICK leaf : LogAgain(leaf)
    BY <1>4
  <2>. PICK key \in PinnedKeys \cup {OtherKey} : LogEntry(Entry(leaf, key, now))
    BY ServersKey DEF LogAgain
  <2>. DEFINE e == Entry(leaf, key, now)
  <2>1. log' = Append(log, e) /\ UNCHANGED <<now, runs, doc, edits>>
    BY DEF LogAgain, LogEntry
  <2>2. e.time = now /\ e.signer \in PinnedKeys \cup {OtherKey}
    BY DEF Entry
  <2>. HIDE DEF e
  <2>3. LogInOrder'
    BY <2>1, <2>2, LogGrowsInOrder
  <2>. QED
    BY <2>1, <2>3 DEF CopyShape, RunsAsSealed
<1>5. CASE Tick
  <2>1. UNCHANGED <<log, runs, doc, edits>> /\ now \in Int /\ now' = now + 1
    BY <1>5 DEF Tick, RunsOnLog
  <2>2. 1 .. now \subseteq 1 .. now'
    BY <2>1
  <2>3. LogInOrder' /\ RunsAsSealed'
    BY <2>1, <2>2 DEF LogInOrder, RunsAsSealed, SealedInOrder
  <2>. QED
    BY <2>1, <2>3 DEF CopyShape
<1>6. CASE \E d \in runs : Take(d)
  <2>. PICK d \in runs : Take(d)
    BY <1>6
  <2>1. UNCHANGED <<now, log, runs, edits>> /\ doc' = d /\ doc = None
    BY DEF Take
  <2>2. RecordShape(d)
    BY SealedShape DEF RunsOnLog, RunsAsSealed
  <2>. QED
    BY <2>1, <2>2 DEF CopyShape, LogInOrder, RunsAsSealed
<1>7. CASE Rewrite
  <2>1. UNCHANGED <<now, log, runs>>
    BY <1>7 DEF Rewrite, ChangeSection, ChangeTable, ChangeAnchor, Change
  <2>. QED
    BY <1>7, <2>1, RewriteKeepsShape DEF LogInOrder, RunsAsSealed
<1>8. CASE UNCHANGED vars
  BY <1>8 DEF vars, LogInOrder, RunsAsSealed, CopyShape
<1>. QED
  BY <1>1, <1>2, <1>3, <1>4, <1>5, <1>6, <1>7, <1>8 DEF Next

\* Records are sealed as they were submitted, their entries follow each
\* other in the log, and a copy keeps the shape of a record.
THEOREM RecordsStayInOrder ==
  ASSUME NoneIsNothing
  PROVE  Spec => []RecordsInOrder
<1>1. Init => RecordsInOrder
  BY TimeAssumption
     DEF Init, RecordsInOrder, RunsOnLog, LogIsSequence, RunsAsSealed, LogInOrder, CopyShape
<1>. QED
  BY <1>1, InOrderStep, RunsStayOnLog, PTL DEF Spec

\* The log is in order and holds what sealed records name.
THEOREM LogTypeCorrect ==
  ASSUME NoneIsNothing
  PROVE  Spec => []TypeOK
<1>1. RecordsInOrder => TypeOK
  BY DEF RecordsInOrder, RunsOnLog, SealedOn, LogInOrder, CopyShape, TypeOK
<1>. QED
  BY <1>1, RecordsStayInOrder, PTL

----------------------------------------------------------------------------
(* The checks of a copy. *)

LEMMA CoherentChecks ==
  ASSUME RecordsInOrder
  PROVE  ChecksAreCoherent
<1>. SUFFICES ASSUME doc # None
              PROVE  LET c == ChecksOfRecord(doc, log) IN c \in Checks /\ Coherent(c)
  BY DEF ChecksAreCoherent
<1>1. doc.scaffold \in BOOLEAN /\ doc.run.onLog \in BOOLEAN
  BY DEF RecordsInOrder, CopyShape, RecordShape
<1>2. /\ RekorOutcome(doc, log) \in Outcome /\ LeafOutcome(doc) \in Outcome
      /\ IdentityOutcome(doc) \in Outcome /\ PreAnchorOutcome(doc) \in Outcome
      /\ EntryAuthOutcome(doc, log) \in Outcome
  BY DEF RekorOutcome, LeafOutcome, IdentityOutcome, PreAnchorOutcome, EntryAuthOutcome, Outcome
<1>3. NrepOutcome(doc) \in Outcome
  BY DEF NrepOutcome, Outcome
<1>4. RecordAnchorOutcomeOf(doc, log) \in RecordAnchorOutcome
  BY DEF RecordAnchorOutcomeOf, RecordAnchorOutcome
<1>5. PoteAgrees(doc) \in BOOLEAN /\ TableRequiresCompleteRecordAnchor(doc.table) \in BOOLEAN
  BY DEF PoteAgrees, TableRequiresCompleteRecordAnchor
<1>6. ChecksOfRecord(doc, log) \in Checks
  BY <1>1, <1>2, <1>3, <1>4, <1>5 DEF ChecksOfRecord, Checks, Outcome, JobShape
<1>7. Coherent(ChecksOfRecord(doc, log))
  <2>1. /\ doc.run.onLog => LeafOutcome(doc) # "absent" /\ IdentityOutcome(doc) # "absent"
        /\ ~doc.run.onLog => /\ RekorOutcome(doc, log) = "absent"
                             /\ LeafOutcome(doc) = "absent" /\ IdentityOutcome(doc) = "absent"
        /\ (EntryAuthOutcome(doc, log) # "absent") <=> (RekorOutcome(doc, log) = "passed")
    BY DEF LeafOutcome, IdentityOutcome, RekorOutcome, EntryAuthOutcome
  <2>2. TableRequiresCompleteRecordAnchor(doc.table) => PreAnchorOutcome(doc) # "absent"
    BY DEF TableRequiresCompleteRecordAnchor, PreAnchorOutcome
  <2>. QED
    BY <2>1, <2>2 DEF Coherent, ChecksOfRecord
<1>. QED
  BY <1>6, <1>7

\* verify(): whatever the copy holds, its checks are a combination the
\* roll-up is defined on.
THEOREM CoherentCopies ==
  ASSUME NoneIsNothing
  PROVE  Spec => []ChecksAreCoherent
BY RecordsStayInOrder, CoherentChecks, PTL

LEMMA LeafParts ==
  ASSUME NEW d, NEW e, Leaf(d) = Leaf(e)
  PROVE  /\ LeafForm(d) = LeafForm(e) /\ d.env = e.env /\ d.aer = e.aer
         /\ LeafForm(d) \in TableForms => d.table = e.table
         /\ LeafForm(d) = "v3" => d.actor = e.actor /\ d.scaffold = e.scaffold
<1>1. /\ LeafForm(d) = LeafForm(e) /\ LeafForm(d) \in AllForms
      /\ LeafForm(d) \in TableForms => d.table = e.table
  BY LeafTag, SameLeafSameForm
<1>2. d.env = e.env /\ d.aer = e.aer
  <2>1. Leaf(d)[2] = d.env /\ Leaf(d)[3] = d.aer
    BY <1>1 DEF Leaf, AllForms, OldForms, TableForms
  <2>2. Leaf(e)[2] = e.env /\ Leaf(e)[3] = e.aer
    BY <1>1 DEF Leaf, AllForms, OldForms, TableForms
  <2>. QED
    BY <2>1, <2>2
<1>3. ASSUME LeafForm(d) = "v3"
      PROVE  d.actor = e.actor /\ d.scaffold = e.scaffold
  <2>1. Leaf(d)[5] = d.actor /\ Leaf(d)[6] = d.scaffold
    BY <1>3 DEF Leaf, TableForms
  <2>2. Leaf(e)[5] = e.actor /\ Leaf(e)[6] = e.scaffold
    BY <1>1, <1>3 DEF Leaf, TableForms
  <2>. QED
    BY <2>1, <2>2
<1>. QED
  BY <1>1, <1>2, <1>3

(***************************************************************************)
(* A copy whose run entry verifies, under the server's key, with a leaf    *)
(* and an identifier that hold: the entry is a run's, since a record's     *)
(* second entry is in another domain and what /attest logs is named by no  *)
(* record (verifyRecordIdentity).                                          *)
(***************************************************************************)
LEMMA RunIsTheServers ==
  ASSUME PinnedEntriesAreOurs, ~scope.relogs,
         RekorOutcome(doc, log) = "passed", LeafOutcome(doc) = "passed",
         IdentityOutcome(doc) # "failed", EntryAuthOutcome(doc, log) = "passed"
  PROVE  \E d \in runs : Leaf(doc) = Leaf(d)
<1>. DEFINE n == doc.run.number
<1>1. /\ doc.run.onLog /\ n \in DOMAIN log /\ log[n].leaf = Leaf(doc)
      /\ log[n].signer = doc.run.signer
  <2>1. doc.run.onLog /\ Logged(doc.run, log) /\ log[n].leaf = Leaf(doc)
    BY RunEntry
  <2>. QED
    BY <2>1 DEF Logged
<1>2. log[n].signer \in PinnedKeys
  BY <1>1 DEF EntryAuthOutcome, SignersHold
<1>3. EntriesOf(n)
  BY <1>1, <1>2 DEF PinnedEntriesAreOurs
<1>4. doc.env \in RunIds
  BY <1>1 DEF IdentityOutcome
<1>5. CASE \E d \in runs : d.run.number = n
  BY <1>1, <1>5, SealedEntries
<1>6. CASE \E d \in runs : d.record # None /\ d.record.number = n
  BY <1>1, <1>6, SealedEntries, LeafIsNoBundleLeaf
<1>7. CASE \E id \in AttestIds, digest \in Aers : log[n].leaf = <<"v2", id, digest, 1>>
  <2>. PICK id \in AttestIds, digest \in Aers : log[n].leaf = <<"v2", id, digest, 1>>
    BY <1>7
  <2>1. LeafForm(doc) = "v2"
    BY <1>1, LeafTag
  <2>2. doc.env = id
    BY <1>1, <2>1 DEF Leaf, TableForms
  <2>. QED
    BY <1>4, <2>2, AttestAssumption
<1>. QED
  BY <1>3, <1>5, <1>6, <1>7 DEF EntriesOf

LEMMA SameActor ==
  ASSUME NEW a, NEW b, IsActor(a), IsActor(b),
         a.id = b.id, a.signature = b.signature, a.signedAt = b.signedAt
  PROVE  a = b
BY DEF IsActor

\* The rows every table has, against what the record displays.
ShownRows(d, t) ==
  /\ t["envelope_id"] = d.env /\ t["aer_hash"] = d.aer /\ t["sections"] = d.sections
  /\ t["scaffold_flags"] = d.scaffold /\ t["nrep_actor_id"] = d.actor.id
  /\ t["nrep_signature"] = d.actor.signature /\ t["nrep_signed_at"] = d.actor.signedAt

LEMMA SealedRows ==
  ASSUME RecordsInOrder, NEW d \in runs, LeafForm(d) \in TableForms
  PROVE  /\ DOMAIN d.table = TableNamesOf(LeafForm(d))
         /\ RequirementRow \in DOMAIN d.table => d.table[RequirementRow] = "required"
         /\ WindowRow \in DOMAIN d.table => d.table[WindowRow] = Window
         /\ ShownRows(d, d.table) /\ d.table["clock_epoch"] = d.run.time
         /\ d.tableDigest = d.table
<1>1. AsSubmitted(d) /\ d.run.time \in 1 .. MaxTime
  BY DEF RecordsInOrder, RunsAsSealed, RunsOnLog, SealedOn
<1>2. PICK s \in Submissions, form \in AllForms :
        /\ d.env = s.env /\ d.aer = s.aer /\ d.sections = s.sections
        /\ d.scaffold = s.scaffold /\ d.actor = ActorOf(s, d.run.time)
        /\ d.table = TableOf(s, d.run.time, form)
        /\ d.tableDigest = IF form \in TableForms THEN d.table ELSE None
        /\ LeafForm(d) = form
  BY <1>1, SubmittedParts
<1>. QED
  BY <1>2, TableRows DEF ShownRows

LEMMA PassedRows ==
  ASSUME NEW d, PreAnchorOutcome(d) = "passed", PreAnchorNames \subseteq DOMAIN d.table
  PROVE  ShownRows(d, d.table)
<1>1. \A row \in PreAnchorNames \ {"clock_epoch"} : d.table[row] = Displayed(d, row)
  BY DEF PreAnchorOutcome, ComparedRows
<1>2. /\ Displayed(d, "envelope_id") = d.env /\ Displayed(d, "aer_hash") = d.aer
      /\ Displayed(d, "sections") = d.sections /\ Displayed(d, "scaffold_flags") = d.scaffold
      /\ Displayed(d, "nrep_actor_id") = d.actor.id
      /\ Displayed(d, "nrep_signature") = d.actor.signature
      /\ Displayed(d, "nrep_signed_at") = d.actor.signedAt
  BY DEF Displayed
<1>. QED
  BY <1>1, <1>2 DEF PreAnchorNames, ShownRows

\* What a table leaf says of the actor, the sections and the flags.
LEMMA TableIsTheRuns ==
  ASSUME RecordsInOrder, doc # None, NEW d \in runs, Leaf(doc) = Leaf(d),
         LeafForm(doc) \in TableForms, PreAnchorOutcome(doc) = "passed"
  PROVE  /\ doc.table = d.table /\ doc.sections = d.sections
         /\ doc.actor = d.actor /\ doc.scaffold = d.scaffold
<1>1. doc.table = d.table /\ LeafForm(d) \in TableForms
  BY LeafParts
<1>2. ShownRows(d, d.table) /\ DOMAIN d.table = TableNamesOf(LeafForm(d))
  BY <1>1, SealedRows
<1>3. PreAnchorNames \subseteq DOMAIN d.table
  BY <1>1, <1>2 DEF TableNamesOf, TableForms, PreAnchorNamesV2, PreAnchorNamesV3
<1>4. ShownRows(doc, d.table)
  BY <1>1, <1>3, PassedRows
<1>5. IsActor(doc.actor) /\ IsActor(d.actor)
  <2>1. RecordShape(d)
    BY SealedShape DEF RecordsInOrder, RunsOnLog, RunsAsSealed
  <2>. QED
    BY <2>1 DEF RecordsInOrder, CopyShape, RecordShape
<1>. QED
  BY <1>1, <1>2, <1>4, <1>5, SameActor DEF ShownRows

LEMMA RunIsGenuine ==
  ASSUME RecordsInOrder, PinnedEntriesAreOurs
  PROVE  AnchoredRunIsGenuine
<1>. SUFFICES ASSUME ~scope.relogs, doc # None,
                     TierOf(doc, log) \in {"VERIFIED_ANCHORED", "ANCHORED_PARTIAL_COVERAGE"}
              PROVE  \E d \in runs :
                       /\ d.env = doc.env /\ d.aer = doc.aer
                       /\ LeafForm(doc) = LeafForm(d)
                       /\ LeafForm(doc) \in TableForms =>
                            /\ doc.table = d.table /\ doc.sections = d.sections
                            /\ doc.actor = d.actor /\ doc.scaffold = d.scaffold
                       /\ LeafForm(doc) = "v3" => doc.actor = d.actor /\ doc.scaffold = d.scaffold
  BY DEF AnchoredRunIsGenuine
<1>1. /\ RekorOutcome(doc, log) = "passed" /\ LeafOutcome(doc) = "passed"
      /\ IdentityOutcome(doc) # "failed" /\ PreAnchorOutcome(doc) # "failed"
      /\ EntryAuthOutcome(doc, log) # "failed"
  BY AnchoredTier
<1>2. EntryAuthOutcome(doc, log) = "passed"
  BY <1>1 DEF EntryAuthOutcome
<1>3. PICK d \in runs : Leaf(doc) = Leaf(d)
  BY <1>1, <1>2, RunIsTheServers
<1>4. LeafForm(doc) \in TableForms => PreAnchorOutcome(doc) = "passed"
  <2>1. LeafForm(doc) \in TableForms => DOMAIN doc.table # {} \/ doc.tableDigest # None
    BY DEF LeafForm, TableForms, TableSealsAnchoringWindow, TableRequiresCompleteRecordAnchor
  <2>. QED
    BY <1>1, <2>1 DEF PreAnchorOutcome
<1>. QED
  BY <1>3, <1>4, LeafParts, TableIsTheRuns

\* While only the server logs under its key, an anchored record shows the
\* run values, and what its leaf covers, of a record the server sealed.
THEOREM AnchoredRunGenuine ==
  ASSUME NoneIsNothing
  PROVE  Spec => []AnchoredRunIsGenuine
BY RecordsStayInOrder, PinnedEntries, RunIsGenuine, PTL

LEMMA ActorIsGenuine ==
  ASSUME RecordsInOrder, PinnedEntriesAreOurs
  PROVE  SealedActorIsGenuine
<1>. SUFFICES ASSUME ~scope.relogs, doc # None, ActorSealed(doc, log),
                     IdentityOutcome(doc) = "passed"
              PROVE  \E d \in runs : d.env = doc.env /\ d.aer = doc.aer /\ d.actor = doc.actor
  BY DEF SealedActorIsGenuine
<1>1. /\ RekorOutcome(doc, log) = "passed" /\ LeafOutcome(doc) = "passed"
      /\ EntryAuthOutcome(doc, log) = "passed"
      /\ LeafForm(doc) = "v3" \/ (LeafForm(doc) \in TableForms /\ PreAnchorOutcome(doc) = "passed")
  BY DEF ActorSealed
<1>2. PICK d \in runs : Leaf(doc) = Leaf(d)
  BY <1>1, RunIsTheServers
<1>. QED
  BY <1>1, <1>2, LeafParts, TableIsTheRuns

\* verifyNrepSignature: an actor section reported as sealed to the anchor is
\* the one a run was sealed with, on that run, whatever else fails.
THEOREM SealedActorGenuine ==
  ASSUME NoneIsNothing
  PROVE  Spec => []SealedActorIsGenuine
BY RecordsStayInOrder, PinnedEntries, ActorIsGenuine, PTL

LEMMA CompleteKeepsClock ==
  ASSUME RecordsInOrder
  PROVE  LateRecordCannotKeepClock
<1>. DEFINE clock == doc.table["clock_epoch"]
            window == doc.table[WindowRow]
            n == doc.record.number
<1>. SUFFICES ASSUME doc # None, WindowRow \in DOMAIN doc.table,
                     TierOf(doc, log) = "VERIFIED_ANCHORED"
              PROVE  \E m \in DOMAIN log :
                       /\ log[m].leaf = BundleLeaf(doc.env, RecordDigest(doc))
                       /\ log[m].time <= clock + window
  BY DEF LateRecordCannotKeepClock
<1>1. /\ EntryAuthOutcome(doc, log) # "failed" /\ RekorOutcome(doc, log) = "passed"
      /\ RecordAnchorOutcomeOf(doc, log) = "logged"
  BY AnchoredTier
<1>2. WindowHolds(doc, log)
  BY <1>1 DEF EntryAuthOutcome
<1>3. /\ WindowReadable(window) /\ "clock_epoch" \in DOMAIN doc.table
      /\ Within(doc.record.time, clock, window)
  BY <1>1, <1>2 DEF WindowHolds
<1>4. Logged(doc.record, log) /\ doc.record.leaf = BundleLeaf(doc.env, RecordDigest(doc))
  BY <1>1 DEF RecordAnchorOutcomeOf
<1>5. n \in DOMAIN log /\ log[n].leaf = BundleLeaf(doc.env, RecordDigest(doc))
      /\ log[n].time = doc.record.time
  BY <1>4 DEF Logged
<1>6. clock \in Nat /\ window \in Int /\ log[n].time \in Int
  BY <1>3, <1>5 DEF RecordsInOrder, CopyShape, RecordShape, LogInOrder, WindowReadable
<1>7. log[n].time <= clock + window
  BY <1>3, <1>5, <1>6 DEF Within
<1>. QED
  BY <1>5, <1>7

\* README, window: under leaf v7 a record first logged after its window, by
\* whoever holds the server's key, cannot keep the run's clock.
THEOREM LateRecordLosesClock ==
  ASSUME NoneIsNothing
  PROVE  Spec => []LateRecordCannotKeepClock
BY RecordsStayInOrder, CompleteKeepsClock, PTL

----------------------------------------------------------------------------
(* What the server seals, verifies. *)

\* The roll-up of checks none of which failed.
LEMMA TierFromChecks ==
  ASSUME NEW d, NEW l, d.run.onLog = TRUE,
         RekorOutcome(d, l) = "passed", LeafOutcome(d) = "passed",
         IdentityOutcome(d) # "failed", NrepOutcome(d) # "failed",
         PreAnchorOutcome(d) # "failed", EntryAuthOutcome(d, l) # "failed",
         PoteAgrees(d), RecordAnchorOutcomeOf(d, l) # "failed"
  PROVE  TierOf(d, l) =
           IF TableRequiresCompleteRecordAnchor(d.table) /\ RecordAnchorOutcomeOf(d, l) # "logged"
           THEN "FAILED"
           ELSE IF PreAnchorOutcome(d) = "passed" /\ RecordAnchorOutcomeOf(d, l) = "logged"
                THEN "VERIFIED_ANCHORED" ELSE "ANCHORED_PARTIAL_COVERAGE"
<1>. DEFINE c == ChecksOfRecord(d, l)
<1>1. /\ c.rekor = RekorOutcome(d, l) /\ c.leaf = LeafOutcome(d)
      /\ c.identity = IdentityOutcome(d) /\ c.nrep = NrepOutcome(d)
      /\ c.request = "absent" /\ c.timing = "absent"
      /\ c.preAnchor = PreAnchorOutcome(d) /\ c.entryAuth = EntryAuthOutcome(d, l)
      /\ c.recordAnchor = RecordAnchorOutcomeOf(d, l)
  BY DEF ChecksOfRecord
<1>2. c.hashes /\ c.cross /\ c.onLog
  BY DEF ChecksOfRecord
<1>3. c.requires <=> TableRequiresCompleteRecordAnchor(d.table)
  BY DEF ChecksOfRecord, TableRequiresCompleteRecordAnchor
<1>4. TierOf(d, l) = VerdictTier(c, RollUp(c, TRUE))
  BY DEF TierOf
<1>. HIDE DEF c
<1>5. PassedExceptRequirement(c, TRUE) /\ Anchored(c)
  BY <1>1, <1>2 DEF PassedExceptRequirement, PerformedChecks, Anchored
<1>6. RollUp(c, TRUE) <=> (c.requires => RecordAnchorOutcomeOf(d, l) = "logged")
  BY <1>1, <1>2, <1>5 DEF RollUp, RequirementSealed, RequirementSatisfied
<1>7. CASE c.requires /\ RecordAnchorOutcomeOf(d, l) # "logged"
  <2>1. ~RollUp(c, TRUE)
    BY <1>6, <1>7
  <2>2. VerdictTier(c, FALSE) = "FAILED"
    BY DEF VerdictTier, CompleteRecordAnchored
  <2>3. RollUp(c, TRUE) = FALSE
    BY <2>1 DEF RollUp
  <2>. QED
    BY <1>3, <1>4, <1>7, <2>2, <2>3
<1>8. CASE ~(c.requires /\ RecordAnchorOutcomeOf(d, l) # "logged")
  <2>1. RollUp(c, TRUE)
    BY <1>6, <1>8
  <2>2. CompleteRecordAnchored(c, RollUp(c, TRUE)) <=>
          (PreAnchorOutcome(d) = "passed" /\ RecordAnchorOutcomeOf(d, l) = "logged")
    BY <1>1, <1>5, <2>1 DEF CompleteRecordAnchored
  <2>. QED
    BY <1>3, <1>4, <1>5, <1>8, <2>1, <2>2 DEF VerdictTier
<1>. QED
  BY <1>7, <1>8

LEMMA SealedRunEntry ==
  ASSUME RecordsInOrder, NEW d \in runs
  PROVE  /\ RekorOutcome(d, log) = "passed" /\ LeafOutcome(d) = "passed" /\ PoteAgrees(d)
         /\ d.run.onLog = TRUE /\ d.run.time \in 1 .. MaxTime
         /\ d.run.signer \in PinnedKeys /\ SignerAcceptsAt(d.run.signer, d.run.time)
<1>1. SealedOn(d, log) /\ SealedInOrder(d, now)
  BY DEF RecordsInOrder, RunsOnLog, RunsAsSealed
<1>2. d.run.signer \in PinnedKeys /\ SignerAcceptsAt(d.run.signer, d.run.time)
  BY <1>1, KeyAssumption DEF SealedOn, SealedInOrder, SignerAcceptsAt
<1>3. RekorOutcome(d, log) = "passed" /\ LeafOutcome(d) = "passed"
  BY <1>1, <1>2, OtherKeyAssumption DEF SealedOn, RekorOutcome, LeafOutcome
<1>4. d.run.onLog = TRUE
  BY <1>1 DEF SealedOn, SealedInOrder, RecordsInOrder
<1>5. PoteAgrees(d)
  BY <1>1 DEF SealedOn, PoteAgrees, PoteOf
<1>. QED
  BY <1>1, <1>2, <1>3, <1>4, <1>5 DEF SealedOn

\* The form of a record fits its time, its table the record, and its actor
\* signed the run it is in.
LEMMA SealedContent ==
  ASSUME NoneIsNothing, RecordsInOrder, NEW d \in runs
  PROVE  /\ LeafForm(d) \in AllForms /\ IdentityOutcome(d) = "passed"
         /\ NrepOutcome(d) # "failed"
         /\ LeafForm(d) \in OldForms =>
              /\ PreAnchorOutcome(d) = "absent" /\ DOMAIN d.table = {}
         /\ LeafForm(d) \in TableForms => PreAnchorOutcome(d) = "passed"
<1>. DEFINE t == d.table
<1>1. AsSubmitted(d) /\ d.run.time \in 1 .. MaxTime /\ d.run.onLog = TRUE
  BY SealedRunEntry DEF RecordsInOrder, RunsAsSealed
<1>2. PICK s \in Submissions, form \in AllForms :
        /\ form \in FormsAt[d.run.time]
        /\ d.env = s.env /\ d.aer = s.aer /\ d.sections = s.sections
        /\ d.scaffold = s.scaffold /\ d.actor = ActorOf(s, d.run.time)
        /\ t = TableOf(s, d.run.time, form)
        /\ d.tableDigest = IF form \in TableForms THEN t ELSE None
        /\ LeafForm(d) = form
  BY <1>1, SubmittedParts
<1>3. IdentityOutcome(d) = "passed"
  <2>1. d.env \in RunIds
    BY <1>2, SubmissionsAssumption
  <2>2. form \in OldForms => ~(d.run.time >= TableSince)
    BY <1>1, <1>2, FormsAssumption DEF OldForms, TableForms
  <2>. QED
    BY <1>1, <1>2, <2>1, <2>2 DEF IdentityOutcome
<1>4. d.run.time # None
  BY <1>1, TimeAssumption DEF NoneIsNothing
<1>5. /\ s.actorId = None =>
           d.actor.id = None /\ d.actor.signature = None /\ d.actor.signedAt = None
      /\ s.actorId # None =>
           /\ d.actor.id # None /\ d.actor.signedAt = d.run.time
           /\ d.actor.signature = <<d.env, d.aer, d.actor.id, d.actor.signedAt>>
  BY <1>2, ActorShape
<1>6. NrepOutcome(d) # "failed"
  <2>1. CASE s.actorId = None
    BY <1>5, <2>1 DEF NrepOutcome
  <2>2. CASE s.actorId # None
    <3>1. d.actor.signature # None
      BY <1>5, <2>2 DEF NoneIsNothing
    <3>. QED
      BY <1>4, <1>5, <2>2, <3>1 DEF NrepOutcome
  <2>. QED
    BY <2>1, <2>2
<1>7. ASSUME form \in OldForms
      PROVE  DOMAIN t = {} /\ PreAnchorOutcome(d) = "absent"
  <2>1. DOMAIN t = {}
    BY <1>2, <1>7, TableRows DEF TableNamesOf, OldForms
  <2>2. d.tableDigest = None
    BY <1>2, <1>7 DEF OldForms, TableForms
  <2>. QED
    BY <2>1, <2>2 DEF PreAnchorOutcome
<1>8. ASSUME form \in TableForms
      PROVE  PreAnchorOutcome(d) = "passed"
  <2>1. /\ DOMAIN t = TableNamesOf(form)
        /\ RequirementRow \in DOMAIN t => t[RequirementRow] = "required"
        /\ WindowRow \in DOMAIN t => t[WindowRow] = Window
        /\ ShownRows(d, t) /\ t["clock_epoch"] = d.run.time /\ d.tableDigest = t
    BY <1>2, <1>8, SealedRows
  <2>2. /\ WindowRow \in DOMAIN t <=> form = "v7"
        /\ RequirementRow \in DOMAIN t <=> form \in {"v6", "v7"}
    BY <1>8, <2>1
       DEF TableNamesOf, TableForms, PreAnchorNames, PreAnchorNamesV2, PreAnchorNamesV3,
           WindowRow, RequirementRow
  <2>3. TableNames(t) = TableNamesOf(form) /\ DOMAIN t # {}
    <3>1. TableNames(t) = TableNamesOf(form)
      BY <1>8, <2>2
         DEF TableNames, TableNamesOf, TableForms, TableSealsAnchoringWindow,
             TableRequiresCompleteRecordAnchor
    <3>2. "aer_hash" \in TableNamesOf(form)
      BY <1>8 DEF TableNamesOf, TableForms, PreAnchorNames, PreAnchorNamesV2, PreAnchorNamesV3
    <3>. QED
      BY <2>1, <3>1, <3>2
  <2>4. WindowRow \in DOMAIN t => WindowReadable(t[WindowRow])
    BY <2>1, WindowAssumption DEF WindowReadable
  <2>5. ASSUME NEW row \in ComparedRows(t) \cap DOMAIN t
        PROVE  t[row] = Displayed(d, row)
    <3>1. row \in PreAnchorNames /\ (row = "clock_epoch" => t["nrep_signed_at"] # None)
      BY DEF ComparedRows
    <3>2. row = "clock_epoch" => t[row] = d.actor.signedAt
      BY <1>5, <2>1, <3>1 DEF ShownRows
    <3>. QED
      BY <2>1, <3>1, <3>2 DEF Displayed, ShownRows, PreAnchorNames
  <2>. QED
    BY <2>1, <2>3, <2>4, <2>5 DEF PreAnchorOutcome
<1>. QED
  BY <1>2, <1>3, <1>6, <1>7, <1>8

LEMMA SealedEntriesHold ==
  ASSUME NoneIsNothing, RecordsInOrder, NEW d \in runs
  PROVE  /\ RecordAnchorOutcomeOf(d, log) = IF d.record = None THEN "absent" ELSE "logged"
         /\ (d.record # None =>
               /\ d.record.signer = d.run.signer
               /\ LeafForm(d) = "v7" => d.record.time - d.run.time <= Window) =>
              EntryAuthOutcome(d, log) = "passed"
<1>. DEFINE a == d.record
<1>1. SealedOn(d, log) /\ SealedInOrder(d, now) /\ LeafForm(d) \in AllForms
  BY SealedContent DEF RecordsInOrder, RunsOnLog, RunsAsSealed
<1>2. now \in 1 .. MaxTime /\ d.run.time \in 1 .. MaxTime /\ d.run.time \in Int
  BY <1>1 DEF RecordsInOrder, RunsOnLog, SealedOn
<1>3. a # None =>
        /\ a.time \in 1 .. MaxTime /\ a.time \in Int /\ a.time >= d.run.time
        /\ a.signer = KeyAt[a.time]
        /\ a.signer \in PinnedKeys /\ SignerAcceptsAt(a.signer, a.time)
  <2>1. a # None => a.time \in 1 .. now /\ a.signer = KeyAt[a.time] /\ d.run.time <= a.time
    BY <1>1 DEF SealedInOrder
  <2>2. a # None => a.time \in 1 .. MaxTime /\ a.time \in Int
    BY <1>2, <2>1, TimeAssumption
  <2>. QED
    BY <1>2, <2>1, <2>2, KeyAssumption DEF SignerAcceptsAt
<1>4. RecordAnchorOutcomeOf(d, log) = IF a = None THEN "absent" ELSE "logged"
  BY <1>1, <1>3, OtherKeyAssumption DEF SealedOn, SealedInOrder, RecordAnchorOutcomeOf
<1>5. ASSUME a # None => /\ a.signer = d.run.signer
                         /\ LeafForm(d) = "v7" => a.time - d.run.time <= Window
      PROVE  EntryAuthOutcome(d, log) = "passed"
  <2>1. SignersHold(d, log)
    BY <1>3, <1>4, <1>5, SealedRunEntry DEF SignersHold
  <2>2. CASE LeafForm(d) \in OldForms
    <3>1. DOMAIN d.table = {}
      BY <2>2, SealedContent
    <3>2. WindowHolds(d, log)
      BY <3>1 DEF WindowHolds
    <3>. QED
      BY <2>1, <3>2, SealedRunEntry DEF EntryAuthOutcome
  <2>3. CASE LeafForm(d) \in TableForms
    <3>1. /\ DOMAIN d.table = TableNamesOf(LeafForm(d))
          /\ WindowRow \in DOMAIN d.table => d.table[WindowRow] = Window
          /\ d.table["clock_epoch"] = d.run.time
      BY <2>3, SealedRows
    <3>2. "clock_epoch" \in DOMAIN d.table /\ (WindowRow \in DOMAIN d.table => LeafForm(d) = "v7")
      BY <2>3, <3>1
         DEF TableNamesOf, TableForms, PreAnchorNames, PreAnchorNamesV2, PreAnchorNamesV3,
             WindowRow, RequirementRow
    <3>3. d.run.time # None
      BY <1>2 DEF NoneIsNothing
    <3>4. WindowReadable(Window) /\ Within(d.run.time, d.run.time, Window)
      BY <1>2, WindowAssumption DEF WindowReadable, Within
    <3>5. (a # None /\ LeafForm(d) = "v7") => Within(a.time, d.run.time, Window)
      BY <1>2, <1>3, <1>5, WindowAssumption DEF Within
    <3>6. WindowHolds(d, log)
      BY <1>4, <3>1, <3>2, <3>3, <3>4, <3>5 DEF WindowHolds
    <3>. QED
      BY <2>1, <3>6, SealedRunEntry DEF EntryAuthOutcome
  <2>. QED
    BY <1>1, <2>2, <2>3 DEF AllForms
<1>. QED
  BY <1>4, <1>5

LEMMA SealedVerifies ==
  ASSUME NoneIsNothing, RecordsInOrder
  PROVE  SealedRecordVerifies
<1>. SUFFICES ASSUME NEW d \in runs
              PROVE  LET form == LeafForm(d)
                         both == d.record # None
                     IN /\ form \in OldForms => TierOf(d, log) = "ANCHORED_PARTIAL_COVERAGE"
                        /\ (form = "v5" /\ ~both) => TierOf(d, log) = "ANCHORED_PARTIAL_COVERAGE"
                        /\ (form \in {"v6", "v7"} /\ ~both) => TierOf(d, log) = "FAILED"
                        /\ (both /\ d.record.signer = d.run.signer
                            /\ (form = "v7" => d.record.time - d.run.time <= Window)) =>
                              TierOf(d, log) = "VERIFIED_ANCHORED"
  BY DEF SealedRecordVerifies
<1>1. /\ RekorOutcome(d, log) = "passed" /\ LeafOutcome(d) = "passed" /\ PoteAgrees(d)
      /\ d.run.onLog = TRUE
      /\ LeafForm(d) \in AllForms /\ IdentityOutcome(d) = "passed" /\ NrepOutcome(d) # "failed"
      /\ LeafForm(d) \in OldForms => PreAnchorOutcome(d) = "absent" /\ DOMAIN d.table = {}
      /\ LeafForm(d) \in TableForms => PreAnchorOutcome(d) = "passed"
  BY SealedRunEntry, SealedContent
<1>2. /\ RecordAnchorOutcomeOf(d, log) = IF d.record = None THEN "absent" ELSE "logged"
      /\ d.record # None => LeafForm(d) \in TableForms
  BY SealedEntriesHold DEF RecordsInOrder, RunsAsSealed, SealedInOrder
<1>3. LeafForm(d) \in TableForms =>
        (TableRequiresCompleteRecordAnchor(d.table) <=> LeafForm(d) \in {"v6", "v7"})
  <2>1. ASSUME LeafForm(d) \in TableForms
        PROVE  DOMAIN d.table = TableNamesOf(LeafForm(d))
    BY <2>1, SealedRows
  <2>. QED
    BY <2>1
       DEF TableNamesOf, TableForms, TableRequiresCompleteRecordAnchor, PreAnchorNames,
           PreAnchorNamesV2, PreAnchorNamesV3, WindowRow, RequirementRow
<1>4. LeafForm(d) \in OldForms => ~TableRequiresCompleteRecordAnchor(d.table)
  BY <1>1 DEF TableRequiresCompleteRecordAnchor
<1>5. (d.record # None =>
         /\ d.record.signer = d.run.signer
         /\ LeafForm(d) = "v7" => d.record.time - d.run.time <= Window) =>
        TierOf(d, log) =
          IF TableRequiresCompleteRecordAnchor(d.table) /\ d.record = None
          THEN "FAILED"
          ELSE IF PreAnchorOutcome(d) = "passed" /\ d.record # None
               THEN "VERIFIED_ANCHORED" ELSE "ANCHORED_PARTIAL_COVERAGE"
  <2>. SUFFICES ASSUME d.record # None =>
                         /\ d.record.signer = d.run.signer
                         /\ LeafForm(d) = "v7" => d.record.time - d.run.time <= Window
                PROVE  TierOf(d, log) =
                         IF TableRequiresCompleteRecordAnchor(d.table) /\ d.record = None
                         THEN "FAILED"
                         ELSE IF PreAnchorOutcome(d) = "passed" /\ d.record # None
                              THEN "VERIFIED_ANCHORED" ELSE "ANCHORED_PARTIAL_COVERAGE"
    OBVIOUS
  <2>1. EntryAuthOutcome(d, log) = "passed"
    BY SealedEntriesHold
  <2>2. PreAnchorOutcome(d) # "failed" /\ RecordAnchorOutcomeOf(d, log) # "failed"
    BY <1>1, <1>2 DEF AllForms
  <2>3. TierOf(d, log) =
          IF TableRequiresCompleteRecordAnchor(d.table) /\ RecordAnchorOutcomeOf(d, log) # "logged"
          THEN "FAILED"
          ELSE IF PreAnchorOutcome(d) = "passed" /\ RecordAnchorOutcomeOf(d, log) = "logged"
               THEN "VERIFIED_ANCHORED" ELSE "ANCHORED_PARTIAL_COVERAGE"
    BY <1>1, <2>1, <2>2, TierFromChecks
  <2>. QED
    BY <1>2, <2>3
<1>. QED
  BY <1>1, <1>2, <1>3, <1>4, <1>5 DEF OldForms, TableForms

\* A record the server sealed verifies for good: complete with its second
\* entry in the window under one key, partial when it predates that entry,
\* failed when its leaf calls for an entry that is missing.
THEOREM SealedRecordsVerify ==
  ASSUME NoneIsNothing
  PROVE  Spec => []SealedRecordVerifies
<1>1. NoneIsNothing /\ RecordsInOrder => SealedRecordVerifies
  BY SealedVerifies
<1>. QED
  BY <1>1, RecordsStayInOrder, PTL
=============================================================================
