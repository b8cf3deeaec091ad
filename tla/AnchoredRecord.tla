--------------------------- MODULE AnchoredRecord ---------------------------
(***************************************************************************)
(* Records from the two log entries they are sealed with to the verdict a  *)
(* reader gets, perhaps much later and on a copy that is no longer the     *)
(* record that was sealed.                                                 *)
(*                                                                         *)
(* The server and the log are not part of this repository: they are        *)
(* modelled from what the verifier's comments and checks say of them.  The *)
(* server logs a run's entry, then, from leaf v5 on, a second entry over   *)
(* the finished record; time passes between the two, its signing key may   *)
(* be switched, and it may stop between them.  Its /attest endpoint logs   *)
(* entries with the same key.  Anyone may add entries under another key.   *)
(* The copy a reader holds may differ from every sealed record.            *)
(***************************************************************************)
EXTENDS BundleChecks, FiniteSets

CONSTANTS
  Submissions,  \* what a caller sends: [env, aer, sections, desc, actorId, scaffold]
  AttestIds,    \* envelope fields of /attest entries
  Aers,         \* execution identities
  OtherKey,     \* a log key that is not pinned
  KeyAt,        \* the server's key at each time
  FormsAt,      \* the leaf forms the server seals with at each time
  Window,       \* the window the server seals
  SectionValues, Descs, ActorIds,  \* values a changed copy may show
  Scopes,       \* what a behaviour may hold: [relogs, attests, submissions, forms,
                \* maxTime, maxLog, maxRuns, maxEdits]; relogs is TRUE when the holder
                \* of the server's key logs again later, the rest are bounds
  MaxTime       \* bound on the clock in every scope

VARIABLES
  scope,  \* the scope of this behaviour
  now,    \* the log's clock, in seconds
  log,    \* the public log
  runs,   \* the records the server sealed, and those it is sealing
  doc,    \* the copy a reader holds, None before there is one
  edits   \* how many changes were made to the copy

vars == <<scope, now, log, runs, doc, edits>>

ASSUME AttestAssumption == AttestIds \cap RunIds = {}
ASSUME KeyAssumption ==
  \A t \in 1 .. MaxTime :
    /\ KeyAt[t] \in PinnedKeys
    /\ NotBefore[KeyAt[t]] <= t
    /\ NotAfter[KeyAt[t]] = 0 \/ t < NotAfter[KeyAt[t]]
ASSUME OtherKeyAssumption ==
  OtherKey \notin PinnedKeys /\ OtherKey # None /\ None \notin PinnedKeys
ASSUME SubmissionsAssumption ==
  \A s \in Submissions : s.env \in RunIds /\ s.scaffold \in BOOLEAN
ASSUME TimeAssumption == MaxTime \in Nat \ {0}
\* The server logs no earlier leaf once records carry a table, and seals a
\* window the verifier reads.
ASSUME FormsAssumption ==
  \A t \in 1 .. MaxTime :
    FormsAt[t] \subseteq IF t >= TableSince THEN TableForms ELSE OldForms \cup TableForms
ASSUME WindowAssumption == Window \in 1 .. MaxWindow /\ {Skew, TableSince, MaxWindow} \subseteq Nat

NoTable == [row \in {} |-> None]

NoAnchor == [onLog |-> FALSE, number |-> 0, leaf |-> None, signer |-> None, time |-> 0]

Init ==
  /\ scope \in Scopes
  /\ now = 1
  /\ log = <<>>
  /\ runs = {}
  /\ doc = None
  /\ edits = 0

----------------------------------------------------------------------------
(* The server. *)

\* The server does not look at copies, so its steps come before the
\* reader's; time goes on while a copy may be logged again under its key.
ServerActs == doc = None
TimePasses == doc = None \/ scope.relogs

\* The actor signs the run's clock; an anonymous run carries no section.
ActorOf(s, clock) ==
  IF s.actorId = None THEN [id |-> None, signature |-> None, signedAt |-> None]
  ELSE [id |-> s.actorId, signature |-> <<s.env, s.aer, s.actorId, clock>>,
        signedAt |-> clock]

TableOf(s, clock, form) ==
  LET base == [envelope_id |-> s.env, aer_hash |-> s.aer, sections |-> s.sections,
               nrep_actor_id |-> ActorOf(s, clock).id,
               nrep_signature |-> ActorOf(s, clock).signature,
               nrep_signed_at |-> ActorOf(s, clock).signedAt,
               scaffold_flags |-> s.scaffold, clock_epoch |-> clock]
      names == CASE form = "v7" -> PreAnchorNamesV3
                 [] form = "v6" -> PreAnchorNamesV2
                 [] form = "v5" -> PreAnchorNames
                 [] OTHER -> {}
  IN [row \in names |-> CASE row = RequirementRow -> "required"
                          [] row = WindowRow -> Window
                          [] OTHER -> base[row]]

\* A record before its first entry is logged.
Unlogged(s, clock, form) ==
  [env |-> s.env, aer |-> s.aer, sections |-> s.sections, desc |-> s.desc,
   scaffold |-> s.scaffold, actor |-> ActorOf(s, clock),
   nonce |-> IF form = "v1" THEN 0 ELSE 1,
   table |-> TableOf(s, clock, form),
   tableDigest |-> IF form \in TableForms THEN TableOf(s, clock, form) ELSE None,
   sealingDigests |-> form \notin {"v1", "v2"},
   pote |-> None, run |-> NoAnchor, record |-> None]

Entry(leaf, signer, time) == [leaf |-> leaf, signer |-> signer, time |-> time]

\* Mutant: the position before this one.
AnchorAtShardPosition(number, e) ==
  [onLog |-> TRUE, number |-> number - 1, leaf |-> e.leaf, signer |-> e.signer, time |-> e.time]

AnchorAt(number, e) ==
  [onLog |-> TRUE, number |-> number, leaf |-> e.leaf, signer |-> e.signer, time |-> e.time]

LogEntry(e) == Len(log) < scope.maxLog /\ log' = Append(log, e)

\* The proof section's copy of a run entry; early records left its time out.
PoteOf(number, time) ==
  [number |-> number, time |-> IF time \in PoteDiffers THEN 0 ELSE time]

\* A run's entry is logged, and the proof section copies it.
StartRun(s, form) ==
  /\ ServerActs
  /\ Cardinality(runs) < scope.maxRuns
  /\ s \in scope.submissions
  /\ form \in FormsAt[now] \cap scope.forms
  /\ LET d == Unlogged(s, now, form)
         e == Entry(Leaf(d), KeyAt[now], now)
         n == Len(log) + 1
     IN /\ LogEntry(e)
        /\ runs' = runs \cup {[d EXCEPT !.run = AnchorAt(n, e),
                                        !.pote = PoteOf(n, now)]}
  /\ UNCHANGED <<scope, now, doc, edits>>

\* The finished record is logged as the run's second entry.
SealRecord(d) ==
  /\ ServerActs
  /\ LeafForm(d) \in TableForms
  /\ d.record = None
  /\ LET digest == RecordDigest(d)
         e == Entry(BundleLeaf(d.env, digest), KeyAt[now], now)
         n == Len(log) + 1
         a == AnchorAt(n, e)
     IN /\ LogEntry(e)
        /\ runs' = (runs \ {d}) \cup
             {[d EXCEPT !.record =
                [onLog |-> TRUE, number |-> n, leaf |-> e.leaf, signer |-> e.signer,
                 time |-> e.time, digest |-> digest]]}
  /\ UNCHANGED <<scope, now, doc, edits>>

\* POST /attest: a v2 leaf over a digest of the caller's choosing.
Attest(id, digest) ==
  /\ ServerActs
  /\ scope.attests
  /\ LogEntry(Entry(<<"v2", id, digest, 1>>, KeyAt[now], now))
  /\ UNCHANGED <<scope, now, runs, doc, edits>>

Tick ==
  /\ TimePasses
  /\ now < MaxTime /\ now < scope.maxTime
  /\ now' = now + 1
  /\ UNCHANGED <<scope, log, runs, doc, edits>>

----------------------------------------------------------------------------
(* The copy a reader holds. *)

Take(d) ==
  /\ doc = None
  /\ doc' = d
  /\ UNCHANGED <<scope, now, log, runs, edits>>

\* The leaves the copy calls for, logged under another key, or once more
\* by the holder of the server's key.
LogAgain(leaf) ==
  /\ \E key \in {OtherKey} \cup (IF scope.relogs THEN {KeyAt[now]} ELSE {}) :
       LogEntry(Entry(leaf, key, now))
  /\ UNCHANGED <<scope, now, runs, doc, edits>>

Change(d) ==
  /\ edits < scope.maxEdits
  /\ d # doc
  /\ doc' = d
  /\ edits' = edits + 1
  /\ UNCHANGED <<scope, now, log, runs>>

\* One part of the copy shows something else.
ChangeSection ==
  \/ \E v \in AttestIds \cup RunIds : Change([doc EXCEPT !.env = v])
  \/ \E v \in Aers : Change([doc EXCEPT !.aer = v])
  \/ \E v \in SectionValues : Change([doc EXCEPT !.sections = v])
  \/ \E v \in Descs : Change([doc EXCEPT !.desc = v])
  \/ Change([doc EXCEPT !.scaffold = ~@])
  \/ \E v \in ActorIds \cup {None},
        t \in IF doc.actor.signedAt = None THEN 1 .. now ELSE {doc.actor.signedAt} :
       Change([doc EXCEPT !.actor =
                 ActorOf([env |-> doc.env, aer |-> doc.aer, actorId |-> v], t)])
  \/ Change([doc EXCEPT !.actor.signedAt = None])

\* The table is dropped, loses a row, or is made to agree with the copy
\* (with the clock kept or moved).
ChangeTable ==
  \/ Change([doc EXCEPT !.table = NoTable, !.tableDigest = None, !.sealingDigests = FALSE])
  \/ \E row \in {RequirementRow, WindowRow} \cap DOMAIN doc.table :
       \E t \in {[r \in DOMAIN doc.table \ {row} |-> doc.table[r]]} :
         Change([doc EXCEPT !.table = t, !.tableDigest = t])
  \/ \E clock \in 1 .. now :
       \E t \in {[r \in DOMAIN doc.table |->
                    IF r \in {RequirementRow, WindowRow} THEN doc.table[r]
                    ELSE IF r = "clock_epoch" THEN clock
                    ELSE Displayed(doc, r)]} :
         Change([doc EXCEPT !.table = t, !.tableDigest = t])

\* The copy names another entry of the log, none, or another ledger.
ChangeAnchor ==
  \/ \E n \in DOMAIN log :
       \/ \E copy \in {doc.pote, [number |-> n, time |-> log[n].time]} :
            Change([doc EXCEPT !.run = AnchorAt(n, log[n]), !.pote = copy])
       \/ Change([doc EXCEPT !.record =
                    [onLog |-> TRUE, number |-> n, leaf |-> log[n].leaf,
                     signer |-> log[n].signer, time |-> log[n].time,
                     digest |-> RecordDigest(doc)]])
  \/ Change([doc EXCEPT !.record = None])
  \/ Change([doc EXCEPT !.record =
               [onLog |-> FALSE, number |-> 0, leaf |-> BundleLeaf(doc.env, RecordDigest(doc)),
                signer |-> None, time |-> 0, digest |-> RecordDigest(doc)]])
  \/ Change([doc EXCEPT !.run.signer = None])
  \/ Change([doc EXCEPT !.run.onLog = FALSE])

Rewrite == doc # None /\ (ChangeSection \/ ChangeTable \/ ChangeAnchor)

Next ==
  \/ \E s \in Submissions, form \in OldForms \cup TableForms : StartRun(s, form)
  \/ \E d \in runs : SealRecord(d)
  \/ \E id \in AttestIds, digest \in Aers : Attest(id, digest)
  \/ Tick
  \/ \E d \in runs : Take(d)
  \/ doc # None /\ LogAgain(Leaf(doc))
  \/ doc # None /\ LogAgain(BundleLeaf(doc.env, RecordDigest(doc)))
  \/ Rewrite

Spec == Init /\ [][Next]_vars

----------------------------------------------------------------------------
(* Properties *)

\* What a record says, its log proofs aside.
SameContent(d, e) == RecordDigest(d) = RecordDigest(e)

\* The log numbers entries by position and never lets one be dated later
\* than now; sealed records are on it, and a copy exists once taken.
TypeOK ==
  /\ now \in 1 .. MaxTime
  /\ \A n \in DOMAIN log : /\ log[n].time \in 1 .. now
                           /\ log[n].signer \in PinnedKeys \cup {OtherKey}
                           /\ \A m \in 1 .. n : log[m].time <= log[n].time
  /\ \A d \in runs : Logged(d.run, log) /\ (d.record # None => Logged(d.record, log))
  /\ doc = None => edits = 0

\* README, exit code 0: while only the server logs under its key, a record
\* called complete is, part for part, one the server sealed, with the run
\* entry it was sealed with.
CompleteRecordIsGenuine ==
  (~scope.relogs /\ doc # None /\ TierOf(doc, log) = "VERIFIED_ANCHORED") =>
    \E d \in runs : SameContent(doc, d) /\ doc.run.number = d.run.number

\* What makes the above hold: under the server's key the log has nothing
\* but the two entries of sealed records and the entries of /attest, and
\* the entries of a sealed record are the ones the record calls for.
EntriesOf(n) ==
  \/ \E d \in runs : d.run.number = n
  \/ \E d \in runs : d.record # None /\ d.record.number = n
  \/ \E id \in AttestIds, digest \in Aers : log[n].leaf = <<"v2", id, digest, 1>>

SealedAsLogged(d) ==
  /\ d.run.onLog /\ Logged(d.run, log)
  /\ d.run.leaf = Leaf(d)
  /\ d.pote = PoteOf(d.run.number, d.run.time)
  /\ d.run.time \in 1 .. MaxTime /\ LeafForm(d) \in FormsAt[d.run.time]
  /\ d.record # None =>
       Logged(d.record, log) /\ d.record.leaf = BundleLeaf(d.env, RecordDigest(d))

PinnedEntriesAreOurs ==
  /\ ~scope.relogs => \A n \in DOMAIN log : log[n].signer \in PinnedKeys => EntriesOf(n)
  /\ \A d \in runs : SealedAsLogged(d)

\* While only the server logs under its key, a record called anchored, in part or whole, shows the run values of one
\* the server sealed; from leaf v5 on also its table's values, and under
\* a v3 leaf its actor section and flags.
AnchoredRunIsGenuine ==
  (~scope.relogs /\ doc # None /\ TierOf(doc, log) \in {"VERIFIED_ANCHORED", "ANCHORED_PARTIAL_COVERAGE"}) =>
    \E d \in runs :
      /\ d.env = doc.env /\ d.aer = doc.aer
      /\ LeafForm(doc) = LeafForm(d)
      /\ LeafForm(doc) \in TableForms =>
           /\ doc.table = d.table /\ doc.sections = d.sections
           /\ doc.actor = d.actor /\ doc.scaffold = d.scaffold
      /\ LeafForm(doc) = "v3" => doc.actor = d.actor /\ doc.scaffold = d.scaffold

\* README, since v0.11.0: a record whose run entry was logged under leaf
\* v6 or later never earns the partial verdict, whatever was removed from
\* the copy or put in its place.
RequirementCannotBeRemoved ==
  (doc # None /\ TierOf(doc, log) = "ANCHORED_PARTIAL_COVERAGE") =>
    \A d \in runs : d.run.number = doc.run.number => LeafForm(d) \notin {"v6", "v7"}

\* An actor section reported as sealed to the anchor is the one a run was
\* sealed with, on the run it was sealed with, whatever else fails.
SealedActorIsGenuine ==
  (~scope.relogs /\ doc # None /\ ActorSealed(doc, log) /\ IdentityOutcome(doc) = "passed") =>
    \E d \in runs : d.env = doc.env /\ d.aer = doc.aer /\ d.actor = doc.actor

\* A record the server sealed verifies for good: complete when its second
\* entry was logged, partial when it predates that entry, as long as both
\* entries met the window and the key was not switched between them.  It
\* speaks of the records, not of a copy.
SealedRecordVerifies == doc = None =>
  \A d \in runs :
    LET form == LeafForm(d)
        both == d.record # None
    IN /\ form \in OldForms => TierOf(d, log) = "ANCHORED_PARTIAL_COVERAGE"
       /\ (form = "v5" /\ ~both) => TierOf(d, log) = "ANCHORED_PARTIAL_COVERAGE"
       /\ (form \in {"v6", "v7"} /\ ~both) => TierOf(d, log) = "FAILED"
       /\ (both /\ d.record.signer = d.run.signer
           /\ (form = "v7" => d.record.time - d.run.time <= Window)) =>
             TierOf(d, log) = "VERIFIED_ANCHORED"

\* Whatever the copy holds, its checks are of a combination verify() can
\* return: the ones VerifyRun starts from.
ChecksAreCoherent == doc # None =>
  ChecksOfRecord(doc, log) \in Checks /\ Coherent(ChecksOfRecord(doc, log))

\* README, window: under leaf v7 a record first logged after the window,
\* by whoever holds the server's key, cannot keep the run's clock.
LateRecordCannotKeepClock ==
  (doc # None /\ WindowRow \in DOMAIN doc.table
   /\ TierOf(doc, log) = "VERIFIED_ANCHORED") =>
    \E n \in DOMAIN log :
      /\ log[n].leaf = BundleLeaf(doc.env, RecordDigest(doc))
      /\ log[n].time <= doc.table["clock_epoch"] + doc.table[WindowRow]
=============================================================================
