--------------------------- MODULE AnchoredReceipt ---------------------------
(***************************************************************************)
(* Receipts from the moment they are issued to the verdict a reader gets   *)
(* on a copy.  The server, which is not part of this repository, issues a  *)
(* receipt under the form of its time and then logs it, at once, late or   *)
(* never.  Anyone may log entries under another key, and the copy may      *)
(* differ from every receipt that was issued.                              *)
(***************************************************************************)
EXTENDS ReceiptChecks, FiniteSets

CONSTANTS
  FormsAt,    \* at each tick, the forms the server issues under; "none" before any
  KeyAt,      \* the server's key in each second
  OtherKey,   \* a log key that is not pinned
  Scopes,     \* what a behaviour may hold: [relogs, refusals, contexts, since, maxTime,
              \* maxReceipts, maxLog, maxEdits]; relogs is TRUE when the holder of the
              \* server's key logs again later, refusals are what the runs seal ([kind,
              \* env, body, context]), contexts what a changed copy may show, and the
              \* rest bounds: the first receipt's time, the clock, the numbers of
              \* receipts, of entries and of changes to a copy
  Kinds, Envs, Bodies,  \* values a changed copy may show
  MaxTime, MaxLog, MaxEdits  \* bounds in every scope

VARIABLES
  scope,   \* the scope of this behaviour
  now,     \* the server's clock, in ticks
  log,     \* the public log
  issued,  \* the receipts the server issued
  copy,    \* the document a reader holds, None before there is one
  edits    \* how many changes were made to the copy

vars == <<scope, now, log, issued, copy, edits>>

ASSUME ServerKeyAssumption ==
  \A t \in 1 .. (MaxTime \div Second) :
    /\ KeyAt[t] \in PinnedKeys
    /\ NotBefore[KeyAt[t]] = 0 \/ NotBefore[KeyAt[t]] <= t
    /\ NotAfter[KeyAt[t]] = 0 \/ t < NotAfter[KeyAt[t]]
ASSUME StrangerAssumption == OtherKey \notin PinnedKeys
ASSUME ClockAssumption == Second \in Nat \ {0} /\ MaxTime \in Nat /\ MaxTime >= Second
ASSUME TimesAssumption == {ExpectedSince, RequiredSince, ReceiptWindow, Skew} \subseteq Nat
ASSUME RefusalAssumption ==
  \A s \in Scopes : \A r \in s.refusals : r.env \in LeafEnvs /\ r.context # None
\* Runs 241 and 242: from each on, every receipt is anchored, then required.
ASSUME CutoverAssumption ==
  \A t \in Second .. MaxTime :
    /\ t < ExpectedSince => FormsAt[t] \subseteq {"none"}
    /\ t >= ExpectedSince => FormsAt[t] \subseteq {"v1", "v2", "v3"}
    /\ t >= RequiredSince => FormsAt[t] \subseteq {"v2", "v3"}
    /\ (t < RequiredSince) => FormsAt[t] \subseteq {"none", "v1"}

Init ==
  /\ scope \in Scopes
  /\ now = Second
  /\ log = <<>>
  /\ issued = {}
  /\ copy = None
  /\ edits = 0

----------------------------------------------------------------------------
(* The server. *)

\* The form a receipt was issued under.
IssuedForm(d) ==
  CASE d.context # None -> "v3"
    [] d.context = None /\ d.required -> "v2"
    [] OTHER -> IF d.clock >= ExpectedSince THEN "v1" ELSE "none"

\* The server does not look at copies, so its steps come before the
\* reader's; time goes on while a copy may be logged again under its key.
ServerActs == copy = None
TimePasses == copy = None \/ scope.relogs

Issue(r, form) ==
  /\ ServerActs
  /\ Cardinality(issued) < scope.maxReceipts
  /\ now >= scope.since /\ form \in FormsAt[now]
  /\ issued' = issued \cup
       {[ok |-> TRUE, runId |-> Cardinality(issued) + 1, kind |-> r.kind, env |-> r.env,
         clock |-> now, body |-> r.body, required |-> form \in {"v2", "v3"},
         context |-> IF form = "v3" THEN r.context ELSE None, anchor |-> None]}
  /\ UNCHANGED <<scope, now, log, copy, edits>>

LogEntry(leaf, key) ==
  /\ Len(log) < MaxLog /\ Len(log) < scope.maxLog
  /\ log' = Append(log, [leaf |-> leaf, signer |-> key, time |-> now \div Second])

\* An anchor that names entry e, for the document d.
AnchorFor(d, form, number, e) ==
  [form |-> form, kind |-> d.kind, hash |-> ReceiptHash(d), leaf |-> e.leaf, onLog |-> TRUE,
   number |-> number, signer |-> e.signer, time |-> e.time]

LogReceipt(d) ==
  /\ ServerActs
  /\ d.anchor = None
  /\ IssuedForm(d) # "none"
  /\ LogEntry(ReceiptLeaf(d, IssuedForm(d)), KeyAt[now \div Second])
  /\ issued' = (issued \ {d}) \cup
       {[d EXCEPT !.anchor = AnchorFor(d, IssuedForm(d), Len(log) + 1, log'[Len(log) + 1])]}
  /\ UNCHANGED <<scope, now, copy, edits>>

Tick ==
  /\ TimePasses
  /\ now < MaxTime /\ now < scope.maxTime
  /\ now' = now + 1
  /\ UNCHANGED <<scope, log, issued, copy, edits>>

----------------------------------------------------------------------------
(* The copy a reader holds. *)

Take(d) ==
  /\ copy = None
  /\ copy' = d
  /\ UNCHANGED <<scope, now, log, issued, edits>>

\* An entry for the copy, under another key, or under the server's by
\* whoever holds it.
LogAgain(form) ==
  /\ copy # None
  /\ \E key \in {OtherKey} \cup (IF scope.relogs THEN {KeyAt[now \div Second]} ELSE {}) :
       LogEntry(ReceiptLeaf(copy, form), key)
  /\ UNCHANGED <<scope, now, issued, copy, edits>>

Change(d) ==
  /\ edits < MaxEdits /\ edits < scope.maxEdits
  /\ d # copy
  /\ copy' = d
  /\ edits' = edits + 1
  /\ UNCHANGED <<scope, now, log, issued>>

ChangeReceipt ==
  \/ \E v \in Kinds : Change([copy EXCEPT !.kind = v])
  \/ \E v \in Envs : Change([copy EXCEPT !.env = v])
  \/ \E v \in Bodies : Change([copy EXCEPT !.body = v])
  \/ \E t \in Second .. now : Change([copy EXCEPT !.clock = t])
  \/ Change([copy EXCEPT !.required = ~@])
  \/ \E n \in 0 .. scope.maxReceipts : Change([copy EXCEPT !.runId = n])
  \/ \E v \in scope.contexts \cup {None} : Change([copy EXCEPT !.context = v])
  \/ Change([copy EXCEPT !.ok = FALSE])

\* The copy names an entry of the log, one of another ledger, or none.
ChangeAnchor ==
  \/ Change([copy EXCEPT !.anchor = None])
  \/ \E form \in AnchorForms \cup {"other"} :
       \/ \E n \in DOMAIN log : Change([copy EXCEPT !.anchor = AnchorFor(copy, form, n, log[n])])
       \/ Change([copy EXCEPT !.anchor =
                    [form |-> form, kind |-> copy.kind, hash |-> ReceiptHash(copy),
                     leaf |-> ReceiptLeaf(copy, form), onLog |-> FALSE, number |-> 0,
                     signer |-> None, time |-> 0]])

Rewrite == copy # None /\ (ChangeReceipt \/ ChangeAnchor)

Next ==
  \/ \E r \in scope.refusals, form \in AnchorForms \cup {"none"} : Issue(r, form)
  \/ \E d \in issued : LogReceipt(d)
  \/ Tick
  \/ \E d \in issued : Take(d)
  \/ \E form \in AnchorForms : LogAgain(form)
  \/ Rewrite

Spec == Init /\ [][Next]_vars

----------------------------------------------------------------------------
(* Properties *)

\* README, receipt anchor v1 to v3: while only the server logs under its
\* key, a receipt called anchored is one the server issued, with its clock
\* and everything its hash covers; from v2 on with its run number, and
\* under v3 with its context.
AnchoredReceiptIsGenuine ==
  \A selfHosted \in BOOLEAN :
    (~scope.relogs /\ copy # None
     /\ ReceiptTier(copy, log, selfHosted) = "VERIFIED_ANCHORED") =>
      \E d \in issued :
        /\ ReceiptHash(copy) = ReceiptHash(d)
        /\ copy.context = d.context
        /\ copy.anchor.form \in {"v2", "v3"} => copy.runId = d.runId

\* README, v0.14.0 to v0.14.2: while a copy keeps what its hash covers, taking
\* its entry away never leaves a receipt issued since anchoring began merely
\* self-consistent; a reader who exempts self-hosted deployments gives that
\* up, for the receipts of run 241's form alone.
AnchorCannotBeRemoved ==
  \A selfHosted \in BOOLEAN :
    (copy # None /\ ReceiptTier(copy, log, selfHosted) = "SELF_CONSISTENT_NOT_ANCHORED") =>
      \A d \in issued :
        (ReceiptHash(copy) = ReceiptHash(d)) =>
          IssuedForm(d) = "none" \/ (IssuedForm(d) = "v1" /\ selfHosted)

\* A receipt verifies for good as what it is: anchored when it was logged
\* in time, self-consistent when it predates anchoring, failed when its
\* entry is missing or late.
IssuedReceiptVerifies ==
  \A d \in issued :
    LET tier == ReceiptTier(d, log, FALSE)
    IN /\ IssuedForm(d) = "none" => tier = "SELF_CONSISTENT_NOT_ANCHORED"
       /\ (IssuedForm(d) # "none" /\ d.anchor = None) => tier = "FAILED"
       /\ (d.anchor # None /\ d.anchor.time * Second <= d.clock + ReceiptWindow * Second) =>
            tier = "VERIFIED_ANCHORED"
       /\ (d.anchor # None /\ d.anchor.time * Second >= d.clock + (ReceiptWindow + 1) * Second) =>
            tier = "FAILED"

\* README, receipts: a receipt rewritten later, by whoever holds the
\* server's key, cannot keep its date: the log has an entry for what the
\* copy says less than the window and one second from the clock it shows.
RewrittenReceiptLosesDate ==
  \A selfHosted \in BOOLEAN :
    (copy # None /\ ReceiptTier(copy, log, selfHosted) = "VERIFIED_ANCHORED") =>
      \E n \in DOMAIN log, form \in AnchorForms :
        /\ log[n].leaf = ReceiptLeaf(copy, form)
        /\ log[n].time * Second < copy.clock + (ReceiptWindow + 1) * Second

\* README.md and receipt.go: the entry was logged within the window after
\* the receipt's own clock.
EntryWithinWindow ==
  \A d \in issued :
    ReceiptTier(d, log, FALSE) = "VERIFIED_ANCHORED" =>
      d.anchor.time * Second - d.clock <= ReceiptWindow * Second
=============================================================================
