---------------------------- MODULE ReceiptRun_proofs ----------------------------
(***************************************************************************)
(* Theorems about receipts, for every set of refusals, keys, times, forms, *)
(* contexts, policies, command lines and copies.  First AnchoredReceipt:   *)
(* one inductive invariant says what the server's receipts and its log     *)
(* entries have in common, and what a reader's copy shows follows from it  *)
(* and from the checks, whatever happened to the copy.  Then ReceiptRun:   *)
(* a run of main() leaves that world alone, it keeps the verifier's        *)
(* promise step by step, and what it accepts holds with every file given.  *)
(***************************************************************************)
EXTENDS ReceiptRun, FiniteSetTheorems, TLAPS

(***************************************************************************)
(* Growing sequences.                                                      *)
(***************************************************************************)
\* An appended element takes the next place and moves no other.
LEMMA AppendKeeps ==
  ASSUME NEW s, NEW e, \E S : s \in Seq(S)
  PROVE  /\ \E S : Append(s, e) \in Seq(S)
         /\ Len(s) \in Nat
         /\ DOMAIN s = 1 .. Len(s)
         /\ DOMAIN Append(s, e) = 1 .. Len(s) + 1
         /\ Append(s, e)[Len(s) + 1] = e
         /\ \A n \in 1 .. Len(s) : Append(s, e)[n] = s[n]
<1>1. PICK S : s \in Seq(S)
  OBVIOUS
<1>2. s \in Seq(S \cup {e})
  BY <1>1
<1>3. Append(s, e) \in Seq(S \cup {e})
  BY <1>2
<1>. QED
  BY <1>2, <1>3

\* The elements of a grown sequence are the earlier ones and the new one.
LEMMA EntryOldOrNew ==
  ASSUME NEW s, NEW e, \E S : s \in Seq(S), NEW n \in DOMAIN Append(s, e)
  PROVE  \/ n \in DOMAIN s /\ Append(s, e)[n] = s[n]
         \/ n = Len(s) + 1 /\ Append(s, e)[n] = e
<1>1. /\ Len(s) \in Nat /\ DOMAIN s = 1 .. Len(s) /\ DOMAIN Append(s, e) = 1 .. Len(s) + 1
      /\ Append(s, e)[Len(s) + 1] = e /\ \A m \in 1 .. Len(s) : Append(s, e)[m] = s[m]
  BY AppendKeeps
<1>2. n \in 1 .. Len(s) \/ n = Len(s) + 1
  BY <1>1
<1>. QED
  BY <1>1, <1>2

(***************************************************************************)
(* What holds of the issued receipts and of the log.                       *)
(***************************************************************************)
Fields == {"ok", "runId", "kind", "env", "clock", "body", "required", "context", "anchor"}

LogIsSequence == \E S : log \in Seq(S)

\* What holds of an issued receipt on any log that has its entry.
IssuedOn(d, l) ==
  /\ DOMAIN d = Fields
  /\ d.ok = TRUE /\ d.runId \in Nat \ {0} /\ d.env \in LeafEnvs /\ d.required \in BOOLEAN
  /\ d.clock \in Second .. MaxTime /\ IssuedForm(d) \in FormsAt[d.clock]
  /\ d.context # None => d.required
  /\ d.anchor # None =>
       /\ IssuedForm(d) # "none" /\ d.anchor.form = IssuedForm(d)
       /\ d.anchor.kind = d.kind /\ d.anchor.hash = ReceiptHash(d)
       /\ d.anchor.leaf = ReceiptLeaf(d, IssuedForm(d))
       /\ d.anchor.onLog = TRUE /\ Logged(d.anchor, l)
       /\ d.anchor.time \in 1 .. MaxTime \div Second
       /\ d.anchor.signer = KeyAt[d.anchor.time]
       /\ d.clock \div Second <= d.anchor.time

\* What holds however often an entry is logged again.
ReceiptsOnLog ==
  /\ scope \in Scopes
  /\ now \in Second .. MaxTime
  /\ LogIsSequence
  /\ \A n \in DOMAIN log : log[n].time \in Nat
  /\ IsFiniteSet(issued)
  /\ \A d \in issued : d.clock <= now /\ IssuedOn(d, log)
  /\ copy # None => DOMAIN copy = Fields /\ copy.clock \in Nat

\* Under the server's key the log has the entries of issued receipts only.
ServersEntry(n, l, docs) ==
  l[n].signer \in PinnedKeys => \E d \in docs : l[n].leaf = ReceiptLeaf(d, IssuedForm(d))

ServersEntriesAreReceipts ==
  ~scope.relogs => \A n \in DOMAIN log : ServersEntry(n, log, issued)

----------------------------------------------------------------------------
(* Ticks and seconds. *)

LEMMA DivBounds ==
  ASSUME NEW a \in Nat, NEW s \in Nat \ {0}
  PROVE  a \div s \in Nat /\ (a \div s) * s <= a /\ a < (a \div s) * s + s
OBVIOUS

LEMMA TimesMonotone ==
  ASSUME NEW x \in Nat, NEW y \in Nat, NEW s \in Nat \ {0}, x + 1 <= y
  PROVE  x * s + s <= y * s
OBVIOUS

LEMMA DivMonotone ==
  ASSUME NEW a \in Nat, NEW b \in Nat, a <= b, NEW s \in Nat \ {0}
  PROVE  a \div s <= b \div s
BY DivBounds, TimesMonotone

\* Whole seconds bound ticks and the other way round.
LEMMA DivByBound ==
  ASSUME NEW a \in Nat, NEW w \in Nat, NEW s \in Nat \ {0}
  PROVE  /\ a <= w * s => a \div s <= w
         /\ a >= (w + 1) * s => ~(a \div s <= w)
BY DivBounds, TimesMonotone

\* The log's clock is the server's, in seconds.
LEMMA SecondOfClock ==
  ASSUME NEW t \in Second .. MaxTime
  PROVE  t \in Nat /\ t \div Second \in 1 .. MaxTime \div Second
<1>1. Second \in Nat \ {0} /\ MaxTime \in Nat /\ t \in Nat /\ Second <= t /\ t <= MaxTime
  BY ClockAssumption
<1>2. t \div Second \in Nat /\ MaxTime \div Second \in Nat /\ t \div Second <= MaxTime \div Second
  BY <1>1, DivBounds, DivMonotone
<1>3. Second \div Second <= t \div Second /\ Second < (Second \div Second) * Second + Second
      /\ Second \div Second \in Nat
  BY <1>1, DivBounds, DivMonotone
<1>4. Second \div Second # 0
  BY <1>1, <1>3
<1>. QED
  BY <1>1, <1>2, <1>3, <1>4

----------------------------------------------------------------------------
(* A receipt and its anchor. *)

\* Naming its entry does not change what a receipt says.
LEMMA AnchorKeepsContent ==
  ASSUME NEW d, NEW a, DOMAIN d = Fields
  PROVE  LET f == [d EXCEPT !.anchor = a]
         IN /\ DOMAIN f = Fields /\ f.anchor = a /\ f.ok = d.ok /\ f.runId = d.runId
            /\ f.env = d.env /\ f.kind = d.kind /\ f.required = d.required
            /\ f.clock = d.clock /\ f.context = d.context
            /\ ReceiptHash(f) = ReceiptHash(d) /\ IssuedForm(f) = IssuedForm(d)
            /\ \A form : ReceiptLeaf(f, form) = ReceiptLeaf(d, form)
<1>. DEFINE f == [d EXCEPT !.anchor = a]
<1>1. /\ DOMAIN f = Fields /\ f.anchor = a /\ \A x \in Fields \ {"anchor"} : f[x] = d[x]
  BY DEF Fields
<1>2. /\ f.ok = d.ok /\ f.runId = d.runId /\ f.env = d.env /\ f.kind = d.kind
      /\ f.required = d.required /\ f.clock = d.clock /\ f.context = d.context
      /\ f.body = d.body
  BY <1>1 DEF Fields
<1>3. ReceiptHash(f) = ReceiptHash(d) /\ IssuedForm(f) = IssuedForm(d)
  BY <1>2 DEF ReceiptHash, IssuedForm
<1>4. \A form : ReceiptLeaf(f, form) = ReceiptLeaf(d, form)
  BY <1>2, <1>3 DEF ReceiptLeaf
<1>. QED
  BY <1>1, <1>2, <1>3, <1>4

LEMMA IssuedStays ==
  ASSUME NEW d, NEW l, NEW e, \E S : l \in Seq(S), IssuedOn(d, l)
  PROVE  IssuedOn(d, Append(l, e))
BY AppendKeeps DEF IssuedOn, Logged

\* A receipt is issued under the form of its time, and shows it.
LEMMA IssueStep ==
  ASSUME ReceiptsOnLog, NEW r \in scope.refusals, NEW form \in AnchorForms \cup {"none"},
         Issue(r, form)
  PROVE  ReceiptsOnLog'
<1>. DEFINE d == [ok |-> TRUE, runId |-> Cardinality(issued) + 1, kind |-> r.kind, env |-> r.env,
                  clock |-> now, body |-> r.body, required |-> form \in {"v2", "v3"},
                  context |-> IF form = "v3" THEN r.context ELSE None, anchor |-> None]
<1>1. /\ form \in FormsAt[now] /\ issued' = issued \cup {d}
      /\ scope' = scope /\ now' = now /\ log' = log /\ copy' = copy
  BY DEF Issue
<1>2. r.env \in LeafEnvs /\ r.context # None
  BY RefusalAssumption DEF ReceiptsOnLog
<1>3. Cardinality(issued) + 1 \in Nat \ {0}
  BY FS_CardinalityType DEF ReceiptsOnLog
<1>4. now \in Second .. MaxTime /\ now \in Int
  BY ClockAssumption DEF ReceiptsOnLog
<1>5. /\ DOMAIN d = Fields /\ d.ok = TRUE /\ d.runId = Cardinality(issued) + 1
      /\ d.env = r.env /\ d.clock = now /\ d.anchor = None /\ d.required \in BOOLEAN
      /\ d.required <=> form \in {"v2", "v3"}
      /\ d.context = IF form = "v3" THEN r.context ELSE None
  <2>1. /\ DOMAIN d = Fields /\ d.ok = TRUE /\ d.runId = Cardinality(issued) + 1
        /\ d.env = r.env /\ d.clock = now /\ d.anchor = None
        /\ d.context = IF form = "v3" THEN r.context ELSE None
    BY DEF Fields
  <2>2. d.required = (form \in {"v2", "v3"})
    BY Zenon
  <2>3. (form \in {"v2", "v3"}) \in BOOLEAN
    OBVIOUS
  <2>. HIDE DEF d
  <2>. DEFINE strong == form \in {"v2", "v3"}
  <2>4. d.required = strong /\ strong \in BOOLEAN
    BY <2>2, <2>3
  <2>. HIDE DEF strong
  <2>5. d.required \in BOOLEAN /\ (d.required <=> strong)
    BY <2>4
  <2>. QED
    BY <2>1, <2>5 DEF strong
<1>. HIDE DEF d
<1>6. IssuedForm(d) = form
  <2>1. form = "v1" => now >= ExpectedSince
    BY <1>1, <1>4, CutoverAssumption, TimesAssumption
  <2>2. form = "none" => ~(now >= ExpectedSince)
    BY <1>1, <1>4, CutoverAssumption, TimesAssumption
  <2>3. CASE form = "v3"
    BY <1>2, <1>5, <2>3 DEF IssuedForm
  <2>4. CASE form = "v2"
    BY <1>5, <2>4 DEF IssuedForm
  <2>5. CASE form \in {"v1", "none"}
    BY <1>5, <2>1, <2>2, <2>5 DEF IssuedForm
  <2>. QED
    BY <2>3, <2>4, <2>5 DEF AnchorForms
<1>7. IssuedOn(d, log')
  BY <1>1, <1>2, <1>3, <1>4, <1>5, <1>6 DEF IssuedOn, Fields
<1>8. IsFiniteSet(issued')
  BY <1>1, FS_AddElement DEF ReceiptsOnLog
<1>9. d.clock <= now
  BY <1>4, <1>5
<1>. QED
  BY <1>1, <1>7, <1>8, <1>9 DEF ReceiptsOnLog, LogIsSequence

\* An entry added to the log: the receipts stay where they are.
LEMMA LogGrows ==
  ASSUME ReceiptsOnLog, NEW leaf, NEW key, LogEntry(leaf, key)
  PROVE  /\ LogIsSequence'
         /\ \A n \in DOMAIN log' : log'[n].time \in Nat
         /\ \A d \in issued : IssuedOn(d, log')
         /\ now \div Second \in 1 .. MaxTime \div Second
<1>. DEFINE e == [leaf |-> leaf, signer |-> key, time |-> now \div Second]
<1>1. log' = Append(log, e)
  BY DEF LogEntry
<1>2. now \div Second \in 1 .. MaxTime \div Second
  BY SecondOfClock DEF ReceiptsOnLog
<1>3. e.time \in Nat
  BY <1>2
<1>. HIDE DEF e
<1>4. LogIsSequence'
  BY <1>1, AppendKeeps DEF ReceiptsOnLog, LogIsSequence
<1>5. ASSUME NEW n \in DOMAIN log'
      PROVE  log'[n].time \in Nat
  BY <1>1, <1>3, <1>5, EntryOldOrNew DEF ReceiptsOnLog, LogIsSequence
<1>6. \A d \in issued : IssuedOn(d, log')
  BY <1>1, IssuedStays DEF ReceiptsOnLog, LogIsSequence
<1>. QED
  BY <1>2, <1>4, <1>5, <1>6

\* A receipt's entry: the leaf is the receipt's, under the server's key of
\* that second, and not dated before the receipt.
LEMMA LogReceiptStep ==
  ASSUME ReceiptsOnLog, NEW d \in issued, LogReceipt(d)
  PROVE  ReceiptsOnLog'
<1>. DEFINE t == now \div Second
            e == [leaf |-> ReceiptLeaf(d, IssuedForm(d)), signer |-> KeyAt[t], time |-> t]
            n == Len(log) + 1
            a == [form |-> IssuedForm(d), kind |-> d.kind, hash |-> ReceiptHash(d),
                  leaf |-> e.leaf, onLog |-> TRUE, number |-> n, signer |-> e.signer,
                  time |-> e.time]
            f == [d EXCEPT !.anchor = a]
<1>1. /\ LogEntry(ReceiptLeaf(d, IssuedForm(d)), KeyAt[t])
      /\ log' = Append(log, e) /\ IssuedForm(d) # "none"
      /\ scope' = scope /\ now' = now /\ copy' = copy
  BY DEF LogReceipt, LogEntry
<1>2. log'[n] = e /\ n \in DOMAIN log'
  BY <1>1, AppendKeeps DEF ReceiptsOnLog, LogIsSequence
<1>3. issued' = (issued \ {d}) \cup {f}
  BY <1>2 DEF LogReceipt, AnchorFor
<1>4. /\ LogIsSequence' /\ \A m \in DOMAIN log' : log'[m].time \in Nat
      /\ \A r \in issued : IssuedOn(r, log')
      /\ t \in 1 .. MaxTime \div Second
  BY <1>1, LogGrows
<1>5. IssuedOn(d, log') /\ d.clock <= now
  BY <1>4 DEF ReceiptsOnLog
<1>6. d.clock \div Second <= t
  BY <1>5, SecondOfClock, DivMonotone, ClockAssumption DEF ReceiptsOnLog, IssuedOn
<1>7. /\ DOMAIN f = Fields /\ f.anchor = a /\ f.ok = d.ok /\ f.runId = d.runId
      /\ f.env = d.env /\ f.kind = d.kind /\ f.required = d.required
      /\ f.clock = d.clock /\ f.context = d.context
      /\ ReceiptHash(f) = ReceiptHash(d) /\ IssuedForm(f) = IssuedForm(d)
      /\ \A form : ReceiptLeaf(f, form) = ReceiptLeaf(d, form)
  <2>1. DOMAIN d = Fields
    BY <1>5 DEF IssuedOn
  <2>. HIDE DEF a
  <2>. QED
    BY <2>1, AnchorKeepsContent
<1>8. Logged(a, log')
  BY <1>2 DEF Logged
<1>9. /\ a.form = IssuedForm(d) /\ a.kind = d.kind /\ a.hash = ReceiptHash(d)
      /\ a.leaf = ReceiptLeaf(d, IssuedForm(d)) /\ a.onLog = TRUE /\ a.time = t
      /\ a.signer = KeyAt[t]
  OBVIOUS
<1>. HIDE DEF a, f, e
<1>10. IssuedOn(f, log')
  BY <1>1, <1>4, <1>5, <1>6, <1>7, <1>8, <1>9 DEF IssuedOn
<1>11. IsFiniteSet(issued')
  BY <1>3, FS_AddElement, FS_RemoveElement DEF ReceiptsOnLog
<1>. QED
  BY <1>1, <1>3, <1>4, <1>5, <1>7, <1>10, <1>11 DEF ReceiptsOnLog

LEMMA TickStep ==
  ASSUME ReceiptsOnLog, Tick
  PROVE  ReceiptsOnLog'
<1>1. now \in Int /\ now' \in Second .. MaxTime /\ now <= now'
  BY ClockAssumption DEF ReceiptsOnLog, Tick
<1>2. \A d \in issued : d.clock <= now'
  BY <1>1, ClockAssumption DEF ReceiptsOnLog, IssuedOn
<1>. QED
  BY <1>1, <1>2 DEF Tick, ReceiptsOnLog, LogIsSequence

\* A changed copy has the fields of a receipt, and some clock.
LEMMA RewriteStep ==
  ASSUME ReceiptsOnLog, Rewrite
  PROVE  ReceiptsOnLog'
<1>1. DOMAIN copy = Fields /\ copy.clock \in Nat /\ copy # None
  BY DEF ReceiptsOnLog, Rewrite
<1>2. ASSUME NEW x \in Fields \ {"clock"}, NEW v, copy' = [copy EXCEPT ![x] = v]
      PROVE  DOMAIN copy' = Fields /\ copy'.clock \in Nat
  BY <1>1, <1>2 DEF Fields
<1>3. ASSUME NEW v \in Nat, copy' = [copy EXCEPT !.clock = v]
      PROVE  DOMAIN copy' = Fields /\ copy'.clock \in Nat
  BY <1>1, <1>3 DEF Fields
<1>4. Second .. now \subseteq Nat
  BY ClockAssumption DEF ReceiptsOnLog
<1>5. DOMAIN copy' = Fields /\ copy'.clock \in Nat
  <2>1. CASE ChangeReceipt
    BY <1>2, <1>3, <1>4, <2>1 DEF ChangeReceipt, Change, Fields
  <2>2. CASE ChangeAnchor
    BY <1>2, <2>2 DEF ChangeAnchor, Change, Fields
  <2>. QED
    BY <2>1, <2>2 DEF Rewrite
<1>6. UNCHANGED <<scope, now, log, issued>>
  BY DEF Rewrite, ChangeReceipt, ChangeAnchor, Change
<1>. QED
  BY <1>5, <1>6 DEF ReceiptsOnLog, LogIsSequence

\* The receipts stay on the log: every anchor the server gave one names an
\* entry over that receipt, under the key and the form of its time.
THEOREM ReceiptsStayOnLog == Spec => []ReceiptsOnLog
<1>1. Init => ReceiptsOnLog
  BY ClockAssumption, FS_EmptySet DEF Init, ReceiptsOnLog, LogIsSequence
<1>2. ReceiptsOnLog /\ [Next]_vars => ReceiptsOnLog'
  <2>. SUFFICES ASSUME ReceiptsOnLog, [Next]_vars
                PROVE  ReceiptsOnLog'
    OBVIOUS
  <2>1. CASE \E r \in scope.refusals, form \in AnchorForms \cup {"none"} : Issue(r, form)
    BY <2>1, IssueStep
  <2>2. CASE \E d \in issued : LogReceipt(d)
    BY <2>2, LogReceiptStep
  <2>3. CASE Tick
    BY <2>3, TickStep
  <2>4. CASE \E d \in issued : Take(d)
    <3>. PICK d \in issued : Take(d)
      BY <2>4
    <3>1. DOMAIN d = Fields /\ d.clock \in Nat
      BY ClockAssumption DEF ReceiptsOnLog, IssuedOn
    <3>. QED
      BY <3>1 DEF Take, ReceiptsOnLog, LogIsSequence
  <2>5. CASE \E form \in AnchorForms : LogAgain(form)
    <3>. PICK form \in AnchorForms : LogAgain(form)
      BY <2>5
    <3>. PICK key : LogEntry(ReceiptLeaf(copy, form), key)
                                          /\ UNCHANGED <<scope, now, issued, copy>>
      BY DEF LogAgain
    <3>1. /\ LogIsSequence' /\ \A m \in DOMAIN log' : log'[m].time \in Nat
          /\ \A r \in issued : IssuedOn(r, log')
      BY LogGrows
    <3>. QED
      BY <3>1 DEF ReceiptsOnLog
  <2>6. CASE Rewrite
    BY <2>6, RewriteStep
  <2>7. CASE UNCHANGED vars
    BY <2>7 DEF vars, ReceiptsOnLog, LogIsSequence
  <2>. QED
    BY <2>1, <2>2, <2>3, <2>4, <2>5, <2>6, <2>7 DEF Next
<1>. QED
  BY <1>1, <1>2, PTL DEF Spec

----------------------------------------------------------------------------
(* Under the server's key the log holds the entries of receipts only. *)

LEMMA ScopeStays == [Next]_vars => scope' = scope
BY DEF Next, Issue, LogReceipt, Tick, Take, LogAgain, Rewrite, ChangeReceipt, ChangeAnchor,
       Change, vars

\* A new entry that is a receipt's, or another signer's, is in order; the
\* receipts may be replaced by receipts of the same leaves.
LEMMA EntryStays ==
  ASSUME NEW l, NEW e, \E S : l \in Seq(S), NEW docs, NEW next,
         \A n \in DOMAIN l : ServersEntry(n, l, docs),
         \A d \in docs : \E f \in next : ReceiptLeaf(f, IssuedForm(f)) = ReceiptLeaf(d, IssuedForm(d)),
         e.signer \in PinnedKeys => \E d \in next : e.leaf = ReceiptLeaf(d, IssuedForm(d))
  PROVE  \A n \in DOMAIN Append(l, e) : ServersEntry(n, Append(l, e), next)
<1>. SUFFICES ASSUME NEW n \in DOMAIN Append(l, e)
              PROVE  ServersEntry(n, Append(l, e), next)
  OBVIOUS
<1>1. CASE n \in DOMAIN l /\ Append(l, e)[n] = l[n]
  BY <1>1 DEF ServersEntry
<1>2. CASE Append(l, e)[n] = e
  BY <1>2 DEF ServersEntry
<1>. QED
  BY <1>1, <1>2, EntryOldOrNew

LEMMA ServersEntriesStep ==
  ASSUME ReceiptsOnLog, ServersEntriesAreReceipts, [Next]_vars
  PROVE  ServersEntriesAreReceipts'
<1>. SUFFICES ASSUME ~scope.relogs
              PROVE  \A n \in DOMAIN log' : ServersEntry(n, log', issued')
  BY ScopeStays DEF ServersEntriesAreReceipts
<1>1. \A n \in DOMAIN log : ServersEntry(n, log, issued)
  BY DEF ServersEntriesAreReceipts
<1>2. CASE \E r \in scope.refusals, form \in AnchorForms \cup {"none"} : Issue(r, form)
  <2>1. log' = log /\ issued \subseteq issued'
    BY <1>2 DEF Issue
  <2>. QED
    BY <1>1, <2>1 DEF ServersEntry
<1>3. CASE \E d \in issued : LogReceipt(d)
  <2>. PICK d \in issued : LogReceipt(d)
    BY <1>3
  <2>. DEFINE e == [leaf |-> ReceiptLeaf(d, IssuedForm(d)), signer |-> KeyAt[now \div Second],
                    time |-> now \div Second]
              a == AnchorFor(d, IssuedForm(d), Len(log) + 1, log'[Len(log) + 1])
              f == [d EXCEPT !.anchor = a]
  <2>1. log' = Append(log, e) /\ issued' = (issued \ {d}) \cup {f}
    BY DEF LogReceipt, LogEntry
  <2>2. ReceiptLeaf(f, IssuedForm(f)) = ReceiptLeaf(d, IssuedForm(d))
    <3>1. DOMAIN d = Fields
      BY DEF ReceiptsOnLog, IssuedOn
    <3>. HIDE DEF a
    <3>. QED
      BY <3>1, AnchorKeepsContent
  <2>3. e.leaf = ReceiptLeaf(f, IssuedForm(f))
    BY <2>2
  <2>. HIDE DEF e, f
  <2>4. \A x \in issued : \E y \in issued' :
          ReceiptLeaf(y, IssuedForm(y)) = ReceiptLeaf(x, IssuedForm(x))
    BY <2>1, <2>2
  <2>5. \E y \in issued' : e.leaf = ReceiptLeaf(y, IssuedForm(y))
    BY <2>1, <2>3
  <2>. QED
    BY <1>1, <2>1, <2>4, <2>5, EntryStays DEF ReceiptsOnLog, LogIsSequence
<1>4. CASE \E form \in AnchorForms : LogAgain(form)
  <2>. PICK form \in AnchorForms : LogAgain(form)
    BY <1>4
  <2>. DEFINE e == [leaf |-> ReceiptLeaf(copy, form), signer |-> OtherKey,
                    time |-> now \div Second]
  <2>1. log' = Append(log, e) /\ issued' = issued
    BY DEF LogAgain, LogEntry
  <2>2. e.signer \notin PinnedKeys
    BY StrangerAssumption
  <2>. HIDE DEF e
  <2>. QED
    BY <1>1, <2>1, <2>2, EntryStays DEF ReceiptsOnLog, LogIsSequence
<1>5. CASE UNCHANGED <<log, issued>>
  BY <1>1, <1>5
<1>6. Tick \/ (\E d \in issued : Take(d)) \/ Rewrite \/ UNCHANGED vars => UNCHANGED <<log, issued>>
  BY DEF Tick, Take, Rewrite, ChangeReceipt, ChangeAnchor, Change, vars
<1>. QED
  BY <1>2, <1>3, <1>4, <1>5, <1>6 DEF Next

\* While only the server logs under its key, each entry under it is over
\* the leaf of a receipt the server issued.
THEOREM ServersEntries == Spec => []ServersEntriesAreReceipts
<1>1. Init => ServersEntriesAreReceipts
  BY DEF Init, ServersEntriesAreReceipts
<1>. QED
  BY <1>1, ServersEntriesStep, ReceiptsStayOnLog, PTL DEF Spec

----------------------------------------------------------------------------
(* What a verdict says of the copy it is about. *)

\* A leaf names its form, its receipt's hash, and what else its form binds.
LEMMA LeafSays ==
  ASSUME NEW d, NEW e, NEW form \in AnchorForms, NEW sealed \in AnchorForms \cup {"none"},
         ReceiptLeaf(d, form) = ReceiptLeaf(e, sealed)
  PROVE  /\ form = sealed \/ (form = "v1" /\ sealed = "none")
         /\ ReceiptHash(d) = ReceiptHash(e)
         /\ form \in {"v2", "v3"} => d.runId = e.runId
         /\ form = "v3" => d.context = e.context
<1>1. ReceiptLeaf(d, form)[1] = form
  BY DEF ReceiptLeaf, AnchorForms
<1>2. ReceiptLeaf(e, sealed)[1] = IF sealed = "none" THEN "v1" ELSE sealed
  BY DEF ReceiptLeaf, AnchorForms
<1>3. form = sealed \/ (form = "v1" /\ sealed = "none")
  BY <1>1, <1>2
<1>4. ReceiptHash(d) = ReceiptLeaf(d, form)[4] /\ ReceiptHash(e) = ReceiptLeaf(e, sealed)[4]
  BY DEF ReceiptLeaf, AnchorForms
<1>5. ASSUME form \in {"v2", "v3"}
      PROVE  d.runId = e.runId
  <2>1. d.runId = ReceiptLeaf(d, form)[5] /\ e.runId = ReceiptLeaf(e, sealed)[5]
    BY <1>3, <1>5 DEF ReceiptLeaf
  <2>. QED
    BY <2>1
<1>6. ASSUME form = "v3"
      PROVE  d.context = e.context
  <2>1. d.context = ReceiptLeaf(d, form)[6] /\ e.context = ReceiptLeaf(e, sealed)[6]
    BY <1>3, <1>6 DEF ReceiptLeaf
  <2>. QED
    BY <2>1
<1>. QED
  BY <1>3, <1>4, <1>5, <1>6

LEMMA IssuedFormType ==
  ASSUME NEW d
  PROVE  /\ IssuedForm(d) \in AnchorForms \cup {"none"}
         /\ IssuedForm(d) = "v3" <=> d.context # None
BY DEF IssuedForm, AnchorForms

\* The anchored verdict: what verifyReceiptDocumentWith had to find.
LEMMA AnchoredTier ==
  ASSUME NEW d, NEW l, NEW selfHosted, ReceiptTier(d, l, selfHosted) = "VERIFIED_ANCHORED"
  PROVE  AnchorBinds(d) /\ EntryHolds(d, l)
BY DEF ReceiptTier, UnanchoredTier

(***************************************************************************)
(* The entry of an anchored copy is signed by a published key, so it is a  *)
(* receipt's; a leaf is the leaf of one hash, and from v2 on of one run    *)
(* number.  A v3 leaf has the context; under an earlier form neither the   *)
(* copy, which needs a v3 anchor for a context, nor the receipt has one.   *)
(***************************************************************************)
LEMMA AnchoredIsGenuine ==
  ASSUME ServersEntriesAreReceipts
  PROVE  AnchoredReceiptIsGenuine
<1>. SUFFICES ASSUME NEW selfHosted \in BOOLEAN, ~scope.relogs,
                     ReceiptTier(copy, log, selfHosted) = "VERIFIED_ANCHORED"
              PROVE  \E d \in issued :
                       /\ ReceiptHash(copy) = ReceiptHash(d)
                       /\ copy.context = d.context
                       /\ copy.anchor.form \in {"v2", "v3"} => copy.runId = d.runId
  BY DEF AnchoredReceiptIsGenuine
<1>. DEFINE a == copy.anchor
<1>1. /\ a.form \in AnchorForms /\ (a.form = "v3" <=> copy.context # None)
      /\ a.leaf = ReceiptLeaf(copy, a.form)
      /\ Logged(a, log) /\ a.signer \in PinnedKeys
  BY AnchoredTier DEF AnchorBinds, EntryHolds
<1>2. PICK d \in issued : log[a.number].leaf = ReceiptLeaf(d, IssuedForm(d))
  <2>1. a.number \in DOMAIN log /\ log[a.number].signer \in PinnedKeys
    BY <1>1 DEF Logged
  <2>. QED
    BY <2>1 DEF ServersEntriesAreReceipts, ServersEntry
<1>3. ReceiptLeaf(copy, a.form) = ReceiptLeaf(d, IssuedForm(d))
  BY <1>1, <1>2 DEF Logged
<1>4. /\ a.form = IssuedForm(d) \/ (a.form = "v1" /\ IssuedForm(d) = "none")
      /\ ReceiptHash(copy) = ReceiptHash(d)
      /\ a.form \in {"v2", "v3"} => copy.runId = d.runId
      /\ a.form = "v3" => copy.context = d.context
  BY <1>1, <1>3, LeafSays, IssuedFormType
<1>5. copy.context = d.context
  BY <1>1, <1>4, IssuedFormType
<1>. QED
  BY <1>4, <1>5

\* README, receipt anchor v1 to v3: while only the server logs under its
\* key, a receipt called anchored is one it issued, with its run number from
\* v2 on and its context.
THEOREM AnchoredReceiptGenuine == Spec => []AnchoredReceiptIsGenuine
BY ServersEntries, AnchoredIsGenuine, PTL

(***************************************************************************)
(* A copy that keeps its hash keeps the clock and the sealed requirement   *)
(* of the receipt, and those two decide what a missing entry is            *)
(* (verifyUnanchoredReceipt).                                              *)
(***************************************************************************)
LEMMA UnanchoredIsUnrequired ==
  ASSUME ReceiptsOnLog
  PROVE  AnchorCannotBeRemoved
<1>. SUFFICES ASSUME NEW selfHosted \in BOOLEAN,
                     ReceiptTier(copy, log, selfHosted) = "SELF_CONSISTENT_NOT_ANCHORED",
                     NEW d \in issued, ReceiptHash(copy) = ReceiptHash(d)
              PROVE  IssuedForm(d) = "none" \/ (IssuedForm(d) = "v1" /\ selfHosted)
  BY DEF AnchorCannotBeRemoved
<1>1. UnanchoredTier(copy, selfHosted) = "SELF_CONSISTENT_NOT_ANCHORED"
  BY DEF ReceiptTier
<1>2. ~copy.required /\ (selfHosted \/ ~(copy.clock >= ExpectedSince))
  BY <1>1 DEF UnanchoredTier
<1>3. copy.clock = d.clock /\ copy.required = d.required
  BY DEF ReceiptHash
<1>4. d.context = None
  BY <1>2, <1>3 DEF ReceiptsOnLog, IssuedOn
<1>. QED
  BY <1>2, <1>3, <1>4 DEF IssuedForm

\* README, v0.14.0 to v0.14.2: no copy that keeps what its hash covers is
\* merely self-consistent, except where the reader exempts the receipts of
\* self-hosted deployments.
THEOREM AnchorStays == Spec => []AnchorCannotBeRemoved
BY ReceiptsStayOnLog, UnanchoredIsUnrequired, PTL

\* int64 of the seconds between two times, where the second is the later or
\* less than a second earlier.
LEMMA GapBounds ==
  ASSUME NEW d, d.clock \in Nat, d.anchor.time \in Nat
  PROVE  /\ Gap(d) \in Int
         /\ d.clock \div Second <= d.anchor.time => Gap(d) >= 0
         /\ d.anchor.time * Second <= d.clock + ReceiptWindow * Second => Gap(d) <= ReceiptWindow
         /\ d.anchor.time * Second >= d.clock + (ReceiptWindow + 1) * Second =>
              ~(Gap(d) <= ReceiptWindow)
<1>. DEFINE t == d.anchor.time * Second - d.clock
<1>1. Second \in Nat \ {0} /\ ReceiptWindow \in Nat
  BY ClockAssumption, TimesAssumption
<1>2. d.anchor.time * Second \in Nat /\ t \in Int
  BY <1>1
<1>3. Gap(d) = IF t >= 0 THEN t \div Second ELSE -((-t) \div Second)
  BY DEF Gap
<1>4. ReceiptWindow * Second \in Nat /\ (ReceiptWindow + 1) * Second \in Nat
      /\ (ReceiptWindow + 1) * Second = ReceiptWindow * Second + Second
  BY <1>1
<1>5. CASE t >= 0
  <2>1. t \in Nat /\ Gap(d) = t \div Second
    BY <1>2, <1>3, <1>5
  <2>2. t \div Second \in Nat
    BY <1>1, <2>1, DivBounds
  <2>3. /\ t <= ReceiptWindow * Second => t \div Second <= ReceiptWindow
        /\ t >= (ReceiptWindow + 1) * Second => ~(t \div Second <= ReceiptWindow)
    BY <1>1, <2>1, DivByBound
  <2>. QED
    BY <1>1, <1>2, <1>4, <2>1, <2>2, <2>3
<1>6. CASE ~(t >= 0)
  <2>1. -t \in Nat /\ Gap(d) = -((-t) \div Second)
    BY <1>2, <1>3, <1>6
  <2>2. (-t) \div Second \in Nat /\ ((-t) \div Second) * Second <= -t
    BY <1>1, <2>1, DivBounds
  <2>3. ASSUME d.clock \div Second <= d.anchor.time
        PROVE  (-t) \div Second = 0
    <3>1. /\ d.clock \div Second \in Nat
          /\ d.clock < (d.clock \div Second) * Second + Second
      BY <1>1, DivBounds
    <3>2. (d.clock \div Second) * Second <= d.anchor.time * Second
      BY <1>1, <2>3, <3>1, TimesMonotone
    <3>3. -t < Second
      <4>. DEFINE p == (d.clock \div Second) * Second
                  q == d.anchor.time * Second
      <4>1. p \in Nat /\ q \in Nat /\ d.clock < p + Second /\ p <= q
        BY <1>1, <1>2, <3>1, <3>2
      <4>. HIDE DEF p, q
      <4>2. d.clock - q < Second
        BY <1>1, <4>1
      <4>. QED
        BY <1>1, <4>1, <4>2 DEF q
    <3>4. ASSUME 1 <= (-t) \div Second
          PROVE  FALSE
      BY <1>1, <2>1, <2>2, <3>3, <3>4, TimesMonotone
    <3>. QED
      BY <2>2, <3>4
  <2>. QED
    BY <1>1, <1>2, <1>4, <1>6, <2>1, <2>2, <2>3
<1>. QED
  BY <1>2, <1>5, <1>6

(***************************************************************************)
(* The server's side of the checks: the form of a receipt's time is the    *)
(* one the date demands, and its key of that second is a published key     *)
(* within its period.  What is left of the verdict is whether the entry    *)
(* came in time.                                                           *)
(***************************************************************************)
LEMMA IssuedVerifies ==
  ASSUME ReceiptsOnLog
  PROVE  IssuedReceiptVerifies
<1>. SUFFICES ASSUME NEW d \in issued
              PROVE  LET tier == ReceiptTier(d, log, FALSE)
                     IN /\ IssuedForm(d) = "none" => tier = "SELF_CONSISTENT_NOT_ANCHORED"
                        /\ (IssuedForm(d) # "none" /\ d.anchor = None) => tier = "FAILED"
                        /\ (d.anchor # None
                            /\ d.anchor.time * Second <= d.clock + ReceiptWindow * Second) =>
                             tier = "VERIFIED_ANCHORED"
                        /\ (d.anchor # None
                            /\ d.anchor.time * Second >= d.clock + (ReceiptWindow + 1) * Second) =>
                             tier = "FAILED"
  BY DEF IssuedReceiptVerifies
<1>1. IssuedOn(d, log)
  BY DEF ReceiptsOnLog
<1>2. d.clock \in Nat /\ IssuedForm(d) \in FormsAt[d.clock] /\ d.clock \in Second .. MaxTime
  BY <1>1, ClockAssumption DEF IssuedOn
<1>3. ExpectedSince \in Nat /\ RequiredSince \in Nat /\ Skew \in Nat /\ ReceiptWindow \in Nat
  BY TimesAssumption
<1>4. /\ IssuedForm(d) = "none" => ~(d.clock >= ExpectedSince)
      /\ IssuedForm(d) \in {"none", "v1"} => ~(d.clock >= RequiredSince)
      /\ IssuedForm(d) = "v1" => d.clock >= ExpectedSince
  BY <1>2, <1>3, CutoverAssumption
<1>5. /\ IssuedForm(d) \in AnchorForms \cup {"none"}
      /\ IssuedForm(d) = "v3" <=> d.context # None
      /\ d.required <=> IssuedForm(d) \in {"v2", "v3"}
  BY <1>1, IssuedFormType DEF IssuedForm, IssuedOn
<1>6. d.ok /\ ~(~d.required /\ ~FALSE /\ d.clock >= RequiredSince)
  BY <1>1, <1>4, <1>5 DEF IssuedOn, AnchorForms
<1>7. d.anchor = None => ReceiptTier(d, log, FALSE) = UnanchoredTier(d, FALSE)
  BY <1>6 DEF ReceiptTier
<1>8. IssuedForm(d) = "none" => d.anchor = None /\ UnanchoredTier(d, FALSE) = "SELF_CONSISTENT_NOT_ANCHORED"
  BY <1>1, <1>4, <1>5 DEF IssuedOn, UnanchoredTier
<1>9. IssuedForm(d) # "none" => UnanchoredTier(d, FALSE) = "FAILED"
  BY <1>4, <1>5 DEF UnanchoredTier, AnchorForms
<1>10. ASSUME d.anchor # None
       PROVE  /\ d.anchor.time * Second <= d.clock + ReceiptWindow * Second =>
                   ReceiptTier(d, log, FALSE) = "VERIFIED_ANCHORED"
              /\ d.anchor.time * Second >= d.clock + (ReceiptWindow + 1) * Second =>
                   ReceiptTier(d, log, FALSE) = "FAILED"
  <2>. DEFINE a == d.anchor
  <2>1. /\ IssuedForm(d) # "none" /\ a.form = IssuedForm(d)
        /\ a.kind = d.kind /\ a.hash = ReceiptHash(d)
        /\ a.leaf = ReceiptLeaf(d, IssuedForm(d)) /\ a.onLog = TRUE /\ Logged(a, log)
        /\ a.time \in 1 .. MaxTime \div Second /\ a.signer = KeyAt[a.time]
        /\ d.clock \div Second <= a.time
    BY <1>1, <1>10 DEF IssuedOn
  <2>2. LeafFieldsValid(d, a.form)
    BY <1>1 DEF LeafFieldsValid, IssuedOn
  <2>3. AnchorBinds(d)
    BY <1>5, <2>1, <2>2 DEF AnchorBinds
  <2>4. a.time \in Nat
    <3>1. MaxTime \div Second \in Nat
      BY ClockAssumption, DivBounds
    <3>. QED
      BY <2>1, <3>1
  <2>5. a.signer \in PinnedKeys /\ SignerAcceptsAt(a.signer, a.time)
    BY <2>1, ServerKeyAssumption DEF SignerAcceptsAt
  <2>6. ReceiptTier(d, log, FALSE) = IF InReceiptWindow(d) THEN "VERIFIED_ANCHORED" ELSE "FAILED"
    BY <1>6, <1>10, <2>1, <2>3, <2>5 DEF ReceiptTier, EntryHolds
  <2>7. Gap(d) \in Int /\ Gap(d) >= 0
    BY <1>2, <2>1, <2>4, GapBounds
  <2>8. /\ a.time * Second <= d.clock + ReceiptWindow * Second => Gap(d) <= ReceiptWindow
        /\ a.time * Second >= d.clock + (ReceiptWindow + 1) * Second => ~(Gap(d) <= ReceiptWindow)
    BY <1>2, <2>4, GapBounds
  <2>9. InReceiptWindow(d) <=> Gap(d) <= ReceiptWindow
    BY <1>3, <2>7 DEF InReceiptWindow
  <2>. QED
    BY <2>6, <2>8, <2>9
<1>. QED
  BY <1>7, <1>8, <1>9, <1>10

\* A receipt verifies for good as what it is: anchored, self-consistent by
\* its date, or failed when its entry is missing or late.
THEOREM IssuedReceiptsVerify == Spec => []IssuedReceiptVerifies
BY ReceiptsStayOnLog, IssuedVerifies, PTL

LEMMA AnchoredKeepsDate ==
  ASSUME ReceiptsOnLog
  PROVE  RewrittenReceiptLosesDate
<1>. SUFFICES ASSUME NEW selfHosted \in BOOLEAN, copy # None,
                     ReceiptTier(copy, log, selfHosted) = "VERIFIED_ANCHORED"
              PROVE  \E n \in DOMAIN log, form \in AnchorForms :
                       /\ log[n].leaf = ReceiptLeaf(copy, form)
                       /\ log[n].time * Second < copy.clock + (ReceiptWindow + 1) * Second
  BY DEF RewrittenReceiptLosesDate
<1>. DEFINE a == copy.anchor
<1>1. /\ a.form \in AnchorForms /\ a.leaf = ReceiptLeaf(copy, a.form)
      /\ Logged(a, log) /\ Gap(copy) <= ReceiptWindow
  BY AnchoredTier DEF AnchorBinds, EntryHolds, InReceiptWindow
<1>2. /\ a.number \in DOMAIN log /\ log[a.number].leaf = ReceiptLeaf(copy, a.form)
      /\ log[a.number].time = a.time /\ a.time \in Nat
  BY <1>1 DEF Logged, ReceiptsOnLog
<1>3. copy.clock \in Nat
  BY DEF ReceiptsOnLog
<1>4. ~(a.time * Second >= copy.clock + (ReceiptWindow + 1) * Second)
  BY <1>1, <1>2, <1>3, GapBounds
<1>5. a.time * Second \in Int /\ copy.clock + (ReceiptWindow + 1) * Second \in Int
  BY <1>2, <1>3, ClockAssumption, TimesAssumption
<1>6. a.time * Second < copy.clock + (ReceiptWindow + 1) * Second
  BY <1>4, <1>5
<1>. QED
  BY <1>1, <1>2, <1>6

\* README, receipts: whoever rewrites a receipt later, with the server's key
\* too, cannot keep its date: what the copy says is in the log by then.
THEOREM RewrittenLosesDate == Spec => []RewrittenReceiptLosesDate
BY ReceiptsStayOnLog, AnchoredKeepsDate, PTL


(***************************************************************************)
(* The world.  A started verifier changes nothing in it, so the theorems   *)
(* about receipts hold beside a run as well.                               *)
(***************************************************************************)

\* Every step of main() leaves the world alone.
LEMMA WorldStands ==
  ASSUME RunNext, pc # "waiting"
  PROVE  UNCHANGED world
BY DEF RunNext, Start, Verify, SkipFile, FileUnreadable, ApplySignerKey, ApplyRequest,
       ApplyPolicy, ApplyHistory, ApplyAccountPolicy, ApplyAccountHistory, JudgeAccount, Exit

LEMMA RunStepIsWorldStep == [RunNext]_<<world, runVars>> => [Next]_vars
<1>. SUFFICES ASSUME RunNext PROVE [Next]_vars
  BY DEF world, vars
<1>1. CASE pc = "waiting" /\ Next
  BY <1>1
<1>2. CASE Start
  BY <1>2 DEF Start, world, vars
<1>3. CASE pc # "waiting"
  BY <1>3, WorldStands DEF world, vars
<1>. QED
  BY <1>1, <1>2, <1>3
     DEF RunNext, Verify, SkipFile, FileUnreadable, ApplySignerKey, ApplyRequest, ApplyPolicy,
         ApplyHistory, ApplyAccountPolicy, ApplyAccountHistory, JudgeAccount, Exit,
         FileAt, FileSteps

\* A run of the verifier beside the server and the log is a behaviour of
\* AnchoredReceipt.
THEOREM RunImplementsReceipts == RunSpec => Spec
<1>1. RunInit => Init
  BY DEF RunInit
<1>. QED
  BY <1>1, RunStepIsWorldStep, PTL DEF RunSpec, Spec

(***************************************************************************)
(* The contexts of issued receipts and of the copy are ones that decode.   *)
(***************************************************************************)

Known(context) == context \in DOMAIN ContextOf \cup {None}

ContextsKnown ==
  /\ \A d \in issued : Known(d.context)
  /\ copy # None => Known(copy.context)

LEMMA ContextsStep == ReceiptsOnLog /\ ContextsKnown /\ [Next]_vars => ContextsKnown'
<1>. SUFFICES ASSUME ReceiptsOnLog, ContextsKnown, [Next]_vars PROVE ContextsKnown'
  OBVIOUS
<1>1. scope \in Scopes /\ (copy # None => DOMAIN copy = Fields)
      /\ \A d \in issued : DOMAIN d = Fields
  BY DEF ReceiptsOnLog, IssuedOn
<1>2. CASE \E r \in scope.refusals, form \in AnchorForms \cup {"none"} : Issue(r, form)
  <2>1. PICK r \in scope.refusals, form \in AnchorForms \cup {"none"} : Issue(r, form)
    BY <1>2
  <2>2. Known(r.context)
    BY <1>1, ContextsAssumption DEF Known
  <2>3. \A d \in issued' : d \in issued \/ d.context \in {r.context, None}
    BY <2>1 DEF Issue
  <2>4. copy' = copy
    BY <2>1 DEF Issue
  <2>. QED
    BY <2>2, <2>3, <2>4 DEF ContextsKnown, Known
<1>3. CASE \E d \in issued : LogReceipt(d)
  <2>1. PICK d \in issued : LogReceipt(d)
    BY <1>3
  <2>2. ASSUME NEW a PROVE [d EXCEPT !.anchor = a].context = d.context
    BY <1>1, <2>1, AnchorKeepsContent
  <2>3. \A f \in issued' : f \in issued \/ f.context = d.context
    BY <2>1, <2>2 DEF LogReceipt
  <2>4. copy' = copy
    BY <2>1 DEF LogReceipt
  <2>. QED
    BY <2>1, <2>3, <2>4 DEF ContextsKnown
<1>4. CASE \E d \in issued : Take(d)
  BY <1>4 DEF Take, ContextsKnown
<1>5. CASE Rewrite
  <2>1. issued' = issued /\ DOMAIN copy = Fields /\ Known(copy.context)
    BY <1>1, <1>5 DEF Rewrite, ChangeReceipt, ChangeAnchor, Change, ContextsKnown
  <2>2. ASSUME NEW x \in Fields \ {"context"}, NEW v, copy' = [copy EXCEPT ![x] = v]
        PROVE  Known(copy'.context)
    BY <2>1, <2>2 DEF Fields
  <2>3. ASSUME NEW v \in scope.contexts \cup {None}, copy' = [copy EXCEPT !.context = v]
        PROVE  Known(copy'.context)
    <3>1. copy'.context = v
      BY <2>1, <2>3 DEF Fields
    <3>. QED
      BY <1>1, <3>1, ContextsAssumption DEF Known
  <2>4. Known(copy'.context)
    <3>1. CASE ChangeReceipt
      BY <2>2, <2>3, <3>1 DEF ChangeReceipt, Change, Fields
    <3>2. CASE ChangeAnchor
      BY <2>2, <3>2 DEF ChangeAnchor, Change, Fields
    <3>. QED
      BY <1>5, <3>1, <3>2 DEF Rewrite
  <2>. QED
    BY <2>1, <2>4 DEF ContextsKnown
<1>6. CASE Tick \/ (\E form \in AnchorForms : LogAgain(form)) \/ UNCHANGED vars
  BY <1>6 DEF Tick, LogAgain, vars, ContextsKnown
<1>. QED
  BY <1>2, <1>3, <1>4, <1>5, <1>6 DEF Next

\* receipt.go: whatever became of the copies, the context one shows is a
\* context that could be decoded, or none.
THEOREM ContextsStayKnown == Spec => []ContextsKnown
<1>1. Init => ContextsKnown
  BY DEF Init, ContextsKnown
<1>. QED
  BY <1>1, ContextsStep, ReceiptsStayOnLog, PTL DEF Spec

(***************************************************************************)
(* Decisions.                                                              *)
(***************************************************************************)

\* A checked decision is the sealed one but for what the checks found.
SameDecision(g, s) ==
  /\ g.present = s.present /\ g.source = s.source
  /\ g.policyHash = s.policyHash /\ g.identity = s.identity /\ g.document = s.document
  /\ g.activation = s.activation /\ g.outcome = s.outcome
  /\ g.rule = s.rule /\ g.inputs = s.inputs

\* A document the reader holds is the one a context seals.
DocumentHolds(s, text) ==
  /\ text \in Readable /\ s.present /\ DocumentIsSealedOne(s, text)
  /\ s.inputs # None => RulesAgree(s, text)

\* A document leaves the decision it is checked against alone, and makes
\* it match only when it is the sealed one.
LEMMA DocumentChecks ==
  ASSUME NEW g \in GateCheck, NEW s, NEW text, SameDecision(g, s)
  PROVE  /\ CheckPolicyDocument(g, text) \in GateCheck
         /\ SameDecision(CheckPolicyDocument(g, text), s)
         /\ CheckPolicyDocument(g, text).checked = TRUE
         /\ CheckPolicyDocument(g, text).match => g.match \/ DocumentHolds(s, text)
<1>. DEFINE refused == ~g.present \/ text \notin Readable \/ ~DocumentIsSealedOne(g, text)
            checked == [g EXCEPT !.checked = TRUE]
            rerun   == [checked EXCEPT !.rulesChecked = TRUE]
            agreed  == [checked EXCEPT !.match = TRUE]
            rerunAgreed == [rerun EXCEPT !.match = TRUE]
<1>1. \A h \in {checked, rerun, agreed, rerunAgreed} :
        h \in GateCheck /\ SameDecision(h, s) /\ h.checked = TRUE
  BY DEF SameDecision, GateCheck
<1>2. checked.match = g.match /\ rerun.match = g.match
  BY DEF GateCheck
<1>3. /\ DocumentIsSealedOne(g, text) <=> DocumentIsSealedOne(s, text)
      /\ RulesAgree(g, text) <=> RulesAgree(s, text)
  BY DEF DocumentIsSealedOne, RulesAgree, SameDecision
<1>4. CASE refused
  <2>1. CheckPolicyDocument(g, text) = checked
    BY <1>4 DEF CheckPolicyDocument
  <2>. QED
    BY <1>1, <1>2, <2>1
<1>5. CASE ~refused /\ g.inputs = None
  <2>1. CheckPolicyDocument(g, text) = agreed
    BY <1>5 DEF CheckPolicyDocument
  <2>2. DocumentHolds(s, text)
    BY <1>3, <1>5 DEF DocumentHolds, SameDecision
  <2>. QED
    BY <1>1, <2>1, <2>2
<1>6. CASE ~refused /\ g.inputs # None /\ RulesAgree(g, text)
  <2>1. CheckPolicyDocument(g, text) = rerunAgreed
    BY <1>6 DEF CheckPolicyDocument
  <2>2. DocumentHolds(s, text)
    BY <1>3, <1>6 DEF DocumentHolds, SameDecision
  <2>. QED
    BY <1>1, <2>1, <2>2
<1>7. CASE ~refused /\ g.inputs # None /\ ~RulesAgree(g, text)
  <2>1. CheckPolicyDocument(g, text) = rerun
    BY <1>7 DEF CheckPolicyDocument
  <2>. QED
    BY <1>1, <1>2, <2>1
<1>. QED
  BY <1>4, <1>5, <1>6, <1>7

LEMMA SealedGate ==
  ASSUME NEW g \in {x \in GateCheck : Sealed(x) \/ x = NoGate}
  PROVE  /\ g \in GateCheck /\ ~g.checked /\ ~g.match /\ SameDecision(g, g)
         /\ Fail(g) \in GateCheck /\ SameDecision(Fail(g), g)
         /\ Fail(g).match = FALSE /\ Fail(g).checked = TRUE
<1>1. NoGate.checked = FALSE /\ NoGate.match = FALSE
  BY DEF NoGate
<1>2. ~g.checked /\ ~g.match
  BY <1>1 DEF Sealed
<1>. QED
  BY <1>2 DEF SameDecision, Fail, GateCheck

LEMMA NoGateType ==
  /\ NoGate \in GateCheck /\ NoGate.present = FALSE /\ NoGate.match = FALSE
  /\ NoGate.checked = FALSE /\ NoGate.activation = None
BY DEF NoGate, GateCheck, Source, Effect

\* What the built-in check leaves of a sealed decision: only Verdifax's own
\* can match before a document is read, and then it is the sealed text.
LEMMA BuiltInChecks ==
  ASSUME NEW g \in {x \in GateCheck : Sealed(x) \/ x = NoGate}
  PROVE  LET b == CheckBuiltIn(g)
         IN /\ b \in GateCheck /\ SameDecision(b, g)
            /\ g.source # "verdifax" => ~b.match
            /\ b.match => g.present
            /\ (g.present /\ g.source = "verdifax" /\ ~PolicyFailed(b)) =>
                 /\ g.activation = None /\ g.document \in BuiltInTexts
                 /\ DocumentHolds(g, g.document)
<1>. DEFINE b == CheckBuiltIn(g)
            own == CheckPolicyDocument(g, g.document)
<1>1. /\ g \in GateCheck /\ ~g.match /\ SameDecision(g, g)
      /\ Fail(g) \in GateCheck /\ SameDecision(Fail(g), g)
      /\ Fail(g).match = FALSE /\ Fail(g).checked = TRUE
  BY SealedGate
<1>2. /\ own \in GateCheck /\ SameDecision(own, g) /\ own.checked = TRUE
      /\ own.match => DocumentHolds(g, g.document)
  BY <1>1, DocumentChecks
<1>3. CASE ~g.present \/ g.source \in {"customer", ""}
  <2>1. b = g
    BY <1>3 DEF CheckBuiltIn
  <2>. QED
    BY <1>1, <1>3, <2>1
<1>4. CASE /\ g.present /\ g.source = "verdifax"
           /\ ~(g.activation # None \/ g.document \notin BuiltInTexts)
  <2>1. b = own
    BY <1>4 DEF CheckBuiltIn
  <2>. QED
    BY <1>2, <1>4, <2>1 DEF PolicyFailed
<1>5. CASE /\ g.present /\ g.source = "verdifax"
           /\ g.activation # None \/ g.document \notin BuiltInTexts
  <2>1. b = Fail(g)
    BY <1>5 DEF CheckBuiltIn
  <2>. QED
    BY <1>1, <2>1 DEF PolicyFailed
<1>6. CASE g.present /\ g.source \notin {"customer", "", "verdifax"}
  <2>1. b = Fail(g)
    BY <1>6 DEF CheckBuiltIn
  <2>. QED
    BY <1>1, <1>6, <2>1 DEF PolicyFailed
<1>. QED
  BY <1>3, <1>4, <1>5, <1>6

LEMMA AccountGateChecks ==
  ASSUME NEW c, IsContext(c)
  PROVE  LET b == AccountGateOf(c)
         IN /\ b \in GateCheck /\ SameDecision(b, c.accountGate) /\ ~b.match
            /\ (c.accountGate.present /\ ~PolicyFailed(b)) =>
                 /\ c.account # None /\ c.accountGate.source = "customer"
                 /\ c.accountGate.activation # None
<1>. DEFINE g == c.accountGate
            b == AccountGateOf(c)
<1>1. /\ g \in GateCheck /\ ~g.match /\ SameDecision(g, g)
      /\ Fail(g) \in GateCheck /\ SameDecision(Fail(g), g)
      /\ Fail(g).match = FALSE /\ Fail(g).checked = TRUE
  BY SealedGate DEF IsContext
<1>2. CASE g.present /\ (c.account = None \/ g.source # "customer" \/ g.activation = None)
  <2>1. b = Fail(g)
    BY <1>2 DEF AccountGateOf, CheckAccountGate
  <2>. QED
    BY <1>1, <2>1 DEF PolicyFailed
<1>3. CASE ~(g.present /\ (c.account = None \/ g.source # "customer" \/ g.activation = None))
  <2>1. b \in {g, Fail(g)}
    BY DEF AccountGateOf, CheckAccountGate
  <2>. QED
    BY <1>1, <1>3, <2>1
<1>. QED
  BY <1>2, <1>3

(***************************************************************************)
(* The judgement of the document alone.                                    *)
(***************************************************************************)

ReportFields ==
  {"allPassed", "tier", "gate", "account", "accountGate", "accountHistoryOK", "request"}

\* A receipt's report: all_passed and the tier say one thing.
IsReport(r) ==
  /\ DOMAIN r = ReportFields /\ DOMAIN r.request = {"outcome", "key", "body"}
  /\ r.gate \in GateCheck /\ r.accountGate \in GateCheck
  /\ r.allPassed \in BOOLEAN /\ r.accountHistoryOK \in BOOLEAN
  /\ r.allPassed <=> r.tier # "FAILED"

\* What the checks of a context read, when they are made.
SealedParts(r, c) ==
  /\ r.gate = CheckBuiltIn(c.gate) /\ r.account = c.account
  /\ r.accountGate = AccountGateOf(c)
  /\ r.request.outcome = c.request /\ r.request.key = c.requestKey
  /\ r.request.body = c.requestBody

NoParts(r) ==
  r.gate = NoGate /\ r.account = None /\ r.accountGate = NoGate /\ r.request = NoRequest

LEMMA ChecksCount ==
  ASSUME NEW d
  PROVE  Len(ContextChecks(d)) + 1 = 7
BY DEF ContextChecks

LEMMA SixChecks ==
  ASSUME NEW d
  PROVE  LET c == ContextOf[d.context]
         IN /\ ContextChecks(d)[1] = c.job
            /\ ContextChecks(d)[2] = ~PolicyFailed(CheckBuiltIn(c.gate))
            /\ ContextChecks(d)[3] = AccountIDKnown(c.account)
            /\ ContextChecks(d)[4] = ~PolicyFailed(AccountGateOf(c))
            /\ ContextChecks(d)[5] = (AdmittedDecision(d, c.gate)
                                      /\ AdmittedDecision(d, c.accountGate))
            /\ ContextChecks(d)[6] = (c.request # "failed")
BY DEF ContextChecks

\* A context that was reached was decoded.
LEMMA ReachedContext ==
  ASSUME NEW d, Known(d.context), NEW selfHosted, ContextReached(d, selfHosted)
  PROVE  IsContext(ContextOf[d.context])
BY ContextsAssumption DEF ContextReached, Known

LEMMA JudgedIsReport ==
  ASSUME NEW d, Known(d.context), NEW selfHosted
  PROVE  IsReport(Judged(d, selfHosted))
<1>. DEFINE c == ContextOf[d.context]
            r == Judged(d, selfHosted)
            made(i) == Made(d, selfHosted, i)
            held == ContextReached(d, selfHosted) => made(Len(ContextChecks(d)) + 1)
            tier == IF held THEN ReceiptTier(d, log, selfHosted) ELSE "FAILED"
<1>1. /\ DOMAIN r = ReportFields
      /\ r.allPassed = (tier # "FAILED") /\ r.tier = tier
      /\ r.gate = IF made(2) THEN CheckBuiltIn(c.gate) ELSE NoGate
      /\ r.accountGate = IF made(4) THEN AccountGateOf(c) ELSE NoGate
      /\ r.accountHistoryOK = TRUE
      /\ r.request = IF made(6)
                     THEN [outcome |-> c.request, key |-> c.requestKey, body |-> c.requestBody]
                     ELSE NoRequest
  BY DEF Judged, ReportFields
<1>2. \A i : made(i) => IsContext(c)
  BY ReachedContext DEF Made
<1>3. CheckBuiltIn(c.gate) \in GateCheck \/ ~IsContext(c)
  BY BuiltInChecks DEF IsContext
<1>4. AccountGateOf(c) \in GateCheck \/ ~IsContext(c)
  BY AccountGateChecks
<1>. HIDE DEF r, made, tier, c
<1>5. r.gate \in GateCheck /\ r.accountGate \in GateCheck
  BY <1>1, <1>2, <1>3, <1>4, NoGateType
<1>6. DOMAIN r.request = {"outcome", "key", "body"}
  BY <1>1 DEF NoRequest
<1>7. r.allPassed \in BOOLEAN /\ (r.allPassed <=> r.tier # "FAILED")
  <2>. DEFINE passed == tier # "FAILED"
  <2>1. passed \in BOOLEAN /\ r.allPassed = passed
    BY <1>1
  <2>. HIDE DEF passed
  <2>2. r.allPassed \in BOOLEAN /\ (r.allPassed <=> passed)
    BY <2>1
  <2>. QED
    BY <1>1, <2>2 DEF passed
<1>. QED
  BY <1>1, <1>5, <1>6, <1>7 DEF IsReport, r

\* A judgement that is not a failure made every check of the context it
\* reached, and each held; a context it did not reach is not reported.
LEMMA JudgedHolds ==
  ASSUME NEW d, NEW selfHosted, Judged(d, selfHosted).tier # "FAILED"
  PROVE  /\ Judged(d, selfHosted).tier = ReceiptTier(d, log, selfHosted)
         /\ ContextReached(d, selfHosted) =>
              /\ SealedParts(Judged(d, selfHosted), ContextOf[d.context])
              /\ \A i \in 1 .. 6 : ContextChecks(d)[i]
         /\ ~ContextReached(d, selfHosted) => NoParts(Judged(d, selfHosted))
<1>. DEFINE c == ContextOf[d.context]
            r == Judged(d, selfHosted)
            made(i) == Made(d, selfHosted, i)
            held == ContextReached(d, selfHosted) => made(Len(ContextChecks(d)) + 1)
<1>1. /\ r.tier = IF held THEN ReceiptTier(d, log, selfHosted) ELSE "FAILED"
      /\ r.gate = IF made(2) THEN CheckBuiltIn(c.gate) ELSE NoGate
      /\ r.account = IF made(3) THEN c.account ELSE None
      /\ r.accountGate = IF made(4) THEN AccountGateOf(c) ELSE NoGate
      /\ r.request = IF made(6)
                     THEN [outcome |-> c.request, key |-> c.requestKey, body |-> c.requestBody]
                     ELSE NoRequest
  BY DEF Judged
<1>2. held /\ r.tier = ReceiptTier(d, log, selfHosted)
  BY <1>1
<1>3. CASE ContextReached(d, selfHosted)
  <2>1. made(7)
    <3>1. Len(ContextChecks(d)) + 1 = 7
      BY ChecksCount
    <3>2. made(Len(ContextChecks(d)) + 1)
      BY <1>2, <1>3
    <3>. HIDE DEF made
    <3>. QED
      BY <3>1, <3>2
  <2>2. \A i \in 1 .. 6 : ContextChecks(d)[i]
    BY <2>1 DEF Made
  <2>3. made(2) /\ made(3) /\ made(4) /\ made(6)
    BY <1>3, <2>2 DEF Made
  <2>4. SealedParts(r, c)
    BY <1>1, <2>3 DEF SealedParts
  <2>. QED
    BY <1>2, <1>3, <2>2, <2>4
<1>4. CASE ~ContextReached(d, selfHosted)
  <2>1. ~made(2) /\ ~made(3) /\ ~made(4) /\ ~made(6)
    BY <1>4 DEF Made
  <2>. QED
    BY <1>1, <1>2, <1>4, <2>1 DEF NoParts
<1>. QED
  BY <1>3, <1>4

(***************************************************************************)
(* One run of main().  What the document showed stands, and once main() is *)
(* past a flag, a report that has not failed agrees with its file.         *)
(***************************************************************************)

StepNumber ==
  [waiting |-> 0, verify |-> 1, signerKey |-> 2, request |-> 3, policy |-> 4, history |-> 5,
   accountPolicy |-> 6, accountHistory |-> 7, accountVerdict |-> 8, exit |-> 9, done |-> 10]

\* main() has left a step behind.
Past(step) == StepNumber[step] < StepNumber[pc]

Between == DOMAIN StepAfter \ {"verify", "exit"}

Judgement == Judged(copy, flags.selfHosted)

Passes == report.tier # "FAILED"

TierStands == Passes => report.tier = Judgement.tier

FilesRead == \A step \in FileSteps : Past(step) => flags[step] # Missing

RequestStands ==
  /\ report.request.key = Judgement.request.key /\ report.request.body = Judgement.request.body
  /\ Passes => report.request.outcome = Judgement.request.outcome
  /\ (Past("signerKey") /\ flags.signerKey # None /\ Passes) =>
       \/ Judgement.request.outcome = "failed"
       \/ Judgement.request.outcome = "passed" /\ Judgement.request.key = flags.signerKey
  /\ (Past("request") /\ flags.request # None /\ Passes) =>
       Judgement.request.outcome = "passed" /\ Judgement.request.body = flags.request

\* Only a document can make a check of somebody else's policy match.
GateStands ==
  /\ SameDecision(report.gate, Judgement.gate)
  /\ (~Past("policy") /\ report.gate.match) => Judgement.gate.match
  /\ (Past("policy") /\ flags.policy # None /\ Passes) =>
       Judgement.gate.match \/ DocumentHolds(Judgement.gate, flags.policy)

HistoryStands ==
  (Past("history") /\ flags.history # None /\ Passes) =>
    RecordInChain(flags.history, Judgement.gate.activation)

\* The account's files are judged together, after both were read.
AccountGateStands ==
  /\ report.account = Judgement.account
  /\ SameDecision(report.accountGate, Judgement.accountGate)
  /\ ~Past("accountPolicy") => report.accountGate = Judgement.accountGate
  /\ (Past("accountPolicy") /\ flags.accountPolicy # None) =>
       /\ report.accountGate.checked
       /\ report.accountGate.match =>
            \/ Judgement.accountGate.match
            \/ DocumentHolds(Judgement.accountGate, flags.accountPolicy)

AccountHistoryStands ==
  (Past("accountHistory") /\ flags.accountHistory # None /\ report.accountHistoryOK) =>
    AccountHistoryHolds(flags.accountHistory, Judgement.account,
                        Judgement.accountGate.activation)

AccountStands ==
  (Past("accountVerdict") /\ Passes) =>
    ~PolicyFailed(report.accountGate) /\ report.accountHistoryOK

FilesStand ==
  /\ TierStands /\ FilesRead
  /\ RequestStands /\ GateStands /\ HistoryStands
  /\ AccountGateStands /\ AccountHistoryStands /\ AccountStands

\* The frame of a run: where it is, what it was given, when it ends.
RunFrame ==
  /\ pc \in {"waiting", "done"} \cup DOMAIN StepAfter
  /\ pc # "waiting" => copy # None /\ flags \in Flags
  /\ IsReport(report)
  /\ pc # "done" => exit = None
  /\ (pc = "done" /\ exit # 2) =>
       exit = IF ReceiptExitShouldFail(report.tier, flags.allowUnanchored) THEN 1 ELSE 0

RunStands ==
  /\ RunFrame
  /\ (pc \in Between \cup {"exit"} \/ (pc = "done" /\ exit # 2)) => FilesStand

LEMMA PastStep ==
  ASSUME pc \in Between, pc' = StepAfter[pc]
  PROVE  \A step \in Between : Past(step)' <=> Past(step) \/ step = pc
BY DEF Past, Between, StepAfter, StepNumber

\* A report that fails keeps everything but its verdict.
LEMMA FailReportIfFails ==
  ASSUME NEW r, IsReport(r), NEW failed
  PROVE  LET q == FailReportIf(failed, r)
         IN /\ IsReport(q) /\ q.request = r.request /\ q.gate = r.gate
            /\ q.account = r.account /\ q.accountGate = r.accountGate
            /\ q.accountHistoryOK = r.accountHistoryOK
            /\ q.tier # "FAILED" => ~failed /\ q.tier = r.tier
<1>. DEFINE f == [r EXCEPT !.allPassed = FALSE, !.tier = "FAILED"]
<1>1. /\ DOMAIN f = ReportFields /\ f.allPassed = FALSE /\ f.tier = "FAILED"
      /\ f.request = r.request /\ f.gate = r.gate /\ f.account = r.account
      /\ f.accountGate = r.accountGate /\ f.accountHistoryOK = r.accountHistoryOK
  BY DEF IsReport, ReportFields
<1>2. IsReport(f)
  BY <1>1 DEF IsReport
<1>3. CASE failed
  <2>1. FailReportIf(failed, r) = f
    BY <1>3 DEF FailReportIf
  <2>. QED
    BY <1>1, <1>2, <2>1
<1>4. CASE ~failed
  <2>1. FailReportIf(failed, r) = r
    BY <1>4 DEF FailReportIf
  <2>. QED
    BY <1>4, <2>1
<1>. QED
  BY <1>3, <1>4

\* One part of a report is written, the rest kept.
LEMMA SetGate ==
  ASSUME NEW r, IsReport(r), NEW g \in GateCheck
  PROVE  LET q == [r EXCEPT !.gate = g]
         IN /\ IsReport(q) /\ q.gate = g /\ q.tier = r.tier /\ q.request = r.request
            /\ q.account = r.account /\ q.accountGate = r.accountGate
            /\ q.accountHistoryOK = r.accountHistoryOK
BY DEF IsReport, ReportFields

LEMMA SetAccountGate ==
  ASSUME NEW r, IsReport(r), NEW g \in GateCheck
  PROVE  LET q == [r EXCEPT !.accountGate = g]
         IN /\ IsReport(q) /\ q.accountGate = g /\ q.tier = r.tier
            /\ q.request = r.request /\ q.gate = r.gate /\ q.account = r.account
            /\ q.accountHistoryOK = r.accountHistoryOK
BY DEF IsReport, ReportFields

LEMMA SetAccountHistory ==
  ASSUME NEW r, IsReport(r), NEW ok \in BOOLEAN
  PROVE  LET q == [r EXCEPT !.accountHistoryOK = ok]
         IN /\ IsReport(q) /\ q.accountHistoryOK = ok /\ q.tier = r.tier
            /\ q.request = r.request /\ q.gate = r.gate /\ q.account = r.account
            /\ q.accountGate = r.accountGate
BY DEF IsReport, ReportFields

LEMMA SetRequestFailed ==
  ASSUME NEW r, IsReport(r)
  PROVE  LET q == [r EXCEPT !.request.outcome = "failed"]
         IN /\ IsReport(q) /\ q.request.key = r.request.key
            /\ q.request.body = r.request.body /\ q.tier = r.tier /\ q.gate = r.gate
            /\ q.account = r.account /\ q.accountGate = r.accountGate
            /\ q.accountHistoryOK = r.accountHistoryOK
BY DEF IsReport, ReportFields

\* An account document in the same terms as a policy document.
LEMMA AccountDocumentChecks ==
  ASSUME NEW g \in GateCheck, NEW text, ~g.present => g = NoGate
  PROVE  LET b == ApplyAccountDocument(g, text)
         IN /\ b \in GateCheck /\ SameDecision(b, g) /\ b.checked = TRUE
            /\ b.match => g.match \/ DocumentHolds(g, text)
<1>1. CASE g.present
  <2>1. SameDecision(g, g)
    BY DEF SameDecision
  <2>. QED
    BY <1>1, <2>1, DocumentChecks DEF ApplyAccountDocument
<1>2. CASE ~g.present
  <2>. DEFINE refused == [NoGate EXCEPT !.checked = TRUE]
  <2>1. refused \in GateCheck
    BY NoGateType DEF GateCheck
  <2>2. SameDecision(refused, NoGate) /\ refused.checked = TRUE /\ refused.match = FALSE
    BY DEF SameDecision, NoGate
  <2>3. ApplyAccountDocument(g, text) = refused
    BY <1>2 DEF ApplyAccountDocument
  <2>. QED
    BY <1>2, <2>1, <2>2, <2>3
<1>. QED
  BY <1>1, <1>2

LEMMA JudgedAccountGate ==
  ASSUME NEW d, Known(d.context), NEW selfHosted, ~Judged(d, selfHosted).accountGate.present
  PROVE  Judged(d, selfHosted).accountGate = NoGate
<1>. DEFINE c == ContextOf[d.context]
            g == Judged(d, selfHosted).accountGate
<1>1. g = IF Made(d, selfHosted, 4) THEN AccountGateOf(c) ELSE NoGate
  BY DEF Judged
<1>2. CASE Made(d, selfHosted, 4)
  <2>1. IsContext(c)
    BY <1>2, ReachedContext DEF Made
  <2>2. SameDecision(g, c.accountGate)
    BY <1>1, <1>2, <2>1, AccountGateChecks
  <2>3. ~c.accountGate.present
    BY <2>2 DEF SameDecision
  <2>4. c.accountGate = NoGate
    BY <2>1, <2>3 DEF IsContext, Sealed
  <2>. QED
    BY <1>1, <1>2, <2>3, <2>4 DEF AccountGateOf
<1>3. CASE ~Made(d, selfHosted, 4)
  BY <1>1, <1>3
<1>. QED
  BY <1>2, <1>3

\* Between the judgement and the exit: where main() goes, what it leaves
\* alone, and that a given flag is not stepped over.
LEMMA FileFrame ==
  ASSUME RunFrame, RunNext, pc \in Between, ~FileUnreadable
  PROVE  /\ pc' = StepAfter[pc] /\ UNCHANGED world /\ flags' = flags /\ exit' = exit
         /\ Judgement' = Judgement
         /\ pc \in FileSteps => flags[pc] # Missing
         /\ SkipFile \/ ApplySignerKey \/ ApplyRequest \/ ApplyPolicy \/ ApplyHistory
            \/ ApplyAccountPolicy \/ ApplyAccountHistory \/ JudgeAccount
<1>1. SkipFile \/ ApplySignerKey \/ ApplyRequest \/ ApplyPolicy \/ ApplyHistory
      \/ ApplyAccountPolicy \/ ApplyAccountHistory \/ JudgeAccount
  BY DEF RunNext, Start, Verify, Exit, Between, StepAfter
<1>2. pc' = StepAfter[pc] /\ flags' = flags /\ exit' = exit
  BY <1>1 DEF SkipFile, ApplySignerKey, ApplyRequest, ApplyPolicy, ApplyHistory,
              ApplyAccountPolicy, ApplyAccountHistory, JudgeAccount, Advance
<1>3. UNCHANGED world
  BY WorldStands DEF Between, StepAfter
<1>4. Judgement' = Judgement
  BY <1>2, <1>3 DEF Judgement, Judged, world
<1>5. CASE SkipFile
  <2>1. pc \in FileSteps => flags[pc] # Missing
    BY <1>5, MissingAssumption DEF SkipFile
  <2>. QED
    BY <1>1, <1>2, <1>3, <1>4, <2>1
<1>6. CASE ~SkipFile
  <2>1. pc \in FileSteps => flags[pc] # Missing
    BY <1>1, <1>6 DEF ApplySignerKey, ApplyRequest, ApplyPolicy, ApplyHistory,
                      ApplyAccountPolicy, ApplyAccountHistory, JudgeAccount, FileAt, FileSteps
  <2>. QED
    BY <1>1, <1>2, <1>3, <1>4, <2>1
<1>. QED
  BY <1>5, <1>6

\* Which part of a report a step may write, and that it never revives it.
LEMMA ReportFrame ==
  ASSUME RunFrame, GateStands, RunNext, pc \in Between, ~FileUnreadable
  PROVE  /\ IsReport(report') /\ (Passes' => Passes /\ report'.tier = report.tier)
         /\ report'.account = report.account
         /\ (pc = "policy" /\ flags.policy # None) \/ report'.gate = report.gate
         /\ (pc = "accountPolicy" /\ flags.accountPolicy # None)
            \/ report'.accountGate = report.accountGate
         /\ (pc = "accountHistory" /\ flags.accountHistory # None)
            \/ report'.accountHistoryOK = report.accountHistoryOK
         /\ \/ pc = "signerKey" /\ flags.signerKey # None
            \/ pc = "request" /\ flags.request # None
            \/ report'.request = report.request
<1>1. IsReport(report) /\ report.gate \in GateCheck /\ report.accountGate \in GateCheck
  BY DEF RunFrame, IsReport
<1>2. CASE SkipFile
  BY <1>1, <1>2 DEF SkipFile, Passes
<1>3. CASE ApplySignerKey
  <2>. DEFINE q == [report EXCEPT !.request.outcome = "failed"]
  <2>1. report' \in {report, FailReportIf(TRUE, q)}
    BY <1>3 DEF ApplySignerKey
  <2>2. IsReport(q) /\ q.tier = report.tier /\ q.gate = report.gate
        /\ q.account = report.account /\ q.accountGate = report.accountGate
        /\ q.accountHistoryOK = report.accountHistoryOK
    BY <1>1, SetRequestFailed
  <2>. HIDE DEF q
  <2>3. pc = "signerKey" /\ flags.signerKey # None
    BY <1>3 DEF ApplySignerKey, FileAt
  <2>4. IsReport(report') /\ (Passes' => Passes /\ report'.tier = report.tier)
        /\ report'.gate = report.gate /\ report'.account = report.account
        /\ report'.accountGate = report.accountGate
        /\ report'.accountHistoryOK = report.accountHistoryOK
    BY <1>1, <2>1, <2>2, FailReportIfFails DEF Passes
  <2>. QED
    BY <2>3, <2>4
<1>4. CASE ApplyRequest
  <2>. DEFINE q == [report EXCEPT !.request.outcome = "failed"]
  <2>1. report' \in {report, FailReportIf(TRUE, q)}
    BY <1>4 DEF ApplyRequest
  <2>2. IsReport(q) /\ q.tier = report.tier /\ q.gate = report.gate
        /\ q.account = report.account /\ q.accountGate = report.accountGate
        /\ q.accountHistoryOK = report.accountHistoryOK
    BY <1>1, SetRequestFailed
  <2>. HIDE DEF q
  <2>3. pc = "request" /\ flags.request # None
    BY <1>4 DEF ApplyRequest, FileAt
  <2>4. IsReport(report') /\ (Passes' => Passes /\ report'.tier = report.tier)
        /\ report'.gate = report.gate /\ report'.account = report.account
        /\ report'.accountGate = report.accountGate
        /\ report'.accountHistoryOK = report.accountHistoryOK
    BY <1>1, <2>1, <2>2, FailReportIfFails DEF Passes
  <2>. QED
    BY <2>3, <2>4
<1>5. CASE ApplyPolicy
  <2>. DEFINE g == CheckPolicyDocument(report.gate, flags.policy)
              q == [report EXCEPT !.gate = g]
  <2>1. report' = FailReportIf(PolicyFailed(g), q)
    BY <1>5 DEF ApplyPolicy
  <2>2. g \in GateCheck
    BY <1>1, DocumentChecks DEF GateStands
  <2>. HIDE DEF g
  <2>3. IsReport(q) /\ q.tier = report.tier /\ q.request = report.request
        /\ q.account = report.account /\ q.accountGate = report.accountGate
        /\ q.accountHistoryOK = report.accountHistoryOK
    BY <1>1, <2>2, SetGate
  <2>. HIDE DEF q
  <2>. QED
    BY <1>1, <1>5, <2>1, <2>3, FailReportIfFails DEF ApplyPolicy, FileAt, Passes
<1>6. CASE ApplyHistory
  BY <1>1, <1>6, FailReportIfFails DEF ApplyHistory, FileAt, Passes
<1>7. CASE ApplyAccountPolicy
  <2>. DEFINE g == ApplyAccountDocument(report.accountGate, flags.accountPolicy)
              q == [report EXCEPT !.accountGate = g]
  <2>1. report' = q
    BY <1>7 DEF ApplyAccountPolicy
  <2>2. g \in GateCheck
    <3>1. SameDecision(report.accountGate, report.accountGate)
      BY DEF SameDecision
    <3>2. [NoGate EXCEPT !.checked = TRUE] \in GateCheck
      BY NoGateType DEF GateCheck
    <3>. QED
      BY <1>1, <3>1, <3>2, DocumentChecks DEF ApplyAccountDocument
  <2>. HIDE DEF g
  <2>3. IsReport(q) /\ q.tier = report.tier /\ q.request = report.request
        /\ q.gate = report.gate /\ q.account = report.account
        /\ q.accountHistoryOK = report.accountHistoryOK
    BY <1>1, <2>2, SetAccountGate
  <2>. HIDE DEF q
  <2>. QED
    BY <1>7, <2>1, <2>3 DEF ApplyAccountPolicy, FileAt, Passes
<1>8. CASE ApplyAccountHistory
  <2>. DEFINE ok == AccountHistoryHolds(flags.accountHistory, report.account,
                                        report.accountGate.activation)
              q == [report EXCEPT !.accountHistoryOK = ok]
  <2>1. report' = q
    BY <1>8 DEF ApplyAccountHistory
  <2>2. ok \in BOOLEAN
    BY DEF AccountHistoryHolds, RecordInChain
  <2>. HIDE DEF ok
  <2>3. IsReport(q) /\ q.tier = report.tier /\ q.request = report.request
        /\ q.gate = report.gate /\ q.account = report.account
        /\ q.accountGate = report.accountGate
    BY <1>1, <2>2, SetAccountHistory
  <2>. HIDE DEF q
  <2>. QED
    BY <1>8, <2>1, <2>3 DEF ApplyAccountHistory, FileAt, Passes
<1>9. CASE JudgeAccount
  BY <1>1, <1>9, FailReportIfFails DEF JudgeAccount, Passes
<1>. QED
  BY <1>2, <1>3, <1>4, <1>5, <1>6, <1>7, <1>8, <1>9, FileFrame

LEMMA RequestStep ==
  ASSUME RunFrame, GateStands, RequestStands, RunNext, pc \in Between, ~FileUnreadable
  PROVE  RequestStands'
<1>1. /\ flags' = flags /\ Judgement' = Judgement /\ (Passes' => Passes)
      /\ Past("signerKey")' <=> Past("signerKey") \/ pc = "signerKey"
      /\ Past("request")' <=> Past("request") \/ pc = "request"
  BY FileFrame, ReportFrame, PastStep DEF Between, StepAfter
<1>2. IsReport(report)
  BY DEF RunFrame
<1>. DEFINE q == [report EXCEPT !.request.outcome = "failed"]
            f == FailReportIf(TRUE, q)
<1>3. f.tier = "FAILED" /\ f.request.key = report.request.key
      /\ f.request.body = report.request.body
  <2>1. IsReport(q) /\ q.request.key = report.request.key
        /\ q.request.body = report.request.body
    BY <1>2, SetRequestFailed
  <2>. HIDE DEF q
  <2>. QED
    BY <2>1, FailReportIfFails
<1>4. CASE ApplySignerKey
  <2>1. pc = "signerKey" /\ report' =
          IF \/ report.request.outcome = "passed" /\ report.request.key = flags.signerKey
             \/ report.request.outcome = "failed"
          THEN report ELSE f
    BY <1>4 DEF ApplySignerKey, FileAt
  <2>. HIDE DEF f
  <2>. QED
    BY <1>1, <1>3, <2>1 DEF RequestStands, Passes
<1>5. CASE ApplyRequest
  <2>1. pc = "request" /\ report' =
          IF report.request.outcome = "passed" /\ report.request.body = flags.request
          THEN report ELSE f
    BY <1>5 DEF ApplyRequest, FileAt
  <2>. HIDE DEF f
  <2>. QED
    BY <1>1, <1>3, <2>1 DEF RequestStands, Passes
<1>6. CASE ~ApplySignerKey /\ ~ApplyRequest
  <2>1. /\ pc = "signerKey" => flags.signerKey = None
        /\ pc = "request" => flags.request = None
    BY <1>6, FileFrame DEF SkipFile, ApplyPolicy, ApplyHistory, ApplyAccountPolicy,
                           ApplyAccountHistory, JudgeAccount, FileAt
  <2>2. report'.request = report.request
    BY <2>1, ReportFrame
  <2>. QED
    BY <1>1, <2>1, <2>2 DEF RequestStands
<1>. QED
  BY <1>4, <1>5, <1>6

LEMMA GateStep ==
  ASSUME RunFrame, GateStands, RunNext, pc \in Between, ~FileUnreadable
  PROVE  GateStands'
<1>1. /\ flags' = flags /\ Judgement' = Judgement /\ (Passes' => Passes)
      /\ Past("policy")' <=> Past("policy") \/ pc = "policy"
  BY FileFrame, ReportFrame, PastStep DEF Between, StepAfter
<1>2. IsReport(report) /\ report.gate \in GateCheck
  BY DEF RunFrame, IsReport
<1>3. CASE ApplyPolicy
  <2>. DEFINE g == CheckPolicyDocument(report.gate, flags.policy)
              q == [report EXCEPT !.gate = g]
  <2>1. pc = "policy" /\ report' = FailReportIf(PolicyFailed(g), q)
    BY <1>3 DEF ApplyPolicy, FileAt
  <2>2. ~Past("policy")
    BY <2>1 DEF Past, StepNumber
  <2>3. /\ g \in GateCheck /\ SameDecision(g, Judgement.gate) /\ g.checked = TRUE
        /\ g.match => report.gate.match \/ DocumentHolds(Judgement.gate, flags.policy)
    BY <1>2, DocumentChecks DEF GateStands
  <2>. HIDE DEF g
  <2>4. IsReport(q) /\ q.gate = g
    BY <1>2, <2>3, SetGate
  <2>. HIDE DEF q
  <2>5. report'.gate = g /\ (Passes' => ~PolicyFailed(g))
    BY <2>1, <2>4, FailReportIfFails DEF Passes
  <2>. QED
    BY <1>1, <2>1, <2>2, <2>3, <2>5 DEF GateStands, PolicyFailed
<1>4. CASE ~ApplyPolicy
  <2>1. pc = "policy" => flags.policy = None
    BY <1>4, FileFrame DEF SkipFile, ApplySignerKey, ApplyRequest, ApplyHistory,
                           ApplyAccountPolicy, ApplyAccountHistory, JudgeAccount, FileAt
  <2>2. report'.gate = report.gate
    BY <2>1, ReportFrame
  <2>. QED
    BY <1>1, <2>1, <2>2 DEF GateStands
<1>. QED
  BY <1>3, <1>4

LEMMA HistoryStep ==
  ASSUME RunFrame, GateStands, HistoryStands, RunNext, pc \in Between, ~FileUnreadable
  PROVE  HistoryStands'
<1>1. /\ flags' = flags /\ Judgement' = Judgement /\ (Passes' => Passes)
      /\ Past("history")' <=> Past("history") \/ pc = "history"
  BY FileFrame, ReportFrame, PastStep DEF Between, StepAfter
<1>2. CASE ApplyHistory
  <2>1. report' = FailReportIf(~RecordInChain(flags.history, Judgement.gate.activation), report)
    BY <1>2 DEF ApplyHistory, GateStands, SameDecision
  <2>2. Passes' => RecordInChain(flags.history, Judgement.gate.activation)
    BY <2>1, FailReportIfFails DEF RunFrame, Passes
  <2>. QED
    BY <1>1, <2>2 DEF HistoryStands
<1>3. CASE ~ApplyHistory
  <2>1. pc = "history" => flags.history = None
    BY <1>3, FileFrame DEF SkipFile, ApplySignerKey, ApplyRequest, ApplyPolicy,
                           ApplyAccountPolicy, ApplyAccountHistory, JudgeAccount, FileAt
  <2>. QED
    BY <1>1, <2>1 DEF HistoryStands
<1>. QED
  BY <1>2, <1>3

LEMMA AccountGateStep ==
  ASSUME RunFrame, ContextsKnown, GateStands, AccountGateStands,
         RunNext, pc \in Between, ~FileUnreadable
  PROVE  AccountGateStands'
<1>. DEFINE J == Judgement.accountGate
<1>1. /\ flags' = flags /\ Judgement' = Judgement /\ report'.account = report.account
      /\ Past("accountPolicy")' <=> Past("accountPolicy") \/ pc = "accountPolicy"
  BY FileFrame, ReportFrame, PastStep DEF Between, StepAfter
<1>2. IsReport(report) /\ report.accountGate \in GateCheck
  BY DEF RunFrame, IsReport
<1>3. CASE ApplyAccountPolicy
  <2>. DEFINE g == ApplyAccountDocument(report.accountGate, flags.accountPolicy)
              q == [report EXCEPT !.accountGate = g]
  <2>1. pc = "accountPolicy" /\ report' = q
    BY <1>3 DEF ApplyAccountPolicy, FileAt
  <2>2. ~Past("accountPolicy")
    BY <2>1 DEF Past, StepNumber
  <2>3. report.accountGate = J
    BY <2>2 DEF AccountGateStands
  <2>4. ~J.present => J = NoGate
    <3>1. Known(copy.context)
      BY <2>1 DEF RunFrame, ContextsKnown
    <3>. QED
      BY <3>1, JudgedAccountGate DEF Judgement
  <2>5. /\ g \in GateCheck /\ SameDecision(g, J) /\ g.checked = TRUE
        /\ g.match => J.match \/ DocumentHolds(J, flags.accountPolicy)
    BY <1>2, <2>3, <2>4, AccountDocumentChecks
  <2>. HIDE DEF g
  <2>6. report'.accountGate = g
    BY <1>2, <2>1, <2>5, SetAccountGate
  <2>. QED
    BY <1>1, <2>1, <2>5, <2>6 DEF AccountGateStands
<1>4. CASE ~ApplyAccountPolicy
  <2>1. pc = "accountPolicy" => flags.accountPolicy = None
    BY <1>4, FileFrame DEF SkipFile, ApplySignerKey, ApplyRequest, ApplyPolicy, ApplyHistory,
                           ApplyAccountHistory, JudgeAccount, FileAt
  <2>2. report'.accountGate = report.accountGate
    BY <2>1, ReportFrame
  <2>. QED
    BY <1>1, <2>1, <2>2 DEF AccountGateStands
<1>. QED
  BY <1>3, <1>4

LEMMA AccountHistoryStep ==
  ASSUME RunFrame, GateStands, AccountGateStands, AccountHistoryStands,
         RunNext, pc \in Between, ~FileUnreadable
  PROVE  AccountHistoryStands'
<1>1. /\ flags' = flags /\ Judgement' = Judgement
      /\ Past("accountHistory")' <=> Past("accountHistory") \/ pc = "accountHistory"
  BY FileFrame, PastStep DEF Between, StepAfter
<1>2. CASE ApplyAccountHistory
  <2>. DEFINE ok == AccountHistoryHolds(flags.accountHistory, Judgement.account,
                                        Judgement.accountGate.activation)
  <2>1. report' = [report EXCEPT !.accountHistoryOK = ok]
    BY <1>2 DEF ApplyAccountHistory, AccountGateStands, SameDecision
  <2>2. ok \in BOOLEAN
    BY DEF AccountHistoryHolds, RecordInChain
  <2>. HIDE DEF ok
  <2>3. report'.accountHistoryOK = ok
    BY <2>1, <2>2, SetAccountHistory DEF RunFrame
  <2>. QED
    BY <1>1, <2>3 DEF AccountHistoryStands, ok
<1>3. CASE ~ApplyAccountHistory
  <2>1. pc = "accountHistory" => flags.accountHistory = None
    BY <1>3, FileFrame DEF SkipFile, ApplySignerKey, ApplyRequest, ApplyPolicy, ApplyHistory,
                           ApplyAccountPolicy, JudgeAccount, FileAt
  <2>2. report'.accountHistoryOK = report.accountHistoryOK
    BY <2>1, ReportFrame
  <2>. QED
    BY <1>1, <2>1, <2>2 DEF AccountHistoryStands
<1>. QED
  BY <1>2, <1>3

LEMMA AccountStep ==
  ASSUME RunFrame, GateStands, AccountStands, RunNext, pc \in Between, ~FileUnreadable
  PROVE  AccountStands'
<1>1. /\ Past("accountVerdict")' <=> Past("accountVerdict") \/ pc = "accountVerdict"
      /\ (Passes' => Passes)
  BY FileFrame, ReportFrame, PastStep DEF Between, StepAfter
<1>2. (Past("accountVerdict") \/ pc = "accountVerdict") => pc = "accountVerdict"
  BY DEF Past, StepNumber, Between, StepAfter
<1>3. CASE pc = "accountVerdict"
  <2>1. report'.accountGate = report.accountGate
        /\ report'.accountHistoryOK = report.accountHistoryOK
    BY <1>3, ReportFrame
  <2>2. JudgeAccount
    BY <1>3, FileFrame DEF SkipFile, ApplySignerKey, ApplyRequest, ApplyPolicy, ApplyHistory,
                           ApplyAccountPolicy, ApplyAccountHistory, FileAt, FileSteps
  <2>3. report' = FailReportIf(PolicyFailed(report.accountGate)
                               \/ ~report.accountHistoryOK, report)
    BY <2>2 DEF JudgeAccount
  <2>4. Passes' => ~(PolicyFailed(report.accountGate) \/ ~report.accountHistoryOK)
    BY <2>3, FailReportIfFails DEF RunFrame, Passes
  <2>. QED
    BY <2>1, <2>4 DEF AccountStands
<1>4. CASE pc # "accountVerdict"
  BY <1>1, <1>2, <1>4 DEF AccountStands
<1>. QED
  BY <1>3, <1>4

\* Past a flag's step, its file could be read.
LEMMA FilesReadStep ==
  ASSUME RunFrame, FilesRead, RunNext, pc \in Between, ~FileUnreadable
  PROVE  FilesRead'
<1>1. /\ flags' = flags /\ (pc \in FileSteps => flags[pc] # Missing)
      /\ \A step \in FileSteps : Past(step)' <=> Past(step) \/ step = pc
  BY FileFrame, PastStep DEF Between, StepAfter, FileSteps
<1>. QED
  BY <1>1 DEF FilesRead

LEMMA BetweenStep ==
  ASSUME RunFrame, FilesStand, ContextsKnown, RunNext, pc \in Between, ~FileUnreadable
  PROVE  FilesStand'
<1>1. Judgement' = Judgement /\ (Passes' => Passes /\ report'.tier = report.tier)
  BY FileFrame, ReportFrame DEF FilesStand
<1>2. TierStands'
  BY <1>1 DEF FilesStand, TierStands
<1>. QED
  BY <1>2, RequestStep, GateStep, HistoryStep, AccountGateStep, AccountHistoryStep,
     AccountStep, FilesReadStep DEF FilesStand

\* What verify() reports of the document is where the run starts from.
LEMMA FilesFromVerify ==
  ASSUME RunFrame, ContextsKnown, Verify
  PROVE  /\ pc' = "signerKey" /\ UNCHANGED world /\ flags' = flags /\ exit' = exit
         /\ IsReport(report') /\ FilesStand'
<1>1. /\ pc = "verify" /\ pc' = "signerKey" /\ UNCHANGED world /\ flags' = flags
      /\ exit' = exit /\ report' = Judgement
  BY DEF Verify, Advance, StepAfter, Judgement
<1>2. IsReport(report')
  <2>1. Known(copy.context)
    BY <1>1 DEF RunFrame, ContextsKnown
  <2>. QED
    BY <1>1, <2>1, JudgedIsReport DEF Judgement
<1>3. Judgement' = Judgement
  BY <1>1 DEF Judgement, Judged, world
<1>4. \A step \in Between : ~Past(step)'
  BY <1>1 DEF Past, StepNumber, Between, StepAfter
<1>5. /\ ~Past("signerKey")' /\ ~Past("request")' /\ ~Past("policy")' /\ ~Past("history")'
      /\ ~Past("accountPolicy")' /\ ~Past("accountHistory")' /\ ~Past("accountVerdict")'
  BY <1>4 DEF Between, StepAfter
<1>6. TierStands' /\ FilesRead'
  BY <1>1, <1>3, <1>5 DEF TierStands, FilesRead, FileSteps
<1>7. RequestStands'
  BY <1>1, <1>3, <1>5 DEF RequestStands
<1>8. GateStands' /\ HistoryStands'
  BY <1>1, <1>3, <1>5 DEF GateStands, HistoryStands, SameDecision
<1>9. AccountGateStands' /\ AccountHistoryStands' /\ AccountStands'
  BY <1>1, <1>3, <1>5 DEF AccountGateStands, AccountHistoryStands, AccountStands, SameDecision
<1>. QED
  BY <1>1, <1>2, <1>6, <1>7, <1>8, <1>9 DEF FilesStand

LEMMA RunInitStands == RunInit => RunStands
<1>. SUFFICES ASSUME RunInit PROVE RunStands
  OBVIOUS
<1>1. IsReport(Unread)
  BY NoGateType DEF Unread, IsReport, ReportFields, NoRequest
<1>. QED
  BY <1>1 DEF RunInit, RunStands, RunFrame, Between, StepAfter

LEMMA RunStep ==
  ReceiptsOnLog /\ ContextsKnown /\ RunStands /\ [RunNext]_<<world, runVars>> => RunStands'
<1>. SUFFICES ASSUME ReceiptsOnLog, ContextsKnown, RunStands, [RunNext]_<<world, runVars>>
              PROVE  RunStands'
  OBVIOUS
<1>1. RunFrame
  BY DEF RunStands
<1>2. CASE pc = "waiting" /\ Next /\ UNCHANGED runVars
  BY <1>1, <1>2 DEF runVars, RunStands, RunFrame, Between, StepAfter
<1>3. CASE Start
  <2>1. /\ flags' \in Flags /\ pc = "waiting" /\ pc' = "verify" /\ copy # None /\ copy' = copy
        /\ report' = report /\ exit' = exit
    BY <1>3, CommandLinesAssumption DEF Start, world, ReceiptsOnLog
  <2>. QED
    BY <1>1, <2>1 DEF RunStands, RunFrame, Between, StepAfter
<1>4. CASE Verify
  <2>1. /\ pc = "verify" /\ pc' = "signerKey" /\ UNCHANGED world /\ flags' = flags
        /\ exit' = exit /\ IsReport(report') /\ FilesStand'
    BY <1>1, <1>4, FilesFromVerify DEF Verify
  <2>. QED
    BY <1>1, <2>1 DEF RunStands, RunFrame, StepAfter, world
<1>5. CASE FileUnreadable
  <2>1. /\ pc # "waiting" /\ pc' = "done" /\ exit' = 2 /\ UNCHANGED <<world, flags, report>>
    BY <1>5 DEF FileUnreadable, FileSteps
  <2>. QED
    BY <1>1, <2>1 DEF RunStands, RunFrame, Between, StepAfter, world
<1>6. CASE pc \in Between /\ RunNext /\ ~FileUnreadable
  <2>1. FilesStand
    BY <1>6 DEF RunStands
  <2>2. FilesStand' /\ IsReport(report')
    BY <1>1, <1>6, <2>1, BetweenStep, ReportFrame DEF FilesStand
  <2>3. pc' = StepAfter[pc] /\ UNCHANGED world /\ flags' = flags /\ exit' = exit
    BY <1>1, <1>6, FileFrame
  <2>4. pc # "waiting" /\ pc # "done" /\ pc' \in DOMAIN StepAfter
        /\ pc' \notin {"waiting", "done"}
    BY <1>6, <2>3 DEF Between, StepAfter
  <2>5. copy # None /\ flags \in Flags /\ exit = None /\ copy' = copy
    BY <1>1, <2>3, <2>4 DEF RunFrame, world
  <2>6. RunFrame'
    BY <2>2, <2>3, <2>4, <2>5 DEF RunFrame
  <2>. QED
    BY <2>2, <2>6 DEF RunStands
<1>7. CASE Exit
  <2>1. /\ pc = "exit" /\ pc' = "done" /\ UNCHANGED <<world, flags, report>>
        /\ exit' = IF ReceiptExitShouldFail(report.tier, flags.allowUnanchored) THEN 1 ELSE 0
    BY <1>7 DEF Exit, Advance, StepAfter
  <2>2. FilesStand
    BY <2>1 DEF RunStands
  <2>3. Judgement' = Judgement
    BY <2>1 DEF Judgement, Judged, world
  <2>4. \A step \in Between : Past(step) /\ Past(step)'
    BY <2>1 DEF Past, StepNumber, Between, StepAfter
  <2>5. /\ Past("signerKey") /\ Past("request") /\ Past("policy") /\ Past("history")
        /\ Past("accountPolicy") /\ Past("accountHistory") /\ Past("accountVerdict")
        /\ Past("signerKey")' /\ Past("request")' /\ Past("policy")' /\ Past("history")'
        /\ Past("accountPolicy")' /\ Past("accountHistory")' /\ Past("accountVerdict")'
    BY <2>4 DEF Between, StepAfter
  <2>6. TierStands' /\ FilesRead' /\ RequestStands'
    BY <2>1, <2>2, <2>3, <2>5
       DEF FilesStand, TierStands, FilesRead, FileSteps, RequestStands, Passes
  <2>7. GateStands' /\ HistoryStands'
    BY <2>1, <2>2, <2>3, <2>5 DEF FilesStand, GateStands, HistoryStands, Passes
  <2>8. AccountGateStands' /\ AccountHistoryStands' /\ AccountStands'
    BY <2>1, <2>2, <2>3, <2>5
       DEF FilesStand, AccountGateStands, AccountHistoryStands, AccountStands, Passes
  <2>9. RunFrame'
    BY <1>1, <2>1 DEF RunFrame, StepAfter, world
  <2>. QED
    BY <2>6, <2>7, <2>8, <2>9 DEF RunStands, FilesStand
<1>8. CASE UNCHANGED <<world, runVars>>
  <2>1. Judgement' = Judgement /\ UNCHANGED <<world, flags, report, pc, exit>>
    BY <1>8 DEF Judgement, Judged, world, runVars
  <2>2. \A step \in DOMAIN StepNumber : Past(step)' <=> Past(step)
    BY <2>1 DEF Past
  <2>3. FilesStand' <=> FilesStand
    BY <2>1, <2>2 DEF FilesStand, TierStands, FilesRead, RequestStands, GateStands,
       HistoryStands, AccountGateStands, AccountHistoryStands, AccountStands, Passes, Past
  <2>. QED
    BY <2>1, <2>3 DEF RunStands, RunFrame, world
<1>9. (Start \/ Verify \/ FileUnreadable \/ Exit)
      \/ (pc = "waiting" /\ Next /\ UNCHANGED runVars)
      \/ (pc \in Between /\ RunNext /\ ~FileUnreadable)
      \/ UNCHANGED <<world, runVars>>
  BY DEF RunNext, SkipFile, ApplySignerKey, ApplyRequest, ApplyPolicy, ApplyHistory,
         ApplyAccountPolicy, ApplyAccountHistory, JudgeAccount, FileAt, FileSteps,
         Between, StepAfter
<1>. QED
  BY <1>2, <1>3, <1>4, <1>5, <1>6, <1>7, <1>8, <1>9

\* At every step of a run the report says what the document showed, lowered
\* by what the files read so far showed.
THEOREM RunStandsAlways == RunSpec => [](ContextsKnown /\ RunStands)
<1>1. RunSpec => [](ReceiptsOnLog /\ ContextsKnown)
  BY RunImplementsReceipts, ReceiptsStayOnLog, ContextsStayKnown, PTL
<1>. QED
  BY <1>1, RunInitStands, RunStep, PTL DEF RunSpec

(***************************************************************************)
(* What follows from it.                                                   *)
(***************************************************************************)

\* What is true of receipts and copies beside a server and a log stays true
\* beside a run of the verifier.
THEOREM ReceiptsBesideRun ==
  RunSpec => [](/\ AnchoredReceiptIsGenuine /\ AnchorCannotBeRemoved
                /\ IssuedReceiptVerifies /\ RewrittenReceiptLosesDate)
BY RunImplementsReceipts, AnchoredReceiptGenuine, AnchorStays, IssuedReceiptsVerify,
   RewrittenLosesDate, PTL

\* main() implements the verifier's promise step by step, and all_passed and
\* the tier of a receipt never part.
THEOREM ReceiptPromise == RunSpec => ReceiptKeepsPromise
<1>. DEFINE Kept == Promise!Next /\ (report'.allPassed <=> report'.tier # "FAILED")
<1>1. RunInit => Promise!Init
  BY DEF RunInit, Promise!Init
<1>2. ReceiptsOnLog /\ ContextsKnown /\ RunStands /\ [RunNext]_<<world, runVars>>
        => [Kept]_(Promise!vars)
  <2>. SUFFICES ASSUME ReceiptsOnLog, ContextsKnown, RunStands, [RunNext]_<<world, runVars>>
                PROVE  [Kept]_(Promise!vars)
    OBVIOUS
  <2>1. RunFrame /\ RunStands'
    BY RunStep DEF RunStands
  <2>2. report'.allPassed <=> report'.tier # "FAILED"
    BY <2>1 DEF RunStands, RunFrame, IsReport
  <2>3. [Promise!Next]_(Promise!vars)
    <3>1. CASE pc \in {"waiting", "done"} \/ UNCHANGED <<world, runVars>>
      <4>1. CASE UNCHANGED runVars
        BY <4>1 DEF runVars, Promise!vars
      <4>2. CASE Start
        BY <4>2 DEF Start, Promise!vars
      <4>. QED
        BY <3>1, <4>1, <4>2
           DEF RunNext, Verify, SkipFile, FileUnreadable, ApplySignerKey, ApplyRequest,
               ApplyPolicy, ApplyHistory, ApplyAccountPolicy, ApplyAccountHistory,
               JudgeAccount, Exit, FileAt, FileSteps, runVars
    <3>2. CASE Verify
      <4>1. pc = "verify" /\ pc' = "signerKey" /\ exit' = exit /\ exit = None
        BY <2>1, <3>2 DEF Verify, Advance, StepAfter, RunFrame
      <4>2. Promise!Judge
        BY <4>1 DEF Promise!Judge
      <4>. QED
        BY <4>2 DEF Promise!Next
    <3>3. CASE FileUnreadable
      <4>1. /\ pc \in FileSteps /\ pc' = "done" /\ exit' = 2 /\ report' = report
            /\ exit = None
        BY <2>1, <3>3 DEF FileUnreadable, RunFrame, FileSteps
      <4>2. Promise!Refuse
        BY <4>1 DEF Promise!Refuse, FileSteps
      <4>. QED
        BY <4>2 DEF Promise!Next
    <3>4. CASE Exit
      <4>1. /\ pc = "exit" /\ pc' = "done" /\ report' = report /\ exit = None
            /\ exit' = IF ReceiptExitShouldFail(report.tier, flags.allowUnanchored)
                       THEN 1 ELSE 0
        BY <2>1, <3>4 DEF Exit, Advance, StepAfter, RunFrame
      <4>2. exit' \in {0, 1} /\ (report.tier = "FAILED" => exit' = 1)
        BY <4>1 DEF ReceiptExitShouldFail
      <4>3. Promise!Conclude
        BY <4>1, <4>2 DEF Promise!Conclude
      <4>. QED
        BY <4>3 DEF Promise!Next
    <3>5. CASE pc \in Between /\ RunNext /\ ~FileUnreadable
      <4>1. FilesStand
        BY <3>5 DEF RunStands
      <4>2. /\ exit' = exit /\ exit = None /\ (Passes' => Passes)
            /\ pc \notin {"waiting", "verify"} /\ pc' \notin {"waiting", "verify"}
        BY <2>1, <3>5, <4>1, FileFrame, ReportFrame
           DEF FilesStand, RunFrame, Between, StepAfter
      <4>3. CASE Passes <=> Passes'
        BY <4>2, <4>3 DEF Promise!vars, Passes
      <4>4. CASE Passes /\ ~Passes'
        <5>1. Promise!Lower
          BY <4>2, <4>4 DEF Promise!Lower, Passes
        <5>. QED
          BY <5>1 DEF Promise!Next
      <4>. QED
        BY <4>2, <4>3, <4>4
    <3>. QED
      BY <2>1, <3>1, <3>2, <3>3, <3>4, <3>5
         DEF RunFrame, RunNext, Between, StepAfter, Verify, Exit, Start,
             SkipFile, ApplySignerKey, ApplyRequest, ApplyPolicy, ApplyHistory,
             ApplyAccountPolicy, ApplyAccountHistory, JudgeAccount, FileAt, FileSteps
  <2>. QED
    BY <2>2, <2>3
<1>3. RunSpec => [](ReceiptsOnLog /\ ContextsKnown /\ RunStands)
  BY RunImplementsReceipts, ReceiptsStayOnLog, RunStandsAlways, PTL
<1>. QED
  BY <1>1, <1>2, <1>3, PTL DEF RunSpec, ReceiptKeepsPromise

\* The checks read a context exactly when a v3 entry binds it.
LEMMA BoundIsReached ==
  ASSUME NEW d, d.clock \in Nat, NEW selfHosted,
         ReceiptTier(d, log, selfHosted) # "FAILED"
  PROVE  ContextReached(d, selfHosted) <=>
           (d.anchor # None /\ d.context # None /\ d.anchor.form = "v3")
BY TimesAssumption DEF ReceiptTier, ContextReached, AnchorBinds

\* A context whose checks all held is one a v3 entry may bind.
LEMMA ChecksHold ==
  ASSUME NEW d, IsContext(ContextOf[d.context]), \A i \in 1 .. 6 : ContextChecks(d)[i]
  PROVE  ContextHolds(d)
<1>. DEFINE c == ContextOf[d.context]
<1>1. /\ c.job /\ AccountIDKnown(c.account) /\ c.request # "failed"
      /\ ~PolicyFailed(CheckBuiltIn(c.gate)) /\ ~PolicyFailed(AccountGateOf(c))
      /\ AdmittedDecision(d, c.gate) /\ AdmittedDecision(d, c.accountGate)
  <2>1. /\ ContextChecks(d)[1] /\ ContextChecks(d)[2] /\ ContextChecks(d)[3]
        /\ ContextChecks(d)[4] /\ ContextChecks(d)[5] /\ ContextChecks(d)[6]
    OBVIOUS
  <2>. QED
    BY <2>1, SixChecks
<1>2. (c.gate.present /\ c.gate.source = "verdifax") =>
        /\ c.gate.document \in BuiltInTexts /\ c.gate.activation = None
        /\ DocumentHolds(c.gate, c.gate.document)
  BY <1>1, BuiltInChecks DEF IsContext
<1>3. c.accountGate.present =>
        /\ c.account # None /\ c.accountGate.source = "customer"
        /\ c.accountGate.activation # None
  BY <1>1, AccountGateChecks
<1>4. d.kind \in HaltedKinds =>
        \A g \in {c.gate, c.accountGate} : g.present => g.outcome # "deny"
  BY <1>1 DEF AdmittedDecision
<1>5. c.account \in Accounts \cup {None}
  BY <1>1 DEF AccountIDKnown
<1>. HIDE DEF c
<1>. QED
  BY <1>1, <1>2, <1>3, <1>4, <1>5 DEF ContextHolds, DocumentHolds, c

\* Nothing a receipt or its context showed, and nothing a file showed, is
\* forgiven on the way to exit 0.
THEOREM AcceptedReceipt == RunSpec => []AcceptedReceiptHolds
<1>1. ReceiptsOnLog /\ ContextsKnown /\ RunStands => AcceptedReceiptHolds
  <2>. SUFFICES ASSUME ReceiptsOnLog, ContextsKnown, RunStands, Accepted
                PROVE  AcceptedReceiptHolds
    BY DEF AcceptedReceiptHolds
  <2>. DEFINE c == ContextOf[copy.context]
              J == Judgement
              bound == copy.anchor # None /\ copy.context # None /\ copy.anchor.form = "v3"
  <2>1. /\ pc = "done" /\ exit = 0 /\ RunFrame /\ FilesStand /\ Passes
    BY DEF Accepted, RunStands, RunFrame, ReceiptExitShouldFail, Passes
  <2>2. copy # None /\ Known(copy.context) /\ copy.clock \in Nat
    BY <2>1 DEF RunFrame, ContextsKnown, ReceiptsOnLog
  <2>3. \A step \in Between : Past(step)
    BY <2>1 DEF Past, StepNumber, Between, StepAfter
  <2>4. /\ Past("signerKey") /\ Past("request") /\ Past("policy") /\ Past("history")
        /\ Past("accountPolicy") /\ Past("accountHistory") /\ Past("accountVerdict")
    BY <2>3 DEF Between, StepAfter
  <2>5. J.tier # "FAILED"
    BY <2>1 DEF FilesStand, TierStands, Passes
  <2>6. ReceiptTier(copy, log, flags.selfHosted) # "FAILED"
    BY <2>5, JudgedHolds DEF Judgement
  <2>7. ContextReached(copy, flags.selfHosted) <=> bound
    BY <2>2, <2>6, BoundIsReached
  <2>8. bound => /\ SealedParts(J, c) /\ IsContext(c)
                 /\ \A i \in 1 .. 6 : ContextChecks(copy)[i]
    BY <2>2, <2>5, <2>7, JudgedHolds, ReachedContext DEF Judgement
  <2>9. ~bound => NoParts(J)
    BY <2>5, <2>7, JudgedHolds DEF Judgement
  <2>10. bound => ContextHolds(copy)
    BY <2>8, ChecksHold
  <2>11. bound =>
           /\ J.request.outcome = c.request /\ J.request.outcome # "failed"
           /\ J.request.key = c.requestKey /\ J.request.body = c.requestBody
           /\ J.account = c.account
           /\ SameDecision(J.gate, c.gate)
           /\ c.gate.source # "verdifax" => ~J.gate.match
           /\ SameDecision(J.accountGate, c.accountGate) /\ ~J.accountGate.match
    BY <2>8, <2>10, BuiltInChecks, AccountGateChecks DEF SealedParts, IsContext, ContextHolds
  <2>12. ~bound =>
           /\ J.request.outcome = "absent" /\ J.account = None
           /\ ~J.gate.match /\ ~J.gate.present /\ J.gate.activation = None
           /\ ~J.accountGate.match /\ ~J.accountGate.present
    BY <2>9, NoGateType DEF NoParts, NoRequest
  <2>. HIDE DEF J, bound, c
  <2>13. \A step \in FileSteps : flags[step] # Missing
    BY <2>1, <2>3 DEF FilesStand, FilesRead, FileSteps, Between, StepAfter
  <2>14. flags.signerKey # None =>
           bound /\ c.request = "passed" /\ c.requestKey = flags.signerKey
    BY <2>1, <2>4, <2>11, <2>12 DEF FilesStand, RequestStands, J
  <2>15. flags.request # None =>
           bound /\ c.request = "passed" /\ c.requestBody = flags.request
    BY <2>1, <2>4, <2>11, <2>12 DEF FilesStand, RequestStands, J
  <2>16. flags.policy # None =>
           /\ bound
           /\ c.gate.source # "verdifax" => DocumentHolds(c.gate, flags.policy)
    <3>1. flags.policy # None => J.gate.match \/ DocumentHolds(J.gate, flags.policy)
      BY <2>1, <2>4 DEF FilesStand, GateStands, J
    <3>2. bound => (DocumentHolds(J.gate, flags.policy) => DocumentHolds(c.gate, flags.policy))
      BY <2>11 DEF DocumentHolds, DocumentIsSealedOne, RulesAgree, SameDecision
    <3>. QED
      BY <2>11, <2>12, <3>1, <3>2 DEF DocumentHolds
  <2>17. flags.history # None => bound /\ RecordInChain(flags.history, c.gate.activation)
    <3>1. flags.history # None => RecordInChain(flags.history, J.gate.activation)
      BY <2>1, <2>4 DEF FilesStand, HistoryStands, J
    <3>2. bound => J.gate.activation = c.gate.activation
      BY <2>11 DEF SameDecision
    <3>. QED
      BY <2>12, <3>1, <3>2 DEF RecordInChain
  <2>18. ~PolicyFailed(report.accountGate) /\ report.accountHistoryOK
    BY <2>1, <2>4 DEF FilesStand, AccountStands
  <2>19. flags.accountPolicy # None =>
           bound /\ DocumentHolds(c.accountGate, flags.accountPolicy)
    <3>1. flags.accountPolicy # None =>
            J.accountGate.match \/ DocumentHolds(J.accountGate, flags.accountPolicy)
      BY <2>1, <2>4, <2>18 DEF FilesStand, AccountGateStands, PolicyFailed, J
    <3>2. bound => (DocumentHolds(J.accountGate, flags.accountPolicy)
                      => DocumentHolds(c.accountGate, flags.accountPolicy))
      BY <2>11 DEF DocumentHolds, DocumentIsSealedOne, RulesAgree, SameDecision
    <3>. QED
      BY <2>11, <2>12, <3>1, <3>2 DEF DocumentHolds
  <2>20. flags.accountHistory # None =>
           bound /\ AccountHistoryHolds(flags.accountHistory, c.account,
                                        c.accountGate.activation)
    <3>1. flags.accountHistory # None =>
            AccountHistoryHolds(flags.accountHistory, J.account, J.accountGate.activation)
      BY <2>1, <2>4, <2>18 DEF FilesStand, AccountHistoryStands, J
    <3>2. bound => J.account = c.account /\ J.accountGate.activation = c.accountGate.activation
      BY <2>11 DEF SameDecision
    <3>. QED
      BY <2>12, <3>1, <3>2 DEF AccountHistoryHolds
  <2>21. (\E step \in FileSteps : flags[step] # None) => bound
    BY <2>14, <2>15, <2>16, <2>17, <2>19, <2>20 DEF FileSteps
  <2>. QED
    BY <2>6, <2>10, <2>13, <2>14, <2>15, <2>16, <2>17, <2>19, <2>20, <2>21
       DEF AcceptedReceiptHolds, DocumentHolds, bound, c
<1>2. RunSpec => [](ReceiptsOnLog /\ ContextsKnown /\ RunStands)
  BY RunImplementsReceipts, ReceiptsStayOnLog, RunStandsAlways, PTL
<1>. QED
  BY <1>1, <1>2, PTL

=============================================================================
