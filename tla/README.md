# TLA+ models of verdifax-verify

`verdifax-verify` is an offline command-line verifier. It reads a sealed record (an audit
bundle, or a receipt for a run that was refused or halted), recomputes what the record says of
itself, checks its entries in a public transparency log (Rekor), optionally compares it with
files the reader supplies, and answers with a report and an exit code. This directory holds a
model of it in TLA+, configurations that check the model with TLC on small instances, and
proofs, checked with TLAPS, of the results that hold for every instance.

Paths below are relative to `src/`.

## 1. The system

### Components

| Component | State it keeps | Operations | What makes it correct |
|---|---|---|---|
| Bundle verdict (`main.go`, `bundleanchor.go`) | one `Report`: AllPassed, tier, coverage word, one outcome per check | `verify()` rolls the checks up; `exitShouldFail`, `partialCoverageExit` | tier, coverage and exit code tell one story; exit 0 means a complete record |
| Optional files on a bundle (`main.go`, `policygate.go`, `accountgate.go`, `requestsig.go`) | the same `Report`, changed file after file | `applyPolicyDocument`, `loadPolicyHistory`, `applyAccountFlags`, `applySignerKey`, `applyRequestFile` | a file can only lower the verdict; an accepted record agrees with every file given |
| Policy gate (`policygate.go`, `accountgate.go`) | `PolicyGateCheck` inside the report, for the run's policy and for the account's | `checkBuiltIn`, `checkPolicyDocument`, `rerunRules`, `checkAccountGate` | the document is the sealed one and decides what was sealed |
| Public-log binding (`leafbinding.go`, `preanchor.go`, `bundleanchor.go`, `entryauth.go`, `nrep.go`, `recordidentity.go`, `boundcopies.go`) | none; functions of the record and what the log proves | one check each, in the order of `verify()` | what a verdict says of a copy is true of a record the server sealed |
| Log inclusion (`internal/rekorverify`) | none | Merkle path, signed checkpoint, signed entry timestamp, entry body | accepts what the log holds, at its number and time, and every genuine proof |
| Policy history (`policyhistory.go`) | position in the chain | `checkActivation` for each change, first failure ends | no change missing, repeated, reordered or from another chain; entries close to their dates |
| Receipts (`receipt.go`) | one `ReceiptReport` | a fixed order of checks with early failures, then the optional files | an unanchored receipt is never called anchored; a cutover date cannot be avoided |
| Job map (`jobmap.go`) | records of a folder, reachable steps | index by hash, link, signer, final step | COMPLETE only for one closed, connected job |
| Policy evaluation (`internal/psleval`) | none | `Decide`: every rule readable, first match fires | no decision on unreadable rules |
| Strict JSON (`internal/artifacts/strictjson.go`) | path in the document | `CheckStrict` | two readers cannot see two values |
| Copies of values (`boundcopies.go`) | a table of groups | compare what is carried and read | no copy of a value says something else |
| Tamper test (`tamper.go`) | list of changes, tally | change, spread, rewrite hashes, judge, classify | "stopped" holds against every rewrite, "rewritable" names a real one |
| Command line (`main.go`, `usage.go`) | mode, flags | pick the mode, refuse flags for another kind of input | exit 2 exactly when no verdict was reached |
| Hashes and preimages (`internal/artifacts`, `internal/policyhash`) | none | concatenation and SHA-256 | every hash row recomputes |
| Hardware quote (`internal/sevsnp`) | none | certificate chain and report signature | its result is one of the rows |

### How they interact

`main()` decodes the input strictly, calls `verify()` once, and then applies the optional files
to the returned `*Report` in a fixed order: `--policy`, `--policy-history`, the account files,
`--signer-key`, `--request`. There are no threads and no callbacks; the components share that one
report by pointer, and each clears its own subset of its fields. The exit code is taken from what
is left and from the flags. A receipt takes another path through `main()`, with its own order of files
(`--signer-key`, `--request`, `--policy`, `--policy-history`, the account files), and `--tamper-test`
runs the whole verification once for each form of each change.

Around the program there is a second system which it only sees the traces of: the Verdifax server
logs a *run entry* when a run is sealed and, from leaf v5 on, a *record entry* over the finished
record; its `/attest` endpoint logs entries with the same key; its log-signing key is switched
from time to time; the log is public and holds entries of others; and the copy a reader holds may
not be the record that was sealed. The verifier's checks are only meaningful against that
history, so the history is modelled too, from what the checks and their comments say of it.

### What is hard here

* **One report, many writers.** A check stored in a field and a check folded in a local variable
  meet at the end of `verify()` (`main.go:1022`, `main.go:1066`); a check called twice on one
  field may keep an answer of its first call (`policygate.go:126`); a file that clears only some
  of the fields leaves a report that fails in one field and holds in another
  (`requestsig.go:127`).
* **Which checks ran depends on other checks**, and the roll-up fails only on those that ran.
* **Promises inside the thing checked.** From leaf v6 on the record itself says it must have a
  record entry (`bundleanchor.go:181`); a copy may lose the entry, or the promise, or both.
* **Entries that resemble each other.** Two runs of one payload in one second; `/attest` leaves
  of the run entry's form; entries logged again; a stored digest that has become stale.
* **Boundaries.** Half-open key periods that meet in one second, a closed window with a
  permitted skew before the clock, cutovers by time between leaf forms, and periods in which
  early records are not compared at all (`boundcopies.go:121`).
* **Proofs in parts.** A log proof is put together from an inclusion path, a checkpoint and a signed
  entry timestamp, over different bytes and with different numbers for one entry
  (`internal/rekorverify/verify.go:296`); the path's arithmetic has its edge at the right border of a tree (`:430`).
* **Two readings of one text.** JSON readers differ in what they see of repeated and respelled keys
  (`strictjson.go:180`); a policy's hash is over a rebuilt preimage that leaves fields out
  (`policyhash.go:315`); a broken rule must not hide behind a match (`psleval/decide.go:42`).
* **A test of the verifier by itself.** The tamper test's answer is worth as much as the forms of a
  change it tries (`tamper.go:1012`).
* **A run in two steps.** The server can stop, switch keys or let the window pass between the
  two entries.

`PROJECT.json` lists each of these under `hazards` with its line and the properties aimed at it.

## 2. The modules

| Module | Models | Builds on |
|---|---|---|
| `Verdict` | the roll-up, tier, coverage word and exit code as functions of the checks | |
| `PolicyGate` | the checks of sealed policy decisions against built-in and supplied documents | |
| `VerifierPromise` | what one invocation promises, abstractly | |
| `OptionalFiles` | what the files beside a record are compared with | `PolicyGate` |
| `VerifyRun` | one invocation on a bundle, `main()` from the decoded bundle to the exit code | `Verdict`, `OptionalFiles`; implements `VerifierPromise` |
| `PublicLog` | what the checks rely on of the log and of the published keys | |
| `BundleChecks` | the checks that tie a record to the public log, as functions of a record and the log | `Verdict`, `PublicLog` |
| `AnchoredRecord` | server, log and changing copy, with the verdict on the copy | `BundleChecks` |
| `ReceiptChecks` | the checks of a refused or halted run's receipt and its entry | `PublicLog` |
| `AnchoredReceipt` | server, log and changing copy, with the verdict on the copy, for receipts | `ReceiptChecks` |
| `ReceiptRun` | one invocation on the copy a reader of `AnchoredReceipt` holds | `AnchoredReceipt`, `OptionalFiles`; implements `VerifierPromise` |
| `LogInclusion` | a growing log, and `VerifyAnchor` on anchors put together from its parts | implements what `PublicLog` assumes |
| `PolicyHistory` | the check of a file of policy changes | `PublicLog` |
| `PolicyChain` | policy changes from the server to the verdict on a file of them | `PolicyHistory` |
| `JobMap` | the records of a job and the verdict on a folder of them | |
| `StrictJson` | the strict reading of a text, Go's reading and other readers' | |
| `PolicyTypes` | the fields of a policy | `StrictJson` |
| `PolicyDecide` | the decision of a policy's rules on sealed inputs | `PolicyTypes` |
| `PolicyHash` | validation and the preimage of the policy hash | `PolicyTypes` |
| `PolicyText` | a sealed policy text and what was made of it | `PolicyDecide`, `PolicyHash` |
| `BoundCopies` | groups of copies and their comparison | |
| `RecordHashes` | the hashes a record determines, and their rewrite | `BoundCopies` |
| `TamperTest` | `--tamper-test`, with and without `--recompute-hashes` | `RecordHashes` |
| `MCVerifyRun`, `MCAnchoredRecord`, `MCAnchoredReceipt`, `MCReceiptRun`, `MCPolicyChain`, `MCJobMap`, `MCLogInclusion`, `MCPolicyText`, `MCTamperTest` | instances for TLC | |
| `VerifyRun_proofs`, `AnchoredRecord_proofs`, `ReceiptRun_proofs`, `PolicyChain_proofs`, `LogInclusion_proofs`, `JobMap_proofs`, `PolicyText_proofs`, `TamperTest_proofs` | theorems about the module they are named after; `ReceiptRun_proofs` also about `AnchoredReceipt`, which `ReceiptRun` extends | that module |

### `Verdict`, `PolicyGate` and `VerifyRun`

A bundle enters `VerifyRun` as a record of what its checks return (`checks`), the decisions it
seals (`gate`, `accountGate`, `account`) and its request key and body. `Coherent` restricts the
combinations of outcomes to those `verify()` can return: the leaf is checked exactly for
records on the log, entry authentication only after the log proof passed, and so on. `report` is
the part of `Report` the verdict depends on, `flags` is the command line with each file's content
in place of its name (`None` for a flag not given, `Missing` for a file that cannot be read), and
`pc` is the place in `main()`.

One action is one statement group of `main()`: `Verify` is the call of `verify()` with both policy
gates; `ApplyPolicy`, `ApplyHistory`, `ApplyAccountPolicy`, `ApplyAccountHistory`, `ApplySignerKey`
and `ApplyRequest` read and apply one file each; `SkipFile` is the flag that was not given;
`FileUnreadable` is `os.Exit(2)`; `JudgeAccount` is the end of `applyAccountFlags`, which runs
always; `Exit` is the switch at the end. The actions leave alone exactly the fields the code
leaves alone: `FailReport` clears AllPassed, tier and coverage, `ApplySignerKey` and `ApplyRequest`
clear AllPassed only.

What a policy text decides is a constant function `Decide` here, its hash `PolicyHash`
(`PolicyDecide` and the module `PolicyHash` model both); several texts
may have one hash, and a text outside `Readable` has none. A policy history file enters as the
result of `checkPolicyHistory`: whether it held, the account it belongs to and its changes.

### `VerifierPromise`

The input is judged once; what is learnt afterwards can only lower the judgement; a failed input
exits 1; an input that holds exits 0, 3 or 1; a file that cannot be read ends the run with 2; and
the run ends. `VerifyRun` implements it with `standing` read off `pc` and `report.allPassed`.
`ReceiptRun` implements its safety, with `standing` read off the tier.

### `BundleChecks` and `AnchoredRecord`

A record is what two changes of it may tell apart: identifiers, sections, description, actor
section, scaffold flag, nonce, pre-anchor table, stored digests, the proof section's copy of the
run entry (`pote`), and the two log proofs. A digest is the tuple of what it covers, which makes
digests collision free and nothing else. Hash rows inside a copy are taken as recomputed, since
anyone who changes a section can recompute them: `hashes` is TRUE, and the verdict has to come
from the log.

`AnchoredRecord` has the server (`StartRun`, `SealRecord`, `Attest`), the clock (`Tick`), the
reader's copy (`Take`, then `Rewrite`, one changed part at a time) and entries of others
(`LogAgain`, under a key that is not pinned or, with `relogs`, under the server's own). Stopping
between two entries needs no action: `SealRecord` may never come, and `Take` may take the record
as it is. `Rewrite` covers a changed section with an actor section made to fit, a dropped table,
a table that lost its requirement or window row, a table rewritten to fit the copy with the clock
kept or moved, and log proofs that name any other entry, none, or another ledger.

### `ReceiptChecks` and `AnchoredReceipt`

A receipt has no table and no second entry. What it must carry depends on the date it claims:
before run 241 nothing was anchored, run 241 has a v1 entry, and every receipt from run 242 on
seals `anchor_required` and has a v2 or, with a context, a v3 entry. `ReceiptTier` is
`verifyReceiptDocumentWith` in that order: the cutovers, a missing anchor, its form and what it
binds, another backend, the entry with its signer and window. `Gap` is the truncation in
`receipt.go:418`, which is why the receipt's clock counts ticks and the log seconds. What the
context itself says (policy, account, job, signature) is looked at in `ReceiptRun`; `d.context` is
what its hash covers.

`AnchoredReceipt` has the server (`Issue` under the forms of its time, `LogReceipt` at once, late or
never), the clock (`Tick`), entries of others (`LogAgain`) and a copy (`Take`, `ChangeReceipt` in any
field the checks read, `ChangeAnchor` to any entry, any form, another backend or none). Both
readers are asked about every copy: with and without `--self-hosted-receipt`.

### `ReceiptRun`

`main()` on the copy that `AnchoredReceipt` leaves with a reader: the server's, the log's and the
copy's steps come first, then `Start` gives the copy to the verifier with a command line.
`ContextOf` is what a context seals. `ContextChecks` are its checks in their order, made only when
`ContextReached`, and `Judged` fills a field of the report just before its check, so a receipt that
fails early leaves the later fields empty: the files that follow are compared with what the report
holds, not with the document. The file steps are `VerifyRun`'s in the other order; every failure
sets the tier and AllPassed together, and the exit code is read off the tier
(`ReceiptExitShouldFail`), so a receipt has no exit 3.

A receipt without an anchor, or under v1 or v2, has no context that anything checked: it may be
accepted as self-consistent on its own, and any file given beside it fails. `AcceptedReceiptHolds`
says both, and leaves out the one exception it shares with bundles: `--policy` beside a built-in
policy keeps the match of the first check (divergence 1 below).

### `LogInclusion`

The log takes `Submissions` one by one. Hashes and signatures are terms, so two are equal exactly
when they are of the same bytes. `Tree` and `AuditPath` are RFC 6962's definitions; `Climb` and
`RecomputeRoot` are the verifier's loop over the path, `SignedCheckpoint`, `SignedEntryTimestamp` and
`EntryBodyNamesLeaf` its other checks. `Accept` is one verification of an anchor whose body,
index, size, root, path, checkpoint, number, time and timestamp are chosen independently, from
the log's own, other keys' and made-up ones. `AcceptedIsLogged` is `PublicLog!Logged`, the operator on
which `BundleChecks`, `ReceiptChecks` and `PolicyHistory` rest, read off this log: what those modules
assume of a verified anchor is shown here of `VerifyAnchor`.

### `StrictJson`, `PolicyTypes`, `PolicyDecide`, `PolicyHash` and `PolicyText`

A text is a tree of objects, whose members keep their order, lists and scalars. A key is a name and
whether it is spelled exactly; a scalar is `plain` when its literal is the only one of its value.
`WalkStrict` is `walkStrict` along a type, `GoRead` what `json.Unmarshal` makes of the text, and
`Readers` the other readers: four ways to differ, in any combination. Each is written level by level (`Walk1` to
`Walk6`, and so on): the operator of a level is given that of the level below. A policy's
values stand at most six levels below its root (a type has its depth fixed), so nothing is cut off, and without recursion the module
can be proved about. `PolicyTypes` lists a policy's fields, `PolicyHash`
has the validation and the preimage with the fields it leaves out, `PolicyDecide` readability and
decision. `PolicyText` starts from a sealed text and rewrites it, one place at a time. A rule's words are
sequences, so that prefixes and substrings are real; other texts are single symbols.

### `BoundCopies`, `RecordHashes` and `TamperTest`

A record is a value per field and a sequence of values per list. A hash is the term of what it
covers, and covers may hold hashes, so one change makes several stale; `Recompute` replaces stale
values, wherever they stand, in rounds. A group of copies names its paths, when each is read and
the fields whose value switches it off (`gates`). `binds` says what no rewrite can change: the
content the log's entries, AMD's report and the actor's signature commit to.

`TamperTest` is `runTamperTest`: `Changes` lists every change, `Apply` makes one, `Candidates` its forms
(in every copy, in one, in one with a gate off), each with the `turn` it has in the code, rewritten by
`Prepared`, those that are the original again left out; `Weakest` keeps the form that got furthest, of equals the first, `Retried` repeats a crude edit with a well-formed value, and the
results are counted. `Judge` for a bundle collects every failing group, for a receipt the first in its order.

Properties compare the answer with `ForgerForms`, which is defined without the test's own forms:
either value, in any subset of the places that hold it, with any subset of the gates off, and
hashes made to agree from the fields up.

### `PolicyHistory` and `PolicyChain`

A policy change is a record whose hash is the tuple of what `ComputeHash` covers, so a hash holds
the hash of the change before it. `ChangeHolds` is `checkActivation` for one change of the file,
`EntryHolds` its `checkActivationEntry`; the first failure ends the check, and nothing is kept
but the file's place, so the file holds when each change does. The gap between a change and its
entry is compared with its fraction here, unlike a receipt's. `AccountHistoryHolds` is
`loadAccountPolicyHistory` for a record: every change in the file is of one chain, that chain is
the account the record names, and the change the record names is in the file.

`PolicyChain` has the chains of keys and of accounts (`AccountForm`), the server (`Approve` is a signature of the customer's key, `Activate` the next
change of a chain, `LogChange` its entry), the clock, and the file: `Copy` puts any of the server's
changes at its end, so files lack, repeat, reorder and mix changes; `ChangeActivation` changes a
field and leaves the hash or makes it fit; `ChangeAnchor` names another entry, none, or another
backend; `LogAgain` logs a change as the file shows it, under another key or, with `relogs`, under
the server's. The server makes no changes once the file is begun.

### `JobMap`

A record's hash is its place in the order of sealing, which is the order hashes impose: a record
can name only what was there before it. `Seal` adds a record with any job block, malformed ones and
records without a job included; `Put` adds a file to the folder, in any order, more than once,
failing or not decoding. A bundle's hash covers its job block. A receipt's does not: the block is in its
context, which only the leaf of an anchored v3 receipt covers. `PutAltered` adds a file that shows another
block than the sealed one under the record's hash; it fails, or holds when the command line has
`--allow-unanchored` (`scope.unanchored`). `Verdict` is `checkJobMap`: `mainJobID`, `indexJob` (where a record with a
hash already seen replaces the one before, which `BlockOf` keeps), the links, the final step and
the branch nothing follows.

## 3. What the runs check

| Run | Question | Properties |
|---|---|---|
| `verify_run` | Do the tier, the coverage word and the exit code agree whatever checks fail, does an accepted record agree with every file given, and can no file undo another? | `TypeOK`, `CleanExitIsComplete`, `RequirementIsFinal`, `TierMatchesExit`, `SuppliedFilesHold`, `PolicyFileHolds`, `FailureIsFinal`, `KeepsPromise` |
| `anchored_record` | Is what a verdict says of a copy true of a run the server sealed, can the entries of two runs be exchanged, and what does the window show when the holder of the server's key logs again? | `TypeOK`, `CompleteRecordIsGenuine`, `AnchoredRunIsGenuine`, `RequirementCannotBeRemoved`, `SealedActorIsGenuine`, `SealedRecordVerifies`, `ChecksAreCoherent`, `LateRecordCannotKeepClock` |
| `anchored_receipt` | Is an anchored receipt one the server issued, can an entry be taken away, does every receipt verify as what it is, can one logged again keep its date, and does an accepted one agree with its context and with every file given? | `AnchoredReceiptIsGenuine`, `AnchorCannotBeRemoved`, `IssuedReceiptVerifies`, `RewrittenReceiptLosesDate`, `AcceptedReceiptHolds`, `ReceiptKeepsPromise` |
| `log_inclusion` | Does an anchor that verifies name an entry of the log at its number, time and place, and does every genuine proof verify? | `AcceptedIsLogged`, `AcceptedIsAtItsIndex`, `GenuineAnchorVerifies` |
| `policy_chain` | Is an accepted history the first changes of one chain, does an honest one verify exactly when logged in time, what does one still show when the holder of the server's key draws it up, and is the one accepted for a record's account that account's? | `AcceptedHistoryIsPrefix`, `HonestHistoryVerifies`, `NamedChangeShowsAllBefore`, `SignedChangeIsApproved`, `AccountHistoryIsTheAccounts` |
| `policy_text` | Does every reader see one policy in an accepted text, can a broken rule hide behind a match, and does the sealed hash fix the decision? | `ReadersAgree`, `BrokenRuleNeverDecides`, `SameHashSameDecision` |
| `tamper_test` | Is "stopped" true of every rewrite a forger can make, is a "rewritable" path one, and is no change lost or counted twice? | `TypeOK`, `StoppedMeansNoRewrite`, `RewritablePathsAreReal` |
| `job_map` | Is a complete folder closed, can nothing be cut out of it, is a sound job complete, is any of it a matter of file names, and what is left of this when the block of a receipt is bound by nothing? | `CompleteIsClosed`, `CompleteCannotBePruned`, `NamesDoNotMatter`, `SoundJobIsComplete` |
| `verify_run_policy_file` | Does `--policy` fail on any document but the sealed one? | `EveryPolicyFileHolds` (violated) |
| `verify_run_coverage` | Does a failed record say "failed" in `record_coverage`? | `FailedRecordSaysFailed` (violated) |
| `verify_run_job` | Is an accepted record's job block well formed? | `AcceptedJobIsWellFormed` (violated) |
| `anchored_receipt_window` | Was an anchored receipt logged within the window? | `EntryWithinWindow` (violated) |

`SealedRecordVerifies` is the counterpart of the safety properties: a verifier that failed
everything would satisfy those. It says that whatever the server leaves, complete or stopped
between the two entries, verifies as what it is at any later time; `IssuedReceiptVerifies` says so
of receipts, logged or not, and `GenuineAnchorVerifies` of log proofs. `ChecksAreCoherent` links the
two halves of the project: whatever a copy holds, `BundleChecks` returns a combination of
outcomes that `VerifyRun` starts from.

Every property has a mutant in `PROJECT.json`: a plausible mistake in one mapped definition under
which the property no longer holds.

### Where code and documents disagree

1. **`--policy` on a record under a Verdifax policy** (`policygate.go:126`). `checkBuiltIn` has
   already set `DocumentMatch` from the document the record carries; when `checkPolicyDocument`
   runs again on the reader's file its early returns set a reason and leave the match. The record
   is accepted with a document of another policy. `README.md:677-681` says verification fails
   unless the hash, identifier, name and version equal the sealed values. `PolicyFileHolds` is
   the same statement for every other source, and holds.
2. **Coverage word after a request failure** (`requestsig.go:127`, `main.go:383-385`). AllPassed
   is cleared and the exit code is 1, but `verdict_tier` and `record_coverage` keep the values of
   a verified record. `main.go:161-164` gives "failed" as the value for a failed record.
   `TierMatchesExit` excludes these two flags for this reason.
3. **A malformed job block** (`main.go:1022`). The failure is stored in `r.AllPassed` while the
   roll-up is still in a local variable, which overwrites it at `main.go:1066`.
4. **The window of a receipt** (`receipt.go:418`). The gap between the receipt's clock and its entry
   is truncated to whole seconds before it is compared, so an entry is accepted up to, and not
   including, one second past the window. `README.md:511-512` requires it "within 600 seconds after
   the receipt's own clock", and `policyhistory.go:127`, which says it checks an entry "as a
   receipt's is checked", compares the gap untruncated (`policyhistory.go:160`).
   `RewrittenReceiptLosesDate` and `IssuedReceiptVerifies` state the window the code has.

No run was made for these, which are about comments, help texts and printed lines or follow
from 1:

* `receipt.go:31-33` says the document's `ok` field is not checked; the code refuses a document
  with `ok` false, as `README.md:557-559` says.
* The help of `--recompute-hashes` (`main.go:214`) lists the actor signature among the checks that
  count as stopping a change; `notStopped` counts a change stopped by it alone against the record.
* The line "changes left the record unchanged once its hashes were recomputed" also counts deleted
  stored hashes, which are never tried (`SkipStoredHash`).
* `tamperSpreadCopies` says the change is made in every copy, "so the copy check cannot be what
  stops it"; only a path's direct peers are changed, so a copy of a copy can still stop it. The
  test then reports too much as left, never too little. Gates are tried with the lone form only,
  which could report too little for a list without a bound copy beside a bound scalar one; no
  generation of records has that layout.
* `--policy` beside a built-in policy keeps the first check's match on receipts as on bundles.

### Bounds

Five of the modules have a variable `scope`, chosen in the initial state and never changed: the bounds
of the behaviour and, where there is a log, whether somebody besides the server logs under the server's
key (`relogs`). One run then covers several shapes of behaviour, each bounded as it needs, and a
property that only holds while the key is the server's alone says `~scope.relogs`. In `JobMap` it also has whether
receipts without an anchor are allowed (`unanchored`). `VerifyRun`'s
`Invocations` are pairs of a set of records and the command lines given with them, for the same
reason.

* **`MCVerifyRun`.** Records start from the five kinds of bundle there are (complete; before the
  requirement row; before the table; off the log, with and without a table) and differ from them
  in up to two checks, so every check is seen failing alone and beside each other one. The roll-up
  is a conjunction and the tier a choice between a few outcomes, so a third failing check meets
  no new case. Other records keep three kinds and vary eleven sealed decisions, three accounts and
  four account decisions against five texts (two of one policy, one unreadable), four
  histories, two keys and two request bodies, each also unreadable; flags that could make up for
  one another are given together.
* **`MCAnchoredRecord`.** Time 1 stands for the generations before the table (leaves v1 to v3),
  time 2 for the generations with it (v5 to v7), time 3 is the second in which the key is
  switched, time 4 comes after it. `TableSince` is 2, `Window` 1, `MaxWindow` 2 and `Skew` 1, so
  an entry can be early by the skew, on the last second and past it. In the first scope a signed run has any
  form, the log holds its two entries and one more, of `/attest` or of others, and two changes to a copy
  reach a changed part together with a table or proofs made to fit it; the second does this for an
  unsigned run and two entries. In the third there are two runs and four entries; one change is
  enough, since a single entry is exchanged. In the fourth the server's key is in other hands, on a
  v7 run. Two submissions differ in every field
  but the envelope: one is signed by an actor, the other is not.
  `PoteDiffers` holds time 1: in that period the copied time is not compared.
* **`MCAnchoredReceipt`.** Two ticks are a second, so a receipt can be issued on a second and
  between two; the window and the skew are one second. Tick 4 is run 241's, from tick 5 on every
  receipt seals `anchor_required` and ticks 2 and 3 come before anchoring; second 3 switches the
  key. The first scope has two receipts of the same content, in one tick or in different
  periods, and two entries; two changes show a receipt's document with another's number, context or
  entry, or without one and backdated. The second has one receipt, of the last period, and the
  server's key in other hands: with its clock changed too, an entry is on the window's last second,
  in the second the truncation adds or past it. In the third a receipt has time to be logged
  two seconds after its window, with one change to its copy.
* **`MCReceiptRun`.** `MCAnchoredReceipt`'s scopes, in which no verifier is started, and two more. In
  `EveryContext` a halted run's v3 receipt, logged or not, carries one of nineteen contexts (each
  check of a context failing alone, each gate a customer's, built in, refused, undecided or absent)
  and meets every command line with up to two files, each also unreadable. Two files are enough: a
  file reads and writes one part of the report, and only another can undo it. In `EveryCopy` a
  refusal's receipts of every form, with the gate that refused it or another, and copies one change
  away meet both values of `--self-hosted-receipt` and `--allow-unanchored`, and a command line with
  two files: the gate that refused it, which fails a halted run's receipt, holds there.
* **`MCLogInclusion`.** A log of up to nine entries: every shape of tree up to three levels and the
  smallest of four, with all right borders. Two bodies are submitted more than once, one entry
  is of a kind the verifier does not read and one under a key it refuses; the
  shard's numbers start at 100, so a number is never an index.
* **`MCPolicyText`.** Four texts that together use every operator, condition and part of a policy,
  two rewrites each: one that hides something and one that makes the text fit. Seven contexts tell the rules apart, with
  times on the edges of a window over midnight and counts on a limit.
* **`MCTamperTest`.** One field of each kind the test tells apart, one group with two gates and a
  period in which it is not read, copies of a hash, a hash over hashes, and a list stored twice whose first item is also a scalar.
  Five first entries, three record entries, AMD's report, the actor and a check without a catch
  group bind any combination of them; a receipt, a record whose copies disagree, a record read without
  `--recompute-hashes`. `MaxRounds` is the code's.
* **`MCPolicyChain`.** Two accounts, interchangeable, and a key's chain beside them, which no account's
  history may be; two texts, interchangeable; two ticks are a second, the
  window and the skew one second. The first scope has three changes and files of three that
  lack, repeat, reorder or mix them: one missing between two, and two chains of which one has two
  changes. The second has two changes, one changed field and five ticks, enough for a change on a second or between two and an entry in the window, on its
  last second and past it. In the third the server's key is in other hands and time stands still, which
  never closes the window and so only makes forging easier; one changed field with its hash made to
  fit and its own new entry is what a forger needs for one change, and a file of two changes
  shows whether the change beside it still links.
* **`MCJobMap`.** The first scope has two jobs and three records with links inside and between jobs, up
  to one odd thing (a malformed block, a record without a job, a failing file) and three files in
  every order, with repeats. The second has one job of four records, the least in which a
  branch of two joins again or is dropped beside another; the files are any selection of them. The third and the
  fourth have two records and a file with an altered block: in the third it fails, in the fourth, with
  unanchored receipts allowed, it passes, beside two more files.
* The fields of `scope`, `MaxTime`, `MaxLog` and `MaxEdits` are guards of actions; nothing else is
  bounded. The server's steps come before the reader's (`ServerActs`, `file = <<>>`): neither looks
  at the other's, so any other order of the two gives a copy and a log that this order gives too, but for the
  place of entries that are not the server's. Time
  goes on after `Take` where a copy may be logged again later (`TimePasses`).

### Fairness and deadlock

`VerifyRun` assumes weak fairness of `Next`: `main()` is one thread, without loops or waiting
between these steps, so a step that can be taken is taken. `KeepsPromise` needs it for the
promise that the run ends. `TamperTest` states the same of its one loop, which no property needs: the
invariants speak of a test that has ended. `ReceiptRun` states none: the server's, the log's and the copies' steps come
before the verifier's, and that its run ends is `VerifyRun`'s argument. `AnchoredRecord`, `AnchoredReceipt`,
`PolicyChain`, `JobMap`, `LogInclusion` and `PolicyText` assume none; all their properties are invariants, and nothing obliges the
server to log an entry or anybody to seal a record. Deadlock is not checked: `VerifyRun` ends when
the process does and the others when they reach their bounds.

## 4. What is proved

The runs show a property on a small instance; the theorems show it for every value of the
constants: any number of runs, receipts, policy changes, files and keys, any dates and texts.

### From which assumptions

Constants are arbitrary but for the named assumptions of the modules, which TLC evaluates on each
instance:

| Module | Assumed, and why the code justifies it |
|---|---|
| `PolicyGate` | built-in texts can be read, hashes of readable texts are policies, and no text, input, activation or account is the empty value |
| `VerifyRun`, `ReceiptRun` | command lines, records and contexts are of their types, records coherent (`ChecksAreCoherent` shows that of every copy); a file that cannot be read is not a flag that was not given |
| `AnchoredRecord` | `/attest` does not log under run identifiers; the server uses a pinned key inside its period and nobody else's key is pinned; the server logs no leaf without a table once records carry one, and seals a window the verifier reads |
| `AnchoredReceipt` | the same of keys; the two cutovers; a refusal has an identifier leaves are made for, and a context |
| `PolicyChain` | the server's key is pinned and has no end, nobody else's key is pinned; accounts' chains are chains, and no chain is the empty value (a record's account or key is a non-empty text); window and skew are numbers of seconds |
| `LogInclusion` | submissions are a sequence, numbers count from a number, and another key is not the log's |
| `JobMap` | no job is the absent job |
| `PolicyDecide` | a time of day is a minute of a day |
| `PolicyText` | a sealed text is an object with members in order, and its rules are a list, as decoding into the type of a policy requires; a context has each input a rule may ask for (they are fields of `EvaluationContext`) |
| `TamperTest` | no exit code yet is not exit code 0 or 1 |

Digests are the tuples of what they cover, and signatures terms, so every theorem takes hashes to be
collision free and signatures to be unforgeable. The theorems of `AnchoredRecord_proofs` that look inside a record also name `NoneIsNothing` as a
hypothesis: the value for an absent part is not a record, an anchor, a sequence or a number. It
holds of any model value, and TLC cannot evaluate it, which is why it is no assumption of the module.

### Along which arguments

**`VerifyRun_proofs`.** `TypeCorrect` is the type invariant. Two inductive invariants carry the rest.

* `VerdictStands`: at each step the tier and the coverage are what `verify()` found or a
  failure, the report fails in all three words unless a request flag was given, and the exit code
  is the one of the report. From it follow `CleanExit` (exit 0 without an allow flag is for
  complete records only), `RequirementFinal` (a record that lacks the record entry its table
  requires is accepted under no flags and files) and `TierAgreesWithExit`. `CleanExitIsComplete`
  alone is not inductive: it speaks of the exit code, and says nothing of the report the exit code
  is taken from.
* `FilesStand`: once `main()` is past a flag, a report that has not failed agrees with its file.
  `SuppliedFilesHold` is about the end, so it needs what is true at each place before it: that a step
  only lowers the report, that it leaves the sealed part of a decision alone, and that only a
  document can make the check of somebody else's policy match. The account's two files are read
  before they are judged, so two conjuncts keep what they showed until `JudgeAccount`. From it
  follow `SuppliedFiles` and `PolicyFile`.

`FailureStays` is an action property: no later file brings a failed report back. `StepsKeepPromise`
is the safety part of the implementation of `VerifierPromise`, step by step.

**`AnchoredRecord_proofs`.** Nothing in it depends on how the copy came about: `Rewrite` and `Take`
leave the log alone, and each verdict is a statement about any value of `doc`.

* `RunsStayOnLog`: every sealed record's proofs name entries the log holds, over that record. A
  log is only appended to, so what is on it stays (`AppendKeeps`).
* `RequirementStays`: a copy that earns the partial verdict passed the log proof and the leaf
  check, so the entry it names is over its own leaf. If that is a sealed run's entry the two
  leaves are equal, hence the two forms, and a v6 or v7 table with a requirement would have failed
  the copy. No assumption on who logs again: the statement is about the entry a run was logged with.
* `PinnedEntries`: while nobody else holds the server's key (`~scope.relogs`), each entry under a
  pinned key is one of the two entries of a sealed record or one of `/attest`.
* `CompleteRecordGenuine`: the record entry of a complete copy is under the run entry's key, so a
  pinned one; no run leaf and no `/attest` leaf is in the record entry's domain, so it is a sealed
  record's; its digest names that record in every part; and the part that copies the run entry's
  number fixes which run. That copy is why two runs of one payload cannot be exchanged, and the
  only place where the argument uses `boundcopies.go`.
* `AnchoredRunGenuine`, `SealedActorGenuine`: the run entry of an anchored copy is a pinned entry with the copy's
  leaf. It is not a record entry, whose leaf has another domain, nor one of `/attest`, whose
  identifiers no run has; so it is a run's, and the leaf's form says which parts the two share.
* `RecordsStayInOrder` is the invariant of the server's two steps: the log is in order of time,
  each sealed record has the table, the times and the signers of the moments it was made in, and a
  copy keeps the shape of a record. `RunsOnLog` says where entries are, not when they
  were made, which `LogTypeCorrect` (`TypeOK`), `CoherentCopies` and `SealedRecordsVerify` need.
* `CoherentCopies` joins the two halves: the checks of any copy are a combination `VerifyRun` starts
  from, so its theorems hold of what `BundleChecks` computes.
* `SealedRecordsVerify` is the converse of the genuineness theorems, check by check, with the half
  open key periods and the closed window; `LateRecordLosesClock` is read off the window check and needs
  no key to be kept.

**`ReceiptRun_proofs`, on `AnchoredReceipt`.** `ReceiptsOnLog` is inductive: an issued receipt's form is one of its
time, and its entry, if any, is over its own leaf, under the key of its second and not before the
receipt. `ServersEntriesAreReceipts` is the counterpart of `PinnedEntries`. From both follows
`AnchoredReceiptGenuine`: the leaf's form is the copy's anchor's, so what the form binds is the same in both.
`AnchorStays` needs nothing of the log: the hash covers the date and `required`, and each of the ways to have no
entry is open only to the dates and forms the statement names. `IssuedReceiptsVerify` is the arithmetic of the
window, whose truncation to seconds `GapBounds` states once; `RewrittenLosesDate` uses its other half.

**`ReceiptRun_proofs`, on the run.** `RunImplementsReceipts` shows that a run of the verifier is a behaviour of
`AnchoredReceipt` (it writes nothing of the world), so its theorems hold beside a run:
`ReceiptsBesideRun`. `ContextsKnown` says that any copy's context can be looked up. `RunStands` is
`FilesStand` for receipts, with another order of files and against what the judgement left in the report
and not against the document: a receipt that fails early leaves fields empty, and
`JudgedHolds` says that one that did not fail made every check of a context it reached. From it follow `AcceptedReceipt`, with every file and
the context itself, and `ReceiptPromise`, the implementation of `VerifierPromise`.

**`PolicyChain_proofs`.** `ChainsStand` and `FileStands` are inductive together. The first says of
each chain of the server that its changes have the places one to their number, each covers the
hash of the one before, and a logged one names its entry; the second that a file shows changes by
their form, and signatures that were given. `AcceptedHistoryIsPrefix` speaks of each place of a
file of any length. Instead of an induction, the least place at which the file and the
chain part is taken (`FirstPlace`) and cannot exist: the change there is one the server made, and it
names the hash of the change before it. `NamedChange` argues from the greatest place below the
named change that is not shown, and needs no key to be kept, because a hash holds the hash of the
change before it. `SignedChange` follows from the form of a change. `AccountHistory` has two
directions. That a history accepted for an account is the account's comes from the hashes, which fix a
change's chain: the change the record names is the server's, so it and all it leads back to are
(`ShownBack`), and a change of another chain would have to show its chain (`ShownToAccount`). That the
account's own history is accepted needs the key to be the server's: then the file is a beginning
of the server's chain (`PrefixShown`), which is the account's at each place (`OwnHistoryShown`). `HonestHistory` is
both directions of the window.

**`LogInclusion_proofs`.** `AcceptedOnLog` shows that `VerifyAnchor` gives what `PublicLog!Logged` says and
what the modules above assume of a verified anchor. It rests on the signed entry timestamp alone:
the log signs body, time and number of entries it holds (`AcceptedIsStamped`, inductive since the log
only grows), and the leaf and the signer are read from that body. What the inclusion path and the
checkpoint add, the index in the tree, is not needed for it. Of that, `AcceptedInSignedTree` is proved: whichever
checkpoint comes with an anchor, the line that decides is the log's signature over a size the log has had (`CheckpointIsOfLog`), so the
index lies in a tree of the log and the root is that tree's. That is the first conjunct of `AcceptedIsAtItsIndex`.

**`JobMap_proofs`.** `JobsStand`: a sealed record names earlier records only, and a file that passes shows the
block sealed under its hash, unless unanchored receipts are allowed. In `CompleteClosed`, that the final record leads back to every other
is an argument by the greatest record it does not lead to (`FinalReachesAll`): some record follows
that one and was sealed later. `CompleteNotPruned` uses it twice: the part's final record is the folder's, and leads to
everything. `NamesAreFree` needs nothing of what was sealed, so it holds of unanchored receipts too: which file comes first decides the job, but in a folder that passes every file no
link names is of that job, so the first of any order is (`MainJobKept`, `VerdictKept`). `SoundJob` is the converse: what sound sealing gives is what
`checkJobMap` asks for.

**`PolicyText_proofs`.** The three properties are true of any text of a policy's form, so the edits
matter only through that form.

* `ReadersSeeAlike` is an argument per level of the text, the innermost first (`SeenAlike1` to `SeenAlike6`). In
  an object that `walkStrict` lets through, keys do not repeat in any spelling and are all the
  type's, so a reader that folds case or not, and takes the first place or the last, finds a key at the same one
  place (`SamePlaces`), and by the level below sees the same value there. It uses no property of the text's history.
* `TextsWellFormed` is the inductive invariant of the other two: every rewrite leaves an object whose members are in order and whose
  rules are a list. Without it "the first rule that fires" means nothing.
  There is one lemma per kind of edit: append, replace, remove, swap (`MembersStayWellFormed`).
* `BrokenRuleStopsDecision` compares `Decide`, which reads all rules first and then fires one, with
  a definition that reads a rule as its parts say (`Says`). A rule with a part that is not readable is exactly one
  that says "unread" (`SaysUnread`), whatever its other parts; otherwise it fires exactly when every
  part says so (`SaysFires`). `WindowWraps` is the window over midnight, from minutes between 0 and 1439.
* `HashFixesDecision`: two policies with one hash have preimages that agree field by field, and `RulePreimage` leaves out only what
  `Fires` and `RuleReadable` do not look at, or writes a missing part as what it means (`MatcherAlike` to `RuleAlike`). So rule by rule the two are
  readable alike and fire alike (`DecideAlike`), also on the inputs a record seals instead of the
  context itself (`SealedContext`).

**`TamperTest_proofs`.** `LoopInv` is inductive: every change is waiting, put aside or judged, once; a judged one has the result that
`Verdict` gives, and one put aside was undone or is the deletion of a stored hash; and an exit code
follows from the results. `TypeOK` alone is not inductive: it does not say where a result comes from.
`TamperTypeOK` then needs that a judgement accepts exactly when nothing caught the change (`JudgedOnce`).
`ResultsBoundWhatWasTried` is about `Weakest` and the retry: a result reports the form that got furthest among all that
were tried, so an accepted result has a form that was accepted, and one that does not count
against the record leaves no form that verifies or is left to the actor's signature, among them the crude ones
that a retry replaced, since a retry happens only when none of those got through (`RetriedFailed`). `CleanExitMeansStopped` and `ReportCoversEveryChange` say the same of
the exit code: 0 is exactly a record that verifies with no result counted against it, and then no form tried of any
change, but for deleted stored hashes, verifies or is left to the actor's signature.

Each of these modules states the few facts on sequences it needs itself: what `Append` keeps, the least and the greatest place of a
set of numbers (which stand for inductions), and the places of a subset of a list in their order.

### What is only model-checked

* **The end of a run** in `KeepsPromise`: liveness under fairness is out of the prover's reach. Its steps are proved.
* **`AcceptedIsAtItsIndex` and `GenuineAnchorVerifies`.** `Climb`, `Tree` and `AuditPath` are recursive
  functions along the tree. That they agree for every size is an induction over data, and the
  provers cannot instantiate an induction theorem. What is left to TLC of the first is its second conjunct, that no
  other body has a path from that index to the tree's root.
* **`StoppedMeansNoRewrite` and `RewritablePathsAreReal`.** They compare the forms the test tries with all that a
  forger can make (`ForgerForms`), and that depends on the table of groups and on what a record's
  hashes cover: with a table that misses a copy they are false. They are statements about the
  instance, which has one group of each kind. What holds of any table is proved: a result bounds every form that was tried.
* **The four violated properties** have counterexamples, not proofs.

## 5. What is not modelled

* Hash preimages and SHA-256, base64, RFC 3339 texts: digests are what they cover.
* Leaf v4 and the order and count of table rows; rows whose values no modelled part shows.
* The cross-checks that compare copies inside a record: in `VerifyRun` they are one Boolean input,
  `cross`. `BoundCopies` has their rule and `BundleChecks` the run entry's copy; the table of some forty
  groups itself is data.
* The bundle's hash rows and the hardware quote: one Boolean input, `hashes`. `RecordHashes` has the
  shape of the rows (hashes over hashes), not their fields.
* Request signatures: the outcome is an input, since the preimages are concatenations.
* In policy texts: JSON null, integers above 2^53 (which readers with floating-point numbers round), values
  of another type than the field's, metadata deeper than one
  level, and the literals themselves (`plain` is whether `checkStringText` and
  `checkCanonicalNumber` pass).
* Choosing the mode of the command line and refusing flags: straight-line code before any state.
* What a receipt without an anchor says of its job is bound by nothing. `CompleteIsClosed` and
  `CompleteCannotBePruned` therefore exclude command lines with `--allow-unanchored`.
* Changes that the holder of the server's key makes up after the change a record names: they are in none of
  the server's chains, so `AccountHistoryIsTheAccounts` says of them only that they are of no other account's.
* Printing, wording, build files and fixtures.

## 6. Plan

The components with state and the pure algorithms are modelled. Left to do, in this order:

1. `VerifyRun`'s and `ReceiptRun`'s constant `Chain` results taken from the changes of `PolicyHistory`,
   which is what a property on `policyhistory.go:190` needs.
2. `PolicyGate`'s constants `Decide` and `PolicyHash` taken from `PolicyDecide` and the module `PolicyHash`.
3. A job folder's exit code and list of signers (`runJobMode`) on top of `JobMap`.

Theorems to add: the parts of `GenuineAnchorVerifies` that are not about the path (checkpoint, timestamp, body and
signer of a genuine anchor), and `StoppedMeansNoRewrite` under an assumption on the table of groups that
TLC evaluates on the real one of `boundcopies.go`.
