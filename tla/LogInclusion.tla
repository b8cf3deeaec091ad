---------------------------- MODULE LogInclusion ----------------------------
(***************************************************************************)
(* Why an anchor that verifies names an entry of the public log: the entry *)
(* body, the RFC 6962 inclusion proof, the signed checkpoint and the signed *)
(* entry timestamp.  The log only grows; an anchor may combine parts of    *)
(* different entries and different moments of it.  A hash is a term, so    *)
(* two hashes are equal exactly when they are of the same bytes.           *)
(***************************************************************************)
EXTENDS Integers, Sequences, SequencesExt, FiniteSetsExt

CONSTANTS
  Submissions, \* what is submitted, in order: [body, time]
  ForeignBodies, \* bodies the log does not hold
  FirstNumber, \* the number of the shard's first entry across shards
  LogKey,      \* the embedded log key
  OtherKey,    \* any other key
  None         \* an absent value

ASSUME SubmissionsAssumption == Submissions \in Seq(Range(Submissions))
ASSUME NumberAssumption == FirstNumber \in Nat
ASSUME KeyAssumption == OtherKey # LogKey

VARIABLES
  log,     \* the entries the log holds, a prefix of Submissions
  accepted \* the anchor that verified, or None

vars == <<log, accepted>>

(***************************************************************************)
(* The log: what Rekor hashes, proves and signs                            *)
(***************************************************************************)
LeafHash(body) == <<"leaf", body>>
HashChildren(left, right) == <<"node", left, right>>

\* The largest power of two below n.
Split(n) == CHOOSE k \in {2 ^ i : i \in 0 .. n} : k < n /\ 2 * k >= n

\* RFC 6962's tree over the entries lo + 1 .. hi.
Tree ==
  LET root[lo \in 0 .. Len(log), hi \in 0 .. Len(log)] ==
        IF hi = lo + 1 THEN LeafHash(log[hi].body)
        ELSE HashChildren(root[lo, lo + Split(hi - lo)], root[lo + Split(hi - lo), hi])
  IN root

\* The root of the tree of the first n entries.
RootOf(tree, n) == tree[0, n]

\* The audit path of entry m + 1 in the tree of the first n.
AuditPath(root, m, n) ==
  LET path[lo \in 0 .. n, hi \in 0 .. n] ==
        LET k == lo + Split(hi - lo)
        IN IF hi = lo + 1 THEN <<>>
           ELSE IF m < k THEN Append(path[lo, k], root[k, hi]) ELSE Append(path[k, hi], root[lo, k])
  IN path[0, n]

Sign(key, over) == [by |-> key, over |-> over]
Verifies(key, over, signature) == signature = Sign(key, over)

Numbered(i) == FirstNumber + i - 1
Timestamp(i) == Sign(LogKey, [body |-> log[i].body, time |-> log[i].time,
                              logID |-> LogKey, number |-> Numbered(i)])

\* A checkpoint: what it states, and its signature lines.
Note(size, root) == [size |-> size, root |-> root]
Line(hint, key, over) == [hint |-> hint, signature |-> Sign(key, over)]
Checkpoint(note, lines) == [note |-> note, lines |-> lines]

(***************************************************************************)
(* VerifyAnchorWithKey                                                     *)
(***************************************************************************)
\* validateInput.
ValidInput(a) ==
  /\ a.leaf # None /\ a.root # None /\ a.checkpoint # None /\ a.logID # None
  /\ a.size > 0 /\ a.index \in 0 .. a.size - 1

\* EntryBodyNamesLeaf.
EntryBodyNamesLeaf(body, leaf) ==
  /\ body # None
  /\ body.kind = "hashedrekord" /\ body.algorithm = "sha256"
  /\ body.value # None /\ body.value = leaf

\* How often n can be halved.
TrailingZeros(n) == CHOOSE k \in 0 .. n : (n \div 2 ^ k) % 2 = 1 /\ n % 2 ^ k = 0

\* Mutant: the last node of a level, when it is a left child, is hashed as
\* one whose sibling is on its right.
ClimbNoBorder(at, sibling) ==
  LET right == at.fn % 2 = 1
  IN IF at.sn = 0 THEN [at EXCEPT !.over = TRUE]
     ELSE [at EXCEPT !.hash = IF right THEN HashChildren(sibling, @) ELSE HashChildren(@, sibling),
                     !.fn = @ \div 2, !.sn = @ \div 2]

\* One level of recomputeRootRFC6962's loop.  A node that is the last of its
\* level has no sibling until it is a right child: those levels are skipped.
Climb(at, sibling) ==
  LET right == at.fn % 2 = 1 \/ at.fn = at.sn
      skip  == IF right THEN TrailingZeros(at.fn) ELSE 0
  IN IF at.sn = 0 THEN [at EXCEPT !.over = TRUE]
     ELSE [at EXCEPT !.hash = IF right THEN HashChildren(sibling, @) ELSE HashChildren(@, sibling),
                     !.fn = @ \div 2 ^ (skip + 1), !.sn = @ \div 2 ^ (skip + 1)]

\* recomputeRootRFC6962: None outside the tree, and when the path is too
\* short or too long.
RecomputeRoot(leafHash, index, size, siblings) ==
  LET start == [hash |-> leafHash, fn |-> index, sn |-> size - 1, over |-> FALSE]
      top   == FoldLeft(Climb, start, siblings)
  IN IF index \notin 0 .. size - 1 \/ top.sn > 0 \/ top.over THEN None ELSE top.hash

\* Mutant: the checkpoint's size is not compared.
CheckpointCommitsRootOnly(note, root, size) == note.root = root

\* validateCheckpointBody.
CheckpointCommits(note, root, size) == note.size = size /\ note.root = root

\* verifySignedCheckpoint: the first line that carries the log's key hint
\* decides; a later line is not asked.
SignedCheckpoint(c, root, size) ==
  /\ CheckpointCommits(c.note, root, size)
  /\ \E i \in DOMAIN c.lines :
       /\ c.lines[i].hint = LogKey /\ \A j \in 1 .. i - 1 : c.lines[j].hint # LogKey
       /\ Verifies(LogKey, c.note, c.lines[i].signature)

\* Mutant: the time the log recorded is not in what it signs.
SignedEntryTimestampUntimed(a) ==
  /\ a.timestamp # None /\ a.number # None
  /\ \E t \in {e.time : e \in Range(Submissions)} :
       Verifies(LogKey, [body |-> a.body, time |-> t, logID |-> LogKey, number |-> a.number], a.timestamp)

\* verifySignedEntryTimestamp: the log signs the whole entry body, the time
\* and the number across shards, not the index of the proof.
SignedEntryTimestamp(a) ==
  /\ a.timestamp # None /\ a.number # None
  /\ Verifies(LogKey, [body |-> a.body, time |-> a.time, logID |-> LogKey, number |-> a.number], a.timestamp)

VerifyAnchor(a) ==
  /\ ValidInput(a)
  /\ EntryBodyNamesLeaf(a.body, a.leaf)
  /\ RecomputeRoot(LeafHash(a.body), a.index, a.size, a.path) = a.root
  /\ SignedCheckpoint(a.checkpoint, a.root, a.size)
  /\ a.logID = LogKey
  /\ SignedEntryTimestamp(a)

\* EntrySigner: only a P-256 key whose signature is over the logged value.
EntrySigner(body) ==
  IF body.keyType = "P-256" /\ body.signs = body.value THEN body.signer ELSE None

(***************************************************************************)
(* What an anchor can be put together from                                 *)
(***************************************************************************)
Bodies == {e.body : e \in Range(Submissions)} \cup ForeignBodies
Leaves == {b.value : b \in Bodies}

\* Genuine paths, cut short, and with a sibling more.
Paths ==
  LET root == Tree
      genuine == {AuditPath(root, at[1], at[2]) : at \in
                    {p \in (0 .. Len(log) - 1) \X (1 .. Len(log)) : p[1] < p[2]}}
      shorter == {Front(p) : p \in {p \in genuine : p # <<>>}}
      longer  == {Append(p, RootOf(root, n)) : p \in genuine, n \in 1 .. Len(log)}
  IN genuine \cup shorter \cup longer

\* The log's own checkpoints, alone or beside another key's signature; the
\* same note under another signature with our hint; a note of another root.
Checkpoints ==
  LET root == Tree
      own(n) == Note(n, RootOf(root, n))
      ours(note) == Line(LogKey, LogKey, note)
      theirs(note) == Line(OtherKey, OtherKey, note)
      posing(note) == Line(LogKey, OtherKey, note)
  IN UNION {{Checkpoint(own(n), <<ours(own(n))>>),
             Checkpoint(own(n), <<theirs(own(n)), ours(own(n))>>),
             Checkpoint(own(n), <<posing(own(n)), ours(own(n))>>),
             Checkpoint(own(n), <<theirs(own(n))>>),
             Checkpoint(Note(n, LeafHash(log[1].body)), <<ours(own(n))>>)} : n \in 1 .. Len(log)}

Roots == {RootOf(Tree, n) : n \in 1 .. Len(log)} \cup {LeafHash(b) : b \in Bodies}
Timestamps == {Timestamp(i) : i \in DOMAIN log} \cup {None, Sign(OtherKey, None)}
Times == {e.time : e \in Range(Submissions)}
Numbers == {Numbered(i) : i \in 1 .. Len(Submissions)} \cup {None}

(***************************************************************************)
(* Steps                                                                   *)
(***************************************************************************)
Init == log = <<>> /\ accepted = None

\* The log takes the next submission; what it held stays where it was.
Grow ==
  /\ Len(log) < Len(Submissions)
  /\ log' = Append(log, Submissions[Len(log) + 1])
  /\ UNCHANGED accepted

\* One anchor is verified.  Its parts are enumerated innermost last, so
\* that a part which cannot verify is not combined further.
Accept ==
  /\ accepted = None
  /\ \E c \in Checkpoints, root \in Roots, size \in 0 .. Len(log) + 1 :
       /\ SignedCheckpoint(c, root, size)
       /\ \E body \in Bodies, index \in -1 .. Len(log), path \in Paths :
            /\ RecomputeRoot(LeafHash(body), index, size, path) = root
            /\ \E leaf \in Leaves, logID \in {LogKey, OtherKey}, stamp \in Timestamps,
                  time \in Times, number \in Numbers :
                 LET a == [leaf |-> leaf, body |-> body, index |-> index, size |-> size,
                           root |-> root, path |-> path, checkpoint |-> c, logID |-> logID,
                           number |-> number, time |-> time, timestamp |-> stamp]
                 IN VerifyAnchor(a) /\ accepted' = a
  /\ UNCHANGED log

Next == Grow \/ Accept

Spec == Init /\ [][Next]_vars

(***************************************************************************)
(* Properties                                                              *)
(***************************************************************************)
\* What the rest of the verifier sees of the log: each number's entry.
View == [n \in {Numbered(i) : i \in DOMAIN log} |->
           LET e == log[n - FirstNumber + 1]
           IN [leaf |-> e.body.value, signer |-> EntrySigner(e.body), time |-> e.time]]

Public == INSTANCE PublicLog WITH
  PinnedKeys <- {}, NotBefore <- <<>>, NotAfter <- <<>>

\* rekorverify: an anchor that verifies names an entry the log holds, at the
\* number and the time the log recorded, as AnchoredRecord assumes of it,
\* also when its parts come from different entries and moments.
AcceptedIsLogged ==
  accepted # None =>
    Public!Logged([leaf |-> accepted.leaf, signer |-> EntrySigner(accepted.body),
                   time |-> accepted.time, number |-> accepted.number], View)

\* The inclusion proof fixes the entry's place in the tree: the log holds
\* this body at this index of the tree of this size, and still does later.
AcceptedIsAtItsIndex ==
  accepted # None =>
    /\ accepted.size <= Len(log) /\ accepted.index < accepted.size
    /\ log[accepted.index + 1].body = accepted.body

\* Whatever the log's size and the entry's place, right borders included,
\* the proof the log gives for a Verdifax entry verifies.
GenuineAnchorVerifies ==
  LET root == Tree
  IN \A i \in DOMAIN log, n \in DOMAIN log :
       (i <= n /\ log[i].body.kind = "hashedrekord" /\ log[i].body.algorithm = "sha256") =>
         VerifyAnchor([leaf |-> log[i].body.value, body |-> log[i].body, index |-> i - 1,
                       size |-> n, root |-> RootOf(root, n), path |-> AuditPath(root, i - 1, n),
                       checkpoint |-> Checkpoint(Note(n, RootOf(root, n)),
                                                 <<Line(LogKey, LogKey, Note(n, RootOf(root, n)))>>),
                       logID |-> LogKey, number |-> Numbered(i), time |-> log[i].time,
                       timestamp |-> Timestamp(i)])
=============================================================================
