------------------------- MODULE LogInclusion_proofs -------------------------
(***************************************************************************)
(* What the rest of the project assumes of an anchor that verifies, for    *)
(* every log and every anchor put together from its parts: the entry is on *)
(* the log, at its number and its time.  That rests on the signed entry    *)
(* timestamp alone.  The checkpoint gives a tree of the log and an index   *)
(* in it; what stands there is computed along the tree by recursion and    *)
(* stays with the runs.                                                    *)
(***************************************************************************)
EXTENDS LogInclusion, TLAPS

\* The log is the first submissions, in their order.
LogIsPrefix ==
  /\ \E S : log \in Seq(S)
  /\ Len(log) <= Len(Submissions)
  /\ \A i \in DOMAIN log : log[i] = Submissions[i]

\* The entry an anchor's signed timestamp is of.
StampOf(a, i, l) ==
  /\ a.body = l[i].body /\ a.time = l[i].time /\ a.number = Numbered(i)
  /\ a.leaf = a.body.value

AcceptedIsStamped == accepted # None => \E i \in DOMAIN log : StampOf(accepted, i, log)

\* An anchor that verifies carries the timestamp of an entry of the log.
LEMMA VerifiedIsStamped ==
  ASSUME NEW a, VerifyAnchor(a), a.timestamp \in Timestamps
  PROVE  \E i \in DOMAIN log : StampOf(a, i, log)
<1>. DEFINE entry == [body |-> a.body, time |-> a.time, logID |-> LogKey, number |-> a.number]
<1>1. a.timestamp # None /\ a.timestamp = Sign(LogKey, entry)
  BY DEF VerifyAnchor, SignedEntryTimestamp, Verifies
<1>2. a.timestamp # Sign(OtherKey, None)
  BY <1>1, KeyAssumption DEF Sign
<1>3. PICK i \in DOMAIN log : a.timestamp = Timestamp(i)
  BY <1>1, <1>2 DEF Timestamps
<1>4. entry = [body |-> log[i].body, time |-> log[i].time, logID |-> LogKey,
               number |-> Numbered(i)]
  BY <1>1, <1>3 DEF Sign, Timestamp
<1>5. a.body = log[i].body /\ a.time = log[i].time /\ a.number = Numbered(i)
  BY <1>4
<1>6. a.leaf = a.body.value
  BY DEF VerifyAnchor, EntryBodyNamesLeaf
<1>. QED
  BY <1>5, <1>6 DEF StampOf

LEMMA GrowStep ==
  ASSUME LogIsPrefix, Grow
  PROVE  LogIsPrefix' /\ DOMAIN log \subseteq DOMAIN log' /\ \A i \in DOMAIN log : log'[i] = log[i]
<1>. DEFINE e == Submissions[Len(log) + 1]
<1>1. log' = Append(log, e) /\ Len(log) < Len(Submissions)
  BY DEF Grow
<1>2. PICK S : log \in Seq(S)
  BY DEF LogIsPrefix
<1>. HIDE DEF e
<1>3. log \in Seq(S \cup {e})
  BY <1>2
<1>4. /\ log' \in Seq(S \cup {e}) /\ Len(log) \in Nat /\ Len(log') = Len(log) + 1
      /\ DOMAIN log = 1 .. Len(log) /\ DOMAIN log' = 1 .. Len(log) + 1
      /\ log'[Len(log) + 1] = e /\ \A i \in DOMAIN log : log'[i] = log[i]
  BY <1>1, <1>3
<1>5. \A i \in DOMAIN log' : log'[i] = Submissions[i]
  BY <1>4 DEF LogIsPrefix, e
<1>6. Len(log') <= Len(Submissions)
  BY <1>1, <1>4, SubmissionsAssumption
<1>. QED
  BY <1>4, <1>5, <1>6 DEF LogIsPrefix

\* entry.go, the log's place of an entry: the log only grows, and an
\* accepted anchor's entry stays where its timestamp put it.
THEOREM AcceptedStaysStamped == Spec => [](LogIsPrefix /\ AcceptedIsStamped)
<1>1. Init => LogIsPrefix /\ AcceptedIsStamped
  <2>1. <<>> \in Seq({}) /\ DOMAIN <<>> = {} /\ Len(<<>>) = 0
    OBVIOUS
  <2>2. Len(Submissions) \in Nat
    BY SubmissionsAssumption
  <2>. QED
    BY <2>1, <2>2 DEF Init, LogIsPrefix, AcceptedIsStamped
<1>2. LogIsPrefix /\ AcceptedIsStamped /\ [Next]_vars => (LogIsPrefix /\ AcceptedIsStamped)'
  <2>. SUFFICES ASSUME LogIsPrefix, AcceptedIsStamped, [Next]_vars
                PROVE  (LogIsPrefix /\ AcceptedIsStamped)'
    OBVIOUS
  <2>1. CASE Grow
    <3>1. accepted' = accepted
      BY <2>1 DEF Grow
    <3>. QED
      BY <2>1, <3>1, GrowStep DEF AcceptedIsStamped, StampOf
  <2>2. CASE Accept
    <3>1. log' = log
      BY <2>2 DEF Accept
    <3>2. \E a : VerifyAnchor(a) /\ accepted' = a /\ a.timestamp \in Timestamps
      BY <2>2 DEF Accept
    <3>3. VerifyAnchor(accepted') /\ accepted'.timestamp \in Timestamps
      BY <3>2
    <3>. QED
      BY <3>1, <3>3, VerifiedIsStamped DEF LogIsPrefix, AcceptedIsStamped
  <2>3. CASE UNCHANGED vars
    BY <2>3 DEF vars, LogIsPrefix, AcceptedIsStamped
  <2>. QED
    BY <2>1, <2>2, <2>3 DEF Next
<1>. QED
  BY <1>1, <1>2, PTL DEF Spec

\* rekorverify: an anchor that verifies names an entry the log holds, at the
\* number and the time the log recorded, also when its parts come from
\* different entries and moments.
THEOREM AcceptedOnLog == Spec => []AcceptedIsLogged
<1>1. LogIsPrefix /\ AcceptedIsStamped => AcceptedIsLogged
  <2>. SUFFICES ASSUME LogIsPrefix, AcceptedIsStamped, accepted # None
                PROVE  Public!Logged([leaf |-> accepted.leaf, signer |-> EntrySigner(accepted.body),
                                      time |-> accepted.time, number |-> accepted.number], View)
    BY DEF AcceptedIsLogged
  <2>1. PICK i \in DOMAIN log : StampOf(accepted, i, log)
    BY DEF AcceptedIsStamped
  <2>2. i \in Nat
    BY DEF LogIsPrefix
  <2>. DEFINE n == Numbered(i)
              seen(e) == [leaf |-> e.body.value, signer |-> EntrySigner(e.body), time |-> e.time]
  <2>3. n - FirstNumber + 1 = i
    BY <2>2, NumberAssumption DEF Numbered
  <2>4. n \in DOMAIN View /\ View[n] = seen(log[n - FirstNumber + 1])
    BY DEF View
  <2>5. View[n] = seen(log[i])
    BY <2>3, <2>4
  <2>6. accepted.number = n /\ accepted.leaf = log[i].body.value
        /\ accepted.body = log[i].body /\ accepted.time = log[i].time
    BY <2>1 DEF StampOf
  <2>. QED
    BY <2>4, <2>5, <2>6 DEF Public!Logged
<1>. QED
  BY <1>1, AcceptedStaysStamped, PTL
(***************************************************************************)
(* The tree an accepted anchor is of                                       *)
(***************************************************************************)
\* A checkpoint that is taken for the log's states a size the log had and
\* the root of that many entries.
LEMMA CheckpointIsOfLog ==
  ASSUME NEW c \in Checkpoints, NEW root, NEW size, SignedCheckpoint(c, root, size)
  PROVE  size \in 1 .. Len(log) /\ root = RootOf(Tree, size)
<1>. DEFINE tree == Tree
            own(n) == Note(n, RootOf(tree, n))
            ours(note) == Line(LogKey, LogKey, note)
            theirs(note) == Line(OtherKey, OtherKey, note)
            posing(note) == Line(LogKey, OtherKey, note)
<1>1. PICK n \in 1 .. Len(log) :
        \/ c = Checkpoint(own(n), <<ours(own(n))>>)
        \/ c = Checkpoint(own(n), <<theirs(own(n)), ours(own(n))>>)
        \/ c = Checkpoint(own(n), <<posing(own(n)), ours(own(n))>>)
        \/ c = Checkpoint(own(n), <<theirs(own(n))>>)
        \/ c = Checkpoint(Note(n, LeafHash(log[1].body)), <<ours(own(n))>>)
  BY DEF Checkpoints
<1>. HIDE DEF tree
<1>2. c.note.size = size /\ c.note.root = root
  BY DEF SignedCheckpoint, CheckpointCommits
<1>3. PICK i \in DOMAIN c.lines : c.lines[i].signature = Sign(LogKey, c.note)
  BY DEF SignedCheckpoint, Verifies
<1>4. \A j \in DOMAIN c.lines : c.lines[j].signature.over = own(n)
  BY <1>1 DEF Checkpoint, Line, Sign
<1>5. c.note = own(n)
  BY <1>3, <1>4 DEF Sign
<1>6. size = n /\ root = RootOf(tree, n)
  BY <1>2, <1>5 DEF Note
<1>. QED
  BY <1>6 DEF tree

\* The anchor's index is one of a tree whose size the log has had.
InATree ==
  accepted # None => accepted.size \in 1 .. Len(log) /\ accepted.index \in 0 .. accepted.size - 1

LEMMA AcceptedIsOfLog ==
  ASSUME Accept
  PROVE  /\ accepted'.size \in 1 .. Len(log) /\ accepted'.index \in 0 .. accepted'.size - 1
         /\ accepted'.root = RootOf(Tree, accepted'.size)
<1>1. PICK a : VerifyAnchor(a) /\ accepted' = a /\ a.checkpoint \in Checkpoints
  BY DEF Accept
<1>2. /\ SignedCheckpoint(a.checkpoint, a.root, a.size)
      /\ a.index \in 0 .. a.size - 1
  BY <1>1 DEF VerifyAnchor, ValidInput
<1>. QED
  BY <1>1, <1>2, CheckpointIsOfLog

\* verifySignedCheckpoint: whatever checkpoint an anchor is given with, its
\* size is one the log has had, its index lies in that tree, and when it is
\* accepted its root is that tree's root.
THEOREM AcceptedInSignedTree ==
  Spec => []InATree /\ [][Accept => accepted'.root = RootOf(Tree, accepted'.size)]_vars
<1>1. Init => InATree
  BY DEF Init, InATree
<1>2. LogIsPrefix /\ InATree /\ [Next]_vars => InATree'
  <2>. SUFFICES ASSUME LogIsPrefix, InATree, [Next]_vars
                PROVE  InATree'
    OBVIOUS
  <2>1. CASE Grow
    <3>1. accepted' = accepted /\ Len(log) \in Nat /\ Len(log') = Len(log) + 1
      BY <2>1 DEF Grow, LogIsPrefix
    <3>. QED
      BY <3>1 DEF InATree
  <2>2. CASE Accept
    BY <2>2, AcceptedIsOfLog DEF Accept, InATree
  <2>3. CASE UNCHANGED vars
    BY <2>3 DEF vars, InATree
  <2>. QED
    BY <2>1, <2>2, <2>3 DEF Next
<1>3. [Next]_vars => [Accept => accepted'.root = RootOf(Tree, accepted'.size)]_vars
  BY AcceptedIsOfLog
<1>. QED
  BY <1>1, <1>2, <1>3, AcceptedStaysStamped, PTL DEF Spec
=============================================================================
