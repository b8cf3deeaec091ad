------------------------- MODULE PolicyChain_proofs -------------------------
(***************************************************************************)
(* Theorems about PolicyChain, for every set of accounts, policies, keys   *)
(* and bounds.  The inductive invariant says what the server's chains have *)
(* in common: each numbers its changes without gap or repeat, and each     *)
(* change links to the one before by its hash.  What a file of changes may *)
(* show follows from it, link by link, by taking the first or the last     *)
(* place at which the file and the chain part.                             *)
(***************************************************************************)
EXTENDS PolicyChain, FiniteSetTheorems, TLAPS

(***************************************************************************)
(* Growing sequences, and places in them.  A proof along a chain, which    *)
(* would be an induction, takes the first or the last place where its      *)
(* claim fails.                                                            *)
(***************************************************************************)
\* An appended element takes the next place and moves no other.
LEMMA AppendKeeps ==
  ASSUME NEW s, NEW e, \E S : s \in Seq(S)
  PROVE  /\ \E S : Append(s, e) \in Seq(S)
         /\ Len(s) \in Nat
         /\ DOMAIN s = 1 .. Len(s)
         /\ DOMAIN Append(s, e) = 1 .. Len(s) + 1
         /\ Append(s, e)[Len(s) + 1] = e
         /\ \A n \in 1 .. Len(s) : Append(s, e)[n] = s[n]
<1>1. PICK S : s \in Seq(S)
  OBVIOUS
<1>2. s \in Seq(S \cup {e})
  BY <1>1
<1>3. Append(s, e) \in Seq(S \cup {e})
  BY <1>2
<1>. QED
  BY <1>2, <1>3

\* The elements of a grown sequence are the earlier ones and the new one.
LEMMA EntryOldOrNew ==
  ASSUME NEW s, NEW e, \E S : s \in Seq(S), NEW n \in DOMAIN Append(s, e)
  PROVE  \/ n \in DOMAIN s /\ Append(s, e)[n] = s[n]
         \/ n = Len(s) + 1 /\ Append(s, e)[n] = e
<1>1. /\ Len(s) \in Nat /\ DOMAIN s = 1 .. Len(s) /\ DOMAIN Append(s, e) = 1 .. Len(s) + 1
      /\ Append(s, e)[Len(s) + 1] = e /\ \A m \in 1 .. Len(s) : Append(s, e)[m] = s[m]
  BY AppendKeeps
<1>2. n \in 1 .. Len(s) \/ n = Len(s) + 1
  BY <1>1
<1>. QED
  BY <1>1, <1>2

\* The first place of a set of places, there being one.
LEMMA FirstPlace ==
  ASSUME NEW T \in SUBSET Nat, T # {}
  PROVE  \E x \in T : \A y \in T : x <= y
<1>1. PICK x \in T : \A y \in T : <<y, x>> \notin OpToRel(<, Nat)
  BY WFMin, NatLessThanWellFounded
<1>2. \A y \in T : ~(y < x)
  BY <1>1 DEF OpToRel
<1>. QED
  BY <1>2

\* The last place of a set of places up to n.
LEMMA LastPlace ==
  ASSUME NEW n \in Nat, NEW T \in SUBSET (1 .. n), T # {}
  PROVE  \E x \in T : \A y \in T : y <= x
<1>. DEFINE U == {k \in Nat : n - k \in T}
<1>1. U # {}
  <2>1. PICK x \in T : TRUE
    OBVIOUS
  <2>2. n - x \in Nat /\ n - (n - x) = x
    OBVIOUS
  <2>. QED
    BY <2>1, <2>2
<1>2. PICK u \in U : \A v \in U : u <= v
  BY <1>1, FirstPlace
<1>3. \A y \in T : n - y \in U
  <2>1. \A y \in T : n - y \in Nat /\ n - (n - y) = y
    OBVIOUS
  <2>. QED
    BY <2>1
<1>4. n - u \in T /\ u \in Nat /\ \A y \in T : y \in Nat /\ u <= n - y
  BY <1>2, <1>3
<1>. QED
  BY <1>4

(***************************************************************************)
(* What holds of the server's chains and of the log.                       *)
(***************************************************************************)
Fields == {"chain", "seq", "previous", "policy", "doc", "at", "sig", "hash", "anchor"}

LogIsSequence == \E S : log \in Seq(S)

\* What holds of a change the server logged, on any log that has its entry.
EntryStands(a, l) == a.anchor # None =>
  /\ a.anchor.onLog = TRUE /\ a.anchor.kind = "policy_activation"
  /\ a.anchor.hash = a.hash /\ a.anchor.leaf = ActivationLeaf(a)
  /\ Logged(a.anchor, l)
  /\ a.anchor.signer = ServerKey
  /\ a.anchor.time \in Nat /\ a.at < a.anchor.time * Second + Second

\* Where a change is in its chain.
Follows(b, a) == b.chain = a.chain /\ b.seq = a.seq - 1 /\ b.hash = a.previous /\ b.at <= a.at

LinkStands(a, all) ==
  /\ a.seq = 1 => a.previous = NoPrevious
  /\ a.seq # 1 => \E b \in all : Follows(b, a)

ChangeStands(a) ==
  /\ DOMAIN a = Fields
  /\ a.chain \in ChainIDs
  /\ a.seq \in 1 .. Cardinality(ChangesOf(a.chain))
  /\ a.at \in Nat /\ a.at <= now
  /\ a.hash = ActivationHash(a)
  /\ SignatureHolds(a)

\* A chain has one change in each place, up to its length.
ChainsNumbered ==
  /\ \A a, b \in changes : a.chain = b.chain /\ a.seq = b.seq => a = b
  /\ \A c \in ChainIDs : \A k \in 1 .. Cardinality(ChangesOf(c)) :
       \E a \in ChangesOf(c) : a.seq = k

ServerEntry(e, all) ==
  e.signer \in PinnedKeys => \E a \in all : e.leaf = ActivationLeaf(a)

ChainsStand ==
  /\ now \in Nat
  /\ LogIsSequence
  /\ IsFiniteSet(changes)
  /\ \A a \in changes : ChangeStands(a) /\ LinkStands(a, changes) /\ EntryStands(a, log)
  /\ ChainsNumbered
  /\ ~scope.relogs => \A n \in DOMAIN log : ServerEntry(log[n], changes)

\* What a file shows is a change by its form, and its signatures were given.
FileStands ==
  /\ \E S : file \in Seq(S)
  /\ \A s \in approved : s = [chain |-> s.chain, doc |-> s.doc, previous |-> s.previous]
  /\ \A a \in changes : DOMAIN a = Fields /\ a.sig \in approved \cup {None}
  /\ \A i \in DOMAIN file : DOMAIN file[i] = Fields /\ file[i].sig \in approved \cup {None}

----------------------------------------------------------------------------
(* One change. *)

\* Naming its entry does not change what a change says.
LEMMA AnchorKeepsChange ==
  ASSUME NEW a, NEW e, DOMAIN a = Fields
  PROVE  LET b == [a EXCEPT !.anchor = e]
         IN /\ DOMAIN b = Fields /\ b.anchor = e /\ b.chain = a.chain /\ b.seq = a.seq
            /\ b.previous = a.previous /\ b.policy = a.policy /\ b.doc = a.doc /\ b.at = a.at
            /\ b.sig = a.sig /\ b.hash = a.hash
            /\ ActivationHash(b) = ActivationHash(a) /\ ActivationLeaf(b) = ActivationLeaf(a)
            /\ SignatureHolds(b) <=> SignatureHolds(a)
<1>. DEFINE b == [a EXCEPT !.anchor = e]
<1>1. /\ DOMAIN b = Fields /\ b.anchor = e /\ b.chain = a.chain /\ b.seq = a.seq
      /\ b.previous = a.previous /\ b.policy = a.policy /\ b.doc = a.doc /\ b.at = a.at
      /\ b.sig = a.sig /\ b.hash = a.hash
  BY DEF Fields
<1>. HIDE DEF b
<1>2. /\ ActivationHash(b) = ActivationHash(a) /\ ActivationLeaf(b) = ActivationLeaf(a)
      /\ SignatureHolds(b) <=> SignatureHolds(a)
  BY <1>1 DEF ActivationHash, ActivationLeaf, SignatureHolds
<1>. QED
  BY <1>1, <1>2 DEF b

\* The hash fixes everything a change says.
LEMMA SameHashSameChange ==
  ASSUME NEW a, NEW b, DOMAIN a = Fields, DOMAIN b = Fields,
         a.hash = ActivationHash(a), b.hash = ActivationHash(b), a.hash = b.hash
  PROVE  /\ a.chain = b.chain /\ a.seq = b.seq /\ a.previous = b.previous /\ a.policy = b.policy
         /\ a.doc = b.doc /\ a.at = b.at /\ a.sig = b.sig
         /\ [a EXCEPT !.anchor = None] = [b EXCEPT !.anchor = None]
<1>1. /\ a.chain = b.chain /\ a.seq = b.seq /\ a.previous = b.previous /\ a.policy = b.policy
      /\ a.doc = b.doc /\ a.at = b.at /\ a.sig = b.sig
  BY DEF ActivationHash
<1>. DEFINE x == [a EXCEPT !.anchor = None]
            y == [b EXCEPT !.anchor = None]
<1>2. /\ x = [f \in Fields |-> IF f = "anchor" THEN None ELSE a[f]]
      /\ y = [f \in Fields |-> IF f = "anchor" THEN None ELSE b[f]]
  BY DEF Fields
<1>3. \A f \in Fields : f # "anchor" => a[f] = b[f]
  BY <1>1 DEF Fields
<1>4. x = y
  BY <1>2, <1>3
<1>. QED
  BY <1>1, <1>4

----------------------------------------------------------------------------
(* The server's steps. *)

LEMMA ChainLength ==
  ASSUME IsFiniteSet(changes), NEW c
  PROVE  IsFiniteSet(ChangesOf(c)) /\ Cardinality(ChangesOf(c)) \in Nat
<1>1. ChangesOf(c) \in SUBSET changes
  BY DEF ChangesOf
<1>. QED
  BY <1>1, FS_Subset, FS_CardinalityType

\* The next change links to the last one of its chain.
LEMMA TipIsLast ==
  ASSUME ChainsStand, NEW c \in ChainIDs
  PROVE  LET n == Cardinality(ChangesOf(c))
         IN /\ n \in Nat
            /\ n = 0 => Tip(c) = NoPrevious
            /\ n # 0 => \E b \in changes : b.chain = c /\ b.seq = n /\ b.hash = Tip(c)
<1>. DEFINE n == Cardinality(ChangesOf(c))
<1>1. IsFiniteSet(ChangesOf(c)) /\ n \in Nat
  BY ChainLength DEF ChainsStand
<1>2. n = 0 <=> ChangesOf(c) = {}
  BY <1>1, FS_EmptySet
<1>3. n = 0 => Tip(c) = NoPrevious
  BY <1>2 DEF Tip
<1>4. ASSUME n # 0
      PROVE  \E b \in changes : b.chain = c /\ b.seq = n /\ b.hash = Tip(c)
  <2>1. n \in 1 .. n
    BY <1>1, <1>4
  <2>2. \E b \in ChangesOf(c) : b.seq = n
    BY <2>1 DEF ChainsStand, ChainsNumbered
  <2>. DEFINE b == CHOOSE a \in ChangesOf(c) : a.seq = n
  <2>3. b \in ChangesOf(c) /\ b.seq = n
    BY <2>2
  <2>4. Tip(c) = b.hash
    BY <1>2, <1>4 DEF Tip
  <2>5. b \in changes /\ b.chain = c
    BY <2>3 DEF ChangesOf
  <2>. QED
    BY <2>3, <2>4, <2>5
<1>. QED
  BY <1>1, <1>3, <1>4

LEMMA InitStands == Init => ChainsStand /\ FileStands
<1>. SUFFICES ASSUME Init PROVE ChainsStand /\ FileStands
  OBVIOUS
<1>1. now \in Nat /\ LogIsSequence /\ changes = {} /\ approved = {} /\ file = <<>> /\ log = <<>>
  <2>1. <<>> \in Seq({})
    OBVIOUS
  <2>. QED
    BY <2>1, ClockAssumption DEF Init, LogIsSequence
<1>2. \A c : ChangesOf(c) = {}
  BY <1>1 DEF ChangesOf
<1>3. IsFiniteSet({}) /\ Cardinality({}) = 0
  BY FS_EmptySet
<1>4. ChainsNumbered
  <2>1. \A c : 1 .. Cardinality(ChangesOf(c)) = {}
    BY <1>2, <1>3
  <2>. QED
    BY <1>1, <2>1 DEF ChainsNumbered
<1>5. DOMAIN log = {} /\ DOMAIN file = {}
  BY <1>1
<1>6. ChainsStand
  BY <1>1, <1>3, <1>4, <1>5 DEF ChainsStand
<1>7. <<>> \in Seq({})
  OBVIOUS
<1>. QED
  BY <1>1, <1>5, <1>6, <1>7 DEF FileStands

\* A new change takes the next place and links to the last.
LEMMA ActivateStep ==
  ASSUME ChainsStand, NEW c \in ChainIDs, NEW doc \in Policies, NEW sig \in Signatures,
         Activate(c, doc, sig)
  PROVE  ChainsStand'
<1>. DEFINE n == Cardinality(ChangesOf(c))
            d == [chain |-> c, seq |-> n + 1, previous |-> Tip(c), policy |-> doc, doc |-> doc,
                  at |-> now, sig |-> sig, hash |-> None, anchor |-> None]
            new == Hashed(d)
<1>1. /\ changes' = changes \cup {new}
      /\ scope' = scope /\ now' = now /\ log' = log
      /\ sig # None => sig = [chain |-> c, doc |-> doc, previous |-> Tip(c)]
  BY DEF Activate
<1>2. n \in Nat /\ IsFiniteSet(ChangesOf(c))
  BY ChainLength DEF ChainsStand
<1>3. /\ DOMAIN new = Fields /\ new.chain = c /\ new.seq = n + 1 /\ new.previous = Tip(c)
      /\ new.doc = doc /\ new.at = now /\ new.sig = sig /\ new.anchor = None
      /\ new.hash = ActivationHash(new)
  <2>1. /\ DOMAIN d = Fields /\ d.chain = c /\ d.seq = n + 1 /\ d.previous = Tip(c)
        /\ d.policy = doc /\ d.doc = doc /\ d.at = now /\ d.sig = sig /\ d.anchor = None
    BY DEF Fields
  <2>. HIDE DEF d
  <2>2. /\ DOMAIN new = Fields /\ new.hash = ActivationHash(d)
        /\ \A f \in Fields \ {"hash"} : new[f] = d[f]
    BY <2>1 DEF Hashed, Fields
  <2>. HIDE DEF new
  <2>3. /\ new.chain = c /\ new.seq = n + 1 /\ new.previous = Tip(c) /\ new.policy = d.policy
        /\ new.doc = doc /\ new.at = now /\ new.sig = sig /\ new.anchor = None
    BY <2>1, <2>2 DEF Fields
  <2>4. ActivationHash(new) = ActivationHash(d)
    BY <2>1, <2>3 DEF ActivationHash
  <2>. QED
    BY <2>2, <2>3, <2>4
<1>. HIDE DEF new
<1>4. /\ \A a \in changes : a.chain = c => a.seq <= n /\ a.seq \in Nat
      /\ new \notin changes
  <2>1. \A a \in changes : a.chain = c => a.seq \in 1 .. n
    BY DEF ChainsStand, ChangeStands
  <2>. QED
    BY <1>2, <1>3, <2>1
<1>5. /\ ChangesOf(c)' = ChangesOf(c) \cup {new}
      /\ \A k : k # c => ChangesOf(k)' = ChangesOf(k)
  BY <1>1, <1>3 DEF ChangesOf
<1>6. /\ IsFiniteSet(changes')
      /\ Cardinality(ChangesOf(c)') = n + 1
  <2>1. new \notin ChangesOf(c)
    BY <1>4 DEF ChangesOf
  <2>. QED
    BY <1>1, <1>2, <1>5, <2>1, FS_AddElement DEF ChainsStand
<1>. DEFINE Length(k) == Cardinality(ChangesOf(k))
<1>7. \A k \in ChainIDs : Length(k) \in Nat /\ Length(k)' \in Nat /\ Length(k) <= Length(k)'
  <2>. SUFFICES ASSUME NEW k \in ChainIDs
                PROVE  Length(k) \in Nat /\ Length(k)' \in Nat /\ Length(k) <= Length(k)'
    OBVIOUS
  <2>1. Length(k) \in Nat
    BY ChainLength DEF ChainsStand
  <2>2. k = c => Length(k)' = n + 1 /\ Length(k) = n
    BY <1>6
  <2>3. k # c => Length(k)' = Length(k)
    BY <1>5
  <2>. QED
    BY <1>2, <2>1, <2>2, <2>3
<1>8. ASSUME NEW a, a = new PROVE ChangeStands(a)'
  <2>1. SignatureHolds(new)
    BY <1>1, <1>3 DEF SignatureHolds
  <2>2. new.seq \in 1 .. n + 1
    BY <1>2, <1>3
  <2>3. new.chain \in ChainIDs /\ new.at \in Nat /\ new.at <= now
    BY <1>3 DEF ChainsStand
  <2>. QED
    BY <1>1, <1>3, <1>6, <1>8, <2>1, <2>2, <2>3 DEF ChangeStands
<1>9. LinkStands(new, changes')
  <2>1. /\ n = 0 => Tip(c) = NoPrevious
        /\ n # 0 => \E b \in changes : b.chain = c /\ b.seq = n /\ b.hash = Tip(c)
    BY TipIsLast
  <2>2. new.seq = 1 => new.previous = NoPrevious
    BY <1>2, <1>3, <2>1
  <2>3. ASSUME new.seq # 1 PROVE \E b \in changes : Follows(b, new)
    <3>1. PICK b \in changes : b.chain = c /\ b.seq = n /\ b.hash = Tip(c)
      BY <1>2, <1>3, <2>1, <2>3
    <3>2. b.at <= now
      BY DEF ChainsStand, ChangeStands
    <3>3. b.seq = new.seq - 1
      BY <1>2, <1>3, <3>1
    <3>. QED
      BY <1>3, <3>1, <3>2, <3>3 DEF Follows
  <2>. QED
    BY <1>1, <2>2, <2>3 DEF LinkStands
<1>10. \A a \in changes : ChangeStands(a)' /\ LinkStands(a, changes')
  <2>. SUFFICES ASSUME NEW a \in changes PROVE ChangeStands(a)' /\ LinkStands(a, changes')
    OBVIOUS
  <2>1. ChangeStands(a) /\ LinkStands(a, changes)
    BY DEF ChainsStand
  <2>2. a.seq \in 1 .. Length(a.chain)'
    BY <1>7, <2>1 DEF ChangeStands
  <2>. QED
    BY <1>1, <2>1, <2>2 DEF ChangeStands, LinkStands
<1>11. ChainsNumbered'
  <2>1. ASSUME NEW a \in changes', NEW b \in changes', a.chain = b.chain, a.seq = b.seq
        PROVE  a = b
    <3>1. a \in changes /\ b \in changes => a = b
      BY <2>1 DEF ChainsStand, ChainsNumbered
    <3>2. a \in changes /\ b = new => FALSE
      BY <1>2, <1>3, <1>4, <2>1
    <3>3. b \in changes /\ a = new => FALSE
      BY <1>2, <1>3, <1>4, <2>1
    <3>. QED
      BY <1>1, <3>1, <3>2, <3>3
  <2>2. ASSUME NEW k \in ChainIDs, NEW p \in 1 .. Cardinality(ChangesOf(k)')
        PROVE  \E a \in ChangesOf(k)' : a.seq = p
    <3>1. CASE k = c /\ p = n + 1
      BY <1>3, <1>5, <3>1
    <3>2. CASE ~(k = c /\ p = n + 1)
      <4>1. p \in 1 .. Cardinality(ChangesOf(k))
        BY <1>2, <1>5, <1>6, <3>2
      <4>2. \E a \in ChangesOf(k) : a.seq = p
        BY <4>1 DEF ChainsStand, ChainsNumbered
      <4>3. ChangesOf(k) \subseteq ChangesOf(k)'
        BY <1>5
      <4>. QED
        BY <4>2, <4>3
    <3>. QED
      BY <3>1, <3>2
  <2>. QED
    BY <2>1, <2>2 DEF ChainsNumbered
<1>12. EntryStands(new, log')
  BY <1>3 DEF EntryStands
<1>13. \A a \in changes' : ChangeStands(a)' /\ LinkStands(a, changes') /\ EntryStands(a, log')
  <2>1. \A a \in changes : EntryStands(a, log')
    BY <1>1 DEF ChainsStand
  <2>. QED
    BY <1>1, <1>8, <1>9, <1>10, <1>12, <2>1
<1>14. ~scope.relogs' => \A m \in DOMAIN log' : ServerEntry(log'[m], changes')
  BY <1>1 DEF ChainsStand, ServerEntry
<1>. QED
  BY <1>1, <1>6, <1>11, <1>13, <1>14 DEF ChainsStand, LogIsSequence

\* What was on the log stays there.
LEMMA EntryStaysStanding ==
  ASSUME NEW a, NEW l, NEW e, \E S : l \in Seq(S), EntryStands(a, l)
  PROVE  EntryStands(a, Append(l, e))
BY AppendKeeps DEF EntryStands, Logged

\* A tick is less than a second.
LEMMA WithinSecond ==
  ASSUME NEW t \in Nat
  PROVE  t \div Second \in Nat /\ t < (t \div Second) * Second + Second
<1>1. \A s \in Nat \ {0} : t \div s \in Nat /\ t < (t \div s) * s + s
  OBVIOUS
<1>. QED
  BY <1>1, ClockAssumption

\* Logging a change gives it an entry and leaves its chain as it was.
LEMMA LogChangeStep ==
  ASSUME ChainsStand, NEW a \in changes, LogChange(a)
  PROVE  ChainsStand'
<1>. DEFINE t == now \div Second
            e == [leaf |-> ActivationLeaf(a), signer |-> ServerKey, time |-> t]
            link == AnchorTo(a, Len(log) + 1, log'[Len(log) + 1])
            b == [a EXCEPT !.anchor = link]
            rest == changes \ {a}
<1>1. /\ log' = Append(log, e) /\ changes' = rest \cup {b}
      /\ scope' = scope /\ now' = now
  BY DEF LogChange, LogEntry
<1>. HIDE DEF e, link
<1>2. ChangeStands(a) /\ LinkStands(a, changes)
  BY DEF ChainsStand
<1>3. DOMAIN a = Fields
  BY <1>2 DEF ChangeStands
<1>4. /\ DOMAIN b = Fields /\ b.anchor = link /\ b.chain = a.chain /\ b.seq = a.seq
      /\ b.previous = a.previous /\ b.at = a.at /\ b.sig = a.sig /\ b.hash = a.hash
      /\ ActivationHash(b) = ActivationHash(a) /\ ActivationLeaf(b) = ActivationLeaf(a)
      /\ SignatureHolds(b) <=> SignatureHolds(a)
  BY <1>3, AnchorKeepsChange
<1>5. \E S : log \in Seq(S)
  BY DEF ChainsStand, LogIsSequence
<1>6. /\ Len(log) \in Nat /\ DOMAIN log' = 1 .. Len(log) + 1 /\ log'[Len(log) + 1] = e
      /\ \E S : log' \in Seq(S)
  BY <1>1, <1>5, AppendKeeps
<1>7. EntryStands(b, log')
  <2>1. /\ link.onLog = TRUE /\ link.kind = "policy_activation" /\ link.hash = a.hash
        /\ link.leaf = ActivationLeaf(a) /\ link.number = Len(log) + 1
        /\ link.signer = ServerKey /\ link.time = t
    BY <1>6 DEF AnchorTo, link, e
  <2>2. Logged(link, log')
    <3>1. link.number \in DOMAIN log'
      BY <1>6, <2>1
    <3>. QED
      BY <1>6, <2>1, <3>1 DEF Logged, e
  <2>3. t \in Nat /\ now < t * Second + Second
    BY WithinSecond DEF ChainsStand
  <2>. HIDE DEF t, b
  <2>4. a.at < t * Second + Second
    <3>. DEFINE m == t * Second + Second
    <3>1. m \in Int
      BY <2>3, ClockAssumption
    <3>. HIDE DEF m
    <3>2. now < m /\ a.at <= now /\ a.at \in Nat /\ now \in Nat
      BY <1>2, <2>3 DEF m, ChangeStands, ChainsStand
    <3>3. a.at < m
      BY <3>1, <3>2
    <3>. QED
      BY <3>3 DEF m
  <2>. QED
    BY <1>4, <2>1, <2>2, <2>3, <2>4 DEF EntryStands
<1>. HIDE DEF b
<1>8. \A d \in rest : ~(d.chain = a.chain /\ d.seq = a.seq)
  BY DEF ChainsStand, ChainsNumbered
<1>9. b \notin rest
  BY <1>4, <1>8
<1>10. /\ ChangesOf(a.chain)' = (ChangesOf(a.chain) \ {a}) \cup {b}
       /\ \A c : c # a.chain => ChangesOf(c)' = ChangesOf(c)
  BY <1>1, <1>4 DEF ChangesOf
<1>11. IsFiniteSet(changes')
  BY <1>1, FS_AddElement, FS_RemoveElement DEF ChainsStand
<1>12. \A c : Cardinality(ChangesOf(c)') = Cardinality(ChangesOf(c))
  <2>. DEFINE own == ChangesOf(a.chain)
  <2>1. IsFiniteSet(own) /\ Cardinality(own) \in Nat
    BY ChainLength DEF ChainsStand
  <2>2. a \in own /\ b \notin own \ {a}
    BY <1>9 DEF ChangesOf
  <2>. HIDE DEF own
  <2>3. IsFiniteSet(own \ {a}) /\ Cardinality(own \ {a}) = Cardinality(own) - 1
    BY <2>1, <2>2, FS_RemoveElement
  <2>4. Cardinality((own \ {a}) \cup {b}) = Cardinality(own)
    <3>. DEFINE others == own \ {a}
    <3>. HIDE DEF others
    <3>1. Cardinality(others \cup {b}) = Cardinality(others) + 1
      BY <2>2, <2>3, FS_AddElement DEF others
    <3>. QED
      BY <2>1, <2>3, <3>1 DEF others
  <2>. QED
    BY <1>10, <2>4 DEF own
<1>13. \A d \in changes : ChangeStands(d)'
  BY <1>1, <1>12 DEF ChainsStand, ChangeStands
<1>14. ASSUME NEW d, d = b PROVE ChangeStands(d)'
  <2>1. ChangeStands(a)'
    BY <1>13
  <2>2. d.seq \in 1 .. Cardinality(ChangesOf(d.chain)')
    BY <1>4, <1>14, <2>1 DEF ChangeStands
  <2>3. /\ DOMAIN d = Fields /\ d.chain \in ChainIDs /\ d.at \in Nat /\ d.at <= now'
        /\ d.hash = ActivationHash(d) /\ SignatureHolds(d)
    BY <1>1, <1>2, <1>4, <1>14 DEF ChangeStands
  <2>. QED
    BY <2>2, <2>3 DEF ChangeStands
\* A change that followed the logged one still does.
<1>15. \A d \in changes : LinkStands(d, changes')
  <2>. SUFFICES ASSUME NEW d \in changes PROVE LinkStands(d, changes')
    OBVIOUS
  <2>1. LinkStands(d, changes)
    BY DEF ChainsStand
  <2>2. ASSUME d.seq # 1 PROVE \E f \in changes' : Follows(f, d)
    <3>1. PICK f \in changes : Follows(f, d)
      BY <2>1, <2>2 DEF LinkStands
    <3>2. CASE f = a
      BY <1>1, <1>4, <3>1, <3>2 DEF Follows
    <3>3. CASE f # a
      BY <1>1, <3>1, <3>3
    <3>. QED
      BY <3>2, <3>3
  <2>. QED
    BY <2>1, <2>2 DEF LinkStands
<1>16. LinkStands(b, changes')
  <2>1. LinkStands(a, changes')
    BY <1>15
  <2>2. \A f : Follows(f, a) => Follows(f, b)
    BY <1>4 DEF Follows
  <2>. QED
    BY <1>4, <2>1, <2>2 DEF LinkStands
<1>17. \A d \in changes : EntryStands(d, log')
  BY <1>1, <1>5, EntryStaysStanding DEF ChainsStand
<1>18. ChainsNumbered'
  <2>1. ASSUME NEW d \in changes', NEW f \in changes', d.chain = f.chain, d.seq = f.seq
        PROVE  d = f
    <3>1. d \in rest /\ f \in rest => d = f
      BY <2>1 DEF ChainsStand, ChainsNumbered
    <3>2. ~(d \in rest /\ f = b) /\ ~(f \in rest /\ d = b)
      BY <1>4, <1>8, <2>1
    <3>. QED
      BY <1>1, <3>1, <3>2
  <2>2. ASSUME NEW c \in ChainIDs, NEW k \in 1 .. Cardinality(ChangesOf(c)')
        PROVE  \E d \in ChangesOf(c)' : d.seq = k
    <3>1. PICK d \in ChangesOf(c) : d.seq = k
      BY <1>12 DEF ChainsStand, ChainsNumbered
    <3>2. d = a => b \in ChangesOf(c)' /\ b.seq = k
      BY <1>4, <1>10, <3>1 DEF ChangesOf
    <3>3. d # a => d \in ChangesOf(c)'
      BY <1>10, <3>1
    <3>. QED
      BY <3>1, <3>2, <3>3
  <2>. QED
    BY <2>1, <2>2 DEF ChainsNumbered
<1>19. ASSUME ~scope.relogs', NEW m \in DOMAIN log' PROVE ServerEntry(log'[m], changes')
  <2>1. CASE m \in DOMAIN log /\ log'[m] = log[m]
    <3>1. ServerEntry(log[m], changes)
      BY <1>1, <1>19, <2>1 DEF ChainsStand
    <3>2. \A d \in changes : \E f \in changes' : ActivationLeaf(f) = ActivationLeaf(d)
      BY <1>1, <1>4
    <3>. QED
      BY <2>1, <3>1, <3>2 DEF ServerEntry
  <2>2. CASE log'[m] = e
    BY <1>1, <1>4, <2>2 DEF ServerEntry, e
  <2>. QED
    BY <1>1, <1>5, <2>1, <2>2, EntryOldOrNew
<1>20. \A d \in changes' : ChangeStands(d)' /\ LinkStands(d, changes') /\ EntryStands(d, log')
  BY <1>1, <1>7, <1>13, <1>14, <1>15, <1>16, <1>17
<1>21. now' \in Nat /\ LogIsSequence'
  BY <1>1, <1>6 DEF ChainsStand, LogIsSequence
<1>. QED
  BY <1>11, <1>18, <1>19, <1>20, <1>21 DEF ChainsStand

\* Time passing moves no change.
LEMMA TickStep ==
  ASSUME ChainsStand, Tick
  PROVE  ChainsStand'
<1>1. now' = now + 1 /\ scope' = scope /\ log' = log /\ changes' = changes
  BY DEF Tick
<1>2. \A c : ChangesOf(c)' = ChangesOf(c)
  BY <1>1 DEF ChangesOf
<1>3. \A a \in changes : ChangeStands(a)'
  BY <1>1, <1>2 DEF ChainsStand, ChangeStands
<1>4. ChainsNumbered'
  BY <1>1, <1>2 DEF ChainsStand, ChainsNumbered
<1>. QED
  BY <1>1, <1>3, <1>4 DEF ChainsStand, LogIsSequence

\* A step that leaves the clock and the changes alone, and logs nothing or
\* nothing the server's chains lack.
LEMMA OtherStep ==
  ASSUME ChainsStand, UNCHANGED <<scope, now, changes>>,
         \/ log' = log
         \/ \E e : /\ log' = Append(log, e)
                   /\ ~scope.relogs => e.signer \notin PinnedKeys
  PROVE  ChainsStand'
<1>1. \A c : ChangesOf(c)' = ChangesOf(c)
  BY DEF ChangesOf
<1>2. \A a \in changes : ChangeStands(a)'
  BY <1>1 DEF ChainsStand, ChangeStands
<1>3. ChainsNumbered'
  BY <1>1 DEF ChainsStand, ChainsNumbered
<1>4. CASE log' = log
  BY <1>2, <1>3, <1>4 DEF ChainsStand, LogIsSequence
<1>5. ASSUME NEW e, log' = Append(log, e), ~scope.relogs => e.signer \notin PinnedKeys
      PROVE  ChainsStand'
  <2>1. \E S : log \in Seq(S)
    BY DEF ChainsStand, LogIsSequence
  <2>2. \E S : log' \in Seq(S)
    BY <1>5, <2>1, AppendKeeps
  <2>3. \A a \in changes : EntryStands(a, log')
    BY <1>5, <2>1, EntryStaysStanding DEF ChainsStand
  <2>4. ASSUME ~scope.relogs, NEW m \in DOMAIN log' PROVE ServerEntry(log'[m], changes)
    <3>1. CASE m \in DOMAIN log /\ log'[m] = log[m]
      BY <2>4, <3>1 DEF ChainsStand
    <3>2. CASE log'[m] = e
      BY <1>5, <2>4, <3>2 DEF ServerEntry
    <3>. QED
      BY <1>5, <2>1, <3>1, <3>2, EntryOldOrNew
  <2>. QED
    BY <1>2, <1>3, <2>2, <2>3, <2>4 DEF ChainsStand, LogIsSequence
<1>. QED
  BY <1>4, <1>5

----------------------------------------------------------------------------
(* The reader's file. *)

Known(a, given) == DOMAIN a = Fields /\ a.sig \in given \cup {None}

\* One change of the file replaced, whatever by.
LEMMA FileEdit ==
  ASSUME FileStands, NEW i \in DOMAIN file, NEW a, Known(a, approved),
         file' = [file EXCEPT ![i] = a], UNCHANGED <<approved, changes>>
  PROVE  FileStands'
<1>1. PICK S : file \in Seq(S)
  BY DEF FileStands
<1>2. file \in Seq(S \cup {a})
  BY <1>1
<1>3. file' \in Seq(S \cup {a}) /\ DOMAIN file' = DOMAIN file
  BY <1>1, <1>2
<1>4. \A j \in DOMAIN file' : file'[j] = IF j = i THEN a ELSE file[j]
  BY <1>1
<1>5. \A j \in DOMAIN file' : Known(file'[j], approved)
  BY <1>3, <1>4 DEF FileStands, Known
<1>. QED
  BY <1>3, <1>5 DEF FileStands, Known

LEMMA ChangeStep ==
  ASSUME FileStands, NEW i \in DOMAIN file, NEW a, Known(a, approved), Change(i, a)
  PROVE  FileStands'
BY FileEdit DEF Change

LEMMA HashedKnown ==
  ASSUME NEW a, NEW given, Known(a, given)
  PROVE  Known(Hashed(a), given)
<1>1. DOMAIN Hashed(a) = Fields /\ Hashed(a).sig = a.sig
  BY DEF Hashed, Known, Fields
<1>. QED
  BY <1>1 DEF Known

LEMMA ChangeFieldStep ==
  ASSUME FileStands, NEW i \in DOMAIN file, NEW a, Known(a, approved), ChangeField(i, a)
  PROVE  FileStands'
BY ChangeStep, HashedKnown DEF ChangeField

\* Whatever field of a change is rewritten, it stays a change by its form,
\* and its signature one that was given.
LEMMA ChangeActivationStep ==
  ASSUME FileStands, NEW i \in DOMAIN file, ChangeActivation(i)
  PROVE  FileStands'
<1>. DEFINE a == file[i]
<1>1. DOMAIN a = Fields /\ a.sig \in approved \cup {None}
  BY DEF FileStands
<1>. HIDE DEF a
<1>2. \A v : /\ Known([a EXCEPT !.chain = v], approved)
             /\ Known([a EXCEPT !.seq = v], approved)
             /\ Known([a EXCEPT !.previous = v], approved)
             /\ Known([a EXCEPT !.policy = v], approved)
             /\ Known([a EXCEPT !.doc = v], approved)
             /\ Known([a EXCEPT !.at = v], approved)
  BY <1>1 DEF Known, Fields
<1>3. \A v \in Signatures : Known([a EXCEPT !.sig = v], approved)
  BY <1>1 DEF Known, Fields, Signatures
<1>4. \E v : \/ ChangeField(i, [a EXCEPT !.chain = v])
             \/ ChangeField(i, [a EXCEPT !.seq = v])
             \/ ChangeField(i, [a EXCEPT !.previous = v])
             \/ ChangeField(i, [a EXCEPT !.policy = v])
             \/ ChangeField(i, [a EXCEPT !.doc = v])
             \/ ChangeField(i, [a EXCEPT !.at = v])
             \/ v \in Signatures /\ ChangeField(i, [a EXCEPT !.sig = v])
  BY Zenon DEF ChangeActivation, a
<1>5. PICK v : \/ ChangeField(i, [a EXCEPT !.chain = v])
               \/ ChangeField(i, [a EXCEPT !.seq = v])
               \/ ChangeField(i, [a EXCEPT !.previous = v])
               \/ ChangeField(i, [a EXCEPT !.policy = v])
               \/ ChangeField(i, [a EXCEPT !.doc = v])
               \/ ChangeField(i, [a EXCEPT !.at = v])
               \/ v \in Signatures /\ ChangeField(i, [a EXCEPT !.sig = v])
  BY <1>4
<1>6. \A b : ChangeField(i, b) /\ Known(b, approved) => FileStands'
  BY ChangeFieldStep
<1>. QED
  BY <1>2, <1>3, <1>5, <1>6, Zenon

LEMMA ChangeAnchorStep ==
  ASSUME FileStands, NEW i \in DOMAIN file, ChangeAnchor(i)
  PROVE  FileStands'
<1>. DEFINE a == file[i]
<1>1. DOMAIN a = Fields /\ a.sig \in approved \cup {None}
  BY DEF FileStands
<1>. HIDE DEF a
<1>2. \A v : Known([a EXCEPT !.anchor = v], approved)
  BY <1>1 DEF Known, Fields
<1>3. Known([a EXCEPT !.anchor.onLog = FALSE], approved)
  BY <1>1 DEF Known, Fields
<1>4. \/ \E v : Change(i, [a EXCEPT !.anchor = v])
      \/ Change(i, [a EXCEPT !.anchor.onLog = FALSE])
  BY Zenon DEF ChangeAnchor, a
<1>5. \A b : Change(i, b) /\ Known(b, approved) => FileStands'
  BY ChangeStep
<1>. QED
  BY <1>2, <1>3, <1>4, <1>5, Zenon

LEMMA FileStep ==
  ASSUME ChainsStand, FileStands, Next
  PROVE  FileStands'
<1>1. ASSUME NEW c \in ChainIDs, NEW doc \in Policies, Approve(c, doc)
      PROVE  FileStands'
  <2>. DEFINE s == [chain |-> c, doc |-> doc, previous |-> Tip(c)]
  <2>1. approved' = approved \cup {s} /\ file' = file /\ changes' = changes
    BY <1>1 DEF Approve
  <2>2. s = [chain |-> s.chain, doc |-> s.doc, previous |-> s.previous]
    OBVIOUS
  <2>. QED
    BY <2>1, <2>2 DEF FileStands
<1>2. ASSUME NEW c \in ChainIDs, NEW doc \in Policies, NEW sig \in Signatures,
             Activate(c, doc, sig)
      PROVE  FileStands'
  <2>. DEFINE d == [chain |-> c, seq |-> Cardinality(ChangesOf(c)) + 1, previous |-> Tip(c),
                    policy |-> doc, doc |-> doc, at |-> now, sig |-> sig, hash |-> None,
                    anchor |-> None]
  <2>1. approved' = approved /\ file' = file /\ changes' = changes \cup {Hashed(d)}
    BY <1>2 DEF Activate
  <2>2. Known(d, approved)
    BY DEF Known, Fields, Signatures
  <2>3. Known(Hashed(d), approved)
    BY <2>2, HashedKnown
  <2>. QED
    BY <2>1, <2>3 DEF FileStands, Known
<1>3. ASSUME NEW a \in changes, LogChange(a)
      PROVE  FileStands'
  <2>1. PICK v : changes' = (changes \ {a}) \cup {[a EXCEPT !.anchor = v]}
    BY <1>3 DEF LogChange
  <2>2. approved' = approved /\ file' = file
    BY <1>3 DEF LogChange
  <2>3. Known([a EXCEPT !.anchor = v], approved)
    BY DEF Known, Fields, FileStands
  <2>. QED
    BY <2>1, <2>2, <2>3 DEF FileStands, Known
<1>4. ASSUME NEW a \in changes, Copy(a)
      PROVE  FileStands'
  <2>1. file' = Append(file, a) /\ approved' = approved /\ changes' = changes
    BY <1>4 DEF Copy
  <2>2. \E S : file' \in Seq(S)
    BY <2>1, AppendKeeps DEF FileStands
  <2>3. \A j \in DOMAIN file' : (j \in DOMAIN file /\ file'[j] = file[j]) \/ file'[j] = a
    BY <2>1, EntryOldOrNew DEF FileStands
  <2>. QED
    BY <2>1, <2>2, <2>3 DEF FileStands
<1>5. ASSUME Tick PROVE FileStands'
  BY <1>5 DEF Tick, FileStands
<1>6. ASSUME NEW i \in DOMAIN file, LogAgain(i)
      PROVE  FileStands'
  <2>. DEFINE a == file[i]
  <2>1. \E v : file' = [file EXCEPT ![i].anchor = v]
    BY <1>6 DEF LogAgain
  <2>2. PICK v : file' = [file EXCEPT ![i] = [a EXCEPT !.anchor = v]]
    BY <2>1
  <2>3. approved' = approved /\ changes' = changes
    BY <1>6 DEF LogAgain
  <2>. HIDE DEF a
  <2>4. Known([a EXCEPT !.anchor = v], approved)
    BY DEF Known, Fields, FileStands, a
  <2>. QED
    BY <2>2, <2>3, <2>4, FileEdit
<1>. QED
  BY <1>1, <1>2, <1>3, <1>4, <1>5, <1>6, ChangeActivationStep, ChangeAnchorStep DEF Next

LEMMA ChainStep ==
  ASSUME ChainsStand, Next
  PROVE  ChainsStand'
<1>1. ASSUME NEW c \in ChainIDs, NEW doc \in Policies, Approve(c, doc) PROVE ChainsStand'
  BY <1>1, OtherStep DEF Approve
<1>2. ASSUME NEW a \in changes, Copy(a) PROVE ChainsStand'
  BY <1>2, OtherStep DEF Copy
<1>3. ASSUME NEW i \in DOMAIN file, LogAgain(i) PROVE ChainsStand'
  <2>1. PICK key \in {OtherKey} \cup (IF scope.relogs THEN {ServerKey} ELSE {}) :
          LogEntry(ActivationLeaf(file[i]), key)
    BY <1>3 DEF LogAgain
  <2>2. ~scope.relogs => key \notin PinnedKeys
    BY <2>1, KeyAssumption
  <2>3. \E e : log' = Append(log, e) /\ (~scope.relogs => e.signer \notin PinnedKeys)
    BY <2>1, <2>2 DEF LogEntry
  <2>4. UNCHANGED <<scope, now, changes>>
    BY <1>3 DEF LogAgain
  <2>. QED
    BY <2>3, <2>4, OtherStep
<1>4. ASSUME NEW i \in DOMAIN file, ChangeActivation(i) \/ ChangeAnchor(i) PROVE ChainsStand'
  <2>1. \E a : Change(i, a)
    <3>1. CASE ChangeActivation(i)
      <4>1. \E a : ChangeField(i, a)
        BY <3>1, Zenon DEF ChangeActivation
      <4>. QED
        BY <4>1 DEF ChangeField
    <3>2. CASE ChangeAnchor(i)
      BY <3>2, Zenon DEF ChangeAnchor
    <3>. QED
      BY <1>4, <3>1, <3>2
  <2>2. log' = log /\ UNCHANGED <<scope, now, changes>>
    BY <2>1 DEF Change
  <2>. QED
    BY <2>2, OtherStep
<1>. QED
  BY <1>1, <1>2, <1>3, <1>4, ActivateStep, LogChangeStep, TickStep DEF Next

\* policy_activation.go, the chain: whatever the server does in whatever
\* order, each chain's changes are numbered without gap or repeat, each
\* covers the hash of the one before, and a logged one names its entry.
THEOREM ChainsStandAlways == Spec => [](ChainsStand /\ FileStands)
<1>1. Init => ChainsStand /\ FileStands
  BY InitStands
<1>2. ChainsStand /\ FileStands /\ [Next]_vars => (ChainsStand /\ FileStands)'
  <2>. SUFFICES ASSUME ChainsStand, FileStands, [Next]_vars PROVE (ChainsStand /\ FileStands)'
    OBVIOUS
  <2>1. CASE Next
    BY <2>1, ChainStep, FileStep
  <2>2. CASE UNCHANGED vars
    <3>1. ChainsStand'
      BY <2>2, OtherStep DEF vars
    <3>2. FileStands'
      BY <2>2 DEF vars, FileStands
    <3>. QED
      BY <3>1, <3>2
  <2>. QED
    BY <2>1, <2>2
<1>. QED
  BY <1>1, <1>2, PTL DEF Spec

----------------------------------------------------------------------------
(* What an accepted file shows. *)

LEMMA FilePlaces ==
  ASSUME FileStands
  PROVE  /\ Len(file) \in Nat /\ DOMAIN file = 1 .. Len(file)
         /\ file # <<>> => 1 \in DOMAIN file
BY DEF FileStands

\* While only the server logs under its key, a change the file shows was made.
LEMMA ShownWasMade ==
  ASSUME ChainsStand, FileStands, ~scope.relogs, HistoryHolds(file, log), NEW i \in DOMAIN file
  PROVE  \E a \in changes : a.hash = file[i].hash
<1>1. /\ DOMAIN file[i] = Fields /\ file[i].hash = ActivationHash(file[i])
      /\ EntryHolds(file[i], log)
  BY DEF HistoryHolds, ChangeHolds, FileStands
<1>2. /\ file[i].anchor.number \in DOMAIN log
      /\ log[file[i].anchor.number].leaf = ActivationLeaf(file[i])
      /\ log[file[i].anchor.number].signer \in PinnedKeys
  BY <1>1 DEF EntryHolds, Logged
<1>3. \E a \in changes : ActivationLeaf(file[i]) = ActivationLeaf(a)
  BY <1>2 DEF ChainsStand, ServerEntry
<1>. QED
  BY <1>3 DEF ActivationLeaf

\* A change in a file and a change that was made, with one hash, say the same.
LEMMA ShownAsMade ==
  ASSUME ChainsStand, FileStands, HistoryHolds(file, log), NEW i \in DOMAIN file,
         NEW a \in changes, a.hash = file[i].hash
  PROVE  /\ a.chain = file[i].chain /\ a.seq = i /\ a.previous = file[i].previous
         /\ [file[i] EXCEPT !.anchor = None] = [a EXCEPT !.anchor = None]
<1>1. /\ DOMAIN file[i] = Fields /\ file[i].hash = ActivationHash(file[i]) /\ file[i].seq = i
      /\ DOMAIN a = Fields /\ a.hash = ActivationHash(a)
  BY DEF HistoryHolds, ChangeHolds, FileStands, ChainsStand, ChangeStands
<1>. QED
  BY <1>1, SameHashSameChange

LEMMA LinkShown ==
  ASSUME HistoryHolds(file, log), NEW i \in DOMAIN file, i # 1, i \in Nat
  PROVE  file[i].previous = file[i - 1].hash
BY DEF HistoryHolds, ChangeHolds

\* A file that shows a change the server made shows, place by place, the
\* changes the server made before it in that chain: each hash holds the one
\* before.
LEMMA ShownBack ==
  ASSUME ChainsStand, FileStands, HistoryHolds(file, log), NEW a \in changes,
         NEW i \in DOMAIN file, file[i].hash = a.hash
  PROVE  /\ a.seq = i
         /\ \A j \in 1 .. i : \E d \in changes :
              d.chain = a.chain /\ d.seq = j /\ d.hash = file[j].hash
<1>1. DOMAIN file = 1 .. Len(file) /\ Len(file) \in Nat
  BY FilePlaces
<1>2. a.seq = i
  BY ShownAsMade
\* The places up to the change that show something else.
<1>. DEFINE Shows(j, d) == d.chain = a.chain /\ d.seq = j /\ d.hash = file[j].hash
            T == {j \in 1 .. i : ~ \E d \in changes : Shows(j, d)}
<1>3. T = {}
  <2>1. SUFFICES ASSUME T # {} PROVE FALSE
    OBVIOUS
  <2>2. i \in Nat /\ T \in SUBSET (1 .. i)
    BY <1>1
  <2>3. PICK x \in T : \A y \in T : y <= x
    BY <2>1, <2>2, LastPlace
  <2>4. Shows(i, a)
    BY <1>2
  <2>5. x # i /\ x \in 1 .. i
    BY <2>3, <2>4
  <2>6. x + 1 \in 1 .. i /\ x + 1 \notin T
    BY <2>2, <2>3, <2>5
  <2>7. PICK d \in changes : Shows(x + 1, d)
    BY <2>6
  <2>8. x + 1 \in DOMAIN file /\ x + 1 # 1 /\ x \in Nat /\ (x + 1) - 1 = x
    BY <1>1, <2>5, <2>6
  <2>9. d.previous = file[x + 1].previous
    BY <2>7, <2>8, ShownAsMade
  <2>10. file[x + 1].previous = file[x].hash
    BY <2>8, LinkShown
  <2>11. PICK f \in changes : Follows(f, d)
    BY <2>7, <2>8 DEF ChainsStand, LinkStands
  <2>12. Shows(x, f)
    BY <2>7, <2>8, <2>9, <2>10, <2>11 DEF Follows
  <2>. QED
    BY <2>3, <2>12
<1>. QED
  BY <1>2, <1>3

\* README --policy-history: a change that was removed, reordered or
\* rewritten fails.  While only the server logs under its key, an accepted
\* file shows the first changes of one chain, each as it was made.
LEMMA PrefixShown == ChainsStand /\ FileStands => AcceptedHistoryIsPrefix
<1>. SUFFICES ASSUME ChainsStand, FileStands, ~scope.relogs, HistoryHolds(file, log)
              PROVE  \E c \in ChainIDs : \A i \in DOMAIN file : \E a \in changes :
                       /\ a.chain = c /\ a.seq = i
                       /\ [file[i] EXCEPT !.anchor = None] = [a EXCEPT !.anchor = None]
  BY DEF AcceptedHistoryIsPrefix
<1>. DEFINE c == file[1].chain
<1>1. DOMAIN file = 1 .. Len(file) /\ Len(file) \in Nat /\ 1 \in DOMAIN file
  BY FilePlaces DEF HistoryHolds
<1>2. c \in ChainIDs
  BY <1>1 DEF HistoryHolds, ChangeHolds
<1>. HIDE DEF c
<1>3. \A i \in DOMAIN file : file[i].chain = c
  <2>. DEFINE T == {j \in DOMAIN file : file[j].chain # c}
  <2>1. SUFFICES ASSUME T # {} PROVE FALSE
    OBVIOUS
  <2>2. T \in SUBSET Nat
    BY <1>1
  <2>3. PICK x \in T : \A y \in T : x <= y
    BY <2>1, <2>2, FirstPlace
  <2>4. x \in DOMAIN file /\ x # 1 /\ x - 1 \in DOMAIN file /\ file[x].chain # c
    BY <1>1, <2>3 DEF c
  <2>5. file[x - 1].chain = c
    BY <1>1, <2>3, <2>4
  <2>6. PICK a \in changes : a.hash = file[x].hash
    BY <2>4, ShownWasMade
  <2>7. a.chain = file[x].chain /\ a.seq = x /\ a.previous = file[x].previous
    BY <2>4, <2>6, ShownAsMade
  <2>8. PICK b \in changes : Follows(b, a)
    BY <2>4, <2>7 DEF ChainsStand, LinkStands
  <2>9. b.hash = file[x - 1].hash
    BY <1>1, <2>4, <2>7, <2>8, LinkShown DEF Follows
  <2>10. b.chain = file[x - 1].chain
    BY <2>4, <2>9, ShownAsMade
  <2>. QED
    BY <2>4, <2>5, <2>7, <2>8, <2>10 DEF Follows
<1>4. ASSUME NEW i \in DOMAIN file
      PROVE  \E a \in changes :
               /\ a.chain = c /\ a.seq = i
               /\ [file[i] EXCEPT !.anchor = None] = [a EXCEPT !.anchor = None]
  <2>1. PICK a \in changes : a.hash = file[i].hash
    BY ShownWasMade
  <2>2. /\ a.chain = file[i].chain /\ a.seq = i
        /\ [file[i] EXCEPT !.anchor = None] = [a EXCEPT !.anchor = None]
    BY <2>1, ShownAsMade
  <2>. QED
    BY <1>3, <2>2
<1>. QED
  BY <1>2, <1>4

THEOREM HistoryIsPrefix == Spec => []AcceptedHistoryIsPrefix
BY PrefixShown, ChainsStandAlways, PTL

\* policy_activation.go: loosening a policy, doing a run and restoring it
\* leaves records anyone can read.  A history that shows the change a run
\* names shows every change made before it, whoever holds the server's key.
THEOREM NamedChange == Spec => []NamedChangeShowsAllBefore
<1>1. ChainsStand /\ FileStands => NamedChangeShowsAllBefore
  <2>. SUFFICES ASSUME ChainsStand, FileStands, NEW a \in changes, NEW b \in changes,
                       b.chain = a.chain, b.seq < a.seq, NamedIn(file, log, a.hash)
                PROVE  NamedIn(file, log, b.hash)
    BY DEF NamedChangeShowsAllBefore
  <2>1. HistoryHolds(file, log)
    BY DEF NamedIn
  <2>2. PICK i \in DOMAIN file : file[i].hash = a.hash
    BY DEF NamedIn
  <2>3. DOMAIN file = 1 .. Len(file) /\ Len(file) \in Nat
    BY FilePlaces
  <2>. DEFINE Shows(j, d) == d.chain = a.chain /\ d.seq = j /\ d.hash = file[j].hash
  <2>4. a.seq = i /\ \A j \in 1 .. i : \E d \in changes : Shows(j, d)
    BY <2>1, <2>2, ShownBack
  <2>5. b.seq \in 1 .. i
    <3>1. b.seq \in Nat \ {0}
      BY ChainLength DEF ChainsStand, ChangeStands
    <3>. QED
      BY <2>3, <2>4, <3>1
  <2>6. PICK d \in changes : Shows(b.seq, d)
    BY <2>4, <2>5
  <2>7. d = b
    BY <2>6 DEF ChainsStand, ChainsNumbered
  <2>8. b.seq \in DOMAIN file
    BY <2>3, <2>5
  <2>. QED
    BY <2>1, <2>6, <2>7, <2>8 DEF NamedIn
<1>. QED
  BY <1>1, ChainsStandAlways, PTL

\* policy_activation.go: a signature cannot be replayed on another key,
\* another policy or another point in the chain, by anybody.
THEOREM SignedChange == Spec => []SignedChangeIsApproved
<1>1. FileStands => SignedChangeIsApproved
  <2>. SUFFICES ASSUME FileStands, HistoryHolds(file, log), NEW i \in DOMAIN file,
                       file[i].sig # None
                PROVE  [chain |-> file[i].chain, doc |-> file[i].doc,
                        previous |-> file[i].previous] \in approved
    BY DEF SignedChangeIsApproved
  <2>. DEFINE s == file[i].sig
  <2>1. s \in approved
    BY DEF FileStands
  <2>2. s = [chain |-> s.chain, doc |-> s.doc, previous |-> s.previous]
    BY <2>1 DEF FileStands
  <2>3. s.chain = file[i].chain /\ s.doc = file[i].doc /\ s.previous = file[i].previous
    BY DEF HistoryHolds, ChangeHolds, SignatureHolds
  <2>. QED
    BY <2>1, <2>2, <2>3
<1>. QED
  BY <1>1, ChainsStandAlways, PTL

\* An accepted account history with a change the server made is of the
\* account whose change it is.
LEMMA ShownToAccount ==
  ASSUME ChainsStand, FileStands, NEW a \in changes, NEW account,
         AccountHistoryHolds(file, log, account, a.hash)
  PROVE  /\ account \in AccountForm /\ a.chain = account
         /\ \A i \in 1 .. a.seq : \E b \in ChangesOf(account) :
              [file[i] EXCEPT !.anchor = None] = [b EXCEPT !.anchor = None]
         /\ \A b \in changes \ ChangesOf(account) : ~NamedIn(file, log, b.hash)
<1>1. /\ HistoryHolds(file, log)
      /\ \A i \in DOMAIN file : file[i].chain \in AccountForm /\ file[i].chain = account
  BY DEF AccountHistoryHolds, AccountChainHolds
<1>2. PICK k \in DOMAIN file : file[k].hash = a.hash
  BY DEF AccountHistoryHolds, NamedIn
<1>3. account \in AccountForm /\ a.chain = account
  BY <1>1, <1>2, ShownAsMade
<1>4. ASSUME NEW i \in 1 .. a.seq
      PROVE  \E b \in ChangesOf(account) :
               [file[i] EXCEPT !.anchor = None] = [b EXCEPT !.anchor = None]
  <2>1. a.seq = k /\ i \in DOMAIN file
    BY <1>1, <1>2, ShownBack, FilePlaces
  <2>2. PICK b \in changes : b.chain = a.chain /\ b.hash = file[i].hash
    BY <1>1, <1>2, <2>1, ShownBack
  <2>3. [file[i] EXCEPT !.anchor = None] = [b EXCEPT !.anchor = None]
    BY <1>1, <2>1, <2>2, ShownAsMade
  <2>. QED
    BY <1>3, <2>2, <2>3 DEF ChangesOf
<1>5. ASSUME NEW b \in changes, NamedIn(file, log, b.hash) PROVE b \in ChangesOf(account)
  <2>1. PICK i \in DOMAIN file : file[i].hash = b.hash
    BY <1>5 DEF NamedIn
  <2>2. b.chain = account
    BY <1>1, <2>1, ShownAsMade
  <2>. QED
    BY <2>2 DEF ChangesOf
<1>. QED
  BY <1>3, <1>4, <1>5

\* While only the server logs under its key, an account's accepted history
\* that shows the change a record seals is accepted with the record.
LEMMA OwnHistoryShown ==
  ASSUME ChainsStand, FileStands, ~scope.relogs, NEW a \in changes,
         NamedIn(file, log, a.hash), a.chain \in AccountForm
  PROVE  AccountHistoryHolds(file, log, a.chain, a.hash)
<1>1. HistoryHolds(file, log)
  BY DEF NamedIn
<1>2. PICK c \in ChainIDs : \A i \in DOMAIN file : \E b \in changes :
        b.chain = c /\ b.seq = i /\ [file[i] EXCEPT !.anchor = None] = [b EXCEPT !.anchor = None]
  BY <1>1, PrefixShown DEF AcceptedHistoryIsPrefix
<1>3. ASSUME NEW i \in DOMAIN file PROVE file[i].chain = c
  <2>1. PICK b \in changes :
          b.chain = c /\ [file[i] EXCEPT !.anchor = None] = [b EXCEPT !.anchor = None]
    BY <1>2
  <2>2. DOMAIN b = Fields /\ DOMAIN file[i] = Fields
    BY DEF ChainsStand, ChangeStands, FileStands
  <2>. DEFINE x == [file[i] EXCEPT !.anchor = None]
              y == [b EXCEPT !.anchor = None]
  <2>3. x.chain = file[i].chain /\ y.chain = b.chain
    BY <2>2, AnchorKeepsChange
  <2>. QED
    BY <2>1, <2>3
<1>4. PICK k \in DOMAIN file : file[k].hash = a.hash
  BY DEF NamedIn
<1>5. a.chain = c
  BY <1>1, <1>3, <1>4, ShownAsMade
<1>6. 1 \in DOMAIN file
  BY <1>1, FilePlaces DEF HistoryHolds
<1>7. a.chain # None
  BY FormAssumption
<1>. QED
  BY <1>1, <1>3, <1>5, <1>6, <1>7 DEF AccountHistoryHolds, AccountChainHolds

\* README --account-policy-history: every change must belong to the account
\* the record names.  A history accepted with a record that seals a change of
\* the server's is the account's whose change it is, and no change made for a
\* key or for another account is in it, whoever drew it up.
THEOREM AccountHistory == Spec => []AccountHistoryIsTheAccounts
<1>1. ChainsStand /\ FileStands => AccountHistoryIsTheAccounts
  <2>. SUFFICES ASSUME ChainsStand, FileStands, NEW a \in changes,
                       NEW account \in ChainIDs \cup {None}, NamedIn(file, log, a.hash)
                PROVE  LET own == account \in AccountForm /\ a.chain = account
                       IN /\ AccountHistoryHolds(file, log, account, a.hash) =>
                               /\ own
                               /\ \A i \in 1 .. a.seq : \E b \in ChangesOf(account) :
                                    [file[i] EXCEPT !.anchor = None] = [b EXCEPT !.anchor = None]
                               /\ \A b \in changes \ ChangesOf(account) :
                                    ~NamedIn(file, log, b.hash)
                          /\ (~scope.relogs /\ own) =>
                               AccountHistoryHolds(file, log, account, a.hash)
    BY DEF AccountHistoryIsTheAccounts
  <2>1. ASSUME AccountHistoryHolds(file, log, account, a.hash)
        PROVE  /\ account \in AccountForm /\ a.chain = account
               /\ \A i \in 1 .. a.seq : \E b \in ChangesOf(account) :
                    [file[i] EXCEPT !.anchor = None] = [b EXCEPT !.anchor = None]
               /\ \A b \in changes \ ChangesOf(account) : ~NamedIn(file, log, b.hash)
    BY <2>1, ShownToAccount
  <2>2. ASSUME ~scope.relogs, account \in AccountForm, a.chain = account
        PROVE  AccountHistoryHolds(file, log, account, a.hash)
    BY <2>2, OwnHistoryShown
  <2>. QED
    BY <2>1, <2>2
<1>. QED
  BY <1>1, ChainsStandAlways, PTL

----------------------------------------------------------------------------
(* The history an honest server can show. *)

\* A logged change passes the check of its entry when it was logged in its
\* window, and a change that was not logged never does.
LEMMA HonestEntry ==
  ASSUME NEW a, a.at \in Nat, EntryStands(a, log)
  PROVE  EntryHolds(a, log) <=>
           a.anchor # None /\ a.anchor.time * Second <= a.at + EntryWindow * Second
<1>1. a.anchor = None => ~EntryHolds(a, log)
  BY DEF EntryHolds
<1>2. ASSUME a.anchor # None
      PROVE  EntryHolds(a, log) <=> a.anchor.time * Second <= a.at + EntryWindow * Second
  <2>. DEFINE e == a.anchor
              t == e.time * Second
              w == EntryWindow * Second
              k == Skew * Second
  <2>1. /\ e.onLog = TRUE /\ e.kind = "policy_activation" /\ e.hash = a.hash
        /\ e.leaf = ActivationLeaf(a) /\ Logged(e, log) /\ e.signer = ServerKey
        /\ e.time \in Nat /\ a.at < t + Second
    BY <1>2 DEF EntryStands
  <2>2. SignerAcceptsAt(e.signer, e.time) /\ e.signer \in PinnedKeys
    BY <2>1, KeyAssumption DEF SignerAcceptsAt
  <2>3. t \in Int /\ w \in Int /\ k \in Int /\ Second \in Nat
    BY <2>1, ClockAssumption, WindowAssumption
  <2>4. -Skew * Second = -k
    BY ClockAssumption, WindowAssumption
  <2>5. Second <= k
    <3>1. \A x, y \in Nat \ {0} : y <= x * y
      OBVIOUS
    <3>. QED
      BY <3>1, ClockAssumption, WindowAssumption
  <2>6. EntryHolds(a, log) <=> t - a.at >= -k /\ t - a.at <= w
    BY <1>2, <2>1, <2>2, <2>4 DEF EntryHolds
  <2>. HIDE DEF t, w, k
  <2>7. t - a.at >= -k
    BY <2>1, <2>3, <2>5
  <2>8. t - a.at <= w <=> t <= a.at + w
    BY <2>3
  <2>9. EntryHolds(a, log) <=> t <= a.at + w
    BY <2>6, <2>7, <2>8
  <2>. QED
    BY <2>9 DEF t, w
<1>. QED
  BY <1>1, <1>2

\* The first k changes of a chain, in their order.
FirstOf(c, k) == [i \in 1 .. k |-> CHOOSE a \in ChangesOf(c) : a.seq = i]

LEMMA FirstOfChain ==
  ASSUME ChainsStand, NEW c \in ChainIDs, NEW k \in 1 .. Cardinality(ChangesOf(c)),
         NEW i \in 1 .. k
  PROVE  LET f == FirstOf(c, k)
         IN /\ f[i] \in changes /\ f[i].chain = c /\ f[i].seq = i
            /\ f[i].previous = IF i = 1 THEN NoPrevious ELSE f[i - 1].hash
            /\ i > 1 => f[i].at >= f[i - 1].at
<1>. DEFINE f == FirstOf(c, k)
<1>1. Cardinality(ChangesOf(c)) \in Nat
  BY ChainLength DEF ChainsStand
<1>2. \A j \in 1 .. k : f[j] \in changes /\ f[j].chain = c /\ f[j].seq = j
  <2>1. \A j \in 1 .. k : \E a \in ChangesOf(c) : a.seq = j
    BY <1>1 DEF ChainsStand, ChainsNumbered
  <2>2. \A j \in 1 .. k : f[j] \in ChangesOf(c) /\ f[j].seq = j
    BY <2>1 DEF FirstOf
  <2>. QED
    BY <2>2 DEF ChangesOf
<1>. HIDE DEF f
<1>3. LinkStands(f[i], changes)
  BY <1>2 DEF ChainsStand
<1>4. CASE i = 1
  BY <1>2, <1>3, <1>4 DEF LinkStands, f
<1>5. CASE i # 1
  <2>1. PICK b \in changes : Follows(b, f[i])
    BY <1>2, <1>3, <1>5 DEF LinkStands
  <2>2. i - 1 \in 1 .. k
    BY <1>1, <1>5
  <2>3. b.chain = c /\ b.seq = i - 1
    BY <1>2, <2>1 DEF Follows
  <2>4. b = f[i - 1]
    BY <1>2, <2>2, <2>3 DEF ChainsStand, ChainsNumbered
  <2>5. b.at \in Nat /\ f[i].at \in Nat
    BY <1>2 DEF ChainsStand, ChangeStands
  <2>6. f[i].previous = f[i - 1].hash /\ f[i].at >= f[i - 1].at
    BY <2>1, <2>4, <2>5 DEF Follows
  <2>. QED
    BY <1>2, <1>5, <2>6 DEF f
<1>. QED
  BY <1>4, <1>5

\* The first changes of a chain verify for good when each was logged in its
\* window, and no history shows a change that was logged later or never.
THEOREM HonestHistory == Spec => []HonestHistoryVerifies
<1>1. ChainsStand => HonestHistoryVerifies
  <2>. SUFFICES ASSUME ChainsStand, NEW c \in ChainIDs,
                       NEW k \in 1 .. Cardinality(ChangesOf(c))
                PROVE  LET first == FirstOf(c, k)
                       IN HistoryHolds(first, log) <=>
                            \A i \in 1 .. k :
                              /\ first[i].anchor # None
                              /\ first[i].anchor.time * Second
                                   <= first[i].at + EntryWindow * Second
    BY DEF HonestHistoryVerifies, FirstOf
  <2>. DEFINE first == FirstOf(c, k)
              InWindow(i) == /\ first[i].anchor # None
                             /\ first[i].anchor.time * Second
                                  <= first[i].at + EntryWindow * Second
  <2>1. Cardinality(ChangesOf(c)) \in Nat
    BY ChainLength DEF ChainsStand
  <2>2. DOMAIN first = 1 .. k /\ first # <<>>
    <3>1. DOMAIN first = 1 .. k /\ 1 \in 1 .. k
      BY <2>1 DEF FirstOf
    <3>2. DOMAIN <<>> = {}
      OBVIOUS
    <3>. QED
      BY <3>1, <3>2
  <2>3. ASSUME NEW i \in 1 .. k
        PROVE  ChangeHolds(first, i, log) <=> InWindow(i)
    <3>1. /\ first[i] \in changes /\ first[i].chain = c /\ first[i].seq = i
          /\ first[i].previous = IF i = 1 THEN NoPrevious ELSE first[i - 1].hash
          /\ i > 1 => first[i].at >= first[i - 1].at
      BY FirstOfChain
    <3>2. ChangeStands(first[i]) /\ EntryStands(first[i], log)
      BY <3>1 DEF ChainsStand
    <3>. HIDE DEF first
    <3>3. EntryHolds(first[i], log) <=> InWindow(i)
      BY <3>2, HonestEntry DEF ChangeStands
    <3>. HIDE DEF InWindow
    <3>4. ChangeHolds(first, i, log) <=> EntryHolds(first[i], log)
      BY <3>1, <3>2 DEF ChangeHolds, ChangeStands
    <3>. QED
      BY <3>3, <3>4
  <2>. HIDE DEF first
  <2>4. HistoryHolds(first, log) <=> \A i \in 1 .. k : ChangeHolds(first, i, log)
    BY <2>2 DEF HistoryHolds
  <2>5. HistoryHolds(first, log) <=> \A i \in 1 .. k : InWindow(i)
    BY <2>3, <2>4
  <2>. QED
    BY <2>5 DEF first
<1>. QED
  BY <1>1, ChainsStandAlways, PTL

=============================================================================
