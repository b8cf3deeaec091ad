---------------------------- MODULE JobMap_proofs ----------------------------
(***************************************************************************)
(* Theorems about JobMap, for every number of jobs, steps, records and     *)
(* files.  The invariant is short: a record names only what was sealed     *)
(* before it, and a file that holds and names a job shows the block that   *)
(* was sealed, unless unanchored receipts are allowed.                     *)
(* The rest is about the verdict: what a COMPLETE folder has, and that a   *)
(* link, always backwards, can be followed from the final step down.       *)
(***************************************************************************)
EXTENDS JobMap, FiniteSetTheorems, TLAPS

(***************************************************************************)
(* Growing sequences, and places in them.  A proof along a chain, which    *)
(* would be an induction, takes the first or the last place where its      *)
(* claim fails.                                                            *)
(***************************************************************************)
\* An appended element takes the next place and moves no other.
LEMMA AppendKeeps ==
  ASSUME NEW s, NEW e, \E S : s \in Seq(S)
  PROVE  /\ \E S : Append(s, e) \in Seq(S)
         /\ Len(s) \in Nat
         /\ DOMAIN s = 1 .. Len(s)
         /\ DOMAIN Append(s, e) = 1 .. Len(s) + 1
         /\ Append(s, e)[Len(s) + 1] = e
         /\ \A n \in 1 .. Len(s) : Append(s, e)[n] = s[n]
<1>1. PICK S : s \in Seq(S)
  OBVIOUS
<1>2. s \in Seq(S \cup {e})
  BY <1>1
<1>3. Append(s, e) \in Seq(S \cup {e})
  BY <1>2
<1>. QED
  BY <1>2, <1>3

\* The elements of a grown sequence are the earlier ones and the new one.
LEMMA EntryOldOrNew ==
  ASSUME NEW s, NEW e, \E S : s \in Seq(S), NEW n \in DOMAIN Append(s, e)
  PROVE  \/ n \in DOMAIN s /\ Append(s, e)[n] = s[n]
         \/ n = Len(s) + 1 /\ Append(s, e)[n] = e
<1>1. /\ Len(s) \in Nat /\ DOMAIN s = 1 .. Len(s) /\ DOMAIN Append(s, e) = 1 .. Len(s) + 1
      /\ Append(s, e)[Len(s) + 1] = e /\ \A m \in 1 .. Len(s) : Append(s, e)[m] = s[m]
  BY AppendKeeps
<1>2. n \in 1 .. Len(s) \/ n = Len(s) + 1
  BY <1>1
<1>. QED
  BY <1>1, <1>2

\* The first place of a set of places, there being one.
LEMMA FirstPlace ==
  ASSUME NEW T \in SUBSET Nat, T # {}
  PROVE  \E x \in T : \A y \in T : x <= y
<1>1. PICK x \in T : \A y \in T : <<y, x>> \notin OpToRel(<, Nat)
  BY WFMin, NatLessThanWellFounded
<1>2. \A y \in T : ~(y < x)
  BY <1>1 DEF OpToRel
<1>. QED
  BY <1>2

\* The last place of a set of places up to n.
LEMMA LastPlace ==
  ASSUME NEW n \in Nat, NEW T \in SUBSET (1 .. n), T # {}
  PROVE  \E x \in T : \A y \in T : y <= x
<1>. DEFINE U == {k \in Nat : n - k \in T}
<1>1. U # {}
  <2>1. PICK x \in T : TRUE
    OBVIOUS
  <2>2. n - x \in Nat /\ n - (n - x) = x
    OBVIOUS
  <2>. QED
    BY <2>1, <2>2
<1>2. PICK u \in U : \A v \in U : u <= v
  BY <1>1, FirstPlace
<1>3. \A y \in T : n - y \in U
  <2>1. \A y \in T : n - y \in Nat /\ n - (n - y) = y
    OBVIOUS
  <2>. QED
    BY <2>1
<1>4. n - u \in T /\ u \in Nat /\ \A y \in T : y \in Nat /\ u <= n - y
  BY <1>2, <1>3
<1>. QED
  BY <1>4

\* A set of places is walked in order: each count up to its size is that of
\* the places up to one of them, and of one only.
UpTo(I, i) == {j \in I : j <= i}

LEMMA PlacesCounted ==
  ASSUME NEW n \in Nat, NEW I \in SUBSET (1 .. n)
  PROVE  /\ IsFiniteSet(I) /\ Cardinality(I) \in Nat
         /\ \A i \in I : IsFiniteSet(UpTo(I, i)) /\ Cardinality(UpTo(I, i)) \in 1 .. Cardinality(I)
<1>1. IsFiniteSet(1 .. n)
  BY FS_Interval
<1>2. IsFiniteSet(I) /\ Cardinality(I) \in Nat
  BY <1>1, FS_Subset, FS_CardinalityType
<1>3. ASSUME NEW i \in I
      PROVE  IsFiniteSet(UpTo(I, i)) /\ Cardinality(UpTo(I, i)) \in 1 .. Cardinality(I)
  <2>1. UpTo(I, i) \in SUBSET I /\ i \in UpTo(I, i)
    BY DEF UpTo
  <2>2. /\ IsFiniteSet(UpTo(I, i)) /\ Cardinality(UpTo(I, i)) <= Cardinality(I)
        /\ Cardinality(UpTo(I, i)) \in Nat
    BY <1>2, <2>1, FS_Subset, FS_CardinalityType
  <2>3. Cardinality(UpTo(I, i)) # 0
    BY <2>1, <2>2, FS_EmptySet
  <2>. QED
    BY <1>2, <2>2, <2>3
<1>. QED
  BY <1>2, <1>3

LEMMA PlacesOrdered ==
  ASSUME NEW n \in Nat, NEW I \in SUBSET (1 .. n), NEW i \in I, NEW j \in I, i < j
  PROVE  Cardinality(UpTo(I, i)) < Cardinality(UpTo(I, j))
<1>. \A x \in I : x \in Nat
  OBVIOUS
<1>1. UpTo(I, i) \in SUBSET UpTo(I, j) /\ j \in UpTo(I, j) /\ j \notin UpTo(I, i)
  <2>1. \A x \in UpTo(I, i) : x \in UpTo(I, j)
    BY DEF UpTo
  <2>2. j \in UpTo(I, j) /\ j \notin UpTo(I, i)
    BY DEF UpTo
  <2>. QED
    BY <2>1, <2>2
<1>2. /\ IsFiniteSet(UpTo(I, j)) /\ Cardinality(UpTo(I, j)) \in Nat
      /\ Cardinality(UpTo(I, i)) \in Nat
  <2>1. \A x \in I : IsFiniteSet(UpTo(I, x)) /\ Cardinality(UpTo(I, x)) \in 1 .. Cardinality(I)
    BY PlacesCounted
  <2>2. Cardinality(I) \in Nat
    BY PlacesCounted
  <2>. QED
    BY <2>1, <2>2
<1>3. /\ Cardinality(UpTo(I, i)) <= Cardinality(UpTo(I, j))
      /\ Cardinality(UpTo(I, j)) # Cardinality(UpTo(I, i))
  BY <1>1, <1>2, FS_Subset
<1>. QED
  BY <1>2, <1>3

LEMMA PlaceOfCount ==
  ASSUME NEW n \in Nat, NEW I \in SUBSET (1 .. n), NEW k \in 1 .. Cardinality(I)
  PROVE  \E i \in I : Cardinality(UpTo(I, i)) = k
<1>. DEFINE count(i) == Cardinality(UpTo(I, i))
            T == {i \in I : count(i) >= k}
<1>. \A x \in I : x \in Nat /\ x \in 1 .. n
  OBVIOUS
<1>1. /\ IsFiniteSet(I) /\ Cardinality(I) \in Nat
      /\ \A i \in I : IsFiniteSet(UpTo(I, i)) /\ count(i) \in 1 .. Cardinality(I)
  BY PlacesCounted
<1>2. T # {}
  <2>1. I # {}
    BY <1>1, FS_EmptySet
  <2>2. PICK x \in I : \A y \in I : y <= x
    BY <2>1, LastPlace
  <2>3. UpTo(I, x) = I
    BY <2>2 DEF UpTo
  <2>. QED
    BY <1>1, <2>2, <2>3
<1>3. T \in SUBSET Nat
  OBVIOUS
<1>4. PICK i \in T : \A j \in T : i <= j
  BY <1>2, <1>3, FirstPlace
<1>5. count(i) = k
  <2>1. SUFFICES ASSUME count(i) # k PROVE FALSE
    OBVIOUS
  <2>. DEFINE B == UpTo(I, i) \ {i}
  <2>2. i \in I /\ i \in UpTo(I, i)
    BY DEF UpTo
  <2>3. IsFiniteSet(UpTo(I, i)) /\ count(i) \in Nat /\ count(i) > k
    BY <1>1, <2>1, <2>2
  <2>4. IsFiniteSet(B) /\ Cardinality(B) = count(i) - 1
    BY <2>2, <2>3, FS_RemoveElement
  <2>5. B # {}
    BY <2>3, <2>4, FS_EmptySet
  <2>6. B \in SUBSET (1 .. n) /\ \A j \in B : j \in I /\ j < i
    <3>1. \A j \in B : j \in I /\ j < i
      BY DEF UpTo
    <3>. QED
      BY <3>1
  <2>. HIDE DEF B
  <2>7. PICK p \in B : \A j \in B : j <= p
    BY <2>5, <2>6, LastPlace
  <2>8. UpTo(I, p) = B
    <3>1. \A j \in B : j \in I /\ j <= p
      BY <2>6, <2>7
    <3>2. \A j \in I : j <= p => j <= i /\ j # i
      BY <2>2, <2>6, <2>7
    <3>. QED
      BY <3>1, <3>2 DEF UpTo, B
  <2>9. p \in T
    BY <2>3, <2>4, <2>6, <2>7, <2>8
  <2>. QED
    BY <1>4, <2>6, <2>7, <2>9
<1>. QED
  BY <1>4, <1>5

(***************************************************************************)
(* What holds of the sealed records and of the files.                      *)
(***************************************************************************)
SealedStands ==
  /\ \E S : sealed \in Seq(S)
  /\ \A n \in DOMAIN sealed : sealed[n] # None =>
       sealed[n].previous \subseteq 1 .. n - 1 /\ sealed[n].external \subseteq 1 .. n - 1

IsFolder(f) == \E S : f \in Seq(S)

\* A folder of files that show what was sealed, in any number and order.
Genuine(f) ==
  /\ IsFolder(f)
  /\ \A i \in DOMAIN f : f[i].job # None =>
       f[i].hash \in DOMAIN sealed /\ f[i].job = sealed[f[i].hash]

FileStands(file) ==
  (~scope.unanchored /\ ~file.failed /\ file.job # None) =>
    file.hash \in DOMAIN sealed /\ file.job = sealed[file.hash]

JobsStand ==
  /\ SealedStands
  /\ IsFolder(folder)
  /\ \A i \in DOMAIN folder : FileStands(folder[i])

LEMMA SealStep ==
  ASSUME JobsStand, folder = <<>>, NEW block \in Blocks \cup {None}, Seal(block)
  PROVE  JobsStand'
<1>1. sealed' = Append(sealed, block) /\ folder' = folder
  BY DEF Seal
<1>2. /\ \E S : sealed' \in Seq(S)
      /\ Len(sealed) \in Nat /\ DOMAIN sealed = 1 .. Len(sealed)
  BY <1>1, AppendKeeps DEF JobsStand, SealedStands
<1>3. ASSUME block # None
      PROVE  block.previous \subseteq 1 .. Len(sealed) /\ block.external \subseteq 1 .. Len(sealed)
  BY <1>2, <1>3 DEF Blocks
<1>4. ASSUME NEW n \in DOMAIN sealed', sealed'[n] # None
      PROVE  sealed'[n].previous \subseteq 1 .. n - 1 /\ sealed'[n].external \subseteq 1 .. n - 1
  <2>1. CASE n \in DOMAIN sealed /\ sealed'[n] = sealed[n]
    BY <1>4, <2>1 DEF JobsStand, SealedStands
  <2>2. CASE n = Len(sealed) + 1 /\ sealed'[n] = block
    <3>1. n - 1 = Len(sealed)
      BY <1>2, <2>2
    <3>. QED
      BY <1>3, <1>4, <2>2, <3>1
  <2>. QED
    BY <1>1, <2>1, <2>2, EntryOldOrNew DEF JobsStand, SealedStands
<1>5. IsFolder(folder') /\ DOMAIN folder' = {}
  <2>1. <<>> \in Seq({}) /\ DOMAIN <<>> = {}
    OBVIOUS
  <2>. QED
    BY <1>1, <2>1 DEF IsFolder
<1>. QED
  BY <1>2, <1>4, <1>5 DEF JobsStand, SealedStands

LEMMA PutStep ==
  ASSUME JobsStand, NEW file, Put(file), FileStands(file)
  PROVE  JobsStand'
<1>1. folder' = Append(folder, file) /\ UNCHANGED <<scope, sealed>>
  BY DEF Put
<1>2. IsFolder(folder')
  BY <1>1, AppendKeeps DEF JobsStand, IsFolder
<1>3. \A i \in DOMAIN folder' : (i \in DOMAIN folder /\ folder'[i] = folder[i]) \/ folder'[i] = file
  BY <1>1, EntryOldOrNew DEF JobsStand, IsFolder
<1>. QED
  BY <1>1, <1>2, <1>3 DEF JobsStand, SealedStands, FileStands

\* jobmap.go, a record's links: they can only name what was sealed before,
\* and a file that holds shows the block that was sealed under its hash,
\* unless unanchored receipts are allowed.
THEOREM JobsStandAlways == Spec => []JobsStand
<1>1. Init => JobsStand
  <2>1. <<>> \in Seq({}) /\ DOMAIN <<>> = {}
    OBVIOUS
  <2>. QED
    BY <2>1 DEF Init, JobsStand, SealedStands, IsFolder
<1>2. JobsStand /\ [Next]_vars => JobsStand'
  <2>. SUFFICES ASSUME JobsStand, [Next]_vars PROVE JobsStand'
    OBVIOUS
  <2>1. ASSUME NEW n \in DOMAIN sealed, NEW fails \in BOOLEAN, Put(Record(n, sealed[n], fails))
        PROVE  JobsStand'
    <3>1. FileStands(Record(n, sealed[n], fails))
      BY DEF FileStands, Record
    <3>. QED
      BY <2>1, <3>1, PutStep
  <2>2. ASSUME NEW n \in DOMAIN sealed, PutAltered(n) PROVE JobsStand'
    <3>1. PICK block \in Blocks \cup {None}, fails \in BOOLEAN :
            (fails \/ scope.unanchored) /\ Put(Record(n, block, fails))
      BY <2>2 DEF PutAltered
    <3>2. FileStands(Record(n, block, fails))
      BY <3>1 DEF FileStands, Record
    <3>. QED
      BY <3>1, <3>2, PutStep
  <2>3. ASSUME Put(Undecoded) PROVE JobsStand'
    <3>1. FileStands(Undecoded)
      BY DEF FileStands, Undecoded
    <3>. QED
      BY <2>3, <3>1, PutStep
  <2>4. CASE UNCHANGED vars
    BY <2>4 DEF vars, JobsStand, SealedStands, FileStands
  <2>. QED
    BY <2>1, <2>2, <2>3, <2>4, SealStep DEF Next
<1>. QED
  BY <1>1, <1>2, PTL DEF Spec

----------------------------------------------------------------------------
(* What the verdict reads off a folder. *)

\* The main job's records are here once or more, and all say the same.
LEMMA BlockIsSealed ==
  ASSUME SealedStands, NEW f, Genuine(f), NEW h \in Present(f)
  PROVE  /\ h \in DOMAIN sealed /\ sealed[h] # None /\ sealed[h].id = MainJob(f)
         /\ BlockOf(f, h) = sealed[h]
<1>. DEFINE same == {i \in Members(f) : f[i].hash = h}
<1>1. same # {}
  BY DEF Present
<1>2. Len(f) \in Nat /\ DOMAIN f = 1 .. Len(f)
  BY DEF Genuine, IsFolder
<1>3. same \in SUBSET (1 .. Len(f))
  BY <1>2 DEF Members, WithJob
<1>4. \E i \in same : \A j \in same : j <= i
  BY <1>1, <1>2, <1>3, LastPlace
<1>. DEFINE x == CHOOSE i \in same : \A j \in same : j <= i
<1>5. x \in same
  BY <1>4
<1>6. BlockOf(f, h) = f[x].job
  BY DEF BlockOf
<1>7. \A i \in same : i \in DOMAIN f /\ f[i].job # None /\ f[i].job.id = MainJob(f) /\ f[i].hash = h
  BY DEF Members, WithJob
<1>. HIDE DEF same, x
<1>8. f[x].hash \in DOMAIN sealed /\ f[x].job = sealed[f[x].hash]
  BY <1>5, <1>7 DEF Genuine
<1>. QED
  BY <1>5, <1>6, <1>7, <1>8

LEMMA MembersFinite ==
  ASSUME NEW f, IsFolder(f)
  PROVE  /\ Len(f) \in Nat /\ DOMAIN f = 1 .. Len(f)
         /\ Members(f) \in SUBSET (DOMAIN f)
         /\ IsFiniteSet(Finals(f)) /\ Cardinality(Finals(f)) \in Nat
<1>1. Len(f) \in Nat /\ DOMAIN f = 1 .. Len(f)
  BY DEF IsFolder
<1>2. Finals(f) \in SUBSET Members(f) /\ Members(f) \in SUBSET (DOMAIN f)
  BY DEF Finals, Members, WithJob
<1>3. IsFiniteSet(DOMAIN f)
  BY <1>1, FS_Interval
<1>. QED
  BY <1>1, <1>2, <1>3, FS_Subset, FS_CardinalityType

\* A complete folder has one final record, what each record follows, and a
\* record after each but the final one.
ClosedBy(n, own) ==
  /\ n \in own /\ sealed[n].final
  /\ \A h \in own : /\ h \in DOMAIN sealed /\ sealed[h] # None
                    /\ sealed[h].previous \subseteq own
                    /\ sealed[h].final => h = n
                    /\ h # n => \E k \in own : h \in sealed[k].previous

LEMMA MemberShowsSealed ==
  ASSUME SealedStands, NEW f, Genuine(f), NEW i \in Members(f)
  PROVE  /\ i \in DOMAIN f /\ f[i].hash \in Present(f) /\ f[i].hash \in DOMAIN sealed
         /\ f[i].job = sealed[f[i].hash] /\ f[i].job # None /\ f[i].job.id = MainJob(f)
<1>1. i \in DOMAIN f /\ f[i].job # None /\ f[i].job.id = MainJob(f)
  BY DEF Members, WithJob
<1>. QED
  BY <1>1 DEF Genuine, Present

\* Every file of a complete folder holds, and shows what was sealed.
LEMMA CompleteIsGenuine ==
  ASSUME JobsStand, ~scope.unanchored, Verdict(folder) = "COMPLETE"
  PROVE  Genuine(folder)
<1>1. ~FileProblem(folder)
  BY DEF Verdict
<1>2. \A i \in DOMAIN folder : ~folder[i].failed
  BY <1>1 DEF FileProblem
<1>. QED
  BY <1>2 DEF Genuine, JobsStand, FileStands

LEMMA CompleteFacts ==
  ASSUME SealedStands, NEW f, Genuine(f), Verdict(f) = "COMPLETE"
  PROVE  /\ ~FileProblem(f) /\ ~MemberProblem(f)
         /\ \E n : ClosedBy(n, Present(f))
<1>1. /\ ~FileProblem(f) /\ ~MemberProblem(f) /\ ~MissingStep(f) /\ ~DroppedBranch(f)
      /\ Cardinality(Finals(f)) = 1
  BY DEF Verdict
<1>2. PICK x : Finals(f) = {x}
  BY <1>1, MembersFinite, FS_Singleton DEF Genuine
<1>. DEFINE n == f[x].hash
<1>3. x \in Members(f) /\ f[x].job.final
  BY <1>2 DEF Finals
<1>4. n \in Present(f) /\ sealed[n].final
  BY <1>3, MemberShowsSealed
<1>5. ASSUME NEW h \in Present(f)
      PROVE  /\ h \in DOMAIN sealed /\ sealed[h] # None
             /\ sealed[h].previous \subseteq Present(f)
             /\ sealed[h].final => h = n
             /\ h # n => \E k \in Present(f) : h \in sealed[k].previous
  <2>1. /\ h \in DOMAIN sealed /\ sealed[h] # None
        /\ \A k \in Present(f) : BlockOf(f, k) = sealed[k]
    BY BlockIsSealed
  <2>2. sealed[h].previous \subseteq Present(f)
    BY <1>1, <2>1 DEF MissingStep
  <2>3. ASSUME sealed[h].final PROVE h = n
    <3>1. PICK i \in Members(f) : f[i].hash = h
      BY DEF Present
    <3>2. f[i].job.final
      BY <2>3, <3>1, MemberShowsSealed
    <3>. QED
      BY <1>2, <3>1, <3>2 DEF Finals
  <2>4. ASSUME h # n PROVE \E k \in Present(f) : h \in sealed[k].previous
    <3>1. ~sealed[h].final
      BY <2>3, <2>4
    <3>2. h \in Followed(f)
      BY <1>1, <2>1, <3>1 DEF DroppedBranch
    <3>. QED
      BY <2>1, <3>2 DEF Followed
  <2>. QED
    BY <2>1, <2>2, <2>3, <2>4
<1>. HIDE DEF n
<1>6. ClosedBy(n, Present(f))
  BY <1>4, <1>5 DEF ClosedBy
<1>. QED
  BY <1>1, <1>6

\* Followed backwards, the links of a closed set of records lead from the
\* final one to every other: the last record they did not lead to would have
\* one after it that they did.
LEMMA FinalReachesAll ==
  ASSUME SealedStands, NEW own, NEW n, ClosedBy(n, own), NEW m \in own
  PROVE  Reaches(n, m)
<1>. SUFFICES ASSUME NEW S \in SUBSET (1 .. Len(sealed)), n \in S,
                     \A k \in S : sealed[k] # None => sealed[k].previous \subseteq S
              PROVE  m \in S
  BY DEF Reaches
<1>. DEFINE T == own \ S
<1>1. SUFFICES ASSUME T # {} PROVE FALSE
  OBVIOUS
<1>2. Len(sealed) \in Nat /\ DOMAIN sealed = 1 .. Len(sealed)
  BY DEF SealedStands
<1>3. T \in SUBSET (1 .. Len(sealed))
  BY <1>2 DEF ClosedBy
<1>4. PICK x \in T : \A y \in T : y <= x
  BY <1>1, <1>2, <1>3, LastPlace
<1>5. PICK k \in own : x \in sealed[k].previous
  BY <1>4 DEF ClosedBy
<1>6. k \in DOMAIN sealed /\ sealed[k] # None
  BY DEF ClosedBy
<1>7. x \in 1 .. k - 1
  BY <1>5, <1>6 DEF SealedStands
<1>8. k \in S
  BY <1>2, <1>4, <1>6, <1>7
<1>. QED
  BY <1>4, <1>5, <1>6, <1>8

\* jobmap.go:3-8, README --job: in a complete folder every record verifies,
\* each link lands on a record of the job that is here, no step is there
\* twice, and one final step leads back to every record, unless unanchored
\* receipts are allowed.
THEOREM CompleteClosed == Spec => []CompleteIsClosed
<1>1. JobsStand => CompleteIsClosed
  <2>. SUFFICES ASSUME JobsStand, ~scope.unanchored, Verdict(folder) = "COMPLETE"
                PROVE  LET own == {folder[i].hash : i \in Members(folder)}
                       IN /\ \A i \in DOMAIN folder : ~folder[i].failed
                          /\ \A n \in own : sealed[n].previous \subseteq own
                          /\ \A n, m \in own : sealed[n].step = sealed[m].step => n = m
                          /\ \E n \in own : sealed[n].final /\ \A m \in own : Reaches(n, m)
    BY DEF CompleteIsClosed
  <2>. DEFINE own == {folder[i].hash : i \in Members(folder)}
  <2>1. own = Present(folder)
    BY DEF Present
  <2>. HIDE DEF own
  <2>2. SealedStands /\ Genuine(folder)
    BY CompleteIsGenuine DEF JobsStand
  <2>3. ~FileProblem(folder) /\ ~MemberProblem(folder) /\ \E n : ClosedBy(n, own)
    BY <2>1, <2>2, CompleteFacts
  <2>4. \A i \in DOMAIN folder : ~folder[i].failed
    BY <2>3 DEF FileProblem
  <2>5. PICK n : ClosedBy(n, own)
    BY <2>3
  <2>6. \A h \in own : sealed[h].previous \subseteq own
    BY <2>5 DEF ClosedBy
  <2>7. n \in own /\ sealed[n].final /\ \A m \in own : Reaches(n, m)
    BY <2>2, <2>5, FinalReachesAll DEF ClosedBy
  <2>8. ASSUME NEW h \in own, NEW m \in own, sealed[h].step = sealed[m].step
        PROVE  h = m
    <3>1. PICK i \in Members(folder) : folder[i].hash = h
      BY DEF own
    <3>2. PICK j \in Members(folder) : folder[j].hash = m
      BY DEF own
    <3>3. folder[i].job = sealed[h] /\ folder[j].job = sealed[m]
      BY <2>2, <3>1, <3>2, MemberShowsSealed
    <3>4. ~(i < j) /\ ~(j < i)
      BY <2>3, <2>8, <3>3 DEF MemberProblem
    <3>5. i \in Nat /\ j \in Nat
      BY <2>2, MembersFinite DEF Genuine
    <3>. QED
      BY <3>1, <3>2, <3>4, <3>5
  <2>. QED
    BY <2>4, <2>6, <2>7, <2>8 DEF own
<1>. QED
  BY <1>1, JobsStandAlways, PTL

----------------------------------------------------------------------------
(* A folder's part: some of its files, in their order. *)

Place(I, k) == CHOOSE i \in I : Cardinality(UpTo(I, i)) = k

LEMMA PlaceOf ==
  ASSUME NEW n \in Nat, NEW I \in SUBSET (1 .. n)
  PROVE  /\ \A k \in 1 .. Cardinality(I) :
              Place(I, k) \in I /\ Cardinality(UpTo(I, Place(I, k))) = k
         /\ \A i \in I : \E k \in 1 .. Cardinality(I) : Place(I, k) = i
         /\ \A k, l \in 1 .. Cardinality(I) : Place(I, k) = Place(I, l) => k = l
<1>1. \A k \in 1 .. Cardinality(I) :
        Place(I, k) \in I /\ Cardinality(UpTo(I, Place(I, k))) = k
  <2>1. \A k \in 1 .. Cardinality(I) : \E i \in I : Cardinality(UpTo(I, i)) = k
    BY PlaceOfCount
  <2>. QED
    BY <2>1 DEF Place
<1>2. ASSUME NEW i \in I PROVE \E k \in 1 .. Cardinality(I) : Place(I, k) = i
  <2>. DEFINE k == Cardinality(UpTo(I, i))
              x == Place(I, k)
  <2>1. k \in 1 .. Cardinality(I) /\ k \in Nat
    <3>1. k \in 1 .. Cardinality(I) /\ Cardinality(I) \in Nat
      BY PlacesCounted
    <3>. QED
      BY <3>1
  <2>2. x \in I /\ Cardinality(UpTo(I, x)) = k
    BY <1>1, <2>1
  <2>. HIDE DEF x
  <2>3. i < x => FALSE
    <3>1. i < x => Cardinality(UpTo(I, i)) < Cardinality(UpTo(I, x))
      BY <2>2, PlacesOrdered
    <3>. QED
      BY <2>1, <2>2, <3>1
  <2>4. x < i => FALSE
    <3>1. x < i => Cardinality(UpTo(I, x)) < Cardinality(UpTo(I, i))
      BY <2>2, PlacesOrdered
    <3>. QED
      BY <2>1, <2>2, <3>1
  <2>5. x \in 1 .. n /\ i \in 1 .. n
    BY <2>2
  <2>6. x = i
    BY <2>3, <2>4, <2>5
  <2>. QED
    BY <2>1, <2>6 DEF x
<1>. QED
  BY <1>1, <1>2

LEMMA FilesTaken ==
  ASSUME NEW f, Len(f) \in Nat, DOMAIN f = 1 .. Len(f), NEW I \in SUBSET (DOMAIN f)
  PROVE  /\ \E S : FilesOf(f, I) \in Seq(S)
         /\ DOMAIN FilesOf(f, I) = 1 .. Cardinality(I)
         /\ Cardinality(I) \in Nat
         /\ \A k \in 1 .. Cardinality(I) :
              Place(I, k) \in I /\ FilesOf(f, I)[k] = f[Place(I, k)]
<1>1. Cardinality(I) \in Nat
  BY PlacesCounted
<1>2. FilesOf(f, I) = [k \in 1 .. Cardinality(I) |-> f[Place(I, k)]]
  BY DEF FilesOf, Place, UpTo
<1>3. \A k \in 1 .. Cardinality(I) : Place(I, k) \in I
  BY PlaceOf
<1>. DEFINE S == {f[i] : i \in I}
<1>4. FilesOf(f, I) \in [1 .. Cardinality(I) -> S]
  BY <1>2, <1>3
<1>5. FilesOf(f, I) \in Seq(S)
  BY <1>1, <1>4
<1>. QED
  BY <1>1, <1>2, <1>3, <1>5

\* jobmap.go: nothing can be cut out of a complete job.  The final step of
\* the part is the folder's, and leads to every record of either.
THEOREM CompleteNotPruned == Spec => []CompleteCannotBePruned
<1>1. JobsStand => CompleteCannotBePruned
  <2>. SUFFICES ASSUME JobsStand, ~scope.unanchored, Verdict(folder) = "COMPLETE", NEW I \in SUBSET (DOMAIN folder),
                       Verdict(FilesOf(folder, I)) = "COMPLETE",
                       MainJob(FilesOf(folder, I)) = MainJob(folder)
                PROVE  Present(FilesOf(folder, I)) = Present(folder)
    BY DEF CompleteCannotBePruned
  <2>. DEFINE part == FilesOf(folder, I)
  <2>1. SealedStands /\ Genuine(folder)
    BY CompleteIsGenuine DEF JobsStand
  <2>2. Len(folder) \in Nat /\ DOMAIN folder = 1 .. Len(folder)
    BY <2>1, MembersFinite DEF Genuine
  <2>3. /\ \E S : part \in Seq(S)
        /\ \A k \in DOMAIN part : \E i \in DOMAIN folder : part[k] = folder[i]
    BY <2>2, FilesTaken
  <2>. HIDE DEF part
  <2>4. Genuine(part)
    BY <2>1, <2>3 DEF Genuine, IsFolder
  <2>5. Present(part) \subseteq Present(folder)
    <3>1. ASSUME NEW k \in Members(part) PROVE part[k].hash \in Present(folder)
      <4>1. k \in DOMAIN part /\ part[k].job # None /\ part[k].job.id = MainJob(folder)
        BY DEF Members, WithJob, part
      <4>2. PICK i \in DOMAIN folder : part[k] = folder[i]
        BY <2>3, <4>1
      <4>3. i \in Members(folder)
        BY <4>1, <4>2 DEF Members, WithJob
      <4>. QED
        BY <4>2, <4>3 DEF Present
    <3>. QED
      BY <3>1 DEF Present
  <2>6. PICK n : ClosedBy(n, Present(folder))
    BY <2>1, CompleteFacts
  <2>7. PICK m : ClosedBy(m, Present(part))
    BY <2>1, <2>4, CompleteFacts DEF part
  <2>8. m = n
    BY <2>5, <2>6, <2>7 DEF ClosedBy
  <2>9. Present(part) \subseteq 1 .. Len(sealed)
    BY <2>1, <2>7 DEF ClosedBy, SealedStands
  <2>10. \A h \in Present(folder) : Reaches(n, h)
    BY <2>1, <2>6, FinalReachesAll
  <2>11. Present(folder) \subseteq Present(part)
    <3>1. n \in Present(part) /\ \A k \in Present(part) : sealed[k].previous \subseteq Present(part)
      BY <2>7, <2>8 DEF ClosedBy
    <3>. QED
      BY <2>9, <2>10, <3>1 DEF Reaches
  <2>. QED
    BY <2>5, <2>11 DEF part
<1>. QED
  BY <1>1, JobsStandAlways, PTL

----------------------------------------------------------------------------
(* A folder in another order. *)

\* p takes each place of one folder to the place its file has in the other;
\* done twice it changes nothing.
Reordered(f, g, p) ==
  /\ DOMAIN g = DOMAIN f
  /\ \A i \in DOMAIN f : p[i] \in DOMAIN f /\ p[p[i]] = i /\ g[i] = f[p[i]]

\* While every other file is a target of a link, the first file that is none
\* names the same job in any order.
LEMMA MainJobKept ==
  ASSUME NEW f, NEW g, NEW p, IsFolder(f), IsFolder(g), Reordered(f, g, p), ~FileProblem(f)
  PROVE  External(g) = External(f) /\ MainJob(g) = MainJob(f)
<1>. DEFINE Own(x) == {i \in WithJob(x) : x[i].hash \notin External(x)}
            First(x) == CHOOSE i \in Own(x) : \A j \in Own(x) : i <= j
<1>1. \A i \in DOMAIN f : i \in WithJob(g) <=> p[i] \in WithJob(f)
  BY DEF Reordered, WithJob
<1>2. External(g) = External(f)
  <2>1. \A i \in WithJob(g) : \E j \in WithJob(f) : g[i].job = f[j].job
    BY <1>1 DEF Reordered, WithJob
  <2>2. \A j \in WithJob(f) : \E i \in WithJob(g) : f[j].job = g[i].job
    BY <1>1 DEF Reordered, WithJob
  <2>. QED
    BY <2>1, <2>2 DEF External
<1>3. \A i \in DOMAIN f : i \in Own(g) <=> p[i] \in Own(f)
  BY <1>1, <1>2 DEF Reordered, WithJob
<1>4. \A i \in Own(f) : f[i].job.id = MainJob(f)
  <2>. SUFFICES ASSUME NEW i \in Own(f) PROVE f[i].job.id = MainJob(f)
    OBVIOUS
  <2>1. i \in DOMAIN f /\ f[i].hash \notin External(f)
    BY DEF WithJob
  <2>2. i \in Members(f)
    BY <2>1 DEF FileProblem
  <2>. QED
    BY <2>2 DEF Members
<1>5. \A x : MainJob(x) = IF Own(x) = {} THEN None ELSE x[First(x)].job.id
  BY DEF MainJob
<1>6. CASE Own(f) = {}
  <2>1. Own(g) = {}
    BY <1>3, <1>6 DEF Reordered, WithJob
  <2>. QED
    BY <1>2, <1>5, <1>6, <2>1
<1>7. CASE Own(f) # {}
  <2>1. PICK j \in Own(f) : TRUE
    BY <1>7
  <2>2. j \in DOMAIN f /\ p[j] \in DOMAIN f /\ p[p[j]] = j
    BY DEF Reordered, WithJob
  <2>3. p[j] \in Own(g)
    BY <1>3, <2>2
  <2>4. Own(g) \in SUBSET Nat
    BY DEF WithJob, IsFolder
  <2>. HIDE DEF Own
  <2>5. \E i \in Own(g) : \A k \in Own(g) : i <= k
    BY <2>3, <2>4, FirstPlace
  <2>6. First(g) \in Own(g)
    BY <2>5
  <2>. HIDE DEF First
  <2>7. First(g) \in DOMAIN f
    BY <2>6 DEF Own, Reordered, WithJob
  <2>8. g[First(g)] = f[p[First(g)]] /\ p[First(g)] \in Own(f)
    BY <1>3, <2>6, <2>7 DEF Reordered
  <2>9. MainJob(g) = g[First(g)].job.id
    BY <1>5, <2>3
  <2>. QED
    BY <1>2, <1>4, <2>8, <2>9
<1>. QED
  BY <1>6, <1>7

LEMMA OneBlock ==
  ASSUME NEW f, IsFolder(f), ~MemberProblem(f), NEW x \in Members(f)
  PROVE  BlockOf(f, f[x].hash) = f[x].job
<1>. DEFINE same == {i \in Members(f) : f[i].hash = f[x].hash}
<1>1. \A i \in Members(f) : i \in Nat
  BY MembersFinite
<1>2. \A i \in same : i = x
  BY <1>1 DEF MemberProblem
<1>3. same = {x}
  BY <1>2
<1>. HIDE DEF same
<1>4. (CHOOSE i \in same : \A j \in same : j <= i) = x
  BY <1>1, <1>3
<1>. QED
  BY <1>4 DEF BlockOf, same

LEMMA VerdictKept ==
  ASSUME NEW f, NEW g, NEW p, IsFolder(f), IsFolder(g), Reordered(f, g, p),
         Verdict(f) # "FAILED"
  PROVE  Verdict(g) = Verdict(f) /\ MainJob(g) = MainJob(f)
<1>1. /\ ~FileProblem(f) /\ ~MemberProblem(f) /\ ~MissingStep(f) /\ ~DroppedBranch(f)
  BY DEF Verdict
<1>2. External(g) = External(f) /\ MainJob(g) = MainJob(f)
  BY <1>1, MainJobKept
<1>3. \A i \in DOMAIN f : i \in Members(g) <=> p[i] \in Members(f)
  BY <1>2 DEF Reordered, Members, WithJob
<1>4. Members(f) \subseteq DOMAIN f /\ Members(g) \subseteq DOMAIN f
  BY DEF Members, WithJob, Reordered
<1>5. ~FileProblem(g)
  <2>1. \A i \in DOMAIN g : ~g[i].failed /\ g[i].job # None
    BY <1>1 DEF FileProblem, Reordered
  <2>2. ASSUME NEW i \in DOMAIN g \ Members(g) PROVE g[i].hash \in External(g)
    <3>1. p[i] \in DOMAIN f \ Members(f) /\ g[i] = f[p[i]]
      BY <1>3 DEF Reordered
    <3>. QED
      BY <1>1, <1>2, <3>1 DEF FileProblem
  <2>. QED
    BY <2>1, <2>2 DEF FileProblem
<1>6. ~MemberProblem(g)
  <2>1. \A i \in Members(g) : g[i].job.valid
    BY <1>1, <1>3, <1>4 DEF MemberProblem, Reordered
  <2>2. ASSUME NEW i \in Members(g), NEW j \in Members(g), i < j,
               g[i].job.step = g[j].job.step \/ g[i].hash = g[j].hash
        PROVE  FALSE
    <3>. DEFINE x == p[i]
                y == p[j]
    <3>1. /\ x \in Members(f) /\ y \in Members(f) /\ g[i] = f[x] /\ g[j] = f[y]
          /\ p[x] = i /\ p[y] = j
      BY <1>3, <1>4 DEF Reordered
    <3>. HIDE DEF x, y
    <3>2. DOMAIN f = 1 .. Len(f) /\ Len(f) \in Nat
      BY MembersFinite
    <3>3. x \in Nat /\ y \in Nat /\ i \in Nat /\ j \in Nat
      BY <1>4, <3>1, <3>2
    <3>4. x # y
      BY <2>2, <3>1, <3>3
    <3>5. x < y \/ y < x
      BY <3>3, <3>4
    <3>. QED
      BY <1>1, <2>2, <3>1, <3>5 DEF MemberProblem
  <2>. QED
    BY <2>1, <2>2 DEF MemberProblem
<1>7. Present(g) = Present(f)
  <2>1. \A i \in Members(g) : \E j \in Members(f) : g[i].hash = f[j].hash
    BY <1>3, <1>4 DEF Reordered
  <2>2. \A j \in Members(f) : \E i \in Members(g) : f[j].hash = g[i].hash
    BY <1>3, <1>4 DEF Reordered
  <2>. QED
    BY <2>1, <2>2 DEF Present
\* A record of the job is there once, so that no file hides another.
<1>8. \A h \in Present(f) : BlockOf(g, h) = BlockOf(f, h)
  <2>. SUFFICES ASSUME NEW h \in Present(f) PROVE BlockOf(g, h) = BlockOf(f, h)
    OBVIOUS
  <2>1. PICK x \in Members(f) : f[x].hash = h
    BY DEF Present
  <2>2. p[x] \in Members(g) /\ g[p[x]] = f[x]
    BY <1>3, <1>4, <2>1 DEF Reordered
  <2>3. BlockOf(f, h) = f[x].job
    BY <1>1, <2>1, OneBlock
  <2>4. BlockOf(g, h) = g[p[x]].job
    BY <1>6, <2>1, <2>2, OneBlock
  <2>. QED
    BY <2>2, <2>3, <2>4
<1>9. ~MissingStep(g) /\ Followed(g) = Followed(f)
  BY <1>1, <1>7, <1>8 DEF MissingStep, Followed
<1>10. Cardinality(Finals(g)) = Cardinality(Finals(f))
  <2>. DEFINE b == [i \in Finals(f) |-> p[i]]
  <2>1. \A i \in DOMAIN f : i \in Finals(g) <=> p[i] \in Finals(f)
    BY <1>3, <1>4 DEF Reordered, Finals
  <2>2. Finals(f) \subseteq DOMAIN f /\ Finals(g) \subseteq DOMAIN f
    BY <1>4 DEF Finals
  <2>3. \A i \in DOMAIN f : p[i] \in DOMAIN f /\ p[p[i]] = i
    BY DEF Reordered
  <2>4. b \in [Finals(f) -> Finals(g)]
    BY <2>1, <2>2, <2>3
  <2>5. \A x, y \in Finals(f) : b[x] = b[y] => x = y
    BY <2>2, <2>3
  <2>6. \A y \in Finals(g) : \E x \in Finals(f) : b[x] = y
    <3>1. \A y \in Finals(g) : p[y] \in Finals(f) /\ b[p[y]] = y
      BY <2>1, <2>2, <2>3
    <3>. QED
      BY <3>1
  <2>. HIDE DEF b
  <2>7. b \in Bijection(Finals(f), Finals(g))
    <3>1. b \in Injection(Finals(f), Finals(g))
      BY <2>4, <2>5 DEF Injection, IsInjective
    <3>2. b \in Surjection(Finals(f), Finals(g))
      BY <2>4, <2>6, Zenon DEF Surjection
    <3>. QED
      BY <3>1, <3>2 DEF Bijection
  <2>. QED
    BY <2>7, MembersFinite, FS_Bijection DEF ExistsBijection
<1>11. ~DroppedBranch(g)
  BY <1>1, <1>7, <1>8, <1>9, <1>10 DEF DroppedBranch
<1>12. /\ Verdict(f) = IF Cardinality(Finals(f)) > 1 THEN "FAILED"
                       ELSE IF Cardinality(Finals(f)) = 1 THEN "COMPLETE" ELSE "OPEN"
       /\ Verdict(g) = IF Cardinality(Finals(g)) > 1 THEN "FAILED"
                       ELSE IF Cardinality(Finals(g)) = 1 THEN "COMPLETE" ELSE "OPEN"
  BY <1>1, <1>5, <1>6, <1>9, <1>11 DEF Verdict
<1>. QED
  BY <1>2, <1>10, <1>12

\* The verdict, and the job it is about, do not depend on how the files are
\* named, although the job is read off the first that qualifies, whatever
\* blocks the files show: two neighbours can change places.
THEOREM NamesAreFree == Spec => []NamesDoNotMatter
<1>1. JobsStand => NamesDoNotMatter
  <2>. SUFFICES ASSUME JobsStand, NEW i \in 1 .. Len(folder) - 1
                PROVE  LET swapped == [folder EXCEPT ![i] = folder[i + 1], ![i + 1] = folder[i]]
                       IN /\ Verdict(swapped) = Verdict(folder)
                          /\ Verdict(folder) # "FAILED" => MainJob(swapped) = MainJob(folder)
    BY DEF NamesDoNotMatter
  <2>. DEFINE swapped == [folder EXCEPT ![i] = folder[i + 1], ![i + 1] = folder[i]]
              p == [j \in DOMAIN folder |-> IF j = i THEN i + 1 ELSE IF j = i + 1 THEN i ELSE j]
  <2>1. IsFolder(folder)
    BY DEF JobsStand
  <2>2. PICK S : folder \in Seq(S)
    BY <2>1 DEF IsFolder
  <2>3. Len(folder) \in Nat /\ DOMAIN folder = 1 .. Len(folder)
    BY <2>2
  <2>4. i \in DOMAIN folder /\ i + 1 \in DOMAIN folder /\ i # i + 1
    BY <2>3
  <2>5. /\ DOMAIN swapped = DOMAIN folder
        /\ \A j \in DOMAIN folder : swapped[j] = folder[p[j]]
    BY <2>4
  <2>6. \A j \in DOMAIN folder : p[j] \in DOMAIN folder /\ p[p[j]] = j
    BY <2>4
  <2>7. swapped \in Seq(S)
    <3>1. swapped \in [1 .. Len(folder) -> S]
      BY <2>2, <2>3, <2>4
    <3>. HIDE DEF swapped
    <3>. QED
      BY <2>3, <3>1
  <2>. HIDE DEF swapped, p
  <2>8. IsFolder(swapped)
    BY <2>7 DEF IsFolder
  <2>9. Reordered(folder, swapped, p)
    BY <2>5, <2>6 DEF Reordered
  <2>10. Reordered(swapped, folder, p)
    BY <2>5, <2>6 DEF Reordered
  <2>11. Verdict(folder) # "FAILED" =>
           Verdict(swapped) = Verdict(folder) /\ MainJob(swapped) = MainJob(folder)
    BY <2>1, <2>8, <2>9, VerdictKept
  <2>12. Verdict(swapped) # "FAILED" => Verdict(folder) = Verdict(swapped)
    BY <2>1, <2>8, <2>10, VerdictKept
  <2>. QED
    BY <2>11, <2>12 DEF swapped
<1>. QED
  BY <1>1, JobsStandAlways, PTL

----------------------------------------------------------------------------
(* The whole of a sound job. *)

All == [n \in DOMAIN sealed |-> Record(n, sealed[n], FALSE)]

\* The folder of some records: each is there once, and shows what was sealed.
LEMMA FolderOf ==
  ASSUME SealedStands, NEW I \in SUBSET (DOMAIN sealed)
  PROVE  LET f == FilesOf(All, I)
         IN /\ Genuine(f) /\ DOMAIN f = 1 .. Cardinality(I) /\ Cardinality(I) \in Nat
            /\ \A k \in DOMAIN f : /\ f[k].hash \in I /\ f[k].hash = Place(I, k)
                                   /\ f[k].job = sealed[f[k].hash] /\ f[k].failed = FALSE
            /\ \A n \in I : \E k \in DOMAIN f : f[k].hash = n
            /\ \A k, l \in DOMAIN f : f[k].hash = f[l].hash => k = l
<1>. DEFINE f == FilesOf(All, I)
<1>1. Len(sealed) \in Nat /\ DOMAIN sealed = 1 .. Len(sealed)
  BY DEF SealedStands
<1>2. DOMAIN All = 1 .. Len(sealed) /\ \A n \in DOMAIN sealed : All[n] = Record(n, sealed[n], FALSE)
  BY <1>1 DEF All
<1>3. Len(All) = Len(sealed)
  <2>. DEFINE files == {Record(n, sealed[n], FALSE) : n \in DOMAIN sealed}
  <2>1. All \in Seq(files)
    <3>1. All \in [1 .. Len(sealed) -> files]
      BY <1>1 DEF All
    <3>. HIDE DEF files
    <3>. QED
      BY <1>1, <3>1
  <2>. QED
    BY <1>1, <1>2, <2>1
<1>4. /\ \E S : f \in Seq(S)
      /\ DOMAIN f = 1 .. Cardinality(I) /\ Cardinality(I) \in Nat
      /\ \A k \in DOMAIN f : Place(I, k) \in I /\ f[k] = All[Place(I, k)]
  BY <1>1, <1>2, <1>3, FilesTaken
<1>5. /\ \A n \in I : \E k \in DOMAIN f : Place(I, k) = n
      /\ \A k, l \in DOMAIN f : Place(I, k) = Place(I, l) => k = l
  BY <1>1, <1>4, PlaceOf
<1>. HIDE DEF f
<1>6. \A k \in DOMAIN f : /\ f[k].hash \in I /\ f[k].hash = Place(I, k)
                          /\ f[k].job = sealed[f[k].hash] /\ f[k].failed = FALSE
  <2>. SUFFICES ASSUME NEW k \in DOMAIN f
                PROVE  /\ f[k].hash \in I /\ f[k].hash = Place(I, k)
                       /\ f[k].job = sealed[f[k].hash] /\ f[k].failed = FALSE
    OBVIOUS
  <2>1. f[k] = Record(Place(I, k), sealed[Place(I, k)], FALSE) /\ Place(I, k) \in I
    BY <1>2, <1>4
  <2>. QED
    BY <2>1 DEF Record
<1>7. Genuine(f)
  BY <1>4, <1>6 DEF Genuine, IsFolder
<1>. QED
  BY <1>4, <1>5, <1>6, <1>7 DEF f

\* What leads down to a record was sealed after it.
LEMMA ReachesDown ==
  ASSUME SealedStands, NEW n \in DOMAIN sealed, NEW m \in DOMAIN sealed, Reaches(n, m)
  PROVE  m <= n
<1>1. Len(sealed) \in Nat /\ DOMAIN sealed = 1 .. Len(sealed)
  BY DEF SealedStands
<1>. DEFINE S == 1 .. n
<1>2. S \in SUBSET (1 .. Len(sealed)) /\ n \in S
  BY <1>1
<1>3. ASSUME NEW k \in S, sealed[k] # None PROVE sealed[k].previous \subseteq S
  <2>1. k \in DOMAIN sealed /\ k <= n /\ k \in Nat /\ n \in Nat
    BY <1>1
  <2>2. sealed[k].previous \subseteq 1 .. k - 1
    BY <1>3, <2>1 DEF SealedStands
  <2>. QED
    BY <2>1, <2>2
<1>4. m \in S
  BY <1>2, <1>3 DEF Reaches
<1>. QED
  BY <1>1, <1>4

\* A sound job's records, with records of other jobs that its links name and
\* that name none of it back, verify.
LEMMA SoundFolder ==
  ASSUME SealedStands, NEW job, Sound(job), NEW extra,
         \A n \in extra : n \in Linked(job) /\ n \in DOMAIN sealed /\ sealed[n] # None
                          /\ sealed[n].id # job,
         \A n \in extra : JobRecords(job) \cap sealed[n].external = {}
  PROVE  Verdict(FilesOf(All, JobRecords(job) \cup extra)) = "COMPLETE"
<1>. DEFINE own == JobRecords(job)
            I == own \cup extra
            f == FilesOf(All, I)
<1>1. \A n \in own : n \in DOMAIN sealed /\ sealed[n] # None /\ sealed[n].id = job
  BY DEF JobRecords
<1>2. I \in SUBSET (DOMAIN sealed)
  BY <1>1
<1>3. /\ Genuine(f)
      /\ \A k \in DOMAIN f : /\ f[k].hash \in I /\ f[k].job = sealed[f[k].hash]
                             /\ f[k].failed = FALSE
      /\ \A n \in I : \E k \in DOMAIN f : f[k].hash = n
      /\ \A k, l \in DOMAIN f : f[k].hash = f[l].hash => k = l
  BY <1>2, FolderOf
<1>4. PICK last \in own : \A m \in own : Reaches(last, m) /\ (sealed[m].final <=> m = last)
  BY DEF Sound
<1>5. /\ \A n \in own : sealed[n].valid /\ sealed[n].previous \subseteq own
      /\ \A n, m \in own : sealed[n].step = sealed[m].step => n = m
  BY DEF Sound
<1>6. \A n \in extra : \E m \in own : n \in sealed[m].external
  BY DEF Linked
<1>. HIDE DEF f, I, own
<1>7. WithJob(f) = DOMAIN f
  <2>1. \A k \in DOMAIN f : f[k].job # None
    <3>1. \A n \in I : sealed[n] # None
      BY <1>1 DEF I
    <3>. QED
      BY <1>3, <3>1
  <2>. QED
    BY <2>1 DEF WithJob
<1>8. /\ \A n \in I : sealed[n].external \subseteq External(f)
      /\ \A n \in External(f) : \E m \in I : n \in sealed[m].external
  BY <1>3, <1>7 DEF External
<1>9. extra \subseteq External(f)
  BY <1>6, <1>8 DEF I
\* The final record is the last of its job, so no link of its job names it.
<1>10. last \notin External(f)
  <2>1. SUFFICES ASSUME NEW m \in I, last \in sealed[m].external PROVE FALSE
    BY <1>8
  <2>2. CASE m \in extra
    BY <1>4, <2>1, <2>2 DEF own
  <2>3. CASE m \in own
    <3>1. m \in DOMAIN sealed /\ last \in DOMAIN sealed /\ sealed[m] # None
      BY <1>1, <1>4, <2>3
    <3>2. m <= last
      BY <1>4, <2>3, <3>1, ReachesDown
    <3>3. last \in 1 .. m - 1
      BY <2>1, <3>1 DEF SealedStands
    <3>4. m \in Nat
      BY <3>1 DEF SealedStands
    <3>. QED
      BY <3>2, <3>3, <3>4
  <2>. QED
    BY <2>2, <2>3 DEF I
<1>11. MainJob(f) = job
  <2>. DEFINE free == {i \in WithJob(f) : f[i].hash \notin External(f)}
              first == CHOOSE i \in free : \A j \in free : i <= j
  <2>1. free # {}
    BY <1>3, <1>4, <1>7, <1>10 DEF I
  <2>2. free \in SUBSET Nat
    BY <1>3 DEF Genuine, IsFolder, WithJob
  <2>3. \A i \in free : f[i].hash \in own /\ f[i].job = sealed[f[i].hash]
    BY <1>3, <1>7, <1>9 DEF I
  <2>4. MainJob(f) = f[first].job.id
    BY <2>1 DEF MainJob
  <2>. HIDE DEF free
  <2>5. \E i \in free : \A j \in free : i <= j
    BY <2>1, <2>2, FirstPlace
  <2>6. first \in free
    BY <2>5
  <2>. QED
    BY <1>1, <2>3, <2>4, <2>6
<1>12. \A i : i \in Members(f) <=> i \in DOMAIN f /\ f[i].hash \in own
  BY <1>1, <1>3, <1>7, <1>11 DEF Members, I
<1>13. Present(f) = own
  BY <1>3, <1>12 DEF Present, I
<1>14. ~FileProblem(f)
  <2>1. \A i \in DOMAIN f : ~f[i].failed /\ f[i].job # None
    BY <1>3, <1>7 DEF WithJob
  <2>2. \A i \in DOMAIN f \ Members(f) : f[i].hash \in External(f)
    BY <1>3, <1>9, <1>12 DEF I
  <2>. QED
    BY <2>1, <2>2 DEF FileProblem
<1>15. ~MemberProblem(f)
  <2>1. \A i \in Members(f) : f[i].job.valid
    BY <1>3, <1>5, <1>12
  <2>2. ASSUME NEW i \in Members(f), NEW j \in Members(f), i < j,
               f[i].job.step = f[j].job.step \/ f[i].hash = f[j].hash
        PROVE  FALSE
    <3>1. f[i].hash = f[j].hash
      BY <1>3, <1>5, <1>12, <2>2
    <3>2. i = j /\ i \in Nat
      BY <1>3, <1>12, <3>1 DEF Genuine, IsFolder
    <3>. QED
      BY <2>2, <3>2
  <2>. QED
    BY <2>1, <2>2 DEF MemberProblem
<1>16. \A h \in own : BlockOf(f, h) = sealed[h]
  BY <1>3, <1>13, BlockIsSealed
<1>17. ~MissingStep(f)
  BY <1>5, <1>13, <1>16 DEF MissingStep
<1>18. Cardinality(Finals(f)) = 1
  <2>1. PICK x \in DOMAIN f : f[x].hash = last
    BY <1>3, <1>4 DEF I
  <2>2. \A i : i \in Finals(f) <=> i = x
    BY <1>3, <1>4, <1>12, <2>1 DEF Finals
  <2>3. Finals(f) = {x}
    BY <2>2
  <2>. QED
    BY <2>3, FS_Singleton
\* A record that none of the job's came after could not be reached.
<1>19. ~DroppedBranch(f)
  <2>1. SUFFICES ASSUME NEW h \in own, h # last, \A k \in own : h \notin sealed[k].previous
                 PROVE  FALSE
    BY <1>4, <1>13, <1>16 DEF DroppedBranch, Followed
  <2>. DEFINE S == own \ {h}
  <2>2. S \in SUBSET (1 .. Len(sealed)) /\ last \in S
    BY <1>1, <1>4, <2>1 DEF SealedStands
  <2>3. \A k \in S : sealed[k].previous \subseteq S
    BY <1>5, <2>1
  <2>4. h \in S
    BY <1>4, <2>2, <2>3 DEF Reaches
  <2>. QED
    BY <2>4
<1>. QED
  BY <1>14, <1>15, <1>17, <1>18, <1>19 DEF Verdict, f, I, own

\* README --job: the whole of a sound job is complete, and stays so with the
\* records of others its links name.
THEOREM SoundJob == Spec => []SoundJobIsComplete
<1>1. JobsStand => SoundJobIsComplete
  <2>. SUFFICES ASSUME JobsStand, NEW job \in Jobs, Sound(job)
                PROVE  LET linked == {n \in Linked(job) : sealed[n] # None /\ sealed[n].id # job}
                       IN /\ Verdict(FilesOf(All, JobRecords(job))) = "COMPLETE"
                          /\ \A extra \in SUBSET linked :
                               JobRecords(job) \cap UNION {sealed[n].external : n \in extra} = {} =>
                                 Verdict(FilesOf(All, JobRecords(job) \cup extra)) = "COMPLETE"
    BY DEF SoundJobIsComplete, All
  <2>1. SealedStands
    BY DEF JobsStand
  <2>2. Verdict(FilesOf(All, JobRecords(job))) = "COMPLETE"
    <3>1. Verdict(FilesOf(All, JobRecords(job) \cup {})) = "COMPLETE"
      BY <2>1, SoundFolder
    <3>2. JobRecords(job) \cup {} = JobRecords(job)
      OBVIOUS
    <3>. QED
      BY <3>1, <3>2
  <2>3. Linked(job) \subseteq DOMAIN sealed
    <3>1. \A n \in JobRecords(job) : sealed[n].external \subseteq DOMAIN sealed
      BY <2>1 DEF JobRecords, SealedStands
    <3>. QED
      BY <3>1 DEF Linked
  <2>4. ASSUME NEW extra,
               \A n \in extra : n \in Linked(job) /\ sealed[n] # None /\ sealed[n].id # job,
               JobRecords(job) \cap UNION {sealed[n].external : n \in extra} = {}
        PROVE  Verdict(FilesOf(All, JobRecords(job) \cup extra)) = "COMPLETE"
    <3>1. \A n \in extra : JobRecords(job) \cap sealed[n].external = {}
      BY <2>4
    <3>2. \A n \in extra : n \in DOMAIN sealed
      BY <2>3, <2>4
    <3>. QED
      BY <2>1, <2>4, <3>1, <3>2, SoundFolder
  <2>. QED
    BY <2>2, <2>4
<1>. QED
  BY <1>1, JobsStandAlways, PTL

==============================================================================
