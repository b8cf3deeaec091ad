------------------------------- MODULE JobMap -------------------------------
(***************************************************************************)
(* --job (jobmap.go): the records of one job, which name each other by     *)
(* hash, and the verdict on a folder of them.                              *)
(*                                                                         *)
(* The customer, whose software is not part of this repository, seals one  *)
(* record after another; a record can follow only what was sealed before   *)
(* it, since it names a hash.  A hash is the record's place in that order. *)
(* The folder a reader gets may lack files, hold one twice or failing, and *)
(* hold files of other jobs.  A bundle's hash covers its job block.  A     *)
(* receipt's does not: its block is bound by the leaf of its log entry, so *)
(* with --allow-unanchored a receipt of no log entry may show another.     *)
(***************************************************************************)
EXTENDS Naturals, Sequences, FiniteSets

CONSTANTS
  Jobs, Steps, \* job and step names
  None,        \* no job block, or no value
  Scopes       \* bounds of a behaviour: [maxJobs, maxSteps, maxRecords, maxFiles,
               \* anyOrder, maxExternal, maxOdd, unanchored, maxAltered]; without anyOrder
               \* the files are in the order of sealing and none is there twice;
               \* maxExternal bounds the external links of one record, maxOdd the
               \* malformed blocks, records without a job and failing files, maxAltered
               \* the files with a block that was not sealed; unanchored is
               \* --allow-unanchored

VARIABLES
  scope,  \* the scope of this behaviour
  sealed, \* the job blocks of the sealed records, in order
  folder  \* the files of the folder, sorted by name

vars == <<scope, sealed, folder>>

ASSUME NoneAssumption == None \notin Jobs

Init == scope \in Scopes /\ sealed = <<>> /\ folder = <<>>

WithBlock == {n \in DOMAIN sealed : sealed[n] # None}

\* The job blocks the next record can carry, Validate holding of it or not.
\* A link is of one kind: to a record of the account or of another one.
Blocks ==
  {b \in [id : Jobs, step : Steps, previous : SUBSET (DOMAIN sealed),
          external : SUBSET (DOMAIN sealed), final : BOOLEAN, valid : BOOLEAN] :
     /\ b.previous \cap b.external = {} /\ Cardinality(b.external) <= scope.maxExternal
     /\ Cardinality({b.id} \cup {sealed[n].id : n \in WithBlock}) <= scope.maxJobs
     /\ Cardinality({b.step} \cup {sealed[n].step : n \in WithBlock}) <= scope.maxSteps}

OddBlocks == {n \in DOMAIN sealed : sealed[n] = None \/ ~sealed[n].valid}
OddFiles == {i \in DOMAIN folder : folder[i].failed}
AltersBlock(file) == file.hash \in DOMAIN sealed /\ file.job # sealed[file.hash]
Odd == Cardinality(OddBlocks) + Cardinality(OddFiles)

Seal(block) ==
  /\ Len(sealed) < scope.maxRecords
  /\ (block = None \/ ~block.valid) => Odd < scope.maxOdd
  /\ sealed' = Append(sealed, block)
  /\ UNCHANGED <<scope, folder>>

\* recordFromBundle and recordFromReceipt: a record that decodes, whether or
\* not it then verifies.
Record(n, block, fails) == [hash |-> n, job |-> block, failed |-> fails]

\* A record that does not decode.
Undecoded == [hash |-> 0, job |-> None, failed |-> TRUE]

Put(file) ==
  /\ Len(folder) < scope.maxFiles
  /\ file.failed => Odd < scope.maxOdd
  /\ scope.anyOrder \/ \A i \in DOMAIN folder : folder[i].hash < file.hash
  /\ folder' = Append(folder, file)
  /\ UNCHANGED <<scope, sealed>>

\* A record with a block that was not sealed.  It fails, unless it is a
\* receipt of no log entry and --allow-unanchored takes it.
PutAltered(n) ==
  /\ Cardinality({i \in DOMAIN folder : AltersBlock(folder[i])}) < scope.maxAltered
  /\ \E block \in Blocks \cup {None}, fails \in BOOLEAN :
       (fails \/ scope.unanchored) /\ Put(Record(n, block, fails))

Next ==
  \/ folder = <<>> /\ \E block \in Blocks \cup {None} : Seal(block)
  \/ \E n \in DOMAIN sealed, fails \in BOOLEAN : Put(Record(n, sealed[n], fails))
  \/ \E n \in DOMAIN sealed : PutAltered(n)
  \/ Put(Undecoded)

Spec == Init /\ [][Next]_vars

----------------------------------------------------------------------------
(* The verdict on a folder. *)

WithJob(f) == {i \in DOMAIN f : f[i].job # None}

External(f) == UNION {f[i].job.external : i \in WithJob(f)}

\* Mutant: the job of the first file that has one.
MainJobFirst(f) ==
  IF WithJob(f) = {} THEN None
  ELSE f[CHOOSE i \in WithJob(f) : \A j \in WithJob(f) : i <= j].job.id

\* mainJobID: the job of the first file that is no target of an external link.
MainJob(f) ==
  LET external == External(f)
      own == {i \in WithJob(f) : f[i].hash \notin external}
  IN IF own = {} THEN None ELSE f[CHOOSE i \in own : \A j \in own : i <= j].job.id

Members(f) == LET main == MainJob(f) IN {i \in WithJob(f) : f[i].job.id = main}

\* indexJob: a file that fails, has no job, or is of another job and no
\* target of an external link.
FileProblem(f) ==
  \/ \E i \in DOMAIN f : f[i].failed \/ f[i].job = None
  \/ ~({f[i].hash : i \in DOMAIN f \ Members(f)} \subseteq External(f))

\* indexJob: a malformed block, a step or a record that appears twice.
MemberProblem(f) ==
  \/ \E i \in Members(f) : ~f[i].job.valid
  \/ \E i, j \in Members(f) :
       i < j /\ (f[i].job.step = f[j].job.step \/ f[i].hash = f[j].hash)

\* byHash holds the job's own records, the last file of each hash.
Present(f) == {f[i].hash : i \in Members(f)}

BlockOf(f, h) ==
  LET same == {i \in Members(f) : f[i].hash = h}
  IN f[CHOOSE i \in same : \A j \in same : j <= i].job

Followed(f) == UNION {BlockOf(f, h).previous : h \in Present(f)}

Finals(f) == {i \in Members(f) : f[i].job.final}

\* Mutant: a link may land on any record of the folder.
MissingStepOfAnyJob(f) ==
  ~(UNION {BlockOf(f, h).previous : h \in Present(f)} \subseteq {f[i].hash : i \in DOMAIN f})

MissingStep(f) == ~(UNION {BlockOf(f, h).previous : h \in Present(f)} \subseteq Present(f))

\* Mutant: a dropped branch is looked for before there is a final step only.
DroppedBranchWhileOpen(f) ==
  Finals(f) = {} /\ \E h \in Present(f) : ~BlockOf(f, h).final /\ h \notin Followed(f)

\* Mutant: the final step is asked for a step after it too.
DroppedBranchOfFinal(f) ==
  Cardinality(Finals(f)) = 1 /\ \E h \in Present(f) : h \notin Followed(f)

DroppedBranch(f) ==
  Cardinality(Finals(f)) = 1 /\ \E h \in Present(f) : ~BlockOf(f, h).final /\ h \notin Followed(f)

\* checkJobMap.
Verdict(f) ==
  IF \/ FileProblem(f) \/ MemberProblem(f) \/ MissingStep(f)
     \/ Cardinality(Finals(f)) > 1 \/ DroppedBranch(f)
  THEN "FAILED"
  ELSE IF Cardinality(Finals(f)) = 1 THEN "COMPLETE" ELSE "OPEN"

----------------------------------------------------------------------------
(* Properties *)

\* The records a final step leads back to: in every set that holds it and
\* what its members follow.
Reaches(n, m) ==
  \A S \in SUBSET (1 .. Len(sealed)) :
    (n \in S /\ \A k \in S : sealed[k] # None => sealed[k].previous \subseteq S) => m \in S

FilesOf(f, I) ==
  LET n(i) == Cardinality({j \in I : j <= i})
  IN [k \in 1 .. Cardinality(I) |-> f[CHOOSE i \in I : n(i) = k]]

\* jobmap.go:3-8, README --job: in a complete folder every record verifies,
\* each link lands on a record of the job that is here, no step is there
\* twice, and one final step leads back to every record.  Unless unanchored
\* receipts are allowed: what they say of their job nothing binds.
CompleteIsClosed ==
  (~scope.unanchored /\ Verdict(folder) = "COMPLETE") =>
    LET own == {folder[i].hash : i \in Members(folder)}
    IN /\ \A i \in DOMAIN folder : ~folder[i].failed
       /\ \A n \in own : sealed[n].previous \subseteq own
       /\ \A n, m \in own : sealed[n].step = sealed[m].step => n = m
       /\ \E n \in own : sealed[n].final /\ \A m \in own : Reaches(n, m)

\* jobmap.go: nothing can be cut out of a complete job: two complete folders
\* closed by one final step hold the same records of its job, unless
\* unanchored receipts are allowed.
CompleteCannotBePruned ==
  (~scope.unanchored /\ Verdict(folder) = "COMPLETE") =>
    \A I \in SUBSET (DOMAIN folder) :
      LET part == FilesOf(folder, I)
      IN (Verdict(part) = "COMPLETE" /\ MainJob(part) = MainJob(folder)) =>
           Present(part) = Present(folder)

\* The verdict, and the job it is about, do not depend on how the files are
\* named, although the job is read off the first that qualifies, whatever
\* blocks the files show: two neighbours can change places.
NamesDoNotMatter ==
  \A i \in 1 .. Len(folder) - 1 :
    LET swapped == [folder EXCEPT ![i] = folder[i + 1], ![i + 1] = folder[i]]
    IN /\ Verdict(swapped) = Verdict(folder)
       /\ Verdict(folder) # "FAILED" => MainJob(swapped) = MainJob(folder)

\* The records of one job, and the records its external links name.
JobRecords(job) == {n \in DOMAIN sealed : sealed[n] # None /\ sealed[n].id = job}
Linked(job) == UNION {sealed[n].external : n \in JobRecords(job)}

\* A job that is closed and sound.
Sound(job) ==
  LET own == JobRecords(job)
  IN /\ \A n \in own : sealed[n].valid /\ sealed[n].previous \subseteq own
     /\ \A n, m \in own : sealed[n].step = sealed[m].step => n = m
     /\ \E n \in own : \A m \in own : Reaches(n, m) /\ (sealed[m].final <=> m = n)

\* README --job: the whole of a sound job is complete, and stays so with the
\* records of others its links name.  It speaks of what was sealed only.
SoundJobIsComplete ==
  \A job \in Jobs : (folder = <<>> /\ Sound(job)) =>
    LET all == [n \in DOMAIN sealed |-> Record(n, sealed[n], FALSE)]
        linked == {n \in Linked(job) : sealed[n] # None /\ sealed[n].id # job}
    IN /\ Verdict(FilesOf(all, JobRecords(job))) = "COMPLETE"
       /\ \A extra \in SUBSET linked :
            JobRecords(job) \cap UNION {sealed[n].external : n \in extra} = {} =>
              Verdict(FilesOf(all, JobRecords(job) \cup extra)) = "COMPLETE"
=============================================================================
