----------------------------- MODULE PolicyChain -----------------------------
(***************************************************************************)
(* Policy changes from the moment they are made to the verdict on a file   *)
(* of them.  The server, which is not part of this repository, keeps one   *)
(* chain of changes for each key and account, with the customer's approval *)
(* or without one, and logs each change, at once, late or never.  The file *)
(* a reader gets may lack changes, repeat, reorder or mix them, and show   *)
(* changes that nobody made.                                               *)
(***************************************************************************)
EXTENDS PolicyHistory, FiniteSets

CONSTANTS
  Policies,  \* policy texts; also the names and hashes shown for them
  ServerKey, \* the server's log-signing key
  OtherKey,  \* a log key that is not pinned
  Scopes     \* what a behaviour may hold: [relogs, maxTime, maxChanges, maxApprovals,
             \* maxLog, maxFile, maxEdits]; relogs is TRUE when the holder of the
             \* server's key logs what the file says, the rest are bounds

VARIABLES
  scope,    \* the scope of this behaviour
  now,      \* the clock, in ticks
  log,      \* the public log
  approved, \* what the customer's request key has signed
  changes,  \* the changes the server made
  file,     \* the file a reader holds
  edits     \* how many changes were made to the file

vars == <<scope, now, log, approved, changes, file, edits>>

ASSUME KeyAssumption ==
  /\ ServerKey \in PinnedKeys /\ NotBefore[ServerKey] = 0 /\ NotAfter[ServerKey] = 0
  /\ OtherKey \notin PinnedKeys
ASSUME FormAssumption == AccountForm \subseteq ChainIDs /\ None \notin ChainIDs
ASSUME ClockAssumption == Second \in Nat \ {0}
\* Both are constants of the code: ten minutes, and five of clock skew.
ASSUME WindowAssumption == EntryWindow \in Nat /\ Skew \in Nat \ {0}

Init ==
  /\ scope \in Scopes
  /\ now = Second
  /\ log = <<>>
  /\ approved = {}
  /\ changes = {}
  /\ file = <<>>
  /\ edits = 0

----------------------------------------------------------------------------
(* The server, up to the moment the file is drawn up. *)

ChangesOf(c) == {a \in changes : a.chain = c}

\* The hash the next change of chain c links to.
Tip(c) ==
  IF ChangesOf(c) = {} THEN NoPrevious
  ELSE (CHOOSE a \in ChangesOf(c) : a.seq = Cardinality(ChangesOf(c))).hash

\* PolicyActivationPreimage: what the customer's key signs.
Approve(c, doc) ==
  /\ file = <<>>
  /\ Cardinality(approved) < scope.maxApprovals
  /\ approved' = approved \cup {[chain |-> c, doc |-> doc, previous |-> Tip(c)]}
  /\ UNCHANGED <<scope, now, log, changes, file, edits>>

Hashed(a) == [a EXCEPT !.hash = ActivationHash(a)]

Activate(c, doc, sig) ==
  /\ file = <<>>
  /\ Cardinality(changes) < scope.maxChanges
  /\ sig # None => sig = [chain |-> c, doc |-> doc, previous |-> Tip(c)]
  /\ changes' = changes \cup
       {Hashed([chain |-> c, seq |-> Cardinality(ChangesOf(c)) + 1, previous |-> Tip(c),
                policy |-> doc, doc |-> doc, at |-> now, sig |-> sig, hash |-> None,
                anchor |-> None])}
  /\ UNCHANGED <<scope, now, log, approved, file, edits>>

LogEntry(leaf, key) ==
  /\ Len(log) < scope.maxLog
  /\ log' = Append(log, [leaf |-> leaf, signer |-> key, time |-> now \div Second])

\* An anchor of change a that names entry e.
AnchorTo(a, number, e) ==
  [onLog |-> TRUE, kind |-> "policy_activation", hash |-> a.hash, leaf |-> e.leaf,
   number |-> number, signer |-> e.signer, time |-> e.time]

LogChange(a) ==
  /\ file = <<>>
  /\ a.anchor = None
  /\ LogEntry(ActivationLeaf(a), ServerKey)
  /\ changes' = (changes \ {a}) \cup
       {[a EXCEPT !.anchor = AnchorTo(a, Len(log) + 1, log'[Len(log) + 1])]}
  /\ UNCHANGED <<scope, now, approved, file, edits>>

Tick ==
  /\ file = <<>>
  /\ now < scope.maxTime
  /\ now' = now + 1
  /\ UNCHANGED <<scope, log, approved, changes, file, edits>>

----------------------------------------------------------------------------
(* The file a reader holds. *)

\* The next change of the file: any the server made, in any order.
Copy(a) ==
  /\ Len(file) < scope.maxFile
  /\ file' = Append(file, a)
  /\ UNCHANGED <<scope, now, log, approved, changes, edits>>

\* An entry for a change the file shows, under another key, or under the
\* server's by whoever holds it; the file then names that entry.
LogAgain(i) ==
  /\ \E key \in {OtherKey} \cup (IF scope.relogs THEN {ServerKey} ELSE {}) :
       LogEntry(ActivationLeaf(file[i]), key)
  /\ file' = [file EXCEPT ![i].anchor = AnchorTo(file[i], Len(log) + 1, log'[Len(log) + 1])]
  /\ UNCHANGED <<scope, now, approved, changes, edits>>

Change(i, a) ==
  /\ edits < scope.maxEdits
  /\ a # file[i]
  /\ file' = [file EXCEPT ![i] = a]
  /\ edits' = edits + 1
  /\ UNCHANGED <<scope, now, log, approved, changes>>

\* A changed field, with the hash as it was or made to fit.
ChangeField(i, a) == Change(i, a) \/ Change(i, Hashed(a))

Signatures == approved \cup {None}

ChangeActivation(i) ==
  LET a == file[i]
  IN \/ \E v \in ChainIDs : ChangeField(i, [a EXCEPT !.chain = v])
     \/ \E v \in 1 .. scope.maxFile : ChangeField(i, [a EXCEPT !.seq = v])
     \/ \E v \in {b.hash : b \in changes} \cup {NoPrevious} :
          ChangeField(i, [a EXCEPT !.previous = v])
     \/ \E v \in Policies : ChangeField(i, [a EXCEPT !.policy = v])
     \/ \E v \in Policies : ChangeField(i, [a EXCEPT !.doc = v])
     \/ \E v \in Second .. now : ChangeField(i, [a EXCEPT !.at = v])
     \/ \E v \in Signatures : ChangeField(i, [a EXCEPT !.sig = v])

ChangeAnchor(i) ==
  LET a == file[i]
  IN \/ Change(i, [a EXCEPT !.anchor = None])
     \/ a.anchor # None /\ Change(i, [a EXCEPT !.anchor.onLog = FALSE])
     \/ \E n \in DOMAIN log : Change(i, [a EXCEPT !.anchor = AnchorTo(a, n, log[n])])

Next ==
  \/ \E c \in ChainIDs, doc \in Policies : Approve(c, doc)
  \/ \E c \in ChainIDs, doc \in Policies, sig \in Signatures : Activate(c, doc, sig)
  \/ \E a \in changes : LogChange(a) \/ Copy(a)
  \/ Tick
  \/ \E i \in DOMAIN file : LogAgain(i) \/ ChangeActivation(i) \/ ChangeAnchor(i)

Spec == Init /\ [][Next]_vars

----------------------------------------------------------------------------
(* Properties *)

\* README --policy-history: a change that was removed, reordered or
\* rewritten fails: while only the server logs under its key, an accepted file shows the first changes of one chain,
\* each as it was made.
AcceptedHistoryIsPrefix ==
  (~scope.relogs /\ HistoryHolds(file, log)) =>
    \E c \in ChainIDs : \A i \in DOMAIN file : \E a \in changes :
      /\ a.chain = c /\ a.seq = i
      /\ [file[i] EXCEPT !.anchor = None] = [a EXCEPT !.anchor = None]

\* policy_activation.go: loosening a policy, doing a run and restoring it
\* leaves records anyone can read: a history that shows the change a run
\* names shows every change made before it, even one drawn up by the holder
\* of the server's key.
NamedChangeShowsAllBefore ==
  \A a, b \in changes :
    (b.chain = a.chain /\ b.seq < a.seq /\ NamedIn(file, log, a.hash)) =>
      NamedIn(file, log, b.hash)

\* policy_activation.go: a signature cannot be replayed on another key,
\* another policy or another point in the chain, by anybody.
SignedChangeIsApproved ==
  HistoryHolds(file, log) =>
    \A i \in DOMAIN file : file[i].sig # None =>
      [chain |-> file[i].chain, doc |-> file[i].doc, previous |-> file[i].previous] \in approved

\* README --account-policy-history: every change must belong to the account
\* the record names.  A history accepted with a record that seals a change of
\* the server's is that of the account whose change it is: up to that change
\* it is what the server did for the account, and no change made for a key or
\* for another account is in it, whoever drew it up.  While only the server
\* logs under its key, an account's accepted history that shows the change is
\* accepted with the record.
AccountHistoryIsTheAccounts ==
  \A a \in changes, account \in ChainIDs \cup {None} : NamedIn(file, log, a.hash) =>
    LET own == account \in AccountForm /\ a.chain = account
    IN /\ AccountHistoryHolds(file, log, account, a.hash) =>
            /\ own
            /\ \A i \in 1 .. a.seq : \E b \in ChangesOf(account) :
                 [file[i] EXCEPT !.anchor = None] = [b EXCEPT !.anchor = None]
            /\ \A b \in changes \ ChangesOf(account) : ~NamedIn(file, log, b.hash)
       /\ (~scope.relogs /\ own) => AccountHistoryHolds(file, log, account, a.hash)

\* The first changes of a chain verify for good when each was logged in its
\* window, and no history shows a change that was logged later or never.
\* It speaks of the changes, not of a file made from them.
HonestHistoryVerifies == file = <<>> =>
  \A c \in ChainIDs : \A k \in 1 .. Cardinality(ChangesOf(c)) :
    LET first == [i \in 1 .. k |-> CHOOSE a \in ChangesOf(c) : a.seq = i]
    IN HistoryHolds(first, log) <=>
         \A i \in 1 .. k :
           /\ first[i].anchor # None
           /\ first[i].anchor.time * Second <= first[i].at + EntryWindow * Second
=============================================================================
