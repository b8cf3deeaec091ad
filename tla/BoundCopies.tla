---------------------------- MODULE BoundCopies ----------------------------
(***************************************************************************)
(* The values a record stores more than once.  A record is a value per     *)
(* field and a sequence of values per list; a path is a field, or an item  *)
(* of a list.  The groups themselves are constants: each names its paths,  *)
(* the condition under which each path is read, and its gates, the fields  *)
(* whose value switches it off.                                            *)
(***************************************************************************)
EXTENDS Naturals, Sequences

CONSTANTS
  CopyGroups, \* set of [reads: path -> condition, gates: set of gates]
  ListGroups, \* set of [lists: set of lists, extras: item number -> paths]
  Absent      \* a path the record does not carry

\* A field's path, and the path of item i of a list.
Field(f) == [at |-> f, item |-> 0]
Item(l, i) == [at |-> l, item |-> i]

\* Lists are absent as a whole with the section that holds them.
ValueAt(r, p) ==
  IF p.item = 0 THEN r.at[p.at]
  ELSE IF r.lists[p.at] # Absent /\ p.item \in DOMAIN r.lists[p.at]
       THEN r.lists[p.at][p.item] ELSE Absent

\* A condition maps fields to the values that meet it: the gates' active
\* functions and the groups' own (whenCarried, hasVerificationBlock ...).
Meets(condition, r) == \A f \in DOMAIN condition : r.at[f] \in condition[f]

\* anchoredOutside: the times no window holds, for the generations that
\* wrote a pair of copies differently.
OutsideWindows(windows, times) ==
  {t \in times : \A w \in windows : t < w.from \/ t > w.to}

\* The paths of a group the record carries and the group reads.
Carried(g, r) ==
  {p \in DOMAIN g.reads : Meets(g.reads[p], r) /\ ValueAt(r, p) # Absent}

\* verifyBoundCopies, without its wording.
CopiesAgree(r) ==
  /\ \A g \in CopyGroups : \A p, q \in Carried(g, r) : ValueAt(r, p) = ValueAt(r, q)
  /\ \A g \in ListGroups : \A l, m \in g.lists :
       (r.lists[l] # Absent /\ r.lists[m] # Absent) => r.lists[l] = r.lists[m]

\* The groups a path is in, and the other paths of those groups.
GroupsOf(p) == {g \in CopyGroups : p \in DOMAIN g.reads}
Peers(p) == (UNION {DOMAIN g.reads : g \in GroupsOf(p)}) \ {p}
=============================================================================
