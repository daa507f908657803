---------------------- MODULE FeedbackPublicationProofs ----------------------
(* Review feedback is published once, told truly, and over no commit that its *)
(* Agent was not given, for any number of threads, commits, invocations,      *)
(* faults and other people, whatever history the Agent makes.                 *)
EXTENDS FeedbackPublication, SequenceTheorems, FiniteSetTheorems, WellFoundedInduction, TLAPS

-----------------------------------------------------------------------------
(* Commits by the number of their parent, and what they stand on: Below says *)
(* what the recursive Ancestors says, without recursion.                     *)

\* A set of natural numbers has a least one.
LEMMA Least ==
  ASSUME NEW S \in SUBSET Nat, S # {}
  PROVE  \E n \in S : \A m \in S : n <= m
<1> DEFINE R == OpToRel(<, Nat)
<1>1. IsWellFoundedOn(R, Nat)
  BY NatLessThanWellFounded
<1>2. \A x, y \in Nat : x < y => <<x, y>> \in R
  BY DEF OpToRel
<1> HIDE DEF R
<1>3. PICK n \in S : \A m \in S : <<m, n>> \notin R
  BY <1>1, WFMin
<1>4. n \in Nat /\ \A m \in S : m \in Nat /\ ~(m < n)
  BY <1>2, <1>3
<1>5. \A m \in S : n <= m
  BY <1>4
<1> QED
  BY <1>5

IsTree(par) == par \in Seq(Nat) /\ \A k \in 1..Len(par) : par[k] \in 0..(k - 1)
ClosedIn(par, S) == \A k \in S : k \in 1..Len(par) => par[k] \in S
Below(par, c) ==
  {j \in 1..Len(par) : \A S \in SUBSET (0..Len(par)) : c \in S /\ ClosedIn(par, S) => j \in S}

\* What a commit stands on is itself and what its parent stands on.
LEMMA BelowIsRecursive ==
  ASSUME NEW par, IsTree(par), NEW c \in 0..Len(par)
  PROVE  Below(par, c) = IF c = 0 THEN {} ELSE {c} \cup Below(par, par[c])
<1> USE DEF IsTree
<1>0. Len(par) \in Nat
  BY LenProperties
<1>1. CASE c = 0
  <2>1. {0} \in SUBSET (0..Len(par)) /\ c \in {0} /\ ClosedIn(par, {0})
    BY <1>0, <1>1 DEF ClosedIn
  <2>2. \A j \in Below(par, 0) : j \in 1..Len(par) /\ j \in {0}
    BY <1>1, <2>1 DEF Below
  <2> QED
    BY <1>0, <1>1, <2>2
<1>2. CASE c # 0
  <2>0. c \in 1..Len(par) /\ par[c] \in 0..(c - 1)
    BY <1>0, <1>2
  <2>1. ASSUME NEW j \in Below(par, c), j # c PROVE j \in Below(par, par[c])
    <3> SUFFICES ASSUME NEW S \in SUBSET (0..Len(par)), par[c] \in S, ClosedIn(par, S) PROVE j \in S
      BY <2>1 DEF Below
    <3>1. S \cup {c} \in SUBSET (0..Len(par)) /\ ClosedIn(par, S \cup {c})
      BY DEF ClosedIn
    <3> QED
      BY <2>1, <3>1 DEF Below
  <2>2. ASSUME NEW j \in Below(par, par[c]) PROVE j \in Below(par, c)
    BY <2>0 DEF Below, ClosedIn
  <2>3. c \in Below(par, c)
    BY <2>0 DEF Below
  <2> QED
    BY <1>2, <2>1, <2>2, <2>3
<1> QED
  BY <1>1, <1>2

\* Ancestors, of any tree.
AncestorsIn(par, c) ==
  LET older[k \in 0..Len(par)] == IF k = 0 THEN {} ELSE {k} \cup older[par[k]]
  IN older[c]

\* The recursion over parents computes it.
LEMMA AncestorsAreBelow ==
  ASSUME NEW par, IsTree(par), NEW c \in 0..Len(par)
  PROVE  AncestorsIn(par, c) = Below(par, c)
<1> DEFINE F(g) == [k \in 0..Len(par) |-> IF k = 0 THEN {} ELSE {k} \cup g[par[k]]]
           below == [k \in 0..Len(par) |-> Below(par, k)]
           older[k \in 0..Len(par)] == IF k = 0 THEN {} ELSE {k} \cup older[par[k]]
<1>0. Len(par) \in Nat /\ \A k \in 0..Len(par) : k # 0 => par[k] \in 0..Len(par)
  BY LenProperties DEF IsTree
<1>1. below = F(below)
  <2>1. \A k \in 0..Len(par) : Below(par, k) = IF k = 0 THEN {} ELSE {k} \cup below[par[k]]
    BY <1>0, BelowIsRecursive
  <2> QED
    BY <2>1
<1>2. older = F(older)
  <2>1. older = CHOOSE g : g = F(g)
    OBVIOUS
  <2> HIDE DEF F, below, older
  <2> QED
    BY <1>1, <2>1
<1> HIDE DEF older, below
<1>5. \A k \in 0..Len(par) : below[k] = IF k = 0 THEN {} ELSE {k} \cup below[par[k]]
  BY <1>1
<1>6. \A k \in 0..Len(par) : older[k] = IF k = 0 THEN {} ELSE {k} \cup older[par[k]]
  BY <1>2
<1> HIDE DEF F
<1>3. \A k \in 0..Len(par) : older[k] = below[k]
  <2> DEFINE Differ == {k \in 0..Len(par) : older[k] # below[k]}
  <2> SUFFICES ASSUME Differ # {} PROVE FALSE
    OBVIOUS
  <2>0. Differ \in SUBSET Nat
    BY <1>0
  <2>1. PICK n \in Differ : \A m \in Differ : n <= m
    <3> HIDE DEF Differ
    <3> QED
      BY <2>0, Least
  <2>2. n # 0
    BY <1>5, <1>6, <2>1
  <2>3. par[n] \in 0..(n - 1) /\ n \in 0..Len(par)
    BY <1>0, <2>1, <2>2 DEF IsTree
  <2>4. older[par[n]] = below[par[n]]
    BY <1>0, <2>1, <2>3
  <2> QED
    BY <1>5, <1>6, <2>1, <2>2, <2>3, <2>4
<1>4. AncestorsIn(par, c) = older[c]
  BY DEF AncestorsIn, older
<1> QED
  BY <1>3, <1>4 DEF below

\* Whatever a commit stands on stands on what that stands on.
LEMMA BelowIsTransitive ==
  ASSUME NEW par, NEW c, NEW k \in Below(par, c)
  PROVE  Below(par, k) \subseteq Below(par, c)
BY DEF Below

\* New commits change nothing below the ones that were there.
LEMMA BelowIsKept ==
  ASSUME NEW par, NEW new, IsTree(par), IsTree(new), Len(par) <= Len(new),
         \A k \in 1..Len(par) : new[k] = par[k], NEW c \in 0..Len(par)
  PROVE  Below(new, c) = Below(par, c)
<1>0. Len(par) \in Nat /\ Len(new) \in Nat /\ \A k \in 1..Len(par) : par[k] \in 0..(k - 1)
  BY LenProperties DEF IsTree
<1>1. ASSUME NEW j \in Below(par, c) PROVE j \in Below(new, c)
  <2> SUFFICES ASSUME NEW S \in SUBSET (0..Len(new)), c \in S, ClosedIn(new, S) PROVE j \in S
    BY <1>0 DEF Below
  <2> DEFINE T == S \cap (0..Len(par))
  <2>1. T \in SUBSET (0..Len(par)) /\ c \in T
    OBVIOUS
  <2>2. ClosedIn(par, T)
    BY <1>0 DEF ClosedIn
  <2> HIDE DEF T
  <2>3. j \in T
    BY <1>1, <2>1, <2>2 DEF Below
  <2> QED
    BY <2>3 DEF T
<1>2. ASSUME NEW j \in Below(new, c) PROVE j \in Below(par, c)
  <2>1. ASSUME NEW S \in SUBSET (0..Len(par)), c \in S, ClosedIn(par, S) PROVE j \in S
    <3>1. S \in SUBSET (0..Len(new))
      BY <1>0
    <3>2. ClosedIn(new, S)
      BY <1>0, <2>1 DEF ClosedIn
    <3>3. \A T \in SUBSET (0..Len(new)) : c \in T /\ ClosedIn(new, T) => j \in T
      BY <1>2 DEF Below
    <3> QED
      BY <2>1, <3>1, <3>2, <3>3
  <2>2. (0..Len(par)) \in SUBSET (0..Len(par)) /\ ClosedIn(par, 0..Len(par))
    BY <1>0 DEF ClosedIn
  <2>3. j \in 0..Len(par)
    BY <2>1, <2>2
  <2>4. j \in 1..Len(new)
    BY <1>2 DEF Below
  <2>5. j \in 1..Len(par)
    BY <1>0, <2>3, <2>4
  <2> QED
    BY <2>1, <2>5 DEF Below
<1> QED
  BY <1>1, <1>2

-----------------------------------------------------------------------------
(* The inductive invariant.                                                *)

Places == {"idle", "read", "select", "claim", "implement", "check", "push", "threads",
           "converge", "recheck", "reply", "readBack", "done"}
Results == {"none", "implemented", "refused", "blocked"}
Proofs == [base : Nat, post : Nat, root : Roots \cup {NoRoot}]
Ops(n) ==
  [at : Places, reconcile : BOOLEAN, auth : Proofs, pre : 0..n, root : Roots \cup {NoRoot},
   post : 0..n, known : BOOLEAN, reads : 0..(Attempts - 1), limited : BOOLEAN, result : Results,
   revision : 0..n]
Publications(n) ==
  [pre : 0..n, post : 1..n, root : Roots \cup {NoRoot}, answered : BOOLEAN, by : Nat]

\* The commits are a tree; what is shown was once there.
Tree == parent \in Seq(Nat) /\ \A k \in Revisions : parent[k] \in 0..(k - 1)
Branch == {head, shown} \subseteq heads /\ heads \subseteq Revisions /\ others \subseteq Revisions
Threads ==
  /\ unresolved \subseteq Roots /\ visible \subseteq replies
  /\ replies \subseteq Replies(Len(parent)) /\ IsFiniteSet(replies)
Shape ==
  /\ Tree /\ Branch /\ Threads
  /\ op \in Ops(Len(parent)) /\ published \subseteq Publications(Len(parent))
  /\ {invocations, faults, interventions} \subseteq Nat

\* An invocation past its selection has a thread.
Rooted == op.at \notin {"idle", "read", "select", "done"} => op.root \in Roots

\* What the invocation read was the head; what the Agent left is a revision, and
\* once it is delivered it was the head too.
Acquired == op.at \in {"select", "claim", "implement"} => op.pre \in heads
Made == op.at \in {"check", "push"} => op.post \in Revisions
Delivered ==
  op.at \in {"threads", "converge", "recheck", "reply", "readBack"} => op.known /\ op.post \in heads

\* An invocation that did not get past its push published nothing.
Early == {"read", "select", "claim", "implement", "check", "push"}
Unpublished ==
  /\ \A p \in published : p.by <= invocations
  /\ op.at \in Early => \A p \in published : p.by # invocations

\* An answered push is known to its invocation, which tells it when it ends.
Told ==
  /\ op.at # "idle" =>
       \A p \in published : p.answered /\ p.by = invocations => op.known /\ p.post = op.post
  /\ op.result # "none" => op.at = "done"
  /\ op.result = "blocked" => op.revision = Tells

\* Until an invocation replies, it sees every reply of the orchestrator, and
\* when it replies, its thread has none.
Seen ==
  op.at \notin {"idle", "readBack", "done"} => \A r \in replies : Marked(r) => r \in visible
Unanswered ==
  op.at = "reply" => \A r \in replies : r.root = op.root => ~Marked(r)
Single ==
  \A r, t \in replies : Marked(r) /\ Marked(t) /\ r.root = t.root => r = t

IInv ==
  /\ Shape /\ Rooted /\ Acquired /\ Made /\ Delivered /\ Unpublished /\ Told
  /\ Seen /\ Unanswered /\ Single

-----------------------------------------------------------------------------
(* Commits and what they stand on.                                         *)

\* A tree with more commits.
Extends(new) == IsTree(new) /\ Len(parent) <= Len(new) /\ \A k \in Revisions : new[k] = parent[k]

\* What was an ancestor stays one, and nothing else becomes one.
LEMMA AncestorsAreKept ==
  ASSUME IsTree(parent), NEW new, Extends(new), NEW c \in 0..Len(parent)
  PROVE  AncestorsIn(new, c) = AncestorsIn(parent, c)
<1>1. AncestorsIn(parent, c) = Below(parent, c)
  BY AncestorsAreBelow
<1>2. Below(new, c) = Below(parent, c)
  BY BelowIsKept DEF Extends, Revisions
<1>3. IsTree(new) /\ c \in 0..Len(new)
  BY LenProperties DEF Extends, IsTree
<1>4. AncestorsIn(new, c) = Below(new, c)
  BY <1>3, AncestorsAreBelow
<1> QED
  BY <1>1, <1>2, <1>4

\* A chain of new commits, on whatever it stands, leaves the older ones as they were.
LEMMA ChainExtends ==
  ASSUME IsTree(parent), NEW base \in 0..Len(parent), NEW n \in Nat, NEW new,
         new = parent \o [k \in 1..n |-> IF k = 1 THEN base ELSE Len(parent) + k - 1]
  PROVE  Extends(new) /\ Len(new) = Len(parent) + n
<1> DEFINE chain == [k \in 1..n |-> IF k = 1 THEN base ELSE Len(parent) + k - 1]
<1>0. Len(parent) \in Nat /\ parent \in Seq(Nat) /\ base \in 0..Len(parent)
  BY LenProperties DEF IsTree
<1>1. chain \in Seq(Nat) /\ Len(chain) = n /\ \A k \in 1..n : chain[k] = IF k = 1 THEN base ELSE Len(parent) + k - 1
  BY <1>0, IsASeq
<1> HIDE DEF chain
<1>2. /\ new \in Seq(Nat) /\ Len(new) = Len(parent) + n
      /\ \A k \in 1..Len(new) : new[k] = IF k <= Len(parent) THEN parent[k] ELSE chain[k - Len(parent)]
  BY <1>0, <1>1, ConcatProperties DEF chain
<1>3. IsTree(new)
  <2>1. ASSUME NEW k \in 1..Len(new), k <= Len(parent) PROVE new[k] \in 0..(k - 1)
    BY <1>0, <1>2, <2>1 DEF IsTree
  <2>2. ASSUME NEW k \in 1..Len(new), ~(k <= Len(parent)) PROVE new[k] \in 0..(k - 1)
    <3>1. k - Len(parent) \in 1..n
      BY <1>0, <1>2, <2>2
    <3> QED
      BY <1>0, <1>1, <1>2, <2>2, <3>1
  <2> QED
    BY <1>2, <2>1, <2>2 DEF IsTree
<1>4. Extends(new)
  BY <1>0, <1>2, <1>3 DEF Extends, Revisions
<1> QED
  BY <1>2, <1>4

LEMMA AppendExtends ==
  ASSUME IsTree(parent), NEW base \in 0..Len(parent), NEW new, new = Append(parent, base)
  PROVE  Extends(new) /\ Len(new) = Len(parent) + 1
<1>0. Len(parent) \in Nat /\ parent \in Seq(Nat) /\ base \in Nat
  BY LenProperties DEF IsTree
<1>1. /\ new \in Seq(Nat) /\ Len(new) = Len(parent) + 1
      /\ \A k \in 1..Len(parent) : new[k] = parent[k]
      /\ new[Len(parent) + 1] = base
  BY <1>0, AppendProperties
<1>2. IsTree(new)
  BY <1>0, <1>1 DEF IsTree
<1> QED
  BY <1>0, <1>1, <1>2 DEF Extends, Revisions

\* An ancestor of a revision is a revision that is no younger.
LEMMA AncestorsAreRevisions ==
  ASSUME IsTree(parent), NEW c \in 0..Len(parent)
  PROVE  Ancestors(c) \subseteq Revisions
<1>1. Ancestors(c) = Below(parent, c)
  BY AncestorsAreBelow DEF Ancestors, AncestorsIn
<1> QED
  BY <1>1 DEF Below, Revisions
-----------------------------------------------------------------------------
(* What the invocation remembers keeps its type.                           *)

LEMMA OpsGrow ==
  ASSUME NEW n \in Nat, NEW m \in Nat, n <= m
  PROVE  /\ Ops(n) \subseteq Ops(m) /\ Publications(n) \subseteq Publications(m)
         /\ Replies(n) \subseteq Replies(m)
<1>1. 0..n \subseteq 0..m /\ 1..n \subseteq 1..m
  OBVIOUS
<1>2. Ops(n) \subseteq Ops(m)
  BY <1>1, Zenon DEF Ops
<1>3. Publications(n) \subseteq Publications(m)
  BY <1>1, Zenon DEF Publications
<1>4. Replies(n) \subseteq Replies(m)
  BY <1>1, Zenon DEF Replies
<1> QED
  BY <1>2, <1>3, <1>4

LEMMA OpsUpdates ==
  ASSUME NEW n \in Nat, NEW o \in Ops(n), NEW a \in Places, NEW c \in 0..n, NEW d \in 0..n,
         NEW r \in Results, NEW t \in Roots \cup {NoRoot}, NEW k \in 0..(Attempts - 1)
  PROVE  /\ [o EXCEPT !.at = a] \in Ops(n)
         /\ [o EXCEPT !.at = a, !.pre = c] \in Ops(n)
         /\ [o EXCEPT !.at = a, !.post = c] \in Ops(n)
         /\ [o EXCEPT !.at = a, !.root = t] \in Ops(n)
         /\ [o EXCEPT !.at = a, !.known = TRUE] \in Ops(n)
         /\ [o EXCEPT !.at = a, !.reads = k, !.limited = FALSE] \in Ops(n)
         /\ [o EXCEPT !.at = a, !.root = t, !.post = c, !.pre = d, !.known = TRUE] \in Ops(n)
         /\ [o EXCEPT !.at = a, !.result = r, !.revision = c] \in Ops(n)
         /\ [o EXCEPT !.reads = k] \in Ops(n)
         /\ [o EXCEPT !.limited = TRUE] \in Ops(n)
<1> USE DEF Ops
<1>1. [o EXCEPT !.at = a] \in Ops(n)
  BY Zenon
<1>2. [o EXCEPT !.at = a, !.pre = c] \in Ops(n)
  BY Zenon
<1>3. [o EXCEPT !.at = a, !.post = c] \in Ops(n)
  BY Zenon
<1>4. [o EXCEPT !.at = a, !.root = t] \in Ops(n)
  BY Zenon
<1>5. [o EXCEPT !.at = a, !.known = TRUE] \in Ops(n)
  BY Zenon
<1>6. [o EXCEPT !.at = a, !.reads = k, !.limited = FALSE] \in Ops(n)
  BY Zenon
<1>7. [o EXCEPT !.at = a, !.root = t, !.post = c, !.pre = d, !.known = TRUE] \in Ops(n)
  BY Zenon
<1>8. [o EXCEPT !.at = a, !.result = r, !.revision = c] \in Ops(n)
  BY Zenon
<1>9. [o EXCEPT !.reads = k] \in Ops(n) /\ [o EXCEPT !.limited = TRUE] \in Ops(n)
  BY Zenon
<1> QED
  BY <1>1, <1>2, <1>3, <1>4, <1>5, <1>6, <1>7, <1>8, <1>9
-----------------------------------------------------------------------------
(* Every step keeps the invariant.                                         *)

LEMMA InitInv == Init => IInv
<1> SUFFICES ASSUME Init PROVE IInv
  OBVIOUS
<1>1. parent \in Seq(Nat) /\ Len(parent) = 1 /\ parent[1] = 0
  BY DEF Init
<1>2. Tree /\ Branch
  BY <1>1 DEF Init, Tree, Branch, Revisions
<1>3. Threads
  BY FS_EmptySet DEF Init, Threads
<1>4. NoAuthorization \in Proofs
  BY DEF NoAuthorization, Proofs, NoRevision, NoRoot
<1>5. op \in Ops(Len(parent))
  <2>1. 0 \in 0..(Attempts - 1) /\ 0 \in 0..Len(parent)
    BY <1>1, BoundsAssumption
  <2> QED
    BY <1>4, <2>1 DEF Init, Idle, Ops, NoRevision, NoRoot, Places, Results
<1> QED
  BY <1>2, <1>3, <1>5 DEF Init, Idle, IInv, Shape, Rooted, Acquired, Made, Delivered, Unpublished, Told, Seen, Unanswered, Single,
     Tells, NoRevision

\* The parts of an invocation's record.
LEMMA OpParts ==
  ASSUME Shape
  PROVE  /\ op.at \in Places /\ op.pre \in 0..Len(parent) /\ op.post \in 0..Len(parent)
         /\ op.root \in Roots \cup {NoRoot} /\ op.reads \in 0..(Attempts - 1)
         /\ Tells \in 0..Len(parent) /\ op.result \in Results /\ op.revision \in 0..Len(parent)
         /\ Len(parent) \in Nat /\ IsTree(parent)
<1>1. parent \in Seq(Nat) /\ Len(parent) \in Nat
  BY LenProperties DEF Shape, Tree
<1>2. op \in Ops(Len(parent))
  BY DEF Shape
<1>3. op.post \in 0..Len(parent)
  BY <1>2 DEF Ops
<1> QED
  BY <1>1, <1>2, <1>3 DEF Shape, Tree, Ops, IsTree, Revisions, Tells, NoRevision

\* Steps that change the invocation alone.
LEMMA OpShape ==
  ASSUME Shape, UNCHANGED <<branch, threads, published>>, op' \in Ops(Len(parent)),
         {invocations', faults', interventions'} \subseteq Nat
  PROVE  Shape'
BY DEF Shape, Tree, Branch, Threads, Revisions, branch, threads

LEMMA EndsInv ==
  ASSUME IInv, NEW result \in Results, NEW revision, Ends(result, revision),
         result = "blocked" => revision = Tells, Shape', Single',
         \A p \in published' : /\ p.by <= invocations'
                               /\ p.answered /\ p.by = invocations' => op.known /\ p.post = op.post
  PROVE  IInv'
<1>1. op \in Ops(Len(parent))
  BY DEF IInv, Shape
<1>2. /\ op'.at = "done" /\ op'.result = result /\ op'.revision = revision
      /\ op'.known = op.known /\ op'.post = op.post
  BY <1>1 DEF Ends, Ops
<1>3. Tells' = Tells
  BY <1>2 DEF Tells
<1>4. Unpublished' /\ Told'
  BY <1>2, <1>3 DEF Unpublished, Early, Told
<1> QED
  BY <1>2, <1>4 DEF IInv, Rooted, Acquired, Made, Delivered, Seen, Unanswered

\* An invocation that ends without changing anything.
Still == UNCHANGED <<branch, threads, published, invocations, interventions>>

LEMMA StillEnds ==
  ASSUME IInv, Still, op.at # "idle", faults' \in Nat, NEW result \in Results, NEW revision \in 0..Len(parent),
         Ends(result, revision), result = "blocked" => revision = Tells
  PROVE  IInv'
<1>1. op' \in Ops(Len(parent))
  BY OpParts, OpsUpdates DEF IInv, Shape, Ends, Places
<1>2. Shape'
  BY <1>1, OpShape DEF IInv, Shape, Still
<1>3. Single'
  BY DEF Still, IInv, Single, threads
<1>4. \A p \in published' : /\ p.by <= invocations'
                            /\ p.answered /\ p.by = invocations' => op.known /\ p.post = op.post
  BY DEF Still, IInv, Unpublished, Told
<1> QED
  BY <1>2, <1>3, <1>4, EndsInv

LEMMA StillBlocked ==
  ASSUME IInv, Still, op.at # "idle", faults' \in Nat, Blocked
  PROVE  IInv'
BY StillEnds, OpParts DEF Blocked, IInv, Results

\* Faults and other bounds stay numbers.
LEMMA FaultsTyped ==
  ASSUME IInv, Works \/ Fails
  PROVE  faults' \in Nat
BY DEF IInv, Shape, Works, Fails
\* An invocation that goes on, with what its next place asks for.
LEMMA StillGoes ==
  ASSUME IInv, Still, faults' \in Nat, op.at \notin {"idle", "readBack", "done"},
         op' \in Ops(Len(parent)), op'.result = op.result, op'.at # "done",
         op'.known \in {op.known, TRUE}, op.at \in Early \/ op'.post = op.post,
         op'.at \in Early => op.at \in Early,
         (Rooted /\ Acquired /\ Made /\ Delivered /\ Unanswered)'
  PROVE  IInv'
<1>1. Shape'
  BY OpShape DEF IInv, Shape, Still
<1>2. Unpublished'
  BY DEF IInv, Unpublished, Still
<1>3. Told'
  BY DEF IInv, Unpublished, Told, Still, Tells
<1>4. Seen' /\ Single'
  BY DEF IInv, Seen, Single, Still, threads
<1> QED
  BY <1>1, <1>2, <1>3, <1>4 DEF IInv

LEMMA ReadPullRequestInv == IInv /\ ReadPullRequest => IInv'
<1> SUFFICES ASSUME IInv, ReadPullRequest PROVE IInv'
  OBVIOUS
<1>1. Still /\ faults' \in Nat /\ op.at = "read"
  BY FaultsTyped DEF ReadPullRequest, Op, UnchangedBranch, Still, branch
<1>2. CASE Blocked
  BY <1>1, <1>2, StillBlocked
<1>3. CASE op' = [op EXCEPT !.at = "select", !.pre = shown]
  <2>0. op \in Ops(Len(parent)) /\ shown \in heads /\ shown \in 1..Len(parent) /\ Len(parent) \in Nat
    BY OpParts DEF IInv, Shape, Branch, Revisions
  <2>1. op \in Ops(Len(parent)) /\ shown \in heads /\ shown \in 0..Len(parent)
    BY <2>0
  <2>2. op' \in Ops(Len(parent))
    BY <1>3, <2>1, OpParts, OpsUpdates DEF IInv, Places
  <2>3. op'.at = "select" /\ op'.pre = shown /\ op'.result = op.result /\ op'.known = op.known /\ op'.post = op.post
    BY <1>3, <2>1 DEF Ops
  <2>4. (Rooted /\ Acquired /\ Made /\ Delivered /\ Unanswered)'
    BY <1>1, <2>1, <2>3 DEF Rooted, Acquired, Made, Delivered, Unanswered, Still, branch
  <2> QED
    BY <1>1, <2>2, <2>3, <2>4, StillGoes DEF Early
<1> QED
  BY <1>2, <1>3 DEF ReadPullRequest

LEMMA SelectInv == IInv /\ Select => IInv'
<1> SUFFICES ASSUME IInv, Select PROVE IInv'
  OBVIOUS
<1>1. Still /\ faults' \in Nat /\ op.at = "select"
  BY FaultsTyped DEF Select, Op, UnchangedBranch, Still, branch
<1>2. op \in Ops(Len(parent)) /\ op.pre \in heads /\ op.pre \in 1..Len(parent) /\ Len(parent) \in Nat
  BY <1>1, OpParts DEF IInv, Shape, Acquired, Branch, Revisions
<1>3. CASE Blocked
  BY <1>1, <1>3, StillBlocked
<1>4. ASSUME NEW root \in Roots, Decide(root) PROVE IInv'
  <2>1. CASE Ends("implemented", op.pre)
    BY <1>1, <1>2, <2>1, StillEnds DEF Results
  <2>2. CASE op' = [op EXCEPT !.at = "claim", !.root = root]
    <3>1. op' \in Ops(Len(parent))
      BY <1>2, <2>2, OpParts, OpsUpdates DEF IInv, Places
    <3>2. op'.at = "claim" /\ op'.root = root /\ op'.pre = op.pre /\ op'.result = op.result /\ op'.known = op.known /\ op'.post = op.post
      BY <1>2, <2>2 DEF Ops
    <3>3. (Rooted /\ Acquired /\ Made /\ Delivered /\ Unanswered)'
      BY <1>1, <1>2, <3>2 DEF Rooted, Acquired, Made, Delivered, Unanswered, Still, branch
    <3> QED
      BY <1>1, <3>1, <3>2, <3>3, StillGoes DEF Early
  <2>3. CASE op' = [op EXCEPT !.at = "recheck", !.root = root, !.post = op.pre, !.pre = parent[op.pre], !.known = TRUE]
    <3>0. parent[op.pre] \in 0..Len(parent)
      BY <1>2 DEF IInv, Shape, Tree, Revisions
    <3>1. op' \in Ops(Len(parent))
      <4>1. "recheck" \in Places /\ root \in Roots \cup {NoRoot} /\ op.pre \in 0..Len(parent)
        BY <1>2 DEF Places
      <4> QED
        BY <1>2, <2>3, <3>0, <4>1, OpParts, OpsUpdates DEF IInv
    <3>2. op'.at = "recheck" /\ op'.root = root /\ op'.post = op.pre /\ op'.result = op.result /\ op'.known = TRUE
      BY <1>2, <2>3 DEF Ops
    <3>3. (Rooted /\ Acquired /\ Made /\ Delivered /\ Unanswered)'
      BY <1>1, <1>2, <3>2 DEF Rooted, Acquired, Made, Delivered, Unanswered, Still, branch
    <3> QED
      BY <1>1, <3>1, <3>2, <3>3, StillGoes DEF Early
  <2> QED
    BY <1>3, <1>4, <2>1, <2>2, <2>3 DEF Decide
<1> QED
  BY <1>3, <1>4 DEF Select, Selected, InStanding, IInv, Shape, Threads

\* The places between that read and ask, and go on.
LEMMA GoesInv ==
  ASSUME IInv, Still, faults' \in Nat, NEW a \in Places, Goes(a),
         op.at \notin {"idle", "read", "select", "readBack", "done"}, a # "done",
         a \in {"select", "claim", "implement"} => op.pre \in heads,
         a \in {"check", "push"} => op.at \in {"check", "push"}, a \in Early => op.at \in Early,
         a \in {"threads", "converge", "recheck", "reply", "readBack"} =>
           op.at \in {"threads", "converge", "recheck", "reply"},
         a = "reply" => \A r \in replies : r.root = op.root => ~Marked(r)
  PROVE  IInv'
<1>1. op \in Ops(Len(parent))
  BY DEF IInv, Shape
<1>2. op' \in Ops(Len(parent))
  BY <1>1, OpParts, OpsUpdates DEF IInv, Goes
<1>3. /\ op'.at = a /\ op'.pre = op.pre /\ op'.result = op.result /\ op'.known = op.known /\ op'.post = op.post
      /\ op'.root = op.root
  BY <1>1 DEF Goes, Ops
<1>4. Rooted' /\ Acquired' /\ Delivered' /\ Unanswered'
  BY <1>3 DEF IInv, Rooted, Acquired, Delivered, Unanswered, Still, branch, threads
<1>5. Made'
  BY <1>3 DEF IInv, Made, Still, branch, Ancestors, Revisions
<1> QED
  BY <1>2, <1>3, <1>4, <1>5, StillGoes
LEMMA ReadsInv == IInv /\ (Claim \/ Check \/ ReadThreads \/ Recheck) => IInv'
<1> SUFFICES ASSUME IInv, Claim \/ Check \/ ReadThreads \/ Recheck PROVE IInv'
  OBVIOUS
<1>1. Still /\ faults' \in Nat /\ op.at \in {"claim", "check", "threads", "recheck"}
  BY FaultsTyped DEF Claim, Check, ReadThreads, Recheck, Op, UnchangedBranch, Still, branch
<1>2. CASE Blocked
  BY <1>1, <1>2, StillBlocked
<1>3. CASE Ends("refused", NoRevision)
  BY <1>1, <1>3, StillEnds, OpParts DEF IInv, Results, NoRevision
<1>4. CASE op.at = "claim" /\ Goes("implement")
  <2>1. op.pre \in heads
    BY <1>4 DEF IInv, Acquired
  <2> QED
    BY <1>1, <1>4, <2>1, GoesInv DEF Places, Early
<1>5. CASE op.at = "check" /\ Goes("push")
  BY <1>1, <1>5, GoesInv DEF Places, Early
<1>6. CASE op.at = "threads" /\ Goes("converge")
  BY <1>1, <1>6, GoesInv DEF Places, Early
<1>7. CASE op.at = "recheck" /\ Pending /\ Goes("reply")
  <2>1. \A r \in replies : Marked(r) => r \in visible
    BY <1>7 DEF IInv, Seen
  <2>2. \A r \in replies : r.root = op.root => ~Marked(r)
    BY <1>7, <2>1 DEF Pending, Of
  <2> QED
    BY <1>1, <1>7, <2>2, GoesInv DEF Places, Early
<1> QED
  BY <1>2, <1>3, <1>4, <1>5, <1>6, <1>7, Zenon DEF Claim, Check, ReadThreads, Recheck, Op

LEMMA AgainInv ==
  ASSUME IInv, Still, faults' \in Nat, op.at \in {"converge", "readBack"}, Again
  PROVE  IInv'
<1>1. CASE Blocked
  BY <1>1, StillBlocked
<1>2. CASE ~UsedUp(op.reads) /\ op' = [op EXCEPT !.reads = Counted(op.reads)]
  <2>1. op \in Ops(Len(parent)) /\ op.reads \in 0..(Attempts - 1) /\ op.reads + 1 # Attempts
    BY <1>2, OpParts DEF IInv, Shape, UsedUp, Counted
  <2>5. op.reads + 1 \in 0..(Attempts - 1)
    BY <2>1, BoundsAssumption
  <2>2. op' \in Ops(Len(parent))
    <3> DEFINE o == [op EXCEPT !.reads = op.reads + 1]
    <3>1. o \in Ops(Len(parent))
      BY <2>1, <2>5, Zenon DEF Ops
    <3> HIDE DEF o
    <3> QED
      BY <1>2, <3>1 DEF o, Counted
  <2>3. /\ op'.at = op.at /\ op'.pre = op.pre /\ op'.result = op.result /\ op'.known = op.known
        /\ op'.post = op.post /\ op'.root = op.root /\ op'.revision = op.revision
    BY <1>2, <2>1 DEF Ops
  <2>4. Shape'
    BY <2>2, OpShape DEF IInv, Shape, Still
  <2> QED
    BY <2>3, <2>4 DEF IInv, Still, branch, threads, Rooted, Acquired, Made, Delivered, Unpublished, Told, Tells,
       Seen, Unanswered, Single
<1> QED
  BY <1>1, <1>2 DEF Again

LEMMA ReadFailsInv ==
  ASSUME IInv, Still, faults' \in Nat, op.at \in {"converge", "readBack"}, ReadFails
  PROVE  IInv'
<1>1. CASE Blocked
  BY <1>1, StillBlocked
<1>2. CASE Again
  BY <1>2, AgainInv
<1>3. CASE op' = [op EXCEPT !.limited = TRUE]
  <2>1. op \in Ops(Len(parent)) /\ op' \in Ops(Len(parent))
    <3>1. op \in Ops(Len(parent)) /\ Len(parent) \in Nat /\ "done" \in Places /\ "none" \in Results
          /\ 0 \in 0..Len(parent) /\ NoRoot \in Roots \cup {NoRoot} /\ op.reads \in 0..(Attempts - 1)
      BY OpParts DEF IInv, Shape, Places, Results
    <3> QED
      BY <1>3, <3>1, OpsUpdates
  <2>3. /\ op'.at = op.at /\ op'.pre = op.pre /\ op'.result = op.result /\ op'.known = op.known
        /\ op'.post = op.post /\ op'.root = op.root /\ op'.revision = op.revision
    BY <1>3, <2>1 DEF Ops
  <2>4. Shape'
    BY <2>1, OpShape DEF IInv, Shape, Still
  <2> QED
    BY <2>3, <2>4 DEF IInv, Still, branch, threads, Rooted, Acquired, Made, Delivered, Unpublished, Told, Tells,
       Seen, Unanswered, Single
<1> QED
  BY <1>1, <1>2, <1>3 DEF ReadFails

LEMMA ConvergeInv == IInv /\ (Converge \/ ReadBack) => IInv'
<1> SUFFICES ASSUME IInv, Converge \/ ReadBack PROVE IInv'
  OBVIOUS
<1>1. Still /\ faults' \in Nat /\ op.at \in {"converge", "readBack"}
  BY FaultsTyped DEF Converge, ReadBack, Op, UnchangedBranch, Still, branch, ReadFails
<1>2. CASE Blocked
  BY <1>1, <1>2, StillBlocked
<1>3. CASE Again
  BY <1>1, <1>3, AgainInv
<1>4. CASE ReadFails
  BY <1>1, <1>4, ReadFailsInv
<1>5. CASE Ends("implemented", op.post)
  BY <1>1, <1>5, StillEnds, OpParts DEF IInv, Results
<1>6. CASE op.at = "converge" /\ op' = [op EXCEPT !.at = "recheck", !.reads = 0, !.limited = FALSE]
  <2>1. op \in Ops(Len(parent)) /\ 0 \in 0..(Attempts - 1) /\ "recheck" \in Places
    BY BoundsAssumption DEF IInv, Shape, Places
  <2>2. op' \in Ops(Len(parent))
    <3> DEFINE o == [op EXCEPT !.at = "recheck", !.reads = 0, !.limited = FALSE]
    <3>1. o \in Ops(Len(parent))
      BY <2>1, Zenon DEF Ops
    <3> HIDE DEF o
    <3> QED
      BY <1>6, <3>1 DEF o
  <2>3. op'.at = "recheck" /\ op'.root = op.root /\ op'.post = op.post /\ op'.known = op.known /\ op'.result = op.result
    BY <1>6, <2>1, Zenon DEF Ops
  <2>4. (Rooted /\ Acquired /\ Made /\ Delivered /\ Unanswered)'
    BY <1>1, <1>6, <2>3 DEF IInv, Rooted, Acquired, Made, Delivered, Unanswered, Still, branch
  <2> QED
    BY <1>1, <1>6, <2>2, <2>3, <2>4, StillGoes DEF Early
<1> QED
  BY <1>2, <1>3, <1>4, <1>5, <1>6 DEF Converge, ReadBack, ReadsAgain, Op
\* The branch grows.
LEMMA GrownShape ==
  ASSUME Shape, Extends(parent'), op' \in Ops(Len(parent')), UNCHANGED <<unresolved, replies, visible, shown, published>>,
         head' \in heads', heads' \subseteq Revisions', heads \subseteq heads', others' \subseteq Revisions',
         {invocations', faults', interventions'} \subseteq Nat
  PROVE  Shape'
<1>1. Len(parent) \in Nat /\ Len(parent') \in Nat /\ Len(parent) <= Len(parent')
  BY LenProperties DEF Shape, Tree, Extends, IsTree
<1>2. Tree'
  BY DEF Extends, IsTree, Tree, Revisions
<1>3. Branch'
  BY DEF Shape, Branch
<1>4. Threads' /\ published' \subseteq Publications(Len(parent'))
  BY <1>1, OpsGrow DEF Shape, Threads
<1> QED
  BY <1>2, <1>3, <1>4 DEF Shape

LEMMA ImplementInv == IInv /\ Implement => IInv'
<1> SUFFICES ASSUME IInv, Implement PROVE IInv'
  OBVIOUS
<1>1. /\ faults' \in Nat /\ op.at = "implement" /\ UNCHANGED <<invocations, interventions, others>>
      /\ UNCHANGED <<head, shown, heads, published, threads>>
  BY FaultsTyped DEF Implement, Op
<1>2. CASE Blocked /\ UNCHANGED parent
  BY <1>1, <1>2, StillBlocked DEF Still, branch
<1>3. ASSUME NEW base \in {NoRevision} \cup Revisions, NEW n \in 0..MaxCommits,
             n = 0 => base \notin {NoRevision, op.pre}, Committed(base, n),
             op' = [op EXCEPT !.at = "check", !.post = IF n = 0 THEN base ELSE Len(parent')]
      PROVE  IInv'
  <2> DEFINE post == IF n = 0 THEN base ELSE Len(parent')
  <2>1. /\ op \in Ops(Len(parent)) /\ Len(parent) \in Nat /\ n \in Nat /\ IsTree(parent)
        /\ op.root \in Roots /\ op.result = "none" /\ base \in 0..Len(parent)
    BY <1>1, OpParts, BoundsAssumption DEF IInv, Shape, Rooted, Told, Revisions, NoRevision
  <2>2. Extends(parent') /\ Len(parent') = Len(parent) + n
    BY <1>3, <2>1, ChainExtends DEF Committed
  <2>3. post \in 1..Len(parent') /\ post \in 0..Len(parent')
    BY <1>3, <2>1, <2>2 DEF NoRevision
  <2> HIDE DEF post
  <2>4. op' \in Ops(Len(parent'))
    <3>1. op \in Ops(Len(parent')) /\ "check" \in Places
      BY <2>1, <2>2, OpsGrow DEF Places
    <3> DEFINE o == [op EXCEPT !.at = "check", !.post = post]
    <3>2. o \in Ops(Len(parent'))
      BY <2>3, <3>1, Zenon DEF Ops
    <3> QED
      BY <1>3, <3>2 DEF post
  <2>5. /\ op'.at = "check" /\ op'.post = post /\ op'.root = op.root /\ op'.result = "none"
    BY <1>3, <2>1 DEF Ops, post
  <2>6. heads \subseteq Revisions' /\ others \subseteq Revisions'
    BY <2>1, <2>2 DEF IInv, Shape, Branch, Revisions
  <2>7. Shape'
    BY <1>1, <2>2, <2>4, <2>6, GrownShape DEF IInv, Shape, Branch, threads
  <2>8. Unpublished' /\ Told'
    BY <1>1, <2>5 DEF IInv, Unpublished, Early, Told
  <2>9. (Rooted /\ Acquired /\ Made /\ Delivered /\ Unanswered)'
    BY <2>1, <2>3, <2>5 DEF Rooted, Acquired, Made, Delivered, Unanswered, Revisions
  <2>10. Seen' /\ Single'
    BY <1>1 DEF IInv, Seen, Single, threads
  <2> QED
    BY <2>7, <2>8, <2>9, <2>10 DEF IInv
<1> QED
  BY <1>2, <1>3 DEF Implement

LEMMA PushInv == IInv /\ Push => IInv'
<1> SUFFICES ASSUME IInv, Push PROVE IInv'
  OBVIOUS
<1>1. /\ faults' \in Nat /\ op.at = "push" /\ UNCHANGED <<invocations, interventions, others>>
      /\ UNCHANGED <<parent, shown, threads>>
  BY FaultsTyped DEF Push, Op
<1>2. CASE Blocked /\ NotPushed
  BY <1>1, <1>2, StillBlocked DEF Still, branch, NotPushed
<1>3. ASSUME NEW answered \in BOOLEAN, Pushed(answered), op' \in Ops(Len(parent))
      PROVE  Shape' /\ op.post \in heads'
             /\ \A p \in published' : /\ p.by <= invocations'
                                      /\ p.by = invocations' => p.answered = answered /\ p.post = op.post
  <2>1. op.post \in Revisions /\ op.post \in 1..Len(parent) /\ op.pre \in 0..Len(parent)
        /\ op.root \in Roots \cup {NoRoot} /\ invocations \in Nat
    BY <1>1, OpParts DEF IInv, Made, Revisions, Shape
  <2> DEFINE new == [pre |-> op.pre, post |-> op.post, root |-> op.root, answered |-> answered,
                     by |-> invocations]
  <2>2. new \in Publications(Len(parent))
    BY <1>3, <2>1, Zenon DEF Publications
  <2>6. published' = published \cup {new} /\ new.by = invocations /\ new.post = op.post /\ new.answered = answered
    BY <1>3 DEF Pushed
  <2> HIDE DEF new
  <2>3. published' \subseteq Publications(Len(parent))
    BY <2>2, <2>6 DEF IInv, Shape
  <2>7. \A p \in published' : /\ p.by <= invocations'
                              /\ p.by = invocations' => p.answered = answered /\ p.post = op.post
    BY <1>1, <2>1, <2>6 DEF IInv, Unpublished, Early
  <2>4. Branch'
    BY <1>1, <1>3, <2>1 DEF IInv, Shape, Branch, Pushed, Revisions
  <2>5. Tree' /\ Threads'
    BY <1>1 DEF IInv, Shape, Tree, Threads, threads, Revisions
  <2> QED
    BY <1>1, <1>3, <2>1, <2>3, <2>4, <2>5, <2>7 DEF IInv, Shape, Pushed
<1>4. op \in Ops(Len(parent)) /\ Len(parent) \in Nat /\ op.result = "none"
  BY <1>1, OpParts DEF IInv, Shape, Told
<1>5. Single'
  BY <1>1 DEF IInv, Single, threads
<1>6. CASE Pushed(FALSE) /\ Blocked
  <2>1. op' \in Ops(Len(parent))
    BY <1>4, <1>6, OpParts, OpsUpdates DEF IInv, Blocked, Ends, Places, Results
  <2>2. \A p \in published' : /\ p.by <= invocations'
                              /\ p.answered /\ p.by = invocations' => op.known /\ p.post = op.post
    BY <1>3, <1>6, <2>1
  <2> QED
    BY <1>3, <1>5, <1>6, <2>1, <2>2, EndsInv DEF Blocked, Results
<1>7. CASE Pushed(TRUE) /\ op' = [op EXCEPT !.at = "threads", !.known = TRUE]
  <2>1. op' \in Ops(Len(parent))
    <3>1. "threads" \in Places
      BY DEF Places
    <3> DEFINE o == [op EXCEPT !.at = "threads", !.known = TRUE]
    <3>2. o \in Ops(Len(parent))
      BY <1>4, <3>1, Zenon DEF Ops
    <3> QED
      BY <1>7, <3>2
  <2>2. /\ op'.at = "threads" /\ op'.post = op.post /\ op'.known = TRUE /\ op'.result = "none"
        /\ op'.root = op.root
    BY <1>4, <1>7 DEF Ops
  <2>3. /\ Shape' /\ op.post \in heads'
        /\ \A p \in published' : p.by <= invocations' /\ (p.by = invocations' => p.post = op.post)
    BY <1>3, <1>7, <2>1
  <2>4. (Rooted /\ Acquired /\ Made /\ Delivered /\ Unpublished /\ Told /\ Unanswered)'
    BY <1>1, <2>2, <2>3 DEF IInv, Rooted, Acquired, Made, Delivered, Unpublished, Early, Told, Unanswered
  <2>5. Seen'
    BY <1>1 DEF IInv, Seen, threads
  <2> QED
    BY <1>5, <2>3, <2>4, <2>5 DEF IInv
<1> QED
  BY <1>2, <1>6, <1>7 DEF Push
\* A reply of the orchestrator, or of somebody else (who marks nothing).
LEMMA AddedReply ==
  ASSUME Shape, NEW root \in Roots, NEW pre \in 0..Len(parent), NEW post \in 0..Len(parent),
         NEW names \in 0..Len(parent), Adds(root, pre, post, names)
  PROVE  /\ replies' \subseteq Replies(Len(parent)) /\ IsFiniteSet(replies') /\ replies \subseteq replies'
         /\ \A r \in replies' : r \in replies \/ (r.root = root /\ r.post = post)
<1> DEFINE new == [id |-> Cardinality(replies), root |-> root, pre |-> pre, post |-> post, names |-> names]
<1>1. IsFiniteSet(replies) /\ Cardinality(replies) \in Nat
  BY FS_CardinalityType DEF Shape, Threads
<1>2. new \in Replies(Len(parent))
  BY <1>1, Zenon DEF Replies
<1>3. replies' = replies \cup {new} /\ new.root = root /\ new.post = post
  BY DEF Adds
<1> HIDE DEF new
<1> QED
  BY <1>1, <1>2, <1>3, FS_AddElement DEF Shape, Threads

LEMMA ReplyInv == IInv /\ Reply => IInv'
<1> SUFFICES ASSUME IInv, Reply PROVE IInv'
  OBVIOUS
<1>1. /\ faults' \in Nat /\ op.at = "reply" /\ UNCHANGED <<invocations, interventions, others>>
      /\ UNCHANGED <<unresolved, visible, branch, published>> /\ Goes("readBack")
      /\ Replied \/ UNCHANGED replies
  BY FaultsTyped DEF Reply, Op, UnchangedBranch
<1>2. op \in Ops(Len(parent)) /\ op.result = "none" /\ op.root \in Roots
  BY <1>1, OpParts DEF IInv, Shape, Told, Rooted
<1>3. op' \in Ops(Len(parent))
  <2>1. "readBack" \in Places
    BY DEF Places
  <2> QED
    BY <1>1, <1>2, <2>1, Zenon DEF Goes, Ops
<1>4. /\ op'.at = "readBack" /\ op'.post = op.post /\ op'.known = op.known /\ op'.result = "none"
      /\ op'.root = op.root
  BY <1>1, <1>2 DEF Ops, Goes
<1>5. /\ replies' \subseteq Replies(Len(parent)) /\ IsFiniteSet(replies') /\ replies \subseteq replies'
      /\ \A r, t \in replies' : Marked(r) /\ Marked(t) /\ r.root = t.root => r = t
  <2>1. CASE UNCHANGED replies
    BY <2>1 DEF IInv, Shape, Threads, Single
  <2>2. CASE Replied
    <3> DEFINE new == [id |-> Cardinality(replies), root |-> op.root, pre |-> op.pre, post |-> op.post,
                       names |-> NoRevision]
    <3>1. /\ replies' \subseteq Replies(Len(parent)) /\ IsFiniteSet(replies') /\ replies \subseteq replies'
      BY <1>2, <2>2, OpParts, AddedReply DEF IInv, Replied, NoRevision
    <3>2. replies' = replies \cup {new} /\ new.root = op.root
      BY <2>2 DEF Replied, Adds
    <3> HIDE DEF new
    <3>3. \A r \in replies : r.root = op.root => ~Marked(r)
      BY <1>1 DEF IInv, Unanswered
    <3> QED
      BY <3>1, <3>2, <3>3 DEF IInv, Single
  <2> QED
    BY <1>1, <2>1, <2>2
<1>6. Shape'
  BY <1>1, <1>3, <1>5 DEF IInv, Shape, Tree, Branch, Threads, Revisions, branch
<1>7. (Rooted /\ Acquired /\ Made /\ Delivered /\ Unpublished /\ Told /\ Seen /\ Unanswered)'
  BY <1>1, <1>2, <1>4 DEF IInv, Rooted, Acquired, Made, Delivered, Unpublished, Early, Told, Seen, Unanswered, branch
<1> QED
  BY <1>5, <1>6, <1>7 DEF IInv, Single, Marked

LEMMA StartInv == IInv /\ Start => IInv'
<1> SUFFICES ASSUME IInv, Start PROVE IInv'
  OBVIOUS
<1>1. PICK reconcile \in BOOLEAN, auth \in Authorizations :
        op' = [Idle EXCEPT !.at = "read", !.reconcile = reconcile, !.auth = auth]
  BY DEF Start
<1>2. /\ UNCHANGED <<branch, threads, published>> /\ visible = replies
      /\ {invocations', faults', interventions'} \subseteq Nat
  BY DEF IInv, Shape, Start
<1>3. auth \in Proofs
  <2>1. {NoRevision} \cup Revisions \subseteq Nat
    BY OpParts DEF IInv, NoRevision, Revisions
  <2> QED
    BY <2>1, Zenon DEF Authorizations, Proofs
<1>4. 0 \in 0..(Attempts - 1) /\ 0 \in 0..Len(parent)
  BY BoundsAssumption, OpParts DEF IInv
<1>5. op' = [at |-> "read", reconcile |-> reconcile, auth |-> auth, pre |-> 0,
             root |-> NoRoot, post |-> 0, known |-> FALSE, reads |-> 0, limited |-> FALSE,
             result |-> "none", revision |-> 0]
  BY <1>1 DEF Idle, NoRevision
<1>6. op' \in Ops(Len(parent))
  <2>1. "read" \in Places /\ "none" \in Results
    BY DEF Places, Results
  <2> QED
    BY <1>3, <1>4, <1>5, <2>1, Zenon DEF Ops
<1>7. op'.at = "read" /\ op'.result = "none"
  BY <1>5
<1>8. Shape'
  BY <1>2, <1>6, OpShape DEF IInv
<1>9. \A p \in published : p.by <= invocations' /\ p.by # invocations'
  <2>1. invocations \in Nat /\ invocations' = invocations + 1
    BY DEF IInv, Shape, Start
  <2>2. \A p \in published : p.by \in Nat /\ p.by <= invocations
    BY DEF IInv, Shape, Publications, Unpublished
  <2> QED
    BY <2>1, <2>2
<1> QED
  BY <1>2, <1>7, <1>8, <1>9 DEF IInv, Rooted, Acquired, Made, Delivered, Unpublished, Told, Seen, Unanswered, Single,
     threads

LEMMA CrashInv == IInv /\ Crash => IInv'
<1> SUFFICES ASSUME IInv, Crash PROVE IInv'
  OBVIOUS
<1>1. /\ op' = Idle /\ UNCHANGED <<branch, threads, published>>
      /\ {invocations', faults', interventions'} \subseteq Nat
  BY DEF IInv, Shape, Crash, Fails, UnchangedBranch
<1>2. Idle \in Ops(Len(parent))
  <2>1. 0 \in 0..(Attempts - 1) /\ 0 \in 0..Len(parent)
    BY BoundsAssumption, OpParts DEF IInv
  <2>2. NoAuthorization \in Proofs
    BY DEF NoAuthorization, Proofs, NoRevision, NoRoot
  <2> QED
    BY <2>1, <2>2 DEF Idle, Ops, NoRevision, NoRoot, Places, Results
<1>3. Shape'
  BY <1>1, <1>2, OpShape DEF IInv
<1>4. op'.at = "idle" /\ op'.result = "none" /\ UNCHANGED invocations
  BY <1>1 DEF Idle, Crash
<1> QED
  BY <1>1, <1>3, <1>4 DEF IInv, Rooted, Acquired, Made, Delivered, Unpublished, Early, Told, Seen, Unanswered, Single,
     threads
\* GitHub catches up.
LEMMA ShowsInv == IInv /\ (ShowHead \/ ShowReplies) => IInv'
<1> SUFFICES ASSUME IInv, ShowHead \/ ShowReplies PROVE IInv'
  OBVIOUS
<1>1. CASE ShowHead
  <2>1. UNCHANGED <<parent, head, heads, others, threads, op, published, bounds>> /\ shown' = head
    BY <1>1 DEF ShowHead
  <2>2. Shape'
    BY <2>1 DEF IInv, Shape, Tree, Branch, Threads, Revisions, threads, bounds
  <2> QED
    BY <2>1, <2>2 DEF IInv, Rooted, Acquired, Made, Delivered, Unpublished, Told, Tells, Seen, Unanswered, Single,
       threads, bounds, Revisions
<1>2. CASE ShowReplies
  <2>1. UNCHANGED <<branch, unresolved, replies, op, published, bounds>> /\ visible' = replies
    BY <1>2 DEF ShowReplies
  <2>2. Shape'
    BY <2>1 DEF IInv, Shape, Tree, Branch, Threads, Revisions, branch, bounds
  <2> QED
    BY <2>1, <2>2 DEF IInv, Rooted, Acquired, Made, Delivered, Unpublished, Told, Tells, Seen, Unanswered, Single,
       branch, bounds, Revisions
<1> QED
  BY <1>1, <1>2

LEMMA OthersPushInv == IInv /\ OthersPush => IInv'
<1> SUFFICES ASSUME IInv, OthersPush PROVE IInv'
  OBVIOUS
<1>1. PICK base \in Ancestors(head) : /\ parent' = Append(parent, base) /\ head' = Len(parent')
                                     /\ heads' = heads \cup {head'} /\ others' = others \cup {head'}
  BY DEF OthersPush
<1>2. /\ UNCHANGED <<shown, threads, op, published, invocations>> /\ {invocations', faults', interventions'} \subseteq Nat
  BY DEF OthersPush, Intervenes, IInv, Shape
<1>3. /\ IsTree(parent) /\ Len(parent) \in Nat /\ head \in 0..Len(parent) /\ heads \subseteq Revisions
      /\ others \subseteq Revisions /\ op \in Ops(Len(parent))
  <2>1. IsTree(parent) /\ Len(parent) \in Nat
    BY OpParts DEF IInv
  <2>2. head \in Revisions /\ heads \subseteq Revisions /\ others \subseteq Revisions /\ op \in Ops(Len(parent))
    BY DEF IInv, Shape, Branch
  <2> QED
    BY <2>1, <2>2 DEF Revisions
<1>4. base \in 0..Len(parent)
  BY <1>1, <1>3, AncestorsAreRevisions DEF Revisions
<1>5. Extends(parent') /\ Len(parent') = Len(parent) + 1
  BY <1>1, <1>3, <1>4, AppendExtends
<1>6. op' \in Ops(Len(parent')) /\ heads' \subseteq Revisions' /\ others' \subseteq Revisions'
  <2>1. Ops(Len(parent)) \subseteq Ops(Len(parent'))
    BY <1>3, <1>5, OpsGrow
  <2>2. Revisions \subseteq Revisions' /\ head' \in Revisions'
    BY <1>1, <1>3, <1>5 DEF Revisions
  <2> QED
    BY <1>1, <1>2, <1>3, <2>1, <2>2
<1>7. Shape'
  BY <1>1, <1>2, <1>5, <1>6, GrownShape DEF IInv, Shape, threads
<1>8. Made'
  BY <1>2, <1>3, <1>5 DEF IInv, Made, Revisions
<1>9. (Rooted /\ Acquired /\ Delivered /\ Unpublished /\ Told /\ Seen /\ Unanswered /\ Single)'
  BY <1>1, <1>2 DEF IInv, Rooted, Acquired, Delivered, Unpublished, Told, Tells, Seen, Unanswered, Single, threads
<1> QED
  BY <1>7, <1>8, <1>9 DEF IInv

LEMMA OthersTalkInv == IInv /\ (OthersReply \/ OthersResolve) => IInv'
<1> SUFFICES ASSUME IInv, OthersReply \/ OthersResolve PROVE IInv'
  OBVIOUS
<1>1. /\ UNCHANGED <<branch, visible, op, published, invocations>>
      /\ {invocations', faults', interventions'} \subseteq Nat
  BY DEF OthersReply, OthersResolve, Intervenes, IInv, Shape
<1>2. /\ replies' \subseteq Replies(Len(parent)) /\ IsFiniteSet(replies') /\ replies \subseteq replies'
      /\ \A r \in replies' : r \in replies \/ ~Marked(r)
  <2>1. CASE OthersReply
    <3>1. PICK root \in Roots, names \in {NoRevision, head} : Adds(root, NoRevision, NoRevision, names)
      BY <2>1 DEF OthersReply
    <3>2. NoRevision \in 0..Len(parent) /\ names \in 0..Len(parent)
      BY OpParts DEF IInv, Shape, Branch, Revisions, NoRevision
    <3> QED
      BY <3>1, <3>2, AddedReply DEF IInv, Marked
  <2>2. CASE OthersResolve
    BY <2>2 DEF OthersResolve, IInv, Shape, Threads
  <2> QED
    BY <2>1, <2>2
<1>3. unresolved' \subseteq Roots
  BY DEF OthersReply, OthersResolve, IInv, Shape, Threads
<1>4. Shape'
  BY <1>1, <1>2, <1>3 DEF IInv, Shape, Tree, Branch, Threads, Revisions, branch
<1>5. (Rooted /\ Acquired /\ Made /\ Delivered /\ Unpublished /\ Told)'
  BY <1>1 DEF IInv, Rooted, Acquired, Made, Delivered, Unpublished, Told, Tells, branch, Revisions
<1>6. (Seen /\ Unanswered /\ Single)'
  BY <1>1, <1>2 DEF IInv, Seen, Unanswered, Single, Marked
<1> QED
  BY <1>4, <1>5, <1>6 DEF IInv

LEMMA NextInv == IInv /\ [Next]_vars => IInv'
<1> SUFFICES ASSUME IInv, [Next]_vars PROVE IInv'
  OBVIOUS
<1>1. CASE UNCHANGED vars
  <2>1. Shape'
    BY <1>1 DEF vars, branch, threads, bounds, IInv, Shape, Tree, Branch, Threads, Revisions
  <2> QED
    BY <1>1, <2>1 DEF vars, branch, threads, bounds, IInv, Rooted, Acquired, Made, Delivered, Unpublished, Told, Tells,
       Seen, Unanswered, Single, Revisions
<1>2. CASE OpStep
  BY <1>2, ReadPullRequestInv, SelectInv, ReadsInv, ImplementInv, PushInv, ConvergeInv, ReplyInv DEF OpStep
<1>3. CASE Next /\ ~OpStep
  BY <1>3, StartInv, CrashInv, ShowsInv, OthersPushInv, OthersTalkInv DEF Next
<1> QED
  BY <1>1, <1>2, <1>3
THEOREM InvHolds == Spec => []IInv
BY InitInv, NextInv, PTL DEF Spec

-----------------------------------------------------------------------------
(* What follows from it.                                                   *)

LEMMA ReplyFacts ==
  ASSUME IInv, NEW root, NEW rs \in SUBSET replies
  PROVE  /\ IsFiniteSet(Of(rs, root)) /\ Cardinality(Of(rs, root)) \in Nat
         /\ Cardinality(Of(rs, root)) = 0 <=> Of(rs, root) = {}
         /\ Cardinality(Of(rs, root)) = 1 <=> \E r : Of(rs, root) = {r}
<1>1. IsFiniteSet(replies) /\ Of(rs, root) \in SUBSET replies
  BY DEF IInv, Shape, Threads, Of
<1>2. IsFiniteSet(Of(rs, root))
  BY <1>1, FS_Subset
<1> QED
  BY <1>2, FS_CardinalityType, FS_EmptySet, FS_Singleton

LEMMA TypeHolds == IInv => TypeOK
<1> SUFFICES ASSUME IInv PROVE TypeOK
  OBVIOUS
<1>1. op \in Ops(Len(parent))
  BY DEF IInv, Shape
<1>2. /\ op.at \in Places /\ op.root \in Roots \cup {NoRoot} /\ op.reads \in 0..(Attempts - 1)
      /\ {op.pre, op.post, op.revision} \subseteq 0..Len(parent) /\ op.result \in Results
      /\ {op.reconcile, op.known, op.limited} \subseteq BOOLEAN
  BY <1>1, Zenon DEF Ops
<1> QED
  BY <1>2 DEF IInv, Shape, Tree, Branch, Threads, TypeOK, Places, Results

LEMMA OneReply == IInv => OneReplyPerThread
BY DEF IInv, Single, OneReplyPerThread

LEMMA BlockedTells == IInv => BlockedTellsPublished
<1> SUFFICES ASSUME IInv, op.result = "blocked", NEW p \in published, p.answered, p.by = invocations
             PROVE  op.revision = p.post
  BY DEF BlockedTellsPublished
<1>1. op.at = "done" /\ op.revision = Tells
  BY DEF IInv, Told
<1>2. op.known /\ p.post = op.post
  BY <1>1 DEF IInv, Told
<1> QED
  BY <1>1, <1>2 DEF Tells

\* What was published is adopted when its reply is there, and else replied to
\* on the strength of an authorization that names it.
LEMMA Completion == IInv => ReconcileCompletes
<1> SUFFICES ASSUME IInv, NEW p \in published, Quiet, OnTop(p),
                    \A r \in replies : Marked(r) /\ Proven(r) /\ (r.root = p.root => r.post = p.post),
                    \A x \in unresolved \ {p.root} : Of(replies, p.root) = {} /\ Of(replies, x) # {}
             PROVE  \E auth \in Authorizations : Completes(auth)
  BY DEF ReconcileCompletes
<1>1. /\ visible = replies /\ head = p.post /\ parent[p.post] = p.pre /\ p.root \in unresolved
  BY DEF Quiet, OnTop
<1>2. ASSUME NEW x, Of(replies, x) # {} PROVE \E r \in replies : Of(replies, x) = {r} /\ r.root = x
  BY <1>2 DEF IInv, Single, Of
<1>3. /\ head \in Revisions /\ p.root \in Roots /\ head # NoRevision
  <2>1. head \in Revisions /\ p.root \in Roots
    BY <1>1 DEF IInv, Shape, Branch, Threads
  <2> QED
    BY <2>1, OpParts DEF IInv, Revisions, NoRevision
<1>4. ASSUME NEW x, Of(replies, x) # {} PROVE Standing(Of(replies, x), TRUE) = "completed"
  <2>1. PICK r \in replies : Of(replies, x) = {r}
    BY <1>2, <1>4
  <2>2. Cardinality(Of(replies, x)) = 1
    BY <2>1, FS_Singleton
  <2>3. Marked(r) /\ Proven(r)
    OBVIOUS
  <2> QED
    BY <1>4, <2>1, <2>2, <2>3 DEF Standing
<1>5. CASE Of(replies, p.root) = {}
  <2>1. Standing(Of(replies, p.root), TRUE) = "pending"
    BY <1>5 DEF Standing
  <2>2. \A x \in unresolved \ {p.root} : Standing(Of(replies, x), TRUE) = "completed"
    BY <1>4
  <2>3. InStanding(replies, TRUE, "ambiguous") = {} /\ InStanding(replies, TRUE, "pending") = {p.root}
    BY <1>1, <2>1, <2>2 DEF InStanding
  <2>4. Selected(replies, TRUE) = {p.root}
    BY <2>3, FS_Singleton DEF Selected
  <2> DEFINE auth == [base |-> NoRevision, post |-> head, root |-> p.root]
  <2>5. auth \in Authorizations
    BY <1>3 DEF Authorizations
  <2>6. auth.post = head /\ auth.root = p.root
    OBVIOUS
  <2> HIDE DEF auth
  <2>7. Cardinality(Of(replies, p.root)) = 0
    BY <1>5, FS_EmptySet
  <2>8. Classified(replies, head, p.root, TRUE, auth) = "reply-only"
    BY <1>3, <1>5, <2>6, <2>7 DEF Classified
  <2> QED
    BY <1>1, <2>4, <2>5, <2>8 DEF Completes
<1>6. CASE Of(replies, p.root) # {}
  <2>1. unresolved = {p.root}
    BY <1>1, <1>6
  <2>2. Standing(Of(replies, p.root), TRUE) = "completed"
    BY <1>4, <1>6
  <2>3. /\ InStanding(replies, TRUE, "ambiguous") = {} /\ InStanding(replies, TRUE, "pending") = {}
        /\ InStanding(replies, TRUE, "completed") = {p.root}
    BY <2>1, <2>2 DEF InStanding
  <2>4. Selected(replies, TRUE) = {p.root}
    BY <2>3, FS_Singleton DEF Selected
  <2>5. PICK r \in replies : Of(replies, p.root) = {r} /\ r.root = p.root
    BY <1>2, <1>6
  <2>6. Marked(r) /\ r.post = head /\ parent[head] = r.pre
    BY <1>1, <2>5 DEF Proven
  <2>7. Cardinality(Of(replies, p.root)) = 1
    BY <2>5, FS_Singleton
  <2>8. \A auth : Classified(replies, head, p.root, TRUE, auth) = "adopt"
    BY <2>5, <2>6, <2>7 DEF Classified, Adopts
  <2>9. NoAuthorization \in Authorizations
    BY DEF NoAuthorization, Authorizations
  <2> QED
    BY <1>1, <2>4, <2>8, <2>9 DEF Completes
<1> QED
  BY <1>5, <1>6
\* The branch, the threads and the results of feedback publication
\* (feedback-publication.ts) fit together, whatever fails, is late or is done
\* by other people: no thread is answered twice, a blocked result tells an
\* answered push, and what was published can be completed.
THEOREM ConsistentHolds == Spec => []Consistent
<1>1. IInv => Consistent
  BY TypeHolds, OneReply, BlockedTells, Completion DEF Consistent
<1> QED
  BY <1>1, InvHolds, PTL

\* One reply of a thread is the one that decided.
LEMMA Classification ==
  ASSUME IInv, NEW root, NEW at, NEW reconcile, NEW auth, at # NoRevision,
         Classified(visible, at, root, reconcile, auth) = "adopt"
  PROVE  \E r \in replies : Of(visible, root) = {r} /\ at \in {r.post, r.names}
<1> DEFINE own == Of(visible, root)
           marked == {r \in own : Marked(r)}
           legacy == {r \in own \ marked : r.names = at}
<1>1. /\ ~(Cardinality(own) > 1)
      /\ (marked # {} /\ \A r \in marked : r.post = at) \/ (marked = {} /\ legacy # {})
  BY Zenon DEF Classified, Adopts
<1>2. visible \in SUBSET replies
  BY DEF IInv, Shape, Threads
<1>3. own # {} /\ own \subseteq replies /\ \E r \in own : at \in {r.post, r.names}
  BY <1>1, <1>2 DEF Of
<1>4. /\ Cardinality(own) \in Nat /\ (Cardinality(own) = 0 <=> own = {})
      /\ (Cardinality(own) = 1 <=> \E r : own = {r})
  BY <1>2, ReplyFacts
<1> HIDE DEF own, marked, legacy
<1>5. \E r : own = {r}
  BY <1>1, <1>3, <1>4
<1> QED
  BY <1>3, <1>5 DEF own

LEMMA ReportIsTrue ==
  ASSUME IInv, Next
  PROVE  ReportsTruly
<1> SUFFICES ASSUME op.result # "implemented", op'.result = "implemented"
             PROVE  /\ op'.revision \in heads
                    /\ \E root \in unresolved \cup {op.root} : \E r \in replies :
                         Of(visible, root) = {r} /\ op'.revision \in {r.post, r.names}
  BY DEF ReportsTruly
<1>0. op \in Ops(Len(parent))
  BY DEF IInv, Shape
<1>1. ASSUME NEW revision, Ends("implemented", revision) PROVE op'.revision = revision
  BY <1>0, <1>1 DEF Ends, Ops
<1>2. ASSUME NEW result, NEW revision, Ends(result, revision) PROVE result = "implemented"
  BY <1>0, <1>2 DEF Ends, Ops
<1>3. ~Blocked
  BY <1>2 DEF Blocked
<1>4. CASE Select
  <2>1. PICK root \in Selected(visible, op.reconcile) : Decide(root)
    BY <1>3, <1>4, Zenon DEF Select
  <2>2. root \in unresolved
    BY <2>1 DEF Selected, InStanding
  <2>3. /\ Ends("implemented", op.pre)
        /\ Classified(visible, op.pre, root, op.reconcile, op.auth) = "adopt"
    <3>1. ~(op' = [op EXCEPT !.at = "claim", !.root = root])
      BY <1>0 DEF Ops
    <3>2. ~(op' = [op EXCEPT !.at = "recheck", !.root = root, !.post = op.pre,
                              !.pre = parent[op.pre], !.known = TRUE])
      BY <1>0 DEF Ops
    <3> QED
      BY <1>3, <2>1, <3>1, <3>2, Zenon DEF Decide
  <2>4. op.pre \in heads /\ op.pre # NoRevision
    <3>1. op.at = "select"
      BY <1>4 DEF Select, Op
    <3>2. op.pre \in heads /\ op.pre \in Revisions
      BY <3>1 DEF IInv, Acquired, Shape, Branch
    <3> QED
      BY <3>2, OpParts DEF IInv, Revisions, NoRevision
  <2> QED
    BY <1>1, <2>2, <2>3, <2>4, Classification
<1>5. CASE ReadBack
  <2>1. ~Again
    BY <1>0, <1>3 DEF Again, Ops
  <2>2. ~ReadFails
    BY <1>0, <1>3, <2>1 DEF ReadFails, Ops
  <2>3. op.at = "readBack" /\ Inspected(visible, Marker) = "exactly-one" /\ Ends("implemented", op.post)
    BY <1>3, <1>5, <2>1, <2>2 DEF ReadBack, ReadsAgain, Op
  <2>4. op.post \in heads
    BY <2>3 DEF IInv, Delivered
  <2>5. Marker.root = op.root /\ Marker.post = op.post
    BY DEF Marker
  <2>6. Cardinality(Of(visible, op.root)) = 1 /\ \E r \in Of(visible, op.root) : r.post = op.post
    BY <2>3, <2>5 DEF Inspected, Carries
  <2>7. visible \in SUBSET replies
    BY DEF IInv, Shape, Threads
  <2>8. \E r \in replies : Of(visible, op.root) = {r} /\ op.post \in {r.post, r.names}
    <3>1. PICK r : Of(visible, op.root) = {r}
      BY <2>6, <2>7, ReplyFacts
    <3>2. r \in Of(visible, op.root) /\ op.post = r.post
      BY <2>6, <3>1
    <3>3. r \in replies
      BY <2>7, <3>2 DEF Of
    <3> QED
      BY <3>1, <3>2, <3>3
  <2> QED
    BY <1>1, <2>3, <2>4, <2>8
<1>6. CASE ReadPullRequest \/ Claim \/ Implement \/ Check \/ Push \/ ReadThreads \/ Converge \/ Recheck \/ Reply
  <2>1. ASSUME NEW a, Goes(a) PROVE FALSE
    BY <1>0, <2>1 DEF Goes, Ops
  <2>2. ~Again /\ ~Ends("refused", NoRevision)
    BY <1>0, <1>2, <1>3 DEF Again, Ops
  <2>3. ~ReadFails
    BY <1>0, <1>3, <2>2 DEF ReadFails, Ops
  <2>4. CASE ReadPullRequest \/ Implement
    BY <1>0, <1>3, <2>4 DEF ReadPullRequest, Implement, Ops
  <2>5. CASE Push \/ Converge
    BY <1>0, <1>3, <2>2, <2>3, <2>5 DEF Push, Converge, Ops
  <2> QED
    BY <1>3, <1>6, <2>1, <2>2, <2>4, <2>5, Zenon DEF Claim, Check, ReadThreads, Recheck, Reply
<1>7. CASE Start \/ Crash
  <2>1. CASE Start
    <3>1. PICK reconcile \in BOOLEAN, auth \in Authorizations :
            op' = [Idle EXCEPT !.at = "read", !.reconcile = reconcile, !.auth = auth]
      BY <2>1 DEF Start
    <3> QED
      BY <3>1 DEF Idle
  <2>2. CASE Crash
    BY <2>2 DEF Crash, Idle
  <2> QED
    BY <1>7, <2>1, <2>2
<1>8. CASE ShowHead \/ ShowReplies \/ OthersPush \/ OthersReply \/ OthersResolve
  BY <1>8 DEF ShowHead, ShowReplies, OthersPush, OthersReply, OthersResolve, Intervenes
<1> QED
  BY <1>4, <1>5, <1>6, <1>7, <1>8 DEF Next, OpStep

LEMMA OthersAreSpared ==
  ASSUME IInv, Next
  PROVE  SparesOthers
<1> SUFFICES ASSUME interventions' = interventions, ~(Ancestors(head) \subseteq Ancestors(head)')
             PROVE  Ancestors(head) \subseteq Ancestors(op.pre) /\ op.pre \notin Ancestors(op.post)
  BY DEF SparesOthers
<1>1. /\ IsTree(parent) /\ Len(parent) \in Nat /\ head \in Revisions /\ interventions \in Nat
      /\ head \in 0..Len(parent)
  <2>1. IsTree(parent) /\ Len(parent) \in Nat
    BY OpParts DEF IInv
  <2>2. head \in Revisions /\ interventions \in Nat
    BY DEF IInv, Shape, Branch
  <2> QED
    BY <2>1, <2>2 DEF Revisions
<1>2. ~UNCHANGED <<parent, head>>
  BY DEF Ancestors
<1>3. ~(Implement /\ ~UNCHANGED parent)
  <2> SUFFICES ASSUME Implement, ~UNCHANGED parent PROVE FALSE
    OBVIOUS
  <2>1. PICK base \in {NoRevision} \cup Revisions, n \in 0..MaxCommits : Committed(base, n)
    BY DEF Implement
  <2>2. base \in 0..Len(parent) /\ n \in Nat /\ UNCHANGED head
    <3>1. base \in 0..Len(parent) /\ n \in Nat
      BY <1>1, BoundsAssumption DEF NoRevision, Revisions
    <3> QED
      BY <3>1 DEF Implement
  <2>3. Extends(parent')
    BY <1>1, <2>1, <2>2, ChainExtends DEF Committed
  <2>4. Ancestors(head)' = AncestorsIn(parent', head)
    BY <2>2 DEF Ancestors, AncestorsIn
  <2>5. AncestorsIn(parent', head) = AncestorsIn(parent, head)
    BY <1>1, <2>3, AncestorsAreKept
  <2> QED
    BY <2>4, <2>5 DEF Ancestors, AncestorsIn
<1>4. CASE Push /\ ~UNCHANGED head
  <2>1. op.at = "push" /\ head = op.pre /\ head' = op.post /\ UNCHANGED parent
    BY <1>4 DEF Push, Op, Pushed, Leased, NotPushed
  <2>2. op.post \in 0..Len(parent)
    BY OpParts DEF IInv
  <2>3. Ancestors(head)' = Ancestors(op.post)
    BY <2>1 DEF Ancestors
  <2>4. ASSUME head \in Ancestors(op.post) PROVE FALSE
    <3>1. Ancestors(head) = Below(parent, head) /\ Ancestors(op.post) = Below(parent, op.post)
      BY <1>1, <2>2, AncestorsAreBelow DEF Ancestors, AncestorsIn
    <3>2. Ancestors(head) \subseteq Ancestors(op.post)
      BY <2>4, <3>1, BelowIsTransitive
    <3> QED
      BY <2>3, <3>2
  <2> QED
    BY <2>1, <2>4
<1>5. interventions' # interventions + 1
  BY <1>1
<1>6. ~OthersPush
  BY <1>5 DEF OthersPush, Intervenes
<1> QED
  BY <1>2, <1>3, <1>4, <1>6 DEF Next, OpStep, Start, ReadPullRequest, Select, Claim, Implement, Check, Push,
     ReadThreads, Converge, Recheck, Reply, ReadBack, Crash, ShowHead, ShowReplies, OthersReply, OthersResolve,
     UnchangedBranch, branch

\* Whatever was lost, late or done by others between two calls, an invocation
\* (feedback-publication.ts) reports as implemented only what was the head and
\* what its thread shows in one reply; and its leased push (exact-lease-publisher.ts)
\* takes other people's commits off the branch only where the Agent left the
\* acquired head out of its history, and then no commit that came after that head.
THEOREM PublicationIsTrueHolds == Spec => PublicationIsTrue
<1>1. IInv /\ [Next]_vars => [ReportsTruly /\ SparesOthers]_vars
  BY ReportIsTrue, OthersAreSpared
<1> QED
  BY <1>1, InvHolds, PTL DEF PublicationIsTrue, Spec
=============================================================================
