------------------------ MODULE MCMutationExecution ------------------------
\* Eleven requests over three notes, three attachments and a directory that is
\* not there: every kind of operation, the combinations that are staged and
\* moved together, chains, and requests that the preflight refuses.
EXTENDS MutationExecution
CONSTANTS n1, n2, n3, a1, a2, a3, d, b1, b2, b3, b4, c1, t
none == [p \in {} |-> None]
MCAbove == [p \in {n1, n2, n3, a1, a2, a3, d} |-> IF p \in {n3, a2} THEN {d} ELSE {}]
MCStart == [p \in {n1, n2, n3, a1, a2, a3, d} |->
   CASE p = n1 -> b1 [] p = n2 -> b3 [] p = a1 -> c1 [] OTHER -> Absent]
Edit(n, from, to) == Operation("edit", n, None, from, to, none)
Create(n, to) == Operation("create", None, n, None, to, none)
MakeDir == Operation("mkdir", None, d, None, Dir, none)
Copy(p, q, b) == Operation("copy", p, q, b, b, none)
MoveAttachment(p, q, b) == Operation("move-attachment", p, q, b, b, none)
Trash(p, b) == Operation("trash", p, None, b, None, none)
Move(p, q, from, to, rewrites) == Operation("move", p, q, from, to, rewrites)
Rewrite(from, to) == [from |-> from, to |-> to]
MCRequests == {
  <<Edit(n1, b1, b2), Create(n3, b4)>>,
  <<Copy(a1, a2, c1), Trash(n1, b1)>>,
  <<MoveAttachment(a1, a2, c1), Edit(n1, b1, b2)>>,
  <<Move(n1, n3, b1, b2, n1 :> Rewrite(b1, b2) @@ n2 :> Rewrite(b3, b4))>>,
  <<Move(n1, n3, b1, b1, n2 :> Rewrite(b3, b4))>>,
  <<Trash(a1, c1), MakeDir>>,
  <<Edit(n1, b1, b2), Edit(n1, b2, b1)>>,
  <<Copy(a1, a3, c1), MoveAttachment(a3, a2, c1)>>,
  <<Trash(n1, b1), Create(n1, b2)>>,
  <<Edit(n1, b1, b2), Trash(n1, b2)>>,
  <<Edit(n1, b2, b1)>> }
============================================================================
