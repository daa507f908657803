------------------------- MODULE DurableImplementer -------------------------
(***************************************************************************)
(* .sandcastle: one implementation of an Issue, or of one child of a Spec, *)
(* after its plan (implementer.ts with its Git state, target-checkout.ts,  *)
(* github-cli.ts, automation-github.ts). An Agent commits on a named       *)
(* branch of a disposable clone and pushes it; up to three attempts run on *)
(* what the interrupted ones left behind, and what counts in the end is    *)
(* the named branch, compared with a baseline that was frozen before the   *)
(* first. Other people may push to the same branch of the remote.          *)
(*                                                                         *)
(* Commit 1 is the root, commit 2 the authorized base, commit 3 the shared *)
(* branch on which the earlier children of a Spec are.                     *)
(***************************************************************************)
EXTENDS Naturals, Sequences, FiniteSets

CONSTANTS
  Attempts,     \* MAX_INVOCATION_ATTEMPTS
  Reads,        \* MAX_BRANCH_STATE_ATTEMPTS
  MaxCommits,   \* bound: commits of the Agents
  MaxOthers,    \* bound: pushes of other people
  MaxFaults     \* bound: failing commands, and what Agents do against their prompt

VARIABLES
  accumulating, \* a Spec's child, on the shared branch (rigid)
  parent,       \* the commits
  remote,       \* the branch on GitHub
  tracking,     \* origin/<branch> of the clone
  local,        \* refs/heads/<branch> of the clone
  tree,         \* what has the branch checked out
  at,           \* where the implementation is
  baseline, head, attempt, reads,
  result,
  fetched,      \* history: the branch on GitHub when the clone fetched it first
  others, faults

git == <<parent, remote, tracking, local, tree>>
run == <<at, baseline, head, attempt, reads, result>>
vars == <<accumulating, git, run, fetched, others, faults>>

None == 0
Base == 2
Shared == 3
Commits == 1..Len(parent)
Ancestors(c) ==
  LET older[k \in 0..Len(parent)] == IF k = None THEN {} ELSE {k} \cup older[parent[k]]
  IN older[c]
IsAncestor(a, d) == a \in Ancestors(d)

TypeOK ==
  /\ accumulating \in BOOLEAN
  /\ parent \in Seq(0..(3 + MaxCommits + MaxOthers))
  /\ {remote, tracking, local, baseline, head, fetched} \subseteq Commits \cup {None}
  /\ tree \in {"none", "clean", "dirty", "root"}
  /\ at \in {"prepare", "reconcile", "call", "agent", "returned", "worktree",
             "publish", "confirm", "created", "done"}
  /\ attempt \in 1..Attempts /\ reads \in 0..(Reads - 1)
  /\ result \in {"none", "implemented", "failed"}
  /\ at = "done" <=> result # "none"
  /\ others \in 0..MaxOthers /\ faults \in 0..MaxFaults

\* The clone takes the branches of the trusted repository for the remote's, and
\* a leftover one is among them until a fetch overwrites it. An Issue whose
\* branch is on GitHub does not come here.
Init ==
  /\ accumulating \in BOOLEAN
  /\ parent = <<None, 1, 1>> /\ local = None /\ tree = "none"
  /\ tracking \in {None, Shared} /\ remote \in {None} \cup {c \in {Shared} : accumulating}
  /\ at = "prepare" /\ baseline = Base /\ head = None /\ attempt = 1 /\ reads = 0
  /\ result = "none" /\ fetched = None /\ others = 0 /\ faults = 0

Fails == faults < MaxFaults /\ faults' = faults + 1
Works == UNCHANGED faults
Goes(a) == at' = a /\ reads' = 0 /\ UNCHANGED <<attempt, result>>
Ends(r) == at' = "done" /\ result' = r /\ UNCHANGED <<attempt, reads>>
\* The sentinel leaves the window at once.
Stops == Ends("failed")
\* An ordinary failure of an attempt: the next one, or none is left.
AttemptFails ==
  IF attempt < Attempts
  THEN at' = "reconcile" /\ attempt' = attempt + 1 /\ reads' = 0 /\ UNCHANGED result
  ELSE Ends("failed")
\* readBranchState: a read that fails is tried again; the last failure stops.
ReadFails ==
  IF reads + 1 < Reads THEN reads' = reads + 1 /\ UNCHANGED <<at, attempt, result>> ELSE Stops

-----------------------------------------------------------------------------
(* The Git state. A command that fails may have had its effect.            *)

\* Nothing is pruned: a branch that is not on GitHub keeps what was there.
Fetched == IF remote = None THEN tracking ELSE remote
Fetches == tracking' = Fetched /\ fetched' = IF at = "prepare" THEN remote ELSE fetched
FrozenBaseline == IF accumulating /\ Fetched # None THEN Fetched ELSE Base

\* prepareBranch only makes a branch that is not there.
Prepare ==
  /\ at = "prepare"
  /\ \/ /\ Works /\ Fetches /\ baseline' = FrozenBaseline
        /\ \/ ~accumulating /\ Fetched # None /\ Stops /\ UNCHANGED local
           \/ /\ accumulating \/ Fetched = None
              /\ \/ local = None /\ local' = FrozenBaseline /\ Goes("call")
                 \/ /\ local # None /\ UNCHANGED local
                    /\ IF IsAncestor(FrozenBaseline, local) THEN Goes("call") ELSE Stops
     \/ /\ Fails /\ ReadFails
        /\ \/ UNCHANGED <<tracking, fetched, baseline, local>>
           \/ Fetches /\ UNCHANGED <<baseline, local>>
           \/ /\ accumulating \/ Fetched = None
              /\ Fetches /\ baseline' = FrozenBaseline
              /\ local' = IF local = None THEN FrozenBaseline ELSE local
  /\ UNCHANGED <<accumulating, parent, remote, tree, head, others>>

\* Between two attempts: the remote may be on the path from the baseline to the
\* local branch, which is never reset.
OnPath(seen) == seen = None \/ (IsAncestor(baseline, seen) /\ IsAncestor(seen, local))
Descends(c) == c # None /\ IsAncestor(baseline, c)
Reconcile ==
  /\ at = "reconcile"
  /\ \/ /\ Works
        /\ IF Descends(local)
           THEN Fetches /\ IF OnPath(Fetched) THEN Goes("call") ELSE Stops
           ELSE Stops /\ UNCHANGED <<tracking, fetched>>
     \/ Fails /\ ReadFails /\ (Fetches \/ UNCHANGED <<tracking, fetched>>)
  /\ UNCHANGED <<accumulating, parent, remote, local, tree, baseline, head, others>>

-----------------------------------------------------------------------------
(* The Agent, in a worktree of its own. It may be cut off at any moment.   *)

Agent ==
  /\ at = "agent"
  /\ UNCHANGED <<accumulating, run, fetched, others>>

Call ==
  /\ at = "call" /\ Goes("agent") /\ Works
  /\ tree' = IF tree = "none" THEN "clean" ELSE tree
  /\ UNCHANGED <<accumulating, parent, remote, tracking, local, baseline, head, fetched, others>>

\* The first prompt for a child resumes what is on GitHub; later prompts forbid it.
Resume ==
  /\ Agent /\ Works /\ accumulating /\ attempt = 1 /\ remote # None
  /\ tree \in {"clean", "dirty"} /\ tracking' = remote /\ local' = remote
  /\ UNCHANGED <<parent, remote, tree>>

Commit ==
  /\ Agent /\ Works /\ local # None /\ tree \in {"clean", "dirty"}
  /\ Len(parent) < 3 + MaxCommits + others
  /\ parent' = Append(parent, local) /\ local' = Len(parent')
  /\ tree' \in {"clean", "dirty"} /\ UNCHANGED <<remote, tracking>>

Edit ==
  /\ Agent /\ Works /\ tree = "clean" /\ tree' = "dirty"
  /\ UNCHANGED <<parent, remote, tracking, local>>

\* git push, never forced.
Push ==
  /\ Agent /\ Works /\ local # None /\ remote \in Ancestors(local) \cup {None}
  /\ remote' = local /\ tracking' = local
  /\ UNCHANGED <<parent, local, tree>>

\* What the prompts forbid: a reset, a deleted branch, a forced push, or the
\* branch in the root checkout.
Disobey ==
  /\ Agent /\ Fails
  /\ \/ local' \in (Commits \cup {None}) \ {local} /\ UNCHANGED <<remote, tracking, tree>>
     \/ local # None /\ remote' = local /\ tracking' = local /\ UNCHANGED <<local, tree>>
     \/ tree' = "root" /\ UNCHANGED <<remote, tracking, local>>
  /\ UNCHANGED parent

\* A run that returns removes a clean worktree; one that is rejected, or says it
\* used another branch, leaves it.
AgentReturns ==
  /\ at = "agent"
  /\ \/ /\ Goes("returned") /\ Works
        /\ tree' = IF tree = "clean" THEN "none" ELSE tree
     \/ AttemptFails /\ Works /\ UNCHANGED tree
  /\ UNCHANGED <<accumulating, parent, remote, tracking, local, baseline, head, fetched, others>>

-----------------------------------------------------------------------------
(* What an attempt has to show.                                            *)

\* A missing branch is read again, in vain.
ProvenHead(c) == Descends(c)
CheckHead ==
  /\ at = "returned"
  /\ \/ /\ Works /\ local # None /\ head' = local
        /\ IF ~ProvenHead(local) THEN Stops
           ELSE IF local = baseline THEN AttemptFails ELSE Goes("worktree")
     \/ local = None /\ Works /\ Stops /\ UNCHANGED head
     \/ Fails /\ ReadFails /\ UNCHANGED head
  /\ UNCHANGED <<accumulating, git, baseline, fetched, others>>

\* The listing of worktrees may fail and be read again; a worktree that cannot
\* be observed stops.
CheckWorktree ==
  /\ at = "worktree"
  /\ \/ Works /\ tree \in {"none", "clean"} /\ Goes("publish")
     \/ Works /\ tree = "dirty" /\ AttemptFails
     \/ Works /\ tree = "root" /\ Stops
     \/ Fails /\ (ReadFails \/ Stops)
  /\ UNCHANGED <<accumulating, git, baseline, head, fetched, others>>

\* verifyImplementation reads the Pull Request and then the branch, and
\* ensureSpecDraftPullRequest the Pull Request it finds or makes. Which Pull
\* Requests there are is not modelled: they may be wrong in many ways.
HeadMatches == remote = head
VerifyPullRequest ==
  /\ at = "publish"
  /\ \/ Works /\ HeadMatches /\ (IF accumulating THEN Ends("implemented") ELSE Goes("confirm"))
     \/ Works /\ accumulating /\ remote # None /\ Goes("created")
     \/ Works /\ Ends("failed")
  /\ UNCHANGED <<accumulating, git, baseline, head, fetched, others>>

\* The second look at the branch of an Issue, or at a Pull Request just made.
VerifyRemote ==
  /\ at \in {"confirm", "created"}
  /\ \/ Works /\ HeadMatches /\ Ends("implemented")
     \/ Works /\ Ends("failed")
  /\ UNCHANGED <<accumulating, git, baseline, head, fetched, others>>

OthersPush ==
  /\ at # "done" /\ others < MaxOthers /\ others' = others + 1
  /\ \E base \in {2, remote} \ {None} :
       parent' = Append(parent, base) /\ remote' = Len(parent')
  /\ UNCHANGED <<accumulating, tracking, local, tree, run, fetched, faults>>

AgentStep == Resume \/ Commit \/ Edit \/ Push \/ Disobey
Step ==
  \/ Prepare \/ Reconcile \/ Call \/ AgentReturns
  \/ CheckHead \/ CheckWorktree \/ VerifyPullRequest \/ VerifyRemote
Next == Step \/ AgentStep \/ OthersPush
Spec == Init /\ [][Next]_vars

-----------------------------------------------------------------------------
\* What is reported as implemented is the branch on GitHub at that moment, with
\* new commits on the frozen baseline and none left in a worktree; and nothing that
\* was on the branch when the implementation began is missing, whatever the Agents
\* of three attempts did. And an Agent is called again only where every commit that
\* the clone knows to be on GitHub is under the branch it goes on with.
Proven ==
  /\ remote = head /\ head # baseline /\ tree \in {"none", "clean"}
  /\ Ancestors(baseline) \cup Ancestors(fetched) \subseteq Ancestors(head)
Recoverable == Ancestors(baseline) \cup Ancestors(tracking) \subseteq Ancestors(local)
ImplementsProven ==
  /\ result # "implemented" /\ result' = "implemented" => Proven
  /\ at = "call" /\ at' = "agent" /\ attempt > 1 => Recoverable

\* implementer.ts: the frozen baseline is the shared remote branch, or else the
\* authorized base.
BaselineIsAuthorized == at # "prepare" => baseline \in {Base, fetched}
=============================================================================
