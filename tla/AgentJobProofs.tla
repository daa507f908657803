--------------------------- MODULE AgentJobProofs ---------------------------
(* One Agent job, for groups of any size, any number of attempts, commits,  *)
(* edits by people and failing calls: what its worker's outcome says, what  *)
(* its Agent may spend and deliver, what is implemented when it says so,    *)
(* and what its Target operation works on and leaves behind.                *)
EXTENDS MCAgentJob, SequenceTheorems, WellFoundedInduction, TLAPS

-----------------------------------------------------------------------------
(* Commits by the number of their parent, and what they stand on: Below says *)
(* what the recursive Ancestors says, without recursion.                     *)

\* A set of natural numbers has a least one.
LEMMA Least ==
  ASSUME NEW S \in SUBSET Nat, S # {}
  PROVE  \E n \in S : \A m \in S : n <= m
<1> DEFINE R == OpToRel(<, Nat)
<1>1. IsWellFoundedOn(R, Nat)
  BY NatLessThanWellFounded
<1>2. \A x, y \in Nat : x < y => <<x, y>> \in R
  BY DEF OpToRel
<1> HIDE DEF R
<1>3. PICK n \in S : \A m \in S : <<m, n>> \notin R
  BY <1>1, WFMin
<1>4. n \in Nat /\ \A m \in S : m \in Nat /\ ~(m < n)
  BY <1>2, <1>3
<1>5. \A m \in S : n <= m
  BY <1>4
<1> QED
  BY <1>5

IsTree(par) == par \in Seq(Nat) /\ \A k \in 1..Len(par) : par[k] \in 0..(k - 1)
ClosedIn(par, S) == \A k \in S : k \in 1..Len(par) => par[k] \in S
Below(par, c) ==
  {j \in 1..Len(par) : \A S \in SUBSET (0..Len(par)) : c \in S /\ ClosedIn(par, S) => j \in S}

\* What a commit stands on is itself and what its parent stands on.
LEMMA BelowIsRecursive ==
  ASSUME NEW par, IsTree(par), NEW c \in 0..Len(par)
  PROVE  Below(par, c) = IF c = 0 THEN {} ELSE {c} \cup Below(par, par[c])
<1> USE DEF IsTree
<1>0. Len(par) \in Nat
  BY LenProperties
<1>1. CASE c = 0
  <2>1. {0} \in SUBSET (0..Len(par)) /\ c \in {0} /\ ClosedIn(par, {0})
    BY <1>0, <1>1 DEF ClosedIn
  <2>2. \A j \in Below(par, 0) : j \in 1..Len(par) /\ j \in {0}
    BY <1>1, <2>1 DEF Below
  <2> QED
    BY <1>0, <1>1, <2>2
<1>2. CASE c # 0
  <2>0. c \in 1..Len(par) /\ par[c] \in 0..(c - 1)
    BY <1>0, <1>2
  <2>1. ASSUME NEW j \in Below(par, c), j # c PROVE j \in Below(par, par[c])
    <3> SUFFICES ASSUME NEW S \in SUBSET (0..Len(par)), par[c] \in S, ClosedIn(par, S) PROVE j \in S
      BY <2>1 DEF Below
    <3>1. S \cup {c} \in SUBSET (0..Len(par)) /\ ClosedIn(par, S \cup {c})
      BY DEF ClosedIn
    <3> QED
      BY <2>1, <3>1 DEF Below
  <2>2. ASSUME NEW j \in Below(par, par[c]) PROVE j \in Below(par, c)
    BY <2>0 DEF Below, ClosedIn
  <2>3. c \in Below(par, c)
    BY <2>0 DEF Below
  <2> QED
    BY <1>2, <2>1, <2>2, <2>3
<1> QED
  BY <1>1, <1>2

\* Ancestors, of any tree.
AncestorsIn(par, c) ==
  LET older[k \in 0..Len(par)] == IF k = 0 THEN {} ELSE {k} \cup older[par[k]]
  IN older[c]

\* The recursion over parents computes it.
LEMMA AncestorsAreBelow ==
  ASSUME NEW par, IsTree(par), NEW c \in 0..Len(par)
  PROVE  AncestorsIn(par, c) = Below(par, c)
<1> DEFINE F(g) == [k \in 0..Len(par) |-> IF k = 0 THEN {} ELSE {k} \cup g[par[k]]]
           below == [k \in 0..Len(par) |-> Below(par, k)]
           older[k \in 0..Len(par)] == IF k = 0 THEN {} ELSE {k} \cup older[par[k]]
<1>0. Len(par) \in Nat /\ \A k \in 0..Len(par) : k # 0 => par[k] \in 0..Len(par)
  BY LenProperties DEF IsTree
<1>1. below = F(below)
  <2>1. \A k \in 0..Len(par) : Below(par, k) = IF k = 0 THEN {} ELSE {k} \cup below[par[k]]
    BY <1>0, BelowIsRecursive
  <2> QED
    BY <2>1
<1>2. older = F(older)
  <2>1. older = CHOOSE g : g = F(g)
    OBVIOUS
  <2> HIDE DEF F, below, older
  <2> QED
    BY <1>1, <2>1
<1> HIDE DEF older, below
<1>5. \A k \in 0..Len(par) : below[k] = IF k = 0 THEN {} ELSE {k} \cup below[par[k]]
  BY <1>1
<1>6. \A k \in 0..Len(par) : older[k] = IF k = 0 THEN {} ELSE {k} \cup older[par[k]]
  BY <1>2
<1> HIDE DEF F
<1>3. \A k \in 0..Len(par) : older[k] = below[k]
  <2> DEFINE Differ == {k \in 0..Len(par) : older[k] # below[k]}
  <2> SUFFICES ASSUME Differ # {} PROVE FALSE
    OBVIOUS
  <2>0. Differ \in SUBSET Nat
    BY <1>0
  <2>1. PICK n \in Differ : \A m \in Differ : n <= m
    <3> HIDE DEF Differ
    <3> QED
      BY <2>0, Least
  <2>2. n # 0
    BY <1>5, <1>6, <2>1
  <2>3. par[n] \in 0..(n - 1) /\ n \in 0..Len(par)
    BY <1>0, <2>1, <2>2 DEF IsTree
  <2>4. older[par[n]] = below[par[n]]
    BY <1>0, <2>1, <2>3
  <2> QED
    BY <1>5, <1>6, <2>1, <2>2, <2>3, <2>4
<1>4. AncestorsIn(par, c) = older[c]
  BY DEF AncestorsIn, older
<1> QED
  BY <1>3, <1>4 DEF below

\* Whatever a commit stands on stands on what that stands on.
LEMMA BelowIsTransitive ==
  ASSUME NEW par, NEW c, NEW k \in Below(par, c)
  PROVE  Below(par, k) \subseteq Below(par, c)
BY DEF Below

\* New commits change nothing below the ones that were there.
LEMMA BelowIsKept ==
  ASSUME NEW par, NEW new, IsTree(par), IsTree(new), Len(par) <= Len(new),
         \A k \in 1..Len(par) : new[k] = par[k], NEW c \in 0..Len(par)
  PROVE  Below(new, c) = Below(par, c)
<1>0. Len(par) \in Nat /\ Len(new) \in Nat /\ \A k \in 1..Len(par) : par[k] \in 0..(k - 1)
  BY LenProperties DEF IsTree
<1>1. ASSUME NEW j \in Below(par, c) PROVE j \in Below(new, c)
  <2> SUFFICES ASSUME NEW S \in SUBSET (0..Len(new)), c \in S, ClosedIn(new, S) PROVE j \in S
    BY <1>0 DEF Below
  <2> DEFINE T == S \cap (0..Len(par))
  <2>1. T \in SUBSET (0..Len(par)) /\ c \in T
    OBVIOUS
  <2>2. ClosedIn(par, T)
    BY <1>0 DEF ClosedIn
  <2> HIDE DEF T
  <2>3. j \in T
    BY <1>1, <2>1, <2>2 DEF Below
  <2> QED
    BY <2>3 DEF T
<1>2. ASSUME NEW j \in Below(new, c) PROVE j \in Below(par, c)
  <2>1. ASSUME NEW S \in SUBSET (0..Len(par)), c \in S, ClosedIn(par, S) PROVE j \in S
    <3>1. S \in SUBSET (0..Len(new))
      BY <1>0
    <3>2. ClosedIn(new, S)
      BY <1>0, <2>1 DEF ClosedIn
    <3>3. \A T \in SUBSET (0..Len(new)) : c \in T /\ ClosedIn(new, T) => j \in T
      BY <1>2 DEF Below
    <3> QED
      BY <2>1, <3>1, <3>2, <3>3
  <2>2. (0..Len(par)) \in SUBSET (0..Len(par)) /\ ClosedIn(par, 0..Len(par))
    BY <1>0 DEF ClosedIn
  <2>3. j \in 0..Len(par)
    BY <2>1, <2>2
  <2>4. j \in 1..Len(new)
    BY <1>2 DEF Below
  <2>5. j \in 1..Len(par)
    BY <1>0, <2>3, <2>4
  <2> QED
    BY <2>1, <2>5 DEF Below
<1> QED
  BY <1>1, <1>2

\* A commit that is added.
LEMMA AppendIsTree ==
  ASSUME NEW par, IsTree(par), NEW base \in 0..Len(par), NEW new, new = Append(par, base)
  PROVE  /\ IsTree(new) /\ Len(new) = Len(par) + 1
         /\ \A k \in 1..Len(par) : new[k] = par[k]
<1>0. Len(par) \in Nat /\ par \in Seq(Nat) /\ base \in Nat
  BY LenProperties DEF IsTree
<1>1. /\ new \in Seq(Nat) /\ Len(new) = Len(par) + 1
      /\ \A k \in 1..Len(par) : new[k] = par[k]
      /\ new[Len(par) + 1] = base
  BY <1>0, AppendProperties
<1>2. IsTree(new)
  BY <1>0, <1>1 DEF IsTree
<1> QED
  BY <1>1, <1>2

-----------------------------------------------------------------------------
(* The process of a worker.                                                *)

\* An absent group has no member, and none can join it again.
Absence ==
  /\ group = "gone" => alive = {}
  /\ at = "launch" => alive = {} /\ group = "none"

\* What the owner knows where it stands: nothing is settled before a leader's
\* exit, nothing is cleaned up without an outcome to give, and the output is
\* waited for with an absent group only.
Standpoint ==
  /\ at = "launch" => intent = "none"
  /\ at = "settle" => exited = "exited"
  /\ at \in {"signal", "grace", "kill", "await", "confirm"} => intent # "none"
  /\ at = "output" => group = "gone" /\ intent \in {"completed", "timed-out"}

\* The outcome that is under way fits what happened.
Intended ==
  /\ intent = "timed-out" => deadline = "over"
  /\ intent = "completed" => exited = "exited"

WorkerInv == TypeOK /\ NobodyLeft /\ OutcomeFitsDeadline /\ Absence /\ Standpoint /\ Intended

-----------------------------------------------------------------------------
\* The worker has not started.
LEMMA WorkerInit == Init => WorkerInv
<1> SUFFICES ASSUME Init PROVE WorkerInv
  OBVIOUS
<1>1. {cleanup, renewable, refused, broken, doomed} \subseteq BOOLEAN
  BY Zenon DEF Init
<1>2. TypeOK
  BY <1>1, LeaderAssumption, BoundsAssumption DEF Init, TypeOK, Outcomes
<1> QED
  BY <1>2 DEF Init, WorkerInv, NobodyLeft, OutcomeFitsDeadline, Absence, Standpoint, Intended

\* Members come and go: nobody joins a group that nobody is in.
LEMMA ForkInv == WorkerInv /\ Fork => WorkerInv'
<1> SUFFICES ASSUME WorkerInv, Fork PROVE WorkerInv'
  OBVIOUS
<1> USE DEF WorkerInv, Fork, timers, Owner, frame
<1>1. TypeOK'
  BY DEF TypeOK, Outcomes
<1>2. NobodyLeft' /\ OutcomeFitsDeadline'
  BY DEF NobodyLeft, OutcomeFitsDeadline
<1>3. Absence' /\ Standpoint' /\ Intended'
  BY DEF Absence, Standpoint, Intended
<1> QED
  BY <1>1, <1>2, <1>3

LEMMA ExitInv == WorkerInv /\ (Exit \/ Die) => WorkerInv'
<1> SUFFICES ASSUME WorkerInv, Exit \/ Die PROVE WorkerInv'
  OBVIOUS
<1> USE DEF WorkerInv, Exit, Die, timers, Owner, frame
<1>1. TypeOK'
  BY DEF TypeOK, Outcomes
<1>2. NobodyLeft' /\ OutcomeFitsDeadline'
  BY DEF NobodyLeft, OutcomeFitsDeadline
<1>3. Absence' /\ Standpoint' /\ Intended'
  BY DEF Absence, Standpoint, Intended
<1> QED
  BY <1>1, <1>2, <1>3

\* The owner hears of an exit once, of an absent group only when it is absent,
\* and of a timer when it has fired.
LEMMA EventInv == WorkerInv /\ (ExitEvent \/ Probe \/ Timer) => WorkerInv'
<1> SUFFICES ASSUME WorkerInv, ExitEvent \/ Probe \/ Timer PROVE WorkerInv'
  OBVIOUS
<1> USE BoundsAssumption DEF WorkerInv, processes, timers, Owner, frame, Fails, Works
<1>1. CASE ExitEvent
  <2>1. TypeOK'
    BY <1>1 DEF ExitEvent, TypeOK, Outcomes
  <2> QED
    BY <1>1, <2>1 DEF ExitEvent, NobodyLeft, OutcomeFitsDeadline, Absence, Standpoint, Intended
<1>2. CASE Probe
  <2>1. TypeOK'
    BY <1>2 DEF Probe, TypeOK, Outcomes
  <2>2. Absence'
    BY <1>2 DEF Probe, Absence
  <2> QED
    BY <1>2, <2>1, <2>2 DEF Probe, NobodyLeft, OutcomeFitsDeadline, Standpoint, Intended
<1>3. CASE Timer
  <2>1. TypeOK'
    BY <1>3 DEF Timer, TypeOK, Outcomes
  <2> QED
    BY <1>3, <2>1 DEF Timer, NobodyLeft, OutcomeFitsDeadline, Absence, Standpoint, Intended
<1> QED
  BY <1>1, <1>2, <1>3

-----------------------------------------------------------------------------
(* The owner.                                                              *)

\* The worker starts, or the owner gives up with or without it.
LEMMA LaunchInv == WorkerInv /\ Launch => WorkerInv'
<1> SUFFICES ASSUME WorkerInv, Launch PROVE WorkerInv'
  OBVIOUS
<1>0. faults' \in 0..MaxFaults
  <2>1. Works \/ Fails
    BY DEF Launch
  <2> QED
    BY <2>1, BoundsAssumption DEF WorkerInv, TypeOK, Works, Fails
<1> USE LeaderAssumption, BoundsAssumption
    DEF WorkerInv, Launch, Fails, Works, Goes, Returns, Observed, Unobserved, frame
\* The worker runs; it could not be started; it runs without its startup.
<1>1. CASE Goes("race")
  <2>1. TypeOK'
    BY <1>1 DEF TypeOK, Outcomes, Terminates
  <2>2. alive' = {Leader} /\ group' = "pending" /\ outcome' = outcome /\ UNCHANGED frame
    BY <1>1 DEF Terminates
  <2>3. at = "launch" /\ at' = "race" /\ exited' = exited
    BY <1>1
  <2> QED
    BY <2>1, <2>2, <2>3 DEF TypeOK, NobodyLeft, OutcomeFitsDeadline, Absence, Standpoint, Intended
<1>2. CASE Returns("failed")
  <2>1. TypeOK'
    BY <1>2 DEF TypeOK, Outcomes, Terminates
  <2> QED
    BY <1>2, <2>1
       DEF Terminates, TypeOK, NobodyLeft, OutcomeFitsDeadline, Absence, Standpoint, Intended
<1>3. CASE Terminates("failed", TRUE, TRUE)
  <2>a. {cleanup', renewable', refused', broken', doomed'} \subseteq BOOLEAN
    BY <1>3 DEF TypeOK, Terminates
  <2>1. TypeOK'
    BY <1>0, <1>3, <2>a DEF TypeOK, Outcomes, Terminates
  <2> QED
    BY <1>3, <2>1
       DEF Terminates, TypeOK, NobodyLeft, OutcomeFitsDeadline, Absence, Standpoint, Intended
<1> QED
  BY <1>1, <1>2, <1>3

\* The first of exit, deadline and refusal decides what is to be told.
LEMMA RaceInv == WorkerInv /\ Race => WorkerInv'
<1> SUFFICES ASSUME WorkerInv, Race PROVE WorkerInv'
  OBVIOUS
<1> USE DEF WorkerInv, Race, Quiet, processes, Works, Goes, Terminates, CleansUp, Observed,
    Unobserved,
            frame, timers
<1>1. TypeOK'
  BY DEF TypeOK, Outcomes
<1>2. NobodyLeft' /\ OutcomeFitsDeadline'
  BY DEF TypeOK, NobodyLeft, OutcomeFitsDeadline
<1>3. Absence' /\ Standpoint' /\ Intended'
  BY DEF TypeOK, Absence, Standpoint, Intended
<1> QED
  BY <1>1, <1>2, <1>3

\* After the leader's exit the group is settled, or has to be cleaned up.
LEMMA SettleInv == WorkerInv /\ Settle => WorkerInv'
<1> SUFFICES ASSUME WorkerInv, Settle PROVE WorkerInv'
  OBVIOUS
<1> USE DEF WorkerInv, Settle, Quiet, processes, Works, Goes, Terminates, CleansUp, Observed,
            Unobserved, Outlived
<1>1. TypeOK'
  BY DEF TypeOK, Outcomes
<1>2. NobodyLeft' /\ OutcomeFitsDeadline'
  BY DEF TypeOK, NobodyLeft, OutcomeFitsDeadline
<1>3. Absence' /\ Standpoint' /\ Intended'
  BY DEF TypeOK, Absence, Standpoint, Intended
<1> QED
  BY <1>1, <1>2, <1>3

\* The group is told to end, and has its grace.
LEMMA SignalInv == WorkerInv /\ Signal => WorkerInv'
<1> SUFFICES ASSUME WorkerInv, Signal PROVE WorkerInv'
  OBVIOUS
<1> USE BoundsAssumption DEF WorkerInv, Signal, processes, Works, Fails, Goes
<1>a. {cleanup', renewable', refused', broken', doomed'} \subseteq BOOLEAN
  BY DEF TypeOK
<1>b. faults' \in 0..MaxFaults
  BY DEF TypeOK
<1>1. TypeOK'
  BY <1>a, <1>b DEF TypeOK, Outcomes
<1>2. NobodyLeft' /\ OutcomeFitsDeadline'
  BY DEF TypeOK, NobodyLeft, OutcomeFitsDeadline
<1>3. Absence' /\ Standpoint' /\ Intended'
  BY DEF TypeOK, Absence, Standpoint, Intended
<1> QED
  BY <1>1, <1>2, <1>3

\* Everything after the group's absence: the outcome is told, or the output is
\* waited for.
LEMMA EndedInv ==
  ASSUME WorkerInv, at \in {"grace", "await"}, group = "gone", Quiet, Works,
         UNCHANGED deadline, grace' = "off", Ended
  PROVE  WorkerInv'
<1> USE DEF WorkerInv, Ended, Throws, CleansUp, Terminates, Goes, Returns, Observed, Unobserved,
    Quiet,
            Works, processes, frame
<1>1. TypeOK'
  BY DEF TypeOK, Outcomes
<1>2. NobodyLeft' /\ OutcomeFitsDeadline'
  BY DEF TypeOK, NobodyLeft, OutcomeFitsDeadline, Absence
<1>3. Absence' /\ Standpoint' /\ Intended'
  BY DEF TypeOK, Absence, Standpoint, Intended
<1> QED
  BY <1>1, <1>2, <1>3

LEMMA GraceInv == WorkerInv /\ Grace => WorkerInv'
<1> SUFFICES ASSUME WorkerInv, Grace PROVE WorkerInv'
  OBVIOUS
<1>1. CASE group = "gone" /\ Cancels /\ Ended
  BY <1>1, EndedInv DEF Grace, Cancels
<1>2. CASE /\ group \in {"pending", "failed"} /\ Goes("kill") /\ Unobserved
           /\ broken' \in BOOLEAN /\ UNCHANGED <<grace, intent, cleanup, renewable, refused>>
  <2> USE <1>2 DEF WorkerInv, Grace, Quiet, processes, Works, Goes, Unobserved
  <2>1. TypeOK'
    BY DEF TypeOK, Outcomes
  <2>2. NobodyLeft' /\ OutcomeFitsDeadline'
    BY DEF TypeOK, NobodyLeft, OutcomeFitsDeadline
  <2>3. Absence' /\ Standpoint' /\ Intended'
    BY DEF TypeOK, Absence, Standpoint, Intended
  <2> QED
    BY <2>1, <2>2, <2>3
<1> QED
  BY <1>1, <1>2 DEF Grace, Escalates, frame, WorkerInv, TypeOK

\* The group is killed.
LEMMA KillInv == WorkerInv /\ Kill => WorkerInv'
<1> SUFFICES ASSUME WorkerInv, Kill PROVE WorkerInv'
  OBVIOUS
<1> USE BoundsAssumption DEF WorkerInv, Kill, Works, Fails, Goes, Observed, Unobserved
<1>a. {cleanup', renewable', refused', broken', doomed'} \subseteq BOOLEAN
  BY DEF TypeOK
<1>b. faults' \in 0..MaxFaults
  BY DEF TypeOK
<1>1. TypeOK'
  BY <1>a, <1>b DEF TypeOK, Outcomes
<1>2. NobodyLeft' /\ OutcomeFitsDeadline'
  BY DEF TypeOK, NobodyLeft, OutcomeFitsDeadline
<1>3. Absence' /\ Standpoint' /\ Intended'
  BY DEF TypeOK, Absence, Standpoint, Intended
<1> QED
  BY <1>1, <1>2, <1>3

LEMMA AwaitInv == WorkerInv /\ Await => WorkerInv'
<1> SUFFICES ASSUME WorkerInv, Await PROVE WorkerInv'
  OBVIOUS
<1>1. CASE group = "gone" /\ Ended
  <2>1. UNCHANGED deadline /\ grace' = "off"
    BY DEF WorkerInv, TypeOK, Await, timers
  <2> QED
    BY <1>1, <2>1, EndedInv DEF Await
<1>2. CASE group = "failed" /\ Goes("confirm") /\ (Observed \/ Unobserved) /\ UNCHANGED frame
  <2> USE <1>2 DEF WorkerInv, Await, Quiet, processes, Works, Goes, Observed, Unobserved, timers,
      frame
  <2>1. TypeOK'
    BY DEF TypeOK, Outcomes
  <2>2. NobodyLeft' /\ OutcomeFitsDeadline'
    BY DEF TypeOK, NobodyLeft, OutcomeFitsDeadline
  <2>3. Absence' /\ Standpoint' /\ Intended'
    BY DEF TypeOK, Absence, Standpoint, Intended
  <2> QED
    BY <2>1, <2>2, <2>3
<1> QED
  BY <1>1, <1>2 DEF Await

\* The last probe says whether anybody is left.
LEMMA ConfirmInv == WorkerInv /\ Confirm => WorkerInv'
<1> SUFFICES ASSUME WorkerInv, Confirm PROVE WorkerInv'
  OBVIOUS
<1> USE DEF WorkerInv, Confirm, Throws, CleansUp, Terminates, Goes, Returns, Observed, Unobserved,
            Quiet, Works, processes, frame, timers
<1>1. TypeOK'
  BY DEF TypeOK, Outcomes
<1>2. NobodyLeft' /\ OutcomeFitsDeadline'
  BY DEF TypeOK, NobodyLeft, OutcomeFitsDeadline
<1>3. Absence' /\ Standpoint' /\ Intended'
  BY DEF TypeOK, Absence, Standpoint, Intended
<1> QED
  BY <1>1, <1>2, <1>3

\* The streams of an absent group end, fail or time out.
LEMMA OutputInv == WorkerInv /\ Output => WorkerInv'
<1> SUFFICES ASSUME WorkerInv, Output PROVE WorkerInv'
  OBVIOUS
<1> USE BoundsAssumption DEF WorkerInv, Output, Returns, Quiet, Works, Fails, processes, frame,
    timers
<1>1. TypeOK'
  BY DEF TypeOK, Outcomes, Standpoint
<1>2. NobodyLeft' /\ OutcomeFitsDeadline'
  BY DEF TypeOK, NobodyLeft, OutcomeFitsDeadline, Absence, Standpoint, Intended
<1>3. Absence' /\ Standpoint' /\ Intended'
  BY DEF TypeOK, Absence, Standpoint, Intended
<1> QED
  BY <1>1, <1>2, <1>3

-----------------------------------------------------------------------------
\* Every step keeps the invariant.
LEMMA WorkerNext == WorkerInv /\ [Next]_vars => WorkerInv'
<1> SUFFICES ASSUME WorkerInv, [Next]_vars PROVE WorkerInv'
  OBVIOUS
<1>1. CASE OwnerStep
  BY <1>1, LaunchInv, RaceInv, SettleInv, SignalInv, GraceInv, KillInv, AwaitInv, ConfirmInv,
     OutputInv DEF OwnerStep
<1>2. CASE Fork \/ Exit \/ Die \/ ExitEvent \/ Probe \/ Timer
  BY <1>2, ForkInv, ExitInv, EventInv
<1>3. CASE UNCHANGED vars
  BY <1>3 DEF vars, processes, timers, frame, WorkerInv, TypeOK, Outcomes, NobodyLeft,
              OutcomeFitsDeadline, Absence, Standpoint, Intended
<1> QED
  BY <1>1, <1>2, <1>3 DEF Next

-----------------------------------------------------------------------------
(* The stages of an Agent role.                                            *)

\* The runs that the structured attempts, and the substantive ones of an update,
\* before this one can have made.
Given(s) == (s - 1) * Attempts
Rounds(n) == (n - 1) * (1 + Stages!FormatRuns)

\* What is assumed of the bounds of attempts.
LEMMA StageBounds ==
  /\ Attempts \in Nat \ {0} /\ StructuredAttempts \in Nat \ {0} /\ Stages!FormatRuns \in Nat
  /\ Roles \subseteq {"read", "review", "feedback", "update"}
BY JobAssumption DEF Stages!FormatRuns

\* What structured attempts and rounds may have spent.
LEMMA GivenFacts ==
  /\ Given(1) = 0
  /\ \A s \in 1..StructuredAttempts :
       /\ Given(s) \in Nat /\ Given(s) + Attempts <= Stages!FormatRuns
       /\ Given(s + 1) = Given(s) + Attempts
<1>0. Attempts \in Nat /\ StructuredAttempts \in Nat
  BY StageBounds
<1>1. ASSUME NEW s \in 1..StructuredAttempts
      PROVE  /\ (s - 1) * Attempts \in Nat
             /\ (s - 1) * Attempts + Attempts <= Attempts * StructuredAttempts
             /\ (s + 1 - 1) * Attempts = (s - 1) * Attempts + Attempts
  BY <1>0
<1> QED
  BY <1>0, <1>1 DEF Given, Stages!FormatRuns

LEMMA RoundsFacts ==
  /\ Rounds(1) = 0 /\ Attempts * (1 + Stages!FormatRuns) \in Nat
  /\ \A n \in 1..Attempts :
       /\ Rounds(n) \in Nat
       /\ Rounds(n) + 1 + Stages!FormatRuns <= Attempts * (1 + Stages!FormatRuns)
       /\ Rounds(n + 1) = Rounds(n) + 1 + Stages!FormatRuns
<1>0. Attempts \in Nat /\ Stages!FormatRuns \in Nat
  BY StageBounds
<1>1. ASSUME NEW n \in 1..Attempts, NEW f \in Nat
      PROVE  /\ (n - 1) * (1 + f) \in Nat
             /\ (n - 1) * (1 + f) + 1 + f <= Attempts * (1 + f)
             /\ (n + 1 - 1) * (1 + f) = (n - 1) * (1 + f) + 1 + f
  BY <1>0
<1> QED
  BY <1>0, <1>1 DEF Rounds

\* The runs before this substantive attempt, its own, and those of the formatting
\* stage that follows it.
Before == CASE role = "read" -> 0 [] role = "update" -> Rounds(stageAttempt) [] OTHER -> stageAttempt - 1
Own == IF role = "read" THEN 0 ELSE 1
Formatted == Given(structured) + invocation - IF stageAt = "unchanged" THEN 0 ELSE 1
Budget ==
  CASE stageAt = "merge" -> 0
    [] stageAt \in {"attempt", "produce"} -> Before
    [] stageAt \in {"observe", "freeze"} -> Before + Own
    [] stageAt \in {"format", "run", "unchanged"} -> Before + Own + Formatted
    [] OTHER -> Before + Own + Stages!FormatRuns

\* Which roles have a stage, and what is frozen for it.
StagesOfRole ==
  /\ stageAt = "merge" => role = "update" /\ stageAttempt = 1
  /\ stageAt = "validate" => role = "update"
  /\ stageAt \in {"attempt", "produce", "observe"} => role # "read"
Frozen ==
  /\ stageAt = "freeze" /\ role = "feedback" => frozen.head # "start"
  /\ stageAt \in {"format", "run", "unchanged", "validate"} =>
       Stages!Clean(frozen) /\ (role = "feedback" => frozen.head # "start")
  /\ stageAt \in {"format", "run", "validate"} => checkout = frozen

StagesInv ==
  Stages!TypeOK /\ Stages!RunsWithinBudget /\ runs <= Budget /\ StagesOfRole /\ Frozen

-----------------------------------------------------------------------------
\* No stage has a budget beyond that of the whole operation.
LEMMA BudgetIsAllowed ==
  Stages!TypeOK /\ StagesOfRole /\ runs <= Budget => Stages!RunsWithinBudget
<1> SUFFICES ASSUME Stages!TypeOK, StagesOfRole, runs <= Budget PROVE Stages!RunsWithinBudget
  OBVIOUS
<1> DEFINE F == Stages!FormatRuns
<1>1. /\ role \in {"read", "review", "feedback", "update"} /\ F \in Nat /\ Attempts \in Nat
      /\ stageAttempt \in 1..Attempts /\ structured \in 1..StructuredAttempts
      /\ invocation \in 1..Attempts /\ runs \in Nat
  BY StageBounds DEF Stages!TypeOK
<1>2. /\ Rounds(stageAttempt) \in Nat /\ Attempts * (1 + F) \in Nat
      /\ Rounds(stageAttempt) + 1 + F <= Attempts * (1 + F)
  BY <1>1, RoundsFacts
<1>3. Formatted \in Nat /\ Formatted <= F
  BY <1>1, GivenFacts DEF Formatted
<1> HIDE DEF F
<1>4. stageAt \in {"merge", "attempt", "produce", "observe", "freeze",
                  "format", "run", "unchanged", "validate", "done"}
  BY DEF Stages!TypeOK
<1>5. runs <= Before + Own + F /\ Before \in Nat
  BY <1>1, <1>2, <1>3, <1>4 DEF Budget, Before, Own, F
<1>6. Before + Own + F <= CASE role = "read" -> F [] role = "update" -> Attempts * (1 + F)
                            [] OTHER -> Attempts + F
  BY <1>1, <1>2 DEF Before, Own
<1>7. runs <= CASE role = "read" -> F [] role = "update" -> Attempts * (1 + F)
                [] OTHER -> Attempts + F
  BY <1>1, <1>2, <1>5, <1>6 DEF Own
<1> QED
  BY <1>7 DEF Stages!RunsWithinBudget, F

\* An Agent role starts with its whole budget.
LEMMA StagesInit == Stages!Init => StagesInv
<1> SUFFICES ASSUME Stages!Init PROVE StagesInv
  OBVIOUS
<1>1. role \in {"read", "review", "feedback", "update"}
  BY StageBounds DEF Stages!Init
<1>2. runs = 0 /\ stageAttempt = 1 /\ structured = 1 /\ invocation = 1 /\ stageResult = "none"
  BY DEF Stages!Init
<1>3. stageAt \in {"freeze", "merge", "attempt"} /\ (stageAt = "merge" <=> role = "update")
      /\ (stageAt = "freeze" <=> role = "read")
  BY <1>1 DEF Stages!Init
<1>4. Stages!TypeOK
  <2>1. formatOnly \in BOOLEAN /\ expired \in BOOLEAN
    BY Zenon DEF Stages!Init
  <2>2. checkout \in Stages!Checkouts /\ frozen \in Stages!Checkouts
    BY DEF Stages!Init, Stages!Checkouts
  <2>3. role \in Roles /\ answer \in Stages!Blocks
    BY DEF Stages!Init, Stages!Blocks
  <2>4. 1 \in 1..Attempts /\ 1 \in 1..StructuredAttempts
    BY StageBounds
  <2> QED
    BY <1>2, <1>3, <2>1, <2>2, <2>3, <2>4 DEF Stages!TypeOK
<1>6. runs <= Budget
  BY <1>1, <1>2, <1>3, RoundsFacts DEF Budget, Before, Own
<1>7. StagesOfRole /\ Frozen
  BY <1>1, <1>2, <1>3 DEF StagesOfRole, Frozen
<1>8. Stages!RunsWithinBudget
  BY <1>3, <1>4, <1>6, <1>7, BudgetIsAllowed
<1> QED
  BY <1>4, <1>6, <1>7, <1>8 DEF StagesInv

LEMMA StagesStep ==
  ASSUME Stages!TypeOK', StagesOfRole', Frozen', (runs <= Budget)'
  PROVE  StagesInv'
<1>1. Stages!RunsWithinBudget'
  BY BudgetIsAllowed, PTL
<1> QED
  BY <1>1 DEF StagesInv

\* What every action leaves of the checkout, the answer and the signals.
Carried ==
  /\ role' = role /\ checkout' \in Stages!Checkouts /\ frozen' \in Stages!Checkouts
  /\ answer' \in Stages!Blocks \cup {Stages!Rejected}
  /\ formatOnly' \in BOOLEAN /\ expired' \in BOOLEAN /\ runs' \in Nat

\* The runs so far are fewer than those of the attempt that is on its way.
Spent(made) == made <= Before + Own + Stages!FormatRuns

\* The parts of a budget, and that spending within them keeps the bound.
LEMMA BudgetParts ==
  Stages!TypeOK => /\ Before \in Nat /\ Own \in Nat /\ Stages!FormatRuns \in Nat
                   /\ Formatted \in Nat /\ Formatted <= Stages!FormatRuns
<1> SUFFICES ASSUME Stages!TypeOK
             PROVE  /\ Before \in Nat /\ Own \in Nat /\ Stages!FormatRuns \in Nat
                    /\ Formatted \in Nat /\ Formatted <= Stages!FormatRuns
  OBVIOUS
<1>1. /\ Stages!FormatRuns \in Nat /\ Attempts \in Nat /\ stageAttempt \in 1..Attempts
      /\ structured \in 1..StructuredAttempts /\ invocation \in 1..Attempts
  BY StageBounds DEF Stages!TypeOK
<1>2. Formatted \in Nat /\ Formatted <= Stages!FormatRuns
  BY <1>1, GivenFacts DEF Formatted
<1>3. Rounds(stageAttempt) \in Nat
  BY <1>1, RoundsFacts
<1>4. Before \in Nat /\ Own \in Nat
  BY <1>1, <1>3 DEF Before, Own
<1> QED
  BY <1>1, <1>2, <1>4

LEMMA BudgetIsSpent ==
  ASSUME StagesInv
  PROVE  Spent(runs)
<1>1. /\ Before \in Nat /\ Own \in Nat /\ Stages!FormatRuns \in Nat /\ runs \in Nat
      /\ Formatted \in Nat /\ Formatted <= Stages!FormatRuns
  BY BudgetParts DEF StagesInv, Stages!TypeOK
<1>2. Budget \in {0, Before, Before + Own, Before + Own + Formatted,
                  Before + Own + Stages!FormatRuns}
  BY DEF Budget
<1>3. Budget <= Before + Own + Stages!FormatRuns /\ Budget \in Nat
  BY <1>1, <1>2
<1> QED
  BY <1>1, <1>3 DEF StagesInv, Spent

\* The operation ends.
LEMMA EndsInv ==
  ASSUME StagesInv, Carried, Spent(runs'), NEW r \in {"delivered", "up-to-date", "failed"},
         Stages!Ends(r)
  PROVE  StagesInv'
<1>1. /\ stageAt' = "done" /\ stageResult' = r
      /\ UNCHANGED <<stageAttempt, invocation, structured>>
  BY DEF Stages!Ends
<1>2. Stages!TypeOK'
  BY <1>1 DEF StagesInv, Carried, Stages!TypeOK
<1>3. StagesOfRole' /\ Frozen'
  BY <1>1 DEF StagesOfRole, Frozen
<1>4. Spent(runs)'
  BY <1>1 DEF Carried, Spent, Before, Own
<1>5. runs' <= Budget'
  BY <1>1, <1>4 DEF Budget, Spent
<1> QED
  BY <1>2, <1>3, <1>5, StagesStep

\* A failed attempt is the last one, or its runs are those of one attempt: the
\* only roles that attempt again after a formatting stage are those that count it.
LEMMA AttemptFailsInv ==
  ASSUME StagesInv, Carried, Spent(runs'), stageAt # "done", role # "read", Stages!AttemptFails,
         role # "update" => runs' <= stageAttempt
  PROVE  StagesInv'
<1>1. CASE Stages!Ends("failed")
  BY <1>1, EndsInv
<1>2. CASE ~Stages!Ends("failed")
  <2>1. /\ stageAttempt < Attempts /\ stageAt' = "attempt" /\ stageAttempt' = stageAttempt + 1
        /\ UNCHANGED <<invocation, structured, stageResult>>
    BY <1>2 DEF Stages!AttemptFails
  <2>2. Stages!TypeOK'
    BY <2>1, StageBounds DEF StagesInv, Carried, Stages!TypeOK
  <2>3. StagesOfRole' /\ Frozen'
    <3>1. stageAt' = "attempt" /\ role' # "read"
      BY <2>1 DEF Carried
    <3> QED
      BY <3>1 DEF StagesOfRole, Frozen
  <2>4. stageAttempt \in 1..Attempts /\ Stages!FormatRuns \in Nat /\ runs' \in Nat
    BY StageBounds DEF StagesInv, Stages!TypeOK, Carried
  <2>5. Rounds(stageAttempt + 1) = Rounds(stageAttempt) + 1 + Stages!FormatRuns
        /\ Rounds(stageAttempt) \in Nat
    BY <2>4, RoundsFacts
  <2>6. /\ role = "update" => Before' = Rounds(stageAttempt) + 1 + Stages!FormatRuns
        /\ role # "update" => Before' = stageAttempt
    <3>1. Rounds(stageAttempt)' = Rounds(stageAttempt + 1)
      BY <2>1 DEF Rounds, Stages!FormatRuns
    <3> QED
      BY <2>1, <2>4, <2>5, <3>1 DEF Before, Carried
  <2>7. runs' <= Before'
    BY <2>4, <2>5, <2>6 DEF Spent, Before, Own
  <2>8. runs' <= Budget'
    BY <2>1, <2>7 DEF Budget
  <2> QED
    BY <2>2, <2>3, <2>8, StagesStep
<1> QED
  BY <1>1, <1>2

\* The next place of the same attempt.
LEMMA GoesInv ==
  ASSUME StagesInv, Carried, stageAt # "done", NEW a, Stages!Goes(a),
         a \in {"attempt", "produce", "observe", "freeze", "format", "run", "unchanged", "validate"},
         StagesOfRole', Frozen', runs' <= Budget'
  PROVE  StagesInv'
<1>1. Stages!TypeOK'
  BY DEF StagesInv, Carried, Stages!TypeOK, Stages!Goes
<1> QED
  BY <1>1, StagesStep

LEMMA StartInv ==
  ASSUME StagesInv, Stages!Merge \/ Stages!Classify \/ Stages!BeginAttempt
  PROVE  StagesInv'
<1>1. Carried /\ runs' = runs /\ stageAt \in {"merge", "attempt"} /\ role # "read"
  <2>1. \A h \in {"merged", "base"} : [head |-> h, files |-> "clean"] \in Stages!Checkouts
    BY DEF Stages!Checkouts
  <2>2. /\ [checkout EXCEPT !.files = "merging"] \in Stages!Checkouts
        /\ [checkout EXCEPT !.head = "merged"] \in Stages!Checkouts
    BY DEF StagesInv, Stages!TypeOK, Stages!Checkouts
  <2>3. formatOnly' \in BOOLEAN
    BY Zenon DEF StagesInv, Stages!TypeOK, Stages!Merge, Stages!Classify, Stages!BeginAttempt
  <2>4. CASE Stages!Merge
    BY <2>1, <2>2, <2>3, <2>4 DEF Stages!Merge, StagesInv, StagesOfRole, Stages!TypeOK, Carried
  <2>5. CASE Stages!Classify
    BY <2>1, <2>2, <2>3, <2>5 DEF Stages!Classify, StagesInv, StagesOfRole, Stages!TypeOK, Carried
  <2>6. CASE Stages!BeginAttempt
    BY <2>3, <2>6 DEF Stages!BeginAttempt, StagesInv, StagesOfRole, Stages!TypeOK, Carried
  <2> QED
    BY <2>4, <2>5, <2>6
<1>2. Spent(runs') /\ runs <= Before
  BY <1>1, BudgetIsSpent, RoundsFacts DEF StagesInv, StagesOfRole, Budget, Before
<1>3. CASE Stages!Ends("delivered") \/ Stages!Ends("up-to-date") \/ Stages!Ends("failed")
  BY <1>1, <1>2, <1>3, EndsInv
<1>4. CASE Stages!AttemptFails
  BY <1>1, <1>2, <1>4, AttemptFailsInv DEF StagesInv, Stages!TypeOK, Before
<1>5. ASSUME NEW a \in {"attempt", "produce", "freeze"}, Stages!Goes(a), a = "freeze" => role = "update"
      PROVE  StagesInv'
  <2>1. Before' = Before /\ Own' = 1
    <3>1. role' = role /\ stageAttempt' = stageAttempt
      BY <1>1, <1>5 DEF Stages!Goes, Carried
    <3> QED
      BY <1>1, <3>1 DEF Before, Own, Rounds, Stages!FormatRuns
  <2>2. runs' <= Budget'
    BY <1>1, <1>2, <1>5, <2>1, BudgetParts DEF StagesInv, Stages!Goes, Budget, Carried
  <2>3. StagesOfRole' /\ Frozen'
    BY <1>1, <1>5 DEF Stages!Goes, Carried, StagesOfRole, Frozen
  <2> QED
    BY <1>1, <1>5, <2>2, <2>3, GoesInv
<1> QED
  BY <1>1, <1>3, <1>4, <1>5 DEF Stages!Merge, Stages!Classify, Stages!BeginAttempt, Carried

\* The substantive stage: a run of its Agent, and what it left.
LEMMA ProduceInv ==
  ASSUME StagesInv, Stages!Produce \/ Stages!ObserveProduced
  PROVE  StagesInv'
<1>0. /\ Before \in Nat /\ Own = 1 /\ Stages!FormatRuns \in Nat /\ runs \in Nat
      /\ stageAt \in {"produce", "observe"} /\ role # "read"
      /\ runs <= Before + (IF stageAt = "produce" THEN 0 ELSE 1)
  BY BudgetParts DEF StagesInv, Stages!TypeOK, StagesOfRole, Own, Budget, Stages!Produce,
                     Stages!ObserveProduced
<1>1. Carried
  <2>1. CASE Stages!Produce
    <3>1. {} \in Stages!Blocks
      BY DEF Stages!Blocks
    <3>2. answer' \in Stages!Blocks \cup {Stages!Rejected} /\ checkout' \in Stages!Checkouts
      BY <2>1, <3>1 DEF Stages!Produce, Stages!Answers, Stages!AnyCheckout
    <3> QED
      BY <1>0, <2>1, <3>2 DEF Stages!Produce, Stages!Answers, StagesInv, Stages!TypeOK, Carried
  <2>2. CASE Stages!ObserveProduced
    BY <2>2 DEF Stages!ObserveProduced, StagesInv, Stages!TypeOK, Carried
  <2> QED
    BY <2>1, <2>2
<1>2. runs' <= Before + 1 /\ runs' \in Nat
  BY <1>0 DEF Stages!Produce, Stages!Answers, Stages!ObserveProduced
<1>3. Spent(runs')
  BY <1>0, <1>2 DEF Spent
<1>4. CASE Stages!AttemptFails
  <2>1. role # "update" => runs' <= stageAttempt
    BY <1>0, <1>2 DEF Before, StagesInv, Stages!TypeOK
  <2> QED
    BY <1>0, <1>1, <1>3, <1>4, <2>1, AttemptFailsInv
<1>5. CASE Stages!Ends("failed")
  BY <1>1, <1>3, <1>5, EndsInv
<1>6. ASSUME NEW a \in {"observe", "freeze"}, Stages!Goes(a),
             a = "freeze" => frozen' = checkout /\ Stages!Produced(checkout)
      PROVE  StagesInv'
  <2>1. Before' = Before /\ Own' = 1
    <3>1. role' = role /\ stageAttempt' = stageAttempt
      BY <1>1, <1>6 DEF Stages!Goes, Carried
    <3> QED
      BY <1>0, <3>1 DEF Before, Own, Rounds, Stages!FormatRuns
  <2>2. runs' <= Budget'
    BY <1>2, <1>6, <2>1 DEF Stages!Goes, Budget
  <2>3. StagesOfRole' /\ Frozen'
    BY <1>0, <1>1, <1>6 DEF Stages!Goes, Carried, StagesOfRole, Frozen, Stages!Produced
  <2> QED
    BY <1>0, <1>1, <1>6, <2>2, <2>3, GoesInv
<1> QED
  BY <1>4, <1>5, <1>6 DEF Stages!Produce, Stages!ObserveProduced, Stages!Stops

\* The formatting stage, whose failure is that of an attempt for an update alone.
LEMMA StopsInv ==
  ASSUME StagesInv, Carried, Spent(runs'), stageAt # "done", Stages!Stops
  PROVE  StagesInv'
<1>1. CASE role = "update"
  BY <1>1, AttemptFailsInv DEF Stages!Stops
<1>2. CASE role # "update"
  BY <1>2, EndsInv DEF Stages!Stops
<1> QED
  BY <1>1, <1>2

LEMMA FreezeInv ==
  ASSUME StagesInv, Stages!Freeze
  PROVE  StagesInv'
<1>1. Carried /\ stageAt = "freeze" /\ runs' = runs
  BY DEF Stages!Freeze, StagesInv, Stages!TypeOK, Carried
<1>2. CASE Stages!Stops
  BY <1>1, <1>2, BudgetIsSpent, StopsInv
<1>3. CASE ~Stages!Stops
  <2>1. /\ Stages!Clean(checkout) /\ (role \in {"review", "feedback"} => checkout = frozen)
        /\ stageAt' = "format" /\ invocation' = 1 /\ structured' = 1 /\ frozen' = checkout
        /\ UNCHANGED <<checkout, stageAttempt, stageResult>>
    BY <1>3 DEF Stages!Freeze
  <2>2. Stages!TypeOK'
    BY <1>1, <2>1, StageBounds DEF StagesInv, Carried, Stages!TypeOK
  <2>3. StagesOfRole' /\ Frozen'
    BY <1>1, <2>1 DEF StagesInv, StagesOfRole, Frozen, Carried, Stages!Clean
  <2>4. Formatted' = 0
    BY <2>1, GivenFacts DEF Formatted, Given
  <2>5. Before' = Before /\ Own' = Own
    BY <1>1, <2>1 DEF Carried, Before, Own, Rounds, Stages!FormatRuns
  <2>6. runs' <= Before + Own
    BY <1>1 DEF StagesInv, Budget
  <2>7. runs' <= Budget'
    BY <1>1, <2>1, <2>4, <2>5, <2>6, BudgetParts DEF StagesInv, Budget, Stages!TypeOK
  <2> QED
    BY <2>2, <2>3, <2>7, StagesStep
<1> QED
  BY <1>2, <1>3

LEMMA FormatInv ==
  ASSUME StagesInv, Stages!BeginRun \/ Stages!Format
  PROVE  StagesInv'
<1>0. /\ Before \in Nat /\ Own \in Nat /\ Formatted \in Nat /\ runs \in Nat
      /\ stageAt \in {"format", "run"} /\ runs <= Before + Own + Formatted
  BY BudgetParts DEF StagesInv, Stages!TypeOK, Budget, Stages!BeginRun, Stages!Format
<1>1. Carried
  BY DEF Stages!BeginRun, Stages!Format, Stages!Answers, Stages!AnyCheckout, StagesInv,
         Stages!TypeOK, Carried
<1>2. CASE Stages!Ends("failed") /\ runs' = runs
  BY <1>1, <1>2, BudgetIsSpent, EndsInv
<1>3. CASE Stages!BeginRun /\ Stages!Goes("run")
  <2>1. stageAt = "format" /\ stageAt' = "run" /\ UNCHANGED <<runs, role, checkout, frozen, stageAttempt, structured, invocation>>
    BY <1>3 DEF Stages!BeginRun, Stages!Goes
  <2>2. Before' = Before /\ Own' = Own /\ Formatted' = Formatted
    BY <2>1 DEF Before, Own, Rounds, Stages!FormatRuns, Formatted, Given
  <2>3. runs' <= Budget'
    BY <1>0, <2>1, <2>2 DEF Budget
  <2>4. StagesOfRole' /\ Frozen'
    BY <2>1 DEF StagesInv, StagesOfRole, Frozen, Stages!Clean
  <2> QED
    BY <1>0, <1>1, <1>3, <2>3, <2>4, GoesInv
<1>4. CASE Stages!Format
  <2>1. /\ stageAt = "run" /\ stageAt' = "unchanged" /\ runs' = runs + 1
        /\ UNCHANGED <<role, frozen, stageAttempt, structured, invocation>>
        /\ Stages!Goes("unchanged")
    BY <1>4 DEF Stages!Format, Stages!Goes, Stages!Answers
  <2>2. Before' = Before /\ Own' = Own
    BY <2>1 DEF Before, Own, Rounds, Stages!FormatRuns
  <2>3. Formatted' = Formatted + 1
    <3>1. Given(structured) \in Nat /\ invocation \in Nat /\ Given(structured)' = Given(structured)
      BY <2>1, GivenFacts, StageBounds DEF StagesInv, Stages!TypeOK, Given
    <3> QED
      BY <2>1, <3>1 DEF Formatted
  <2>4. runs' <= Budget'
    BY <1>0, <2>1, <2>2, <2>3 DEF Budget
  <2>5. StagesOfRole' /\ Frozen'
    BY <2>1 DEF StagesInv, StagesOfRole, Frozen, Stages!Clean
  <2> QED
    BY <1>0, <1>1, <2>1, <2>4, <2>5, GoesInv
<1> QED
  BY <1>2, <1>3, <1>4 DEF Stages!BeginRun

LEMMA CheckUnchangedInv ==
  ASSUME StagesInv, Stages!CheckUnchanged
  PROVE  StagesInv'
<1>0. /\ Before \in Nat /\ Own \in Nat /\ Formatted \in Nat /\ runs \in Nat
      /\ stageAt = "unchanged" /\ runs <= Before + Own + Formatted
      /\ Stages!Clean(frozen) /\ (role = "feedback" => frozen.head # "start")
  BY BudgetParts DEF StagesInv, Stages!TypeOK, Budget, Frozen, Stages!CheckUnchanged
<1>1. Carried /\ runs' = runs /\ UNCHANGED <<checkout, frozen>>
  BY DEF Stages!CheckUnchanged, StagesInv, Stages!TypeOK, Carried
<1>2. Spent(runs')
  BY <1>1, BudgetIsSpent
<1>3. CASE Stages!Stops
  BY <1>0, <1>1, <1>2, <1>3, StopsInv
<1>4. CASE Stages!Ends("delivered") \/ Stages!Ends("failed")
  BY <1>1, <1>2, <1>4, EndsInv
<1>5. CASE checkout = frozen /\ role = "update" /\ Stages!Goes("validate")
  <2>1. stageAt' = "validate" /\ UNCHANGED stageAttempt
    BY <1>5 DEF Stages!Goes
  <2>2. Before' = Before /\ Own' = Own
    BY <1>1, <2>1 DEF Carried, Before, Own, Rounds, Stages!FormatRuns
  <2>3. runs' <= Budget'
    BY <1>2, <2>1, <2>2 DEF Budget, Spent, Stages!FormatRuns
  <2>4. StagesOfRole' /\ Frozen'
    BY <1>0, <1>1, <1>5, <2>1 DEF StagesOfRole, Frozen, Carried, Stages!Clean
  <2> QED
    BY <1>0, <1>1, <1>5, <2>3, <2>4, GoesInv
<1>6. ASSUME checkout = frozen, stageAt' = "format", UNCHANGED <<stageAttempt, stageResult>>,
             \/ invocation < Attempts /\ invocation' = invocation + 1 /\ structured' = structured
             \/ structured < StructuredAttempts /\ structured' = structured + 1 /\ invocation' = 1
      PROVE  StagesInv'
  <2>1. /\ invocation \in 1..Attempts /\ structured \in 1..StructuredAttempts
        /\ Attempts \in Nat /\ StructuredAttempts \in Nat
    BY StageBounds DEF StagesInv, Stages!TypeOK
  <2>2. invocation' \in 1..Attempts /\ structured' \in 1..StructuredAttempts
    BY <1>6, <2>1
  <2>3. Stages!TypeOK'
    BY <1>0, <1>1, <1>6, <2>2 DEF StagesInv, Carried, Stages!TypeOK
  <2>4. Before' = Before /\ Own' = Own
    BY <1>1, <1>6 DEF Carried, Before, Own, Rounds, Stages!FormatRuns
  <2>5. Formatted <= Formatted' /\ Formatted' \in Nat
    <3>1. Given(structured) \in Nat /\ Given(structured + 1) = Given(structured) + Attempts
      BY <2>1, GivenFacts
    <3>2. CASE structured' = structured /\ invocation' = invocation + 1
      <4>1. Given(structured)' = Given(structured)
        BY <3>2 DEF Given
      <4> QED
        BY <1>0, <1>6, <2>1, <3>1, <3>2, <4>1 DEF Formatted
    <3>3. CASE structured' = structured + 1 /\ invocation' = 1
      <4>1. Given(structured)' = Given(structured) + Attempts
        BY <3>1, <3>3 DEF Given
      <4> QED
        BY <1>0, <1>6, <2>1, <3>1, <3>3, <4>1 DEF Formatted
    <3> QED
      BY <1>6, <3>2, <3>3
  <2>6. runs' <= Budget'
    BY <1>0, <1>1, <1>6, <2>4, <2>5 DEF Budget
  <2>7. StagesOfRole' /\ Frozen'
    BY <1>0, <1>1, <1>6 DEF StagesOfRole, Frozen, Carried, Stages!Clean
  <2> QED
    BY <2>3, <2>6, <2>7, StagesStep
<1> QED
  BY <1>3, <1>4, <1>5, <1>6
     DEF Stages!CheckUnchanged, Stages!Unchanged, Stages!InvocationFails, Stages!Delivers

LEMMA ValidateInv ==
  ASSUME StagesInv, Stages!Validate
  PROVE  StagesInv'
<1>1. Carried /\ runs' = runs /\ stageAt = "validate" /\ role = "update"
  BY DEF Stages!Validate, StagesInv, StagesOfRole, Stages!TypeOK, Carried
<1>2. Spent(runs')
  BY <1>1, BudgetIsSpent
<1> QED
  BY <1>1, <1>2, EndsInv, AttemptFailsInv DEF Stages!Validate

\* The time of the Agent is over.
LEMMA ExpireInv ==
  ASSUME StagesInv, Stages!Expire \/ UNCHANGED stageVars
  PROVE  StagesInv'
<1>1. UNCHANGED <<role, checkout, stageAt, stageAttempt, invocation, structured, frozen, runs, answer,
                  formatOnly, stageResult>> /\ (expired' = TRUE \/ expired' = expired)
  BY DEF Stages!Expire, stageVars, Stages!window
<1>2. Stages!TypeOK'
  BY <1>1 DEF StagesInv, Stages!TypeOK
<1>3. Budget' = Budget
  BY <1>1 DEF Budget, Before, Own, Rounds, Stages!FormatRuns, Formatted, Given
<1>4. StagesOfRole' /\ Frozen' /\ runs' <= Budget'
  BY <1>1, <1>3 DEF StagesInv, StagesOfRole, Frozen, Stages!Clean
<1> QED
  BY <1>2, <1>4, StagesStep

\* Every stage stays within its budget and keeps what is frozen.
LEMMA StagesNext == StagesInv /\ [Stages!Next]_stageVars => StagesInv'
BY StartInv, ProduceInv, FreezeInv, FormatInv, CheckUnchangedInv, ValidateInv, ExpireInv
   DEF Stages!Next

\* What is delivered, and what an Agent is asked to format.
LEMMA StepDelivers == StagesInv /\ [Stages!Next]_stageVars => Stages!DeliversProven
<1> SUFFICES ASSUME StagesInv, [Stages!Next]_stageVars
             PROVE  /\ stageResult # "delivered" /\ stageResult' = "delivered" =>
                         /\ Stages!Clean(checkout') /\ checkout' = frozen'
                         /\ role = "feedback" => checkout'.head # "start"
                         /\ role = "update" => checkout'.head = "merged" \/ runs = 0
                    /\ stageAt = "format" /\ stageAt' = "run" => checkout = frozen /\ ~expired
  BY DEF Stages!DeliversProven
<1> USE DEF Stages!Goes, Stages!Ends, Stages!AttemptFails, Stages!Stops, Stages!InvocationFails
<1>1. CASE Stages!Merge
  BY <1>1, BudgetParts
     DEF Stages!Merge, StagesInv, StagesOfRole, Stages!TypeOK, Stages!Clean, Budget
<1>2. CASE Stages!Classify
  <2>1. CASE stageResult' = "delivered" /\ stageResult # "delivered"
    <3>1. /\ checkout' = [checkout EXCEPT !.head = "merged"] /\ frozen' = checkout' /\ role = "update"
          /\ checkout = [head |-> "start", files |-> "clean"]
      BY <1>2, <2>1 DEF Stages!Classify, Stages!MergeState
    <3>2. checkout'.head = "merged" /\ checkout'.files = "clean"
      BY <3>1
    <3> QED
      BY <1>2, <3>1, <3>2 DEF Stages!Classify, Stages!Clean
  <2>2. CASE ~(stageResult' = "delivered" /\ stageResult # "delivered")
    BY <1>2, <2>2 DEF Stages!Classify
  <2> QED
    BY <2>1, <2>2
<1>3. CASE Stages!BeginAttempt \/ Stages!Produce \/ Stages!ObserveProduced
  BY <1>3 DEF Stages!BeginAttempt, Stages!Produce, Stages!ObserveProduced
<1>4. CASE Stages!Freeze \/ Stages!Format
  BY <1>4 DEF Stages!Freeze, Stages!Format
<1>5. CASE Stages!BeginRun
  BY <1>5 DEF Stages!BeginRun, StagesInv, Frozen
<1>6. CASE Stages!CheckUnchanged
  BY <1>6
     DEF Stages!CheckUnchanged, Stages!Delivers, Stages!Unchanged, StagesInv, Frozen, Stages!Clean
<1>7. CASE Stages!Validate
  BY <1>7 DEF Stages!Validate, Stages!Resolved, StagesInv, StagesOfRole, Frozen, Stages!Clean
<1>8. CASE Stages!Expire \/ UNCHANGED stageVars
  BY <1>8 DEF Stages!Expire, stageVars
<1> QED
  BY <1>1, <1>2, <1>3, <1>4, <1>5, <1>6, <1>7, <1>8 DEF Stages!Next

-----------------------------------------------------------------------------
(* The implementation of an Issue.                                         *)

\* The commits are a tree within its bounds.
Grown == IsTree(parent) /\ 3 <= Len(parent) /\ Len(parent) <= 3 + MaxCommits + others

\* What an implementation has frozen, what it has shown of its head and its
\* worktree, and what it goes on with after an attempt that failed.
Standing ==
  /\ workAt = "prepare" => workAttempt = 1
  /\ workAt \notin {"prepare", "done"} => baseline # Work!None /\ fetched \in {Work!None, baseline}
  /\ workAt \in {"worktree", "publish", "confirm", "created"} =>
       head # baseline /\ baseline \in Below(parent, head)
  /\ workAt \in {"publish", "confirm", "created"} => tree \in {"none", "clean"}
  /\ workAt = "call" /\ workAttempt > 1 =>
       /\ baseline \in Below(parent, local)
       /\ tracking # Work!None => tracking \in Below(parent, local)

WorkInv == Work!TypeOK /\ Grown /\ Standing

\* What is assumed of the bounds of an implementation.
LEMMA WorkBounds ==
  /\ Attempts \in Nat \ {0} /\ Reads \in Nat \ {0} /\ MaxCommits \in Nat /\ MaxOthers \in Nat
  /\ MaxCommandFaults \in Nat
BY JobAssumption

\* The commits of an implementation, and what its ancestors are.
LEMMA CommitFacts ==
  Work!TypeOK /\ Grown =>
    /\ Len(parent) \in Nat /\ Work!Commits \cup {Work!None} = 0..Len(parent)
    /\ \A c \in 0..Len(parent) : Work!Ancestors(c) = Below(parent, c)
<1> SUFFICES ASSUME Work!TypeOK, Grown
             PROVE  /\ Len(parent) \in Nat /\ Work!Commits \cup {Work!None} = 0..Len(parent)
                    /\ \A c \in 0..Len(parent) : Work!Ancestors(c) = Below(parent, c)
  OBVIOUS
<1>1. Len(parent) \in Nat /\ Work!Commits \cup {Work!None} = 0..Len(parent)
  BY LenProperties DEF Grown, IsTree, Work!Commits, Work!None
<1>2. ASSUME NEW c \in 0..Len(parent) PROVE Work!Ancestors(c) = AncestorsIn(parent, c)
  BY DEF Work!Ancestors, AncestorsIn, Work!None
<1> QED
  BY <1>1, <1>2, AncestorsAreBelow DEF Grown

\* An implementation starts on the branch as it is.
LEMMA WorkInit == Work!Init => WorkInv
<1> SUFFICES ASSUME Work!Init PROVE WorkInv
  OBVIOUS
<1>1. parent = <<0, 1, 1>> /\ others = 0 /\ workAt = "prepare" /\ workAttempt = 1
  BY DEF Work!Init, Work!None
<1>2. Len(parent) = 3 /\ parent \in Seq(Nat) /\ \A k \in 1..3 : parent[k] \in 0..(k - 1)
  BY <1>1
<1>3. Grown
  BY <1>1, <1>2, WorkBounds DEF Grown, IsTree
<1>4. Work!TypeOK
  <2>1. accumulating \in BOOLEAN
    BY Zenon DEF Work!Init
  <2>2. parent \in Seq(0..(3 + MaxCommits + MaxOthers))
    BY <1>1, WorkBounds
  <2>3. {remote, tracking, local, baseline, head, fetched} \subseteq Work!Commits \cup {Work!None}
    BY <1>2 DEF Work!Init, Work!None, Work!Commits, Work!Shared, Work!Base
  <2> QED
    BY <2>1, <2>2, <2>3, WorkBounds DEF Work!Init, Work!TypeOK, Work!None
<1>5. Standing
  BY <1>1 DEF Standing
<1> QED
  BY <1>3, <1>4, <1>5 DEF WorkInv

\* What an action has to say of where it goes and of what it leaves.
Places == {"prepare", "reconcile", "call", "agent", "returned", "worktree",
           "publish", "confirm", "created"}
Control ==
  /\ workAt' \in Places \cup {"done"} /\ workAttempt' \in 1..Attempts
  /\ reads' \in 0..(Reads - 1) /\ workResult' \in {"none", "implemented", "failed"}
  /\ workAt' = "done" <=> workResult' # "none"
Left ==
  /\ accumulating' = accumulating /\ parent' = parent /\ others' = others
  /\ {remote', tracking', local', baseline', head', fetched'} \subseteq Work!Commits \cup {Work!None}
  /\ tree' \in {"none", "clean", "dirty", "root"} /\ workFaults' \in 0..MaxCommandFaults

LEMMA WorkStep ==
  ASSUME WorkInv, Control, Left, Standing'
  PROVE  WorkInv'
<1>1. Work!TypeOK'
  BY DEF WorkInv, Work!TypeOK, Control, Places, Left, Work!Commits, Work!None
<1>2. Grown'
  BY DEF WorkInv, Grown, Left
<1> QED
  BY <1>1, <1>2 DEF WorkInv

\* What the typed outcome of a step says of its variables.
LEMMA ControlFacts ==
  ASSUME WorkInv, workAt # "done"
  PROVE  /\ \A a \in Places : Work!Goes(a) => Control
         /\ Work!Ends("failed") => Control
         /\ Work!Ends("implemented") => Control
         /\ Work!AttemptFails => Control /\ workAt' \in {"reconcile", "done"}
         /\ Work!ReadFails => Control /\ workAt' \in {workAt, "done"} /\ workAttempt' = workAttempt
<1>1. /\ workAt \in Places /\ workAttempt \in 1..Attempts /\ reads \in 0..(Reads - 1)
      /\ workResult = "none"
  BY DEF WorkInv, Work!TypeOK, Places
<1>2. Attempts \in Nat /\ Reads \in Nat \ {0}
  BY WorkBounds
<1>3. 0 \in 0..(Reads - 1) /\ (workAttempt < Attempts => workAttempt + 1 \in 1..Attempts)
      /\ (reads + 1 < Reads => reads + 1 \in 0..(Reads - 1))
  BY <1>1, <1>2
<1>4. "done" \notin Places /\ "reconcile" \in Places
  BY DEF Places
<1> QED
  BY <1>1, <1>3, <1>4
     DEF Control, Work!Goes, Work!Ends, Work!Stops, Work!AttemptFails, Work!ReadFails

LEMMA FaultFacts ==
  ASSUME WorkInv, Work!Fails \/ Work!Works
  PROVE  workFaults' \in 0..MaxCommandFaults
BY WorkBounds DEF WorkInv, Work!TypeOK, Work!Fails, Work!Works

\* What is fetched is a commit, and what is frozen then.
LEMMA FetchFacts ==
  ASSUME WorkInv
  PROVE  /\ Work!Fetched \in Work!Commits \cup {Work!None}
         /\ Work!FrozenBaseline \in Work!Commits
         /\ Work!FrozenBaseline # Work!None
<1>1. 2 \in Work!Commits
  BY LenProperties DEF WorkInv, Grown, IsTree, Work!Commits
<1> QED
  BY <1>1
     DEF WorkInv, Work!TypeOK, Work!Fetched, Work!FrozenBaseline, Work!Base, Work!None, Work!Commits

\* One lemma per step of the implementation.
LEMMA PrepareInv ==
  ASSUME WorkInv, Work!Prepare
  PROVE  WorkInv'
<1>1. workAt = "prepare" /\ UNCHANGED <<accumulating, parent, remote, tree, head, others>>
  BY DEF Work!Prepare
<1>2. workAttempt = 1
  BY <1>1 DEF WorkInv, Standing
<1>3. Left
  <2>1. workFaults' \in 0..MaxCommandFaults
    BY FaultFacts DEF Work!Prepare
  <2> QED
    BY <1>1, <2>1, FetchFacts DEF Work!Prepare, Work!Fetches, Left, WorkInv, Work!TypeOK
<1>4. CASE Work!ReadFails \/ Work!Stops
  <2>1. Control /\ workAt' \in {"prepare", "done"} /\ (workAt' = "prepare" => workAttempt' = 1)
    BY <1>1, <1>2, <1>4, ControlFacts DEF Work!Stops, Work!Ends
  <2>2. Standing'
    BY <2>1 DEF Standing
  <2> QED
    BY <1>3, <2>1, <2>2, WorkStep
<1>5. CASE ~(Work!ReadFails \/ Work!Stops)
  <2>1. Work!Fetches /\ baseline' = Work!FrozenBaseline /\ Work!Goes("call")
        /\ (accumulating \/ Work!Fetched = Work!None)
    BY <1>5 DEF Work!Prepare
  <2>2. Control /\ workAt' = "call" /\ workAttempt' = 1
    BY <1>1, <1>2, <2>1, ControlFacts DEF Work!Goes, Places
  <2>3. baseline' # Work!None /\ fetched' \in {Work!None, baseline'}
    BY <1>1, <2>1, FetchFacts DEF Work!Fetches, Work!Fetched, Work!FrozenBaseline
  <2>4. Standing'
    BY <2>2, <2>3 DEF Standing, Work!None
  <2> QED
    BY <1>3, <2>2, <2>4, WorkStep
<1> QED
  BY <1>4, <1>5

LEMMA ReconcileInv ==
  ASSUME WorkInv, Work!Reconcile
  PROVE  WorkInv'
<1>1. workAt = "reconcile" /\ UNCHANGED <<accumulating, parent, remote, local, tree, baseline, head, others>>
  BY DEF Work!Reconcile
<1>2. fetched' = fetched
  BY <1>1 DEF Work!Reconcile, Work!Fetches
<1>3. Left
  <2>1. workFaults' \in 0..MaxCommandFaults
    BY FaultFacts DEF Work!Reconcile
  <2> QED
    BY <1>1, <1>2, <2>1, FetchFacts DEF Work!Reconcile, Work!Fetches, Left, WorkInv, Work!TypeOK
<1>4. CASE Work!ReadFails \/ Work!Stops
  <2>1. Control /\ workAt' \in {"reconcile", "done"}
    BY <1>1, <1>4, ControlFacts DEF Work!Stops, Work!Ends
  <2>2. Standing'
    BY <1>1, <1>2, <2>1 DEF WorkInv, Standing, Work!None
  <2> QED
    BY <1>3, <2>1, <2>2, WorkStep
<1>5. CASE ~(Work!ReadFails \/ Work!Stops)
  <2>1. Work!Descends(local) /\ Work!Fetches /\ Work!OnPath(Work!Fetched) /\ Work!Goes("call")
    BY <1>5 DEF Work!Reconcile
  <2>2. Control /\ workAt' = "call"
    BY <1>1, <2>1, ControlFacts DEF Work!Goes, Places
  <2>3. local \in 0..Len(parent) /\ Work!Ancestors(local) = Below(parent, local)
    BY CommitFacts DEF WorkInv, Work!TypeOK
  <2>4. baseline \in Below(parent, local)
    BY <2>1, <2>3 DEF Work!Descends, Work!IsAncestor
  <2>5. tracking' # Work!None => tracking' \in Below(parent, local)
    BY <2>1, <2>3 DEF Work!OnPath, Work!IsAncestor, Work!Fetches
  <2>6. Standing'
    BY <1>1, <1>2, <2>2, <2>4, <2>5 DEF WorkInv, Standing, Work!None
  <2> QED
    BY <1>3, <2>2, <2>6, WorkStep
<1> QED
  BY <1>4, <1>5

LEMMA CallInv ==
  ASSUME WorkInv, Work!Call
  PROVE  WorkInv'
<1>1. /\ workAt = "call" /\ workAt' = "agent" /\ Work!Goes("agent")
      /\ UNCHANGED <<accumulating, parent, remote, tracking, local, baseline, head, fetched, others>>
  BY DEF Work!Call, Work!Goes
<1>2. Left
  BY <1>1, FaultFacts DEF Work!Call, Left, WorkInv, Work!TypeOK
<1>3. Standing'
  BY <1>1 DEF WorkInv, Standing, Work!None
<1> QED
  BY <1>1, <1>2, <1>3, ControlFacts, WorkStep DEF Places

\* The Agent is where nothing is held but what was frozen; it may add commits.
LEMMA AgentInv ==
  ASSUME WorkInv, Work!Resume \/ Work!Edit \/ Work!Push \/ Work!Disobey
  PROVE  WorkInv'
<1>1. /\ workAt = "agent" /\ UNCHANGED <<accumulating, baseline, head, fetched, others>>
      /\ UNCHANGED <<workAt, workAttempt, reads, workResult, parent>>
  BY DEF Work!Resume, Work!Edit, Work!Push, Work!Disobey, Work!Agent, Work!run
<1>2. Control
  BY <1>1 DEF Control, Places, WorkInv, Work!TypeOK
<1>3. Left
  BY <1>1, FaultFacts
     DEF Work!Resume, Work!Edit, Work!Push, Work!Disobey, Left, WorkInv, Work!TypeOK
<1>4. Standing'
  BY <1>1 DEF WorkInv, Standing, Work!None
<1> QED
  BY <1>2, <1>3, <1>4, WorkStep

\* A commit more: nothing changes below the ones that were there.
LEMMA GrowInv ==
  ASSUME WorkInv, NEW base \in 0..Len(parent), parent' = Append(parent, base),
         Len(parent) + 1 <= 3 + MaxCommits + others', others' \in 0..MaxOthers,
         UNCHANGED <<accumulating, tracking, workAt, workAttempt, reads, workResult, baseline, head,
                     fetched>>,
         workAt = "call" => local' = local,
         tree' = tree \/ workAt = "agent", tree' \in {"none", "clean", "dirty", "root"},
         {remote', local'} \subseteq 0..(Len(parent) + 1), workFaults' \in 0..MaxCommandFaults
  PROVE  WorkInv'
<1>1. IsTree(parent) /\ Len(parent) \in Nat /\ 3 <= Len(parent)
  BY CommitFacts DEF WorkInv, Grown
<1>2. /\ IsTree(parent') /\ Len(parent') = Len(parent) + 1
      /\ \A k \in 1..Len(parent) : parent'[k] = parent[k]
  BY <1>1, AppendIsTree
<1>3. Grown'
  BY <1>1, <1>2 DEF Grown
<1>4. Work!TypeOK'
  <2>1. parent' \in Seq(0..(3 + MaxCommits + MaxOthers))
    <3>1. base \in 0..(3 + MaxCommits + MaxOthers)
      BY <1>1, WorkBounds DEF WorkInv, Grown, Work!TypeOK
    <3> QED
      BY <3>1, AppendProperties DEF WorkInv, Work!TypeOK
  <2>2. {remote', tracking', local', baseline', head', fetched'} \subseteq 0..(Len(parent) + 1)
    BY <1>1, CommitFacts DEF WorkInv, Work!TypeOK
  <2>3. Work!Commits' \cup {Work!None} = 0..(Len(parent) + 1)
    BY <1>1, <1>2 DEF Work!Commits, Work!None
  <2> QED
    BY <2>1, <2>2, <2>3 DEF WorkInv, Work!TypeOK
<1>5. Standing'
  <2>0. Len(parent) <= Len(parent')
    BY <1>1, <1>2
  <2>1. ASSUME NEW c \in 0..Len(parent) PROVE Below(parent', c) = Below(parent, c)
    BY <1>1, <1>2, <2>0, BelowIsKept, Zenon
  <2>2. head \in 0..Len(parent) /\ local \in 0..Len(parent)
    BY CommitFacts DEF WorkInv, Work!TypeOK
  <2>3. Below(parent', head) = Below(parent, head) /\ Below(parent', local) = Below(parent, local)
    BY <2>1, <2>2
  <2> QED
    BY <2>3 DEF WorkInv, Standing, Work!None
<1> QED
  BY <1>3, <1>4, <1>5 DEF WorkInv

LEMMA CommitInv ==
  ASSUME WorkInv, Work!Commit
  PROVE  WorkInv'
<1>1. Len(parent) \in Nat /\ local \in 0..Len(parent) /\ remote \in 0..Len(parent)
      /\ others \in Nat
  BY CommitFacts DEF WorkInv, Work!TypeOK
<1>2. /\ parent' = Append(parent, local) /\ Len(parent) < 3 + MaxCommits + others /\ workAt = "agent"
      /\ UNCHANGED <<accumulating, tracking, remote, fetched, others>>
      /\ UNCHANGED <<workAt, workAttempt, reads, workResult, baseline, head>>
      /\ tree' \in {"clean", "dirty"} /\ local' = Len(parent')
  BY DEF Work!Commit, Work!Agent, Work!run
<1>3. Len(parent') = Len(parent) + 1
  BY <1>1, <1>2, AppendIsTree DEF WorkInv, Grown
<1>4. workFaults' \in 0..MaxCommandFaults
  BY FaultFacts DEF Work!Commit
<1>5. Len(parent) + 1 <= 3 + MaxCommits + others /\ others \in 0..MaxOthers
  BY <1>1, <1>2, WorkBounds DEF WorkInv, Work!TypeOK
<1>6. {remote, Len(parent) + 1} \subseteq 0..(Len(parent) + 1)
  BY <1>1
<1> QED
  BY <1>1, <1>2, <1>3, <1>4, <1>5, <1>6, GrowInv

LEMMA OthersPushInv ==
  ASSUME WorkInv, Work!OthersPush
  PROVE  WorkInv'
<1>1. Len(parent) \in Nat /\ 3 <= Len(parent) /\ local \in 0..Len(parent) /\ remote \in 0..Len(parent)
  BY CommitFacts DEF WorkInv, Work!TypeOK, Grown
<1>2. PICK base \in {2, remote} \ {Work!None} :
        parent' = Append(parent, base) /\ remote' = Len(parent')
  BY DEF Work!OthersPush
<1>3. base \in 0..Len(parent)
  BY <1>1
<1>4. Len(parent') = Len(parent) + 1
  BY <1>1, <1>2, <1>3, AppendIsTree DEF WorkInv, Grown
<1>5. /\ others \in Nat /\ others < MaxOthers /\ others' = others + 1
      /\ UNCHANGED <<accumulating, tracking, local, tree, fetched, workFaults>>
      /\ UNCHANGED <<workAt, workAttempt, reads, workResult, baseline, head>>
  BY DEF Work!OthersPush, Work!run, WorkInv, Work!TypeOK
<1>6. Len(parent) + 1 <= 3 + MaxCommits + others' /\ others' \in 0..MaxOthers
  BY <1>1, <1>5, WorkBounds DEF WorkInv, Grown
<1>7. {Len(parent) + 1, local} \subseteq 0..(Len(parent) + 1)
  BY <1>1
<1>8. tree \in {"none", "clean", "dirty", "root"} /\ workFaults \in 0..MaxCommandFaults
  BY DEF WorkInv, Work!TypeOK
<1> QED
  BY <1>2, <1>3, <1>4, <1>5, <1>6, <1>7, <1>8, GrowInv

LEMMA ReturnsInv ==
  ASSUME WorkInv, Work!AgentReturns
  PROVE  WorkInv'
<1>1. /\ workAt = "agent"
      /\ UNCHANGED <<accumulating, parent, remote, tracking, local, baseline, head, fetched, others>>
  BY DEF Work!AgentReturns
<1>2. Left
  BY <1>1, FaultFacts DEF Work!AgentReturns, Left, WorkInv, Work!TypeOK
<1>3. Control /\ workAt' \in {"returned", "reconcile", "done"}
  BY <1>1, ControlFacts DEF Work!AgentReturns, Work!Goes, Places
<1>4. Standing'
  BY <1>1, <1>3 DEF WorkInv, Standing, Work!None
<1> QED
  BY <1>2, <1>3, <1>4, WorkStep

LEMMA CheckHeadInv ==
  ASSUME WorkInv, Work!CheckHead
  PROVE  WorkInv'
<1>1. /\ workAt = "returned"
      /\ UNCHANGED <<accumulating, parent, remote, tracking, local, tree, baseline, fetched, others>>
  BY DEF Work!CheckHead, Work!git
<1>2. Left
  BY <1>1, FaultFacts DEF Work!CheckHead, Left, WorkInv, Work!TypeOK
<1>3. CASE workAt' = "worktree"
  <2>1. /\ Work!ProvenHead(local) /\ local # baseline /\ head' = local /\ Work!Goes("worktree")
    BY <1>1, <1>3 DEF Work!CheckHead, Work!Stops, Work!Ends, Work!AttemptFails, Work!ReadFails
  <2>2. local \in 0..Len(parent) /\ Work!Ancestors(local) = Below(parent, local)
    BY CommitFacts DEF WorkInv, Work!TypeOK
  <2>3. baseline \in Below(parent, local)
    BY <2>1, <2>2 DEF Work!ProvenHead, Work!Descends, Work!IsAncestor
  <2>4. Standing'
    BY <1>1, <1>3, <2>1, <2>3 DEF WorkInv, Standing, Work!None
  <2>5. Control
    BY <1>1, <2>1, ControlFacts DEF Places
  <2> QED
    BY <1>2, <2>4, <2>5, WorkStep
<1>4. CASE workAt' # "worktree"
  <2>1. Control /\ workAt' \in {"returned", "reconcile", "done"}
    BY <1>1, <1>4, ControlFacts DEF Work!CheckHead, Work!Stops, Work!Ends, Work!Goes, Places
  <2>2. Standing'
    BY <1>1, <2>1 DEF WorkInv, Standing, Work!None
  <2> QED
    BY <1>2, <2>1, <2>2, WorkStep
<1> QED
  BY <1>3, <1>4

LEMMA VerifyInv ==
  ASSUME WorkInv, Work!CheckWorktree \/ Work!VerifyPullRequest \/ Work!VerifyRemote
  PROVE  WorkInv'
<1>1. /\ workAt \in {"worktree", "publish", "confirm", "created"}
      /\ UNCHANGED <<accumulating, parent, remote, tracking, local, tree, baseline, head, fetched, others>>
  BY DEF Work!CheckWorktree, Work!VerifyPullRequest, Work!VerifyRemote, Work!git
<1>2. Left
  BY <1>1, FaultFacts
     DEF Work!CheckWorktree, Work!VerifyPullRequest, Work!VerifyRemote, Left, WorkInv,
                          Work!TypeOK
<1>3. /\ Control
      /\ \/ workAt' \in {"reconcile", "done", workAt}
         \/ workAt' \in {"publish", "confirm", "created"} /\ tree \in {"none", "clean"}
  BY <1>1, ControlFacts
     DEF Work!CheckWorktree, Work!VerifyPullRequest, Work!VerifyRemote, Work!Stops, Work!Ends,
         Work!Goes, Places, WorkInv, Standing
<1>4. Standing'
  BY <1>1, <1>3 DEF WorkInv, Standing, Work!None
<1> QED
  BY <1>2, <1>3, <1>4, WorkStep

\* Every step of an implementation keeps the tree and what was shown of it.
LEMMA WorkNext == WorkInv /\ [Work!Next]_workVars => WorkInv'
<1> SUFFICES ASSUME WorkInv, [Work!Next]_workVars PROVE WorkInv'
  OBVIOUS
<1>1. CASE UNCHANGED workVars
  <2>1. Control /\ Left /\ Standing'
    BY <1>1 DEF workVars, Control, Places, Left, WorkInv, Work!TypeOK, Standing, Work!None
  <2> QED
    BY <2>1, WorkStep
<1> QED
  BY <1>1, PrepareInv, ReconcileInv, CallInv, AgentInv, CommitInv, OthersPushInv, ReturnsInv,
     CheckHeadInv, VerifyInv DEF Work!Next, Work!Step, Work!AgentStep

\* Whatever was frozen or fetched is under what is reported as implemented, and
\* what the clone knows to be on GitHub under what an Agent goes on with.
LEMMA StepImplements == WorkInv /\ [Work!Next]_workVars => Work!ImplementsProven
<1> SUFFICES ASSUME WorkInv, [Work!Next]_workVars
             PROVE  /\ workResult # "implemented" /\ workResult' = "implemented" => Work!Proven
                    /\ workAt = "call" /\ workAt' = "agent" /\ workAttempt > 1 => Work!Recoverable
  BY DEF Work!ImplementsProven
<1>0. {remote, tracking, local, baseline, head, fetched} \subseteq 0..Len(parent)
      /\ IsTree(parent)
  BY CommitFacts DEF WorkInv, Grown, Work!TypeOK
<1>00. \A c \in 0..Len(parent) : Work!Ancestors(c) = Below(parent, c)
  BY CommitFacts DEF WorkInv
<1>01. Below(parent, Work!None) = {}
  BY <1>0, BelowIsRecursive DEF Work!None
<1>1. ASSUME workResult # "implemented", workResult' = "implemented" PROVE Work!Proven
  <2>1. workAt \in {"publish", "confirm", "created"} /\ remote = head
    BY <1>1 DEF Work!Next, Work!Step, Work!AgentStep, Work!Prepare, Work!Reconcile, Work!Call,
       Work!AgentReturns, Work!CheckHead, Work!CheckWorktree, Work!VerifyPullRequest,
       Work!VerifyRemote, Work!Resume, Work!Commit, Work!Edit, Work!Push, Work!Disobey, Work!Agent,
       Work!OthersPush, Work!run, workVars, Work!Stops, Work!Ends, Work!Goes, Work!AttemptFails,
       Work!ReadFails, Work!HeadMatches
  <2>2. /\ head # baseline /\ baseline \in Below(parent, head) /\ tree \in {"none", "clean"}
        /\ fetched \in {Work!None, baseline}
    BY <2>1 DEF WorkInv, Standing
  <2>3. Below(parent, baseline) \subseteq Below(parent, head)
    BY <2>2, BelowIsTransitive
  <2> QED
    BY <1>0, <1>00, <1>01, <2>1, <2>2, <2>3 DEF Work!Proven
<1>2. ASSUME workAt = "call", workAttempt > 1 PROVE Work!Recoverable
  <2>1. Below(parent, baseline) \subseteq Below(parent, local)
    BY <1>2, BelowIsTransitive DEF WorkInv, Standing
  <2>2. Below(parent, tracking) \subseteq Below(parent, local)
    BY <1>01, <1>2, BelowIsTransitive DEF WorkInv, Standing
  <2> QED
    BY <1>0, <1>00, <2>1, <2>2 DEF Work!Recoverable
<1> QED
  BY <1>1, <1>2

-----------------------------------------------------------------------------
(* What the hand-over of an authorization keeps of it.                      *)

\* Putting records together keeps the fields of the first.
LEMMA MergeKeeps ==
  ASSUME NEW f, NEW g, NEW k \in DOMAIN f
  PROVE  k \in DOMAIN Operation!With(f, g) /\ Operation!With(f, g)[k] = f[k]
BY DEF Operation!With

LEMMA MergeAdds ==
  ASSUME NEW f, NEW g, NEW k \in DOMAIN g, k \notin DOMAIN f
  PROVE  k \in DOMAIN Operation!With(f, g) /\ Operation!With(f, g)[k] = g[k]
BY DEF Operation!With

\* What the command authorizes is what it acquired.
LEMMA InvocationKeeps ==
  /\ {"operation", "number", "revision"} \subseteq DOMAIN Operation!AuthorizedInvocation
  /\ Operation!AuthorizedInvocation.operation = operation
  /\ Operation!AuthorizedInvocation.number = Operation!Number
  /\ Operation!AuthorizedInvocation.revision = acquired.revision
  /\ Operation!IsPullRequestOperation =>
       /\ "pullRequest" \in DOMAIN Operation!AuthorizedInvocation
       /\ Operation!AuthorizedInvocation.pullRequest = acquired.pullRequest
<1> DEFINE base == [operation |-> operation, number |-> Operation!Number, revision |-> acquired.revision,
                    jobId |-> Operation!Job, acquired |-> TRUE]
           pr == IF Operation!IsPullRequestOperation THEN [pullRequest |-> acquired.pullRequest] ELSE <<>>
           rec == IF reconcile # <<>> THEN [reconcile |-> reconcile[1]] ELSE <<>>
<1>1. Operation!AuthorizedInvocation = Operation!With(Operation!With(base, pr), rec)
  BY DEF Operation!AuthorizedInvocation
<1>2. \A k \in {"operation", "number", "revision"} :
        k \in DOMAIN base /\ k \in DOMAIN Operation!With(base, pr) /\ Operation!With(base, pr)[k] = base[k]
  BY MergeKeeps
<1>3. \A k \in {"operation", "number", "revision"} :
        k \in DOMAIN Operation!With(Operation!With(base, pr), rec) /\ Operation!With(Operation!With(base, pr), rec)[k] = base[k]
  BY <1>2, MergeKeeps
<1>4. ASSUME Operation!IsPullRequestOperation
      PROVE  /\ "pullRequest" \in DOMAIN Operation!With(Operation!With(base, pr), rec)
             /\ Operation!With(Operation!With(base, pr), rec)["pullRequest"] = acquired.pullRequest
  <2>1. pr = [pullRequest |-> acquired.pullRequest]
    BY <1>4
  <2>2. "pullRequest" \in DOMAIN pr /\ pr["pullRequest"] = acquired.pullRequest
    BY <2>1
  <2>3. "pullRequest" \notin DOMAIN base
    OBVIOUS
  <2>4. "pullRequest" \in DOMAIN Operation!With(base, pr) /\ Operation!With(base, pr)["pullRequest"] = acquired.pullRequest
    BY <2>2, <2>3, MergeAdds
  <2> QED
    BY <2>4, MergeKeeps
<1>5. base["operation"] = operation /\ base["number"] = Operation!Number /\ base["revision"] = acquired.revision
  OBVIOUS
<1> HIDE DEF base, pr, rec
<1> QED
  BY <1>1, <1>3, <1>4, <1>5

\* The worker is given the number and every field but that of the invocation.
LEMMA ArgumentsKeep ==
  ASSUME NEW v, NEW path
  PROVE  /\ v.operation # Operation!Scheduled => Operation!WorkerArguments(v, path).number = v.number
         /\ \A k \in DOMAIN v \ {"number"} : Operation!WorkerArguments(v, path).invocation[k] = v[k]
<1> DEFINE rest == [k \in DOMAIN v \ {"number"} |-> v[k]]
<1>1. Operation!WorkerArguments(v, path).invocation = Operation!With(rest, [checkoutPath |-> path])
  BY DEF Operation!WorkerArguments
<1>2. \A k \in DOMAIN rest : Operation!With(rest, [checkoutPath |-> path])[k] = rest[k]
  BY MergeKeeps
<1>3. \A k \in DOMAIN v \ {"number"} : k \in DOMAIN rest /\ rest[k] = v[k]
  OBVIOUS
<1>4. v.operation # Operation!Scheduled => Operation!WorkerArguments(v, path).number = v.number
  BY DEF Operation!WorkerArguments
<1> HIDE DEF rest
<1> QED
  BY <1>1, <1>2, <1>3, <1>4

\* What a snapshot says of the Work Item.
LEMMA SnapshotSays ==
  ASSUME NEW i
  PROVE  /\ Operation!AcquisitionSnapshot(i).state = i.state
         /\ Operation!AcquisitionSnapshot(i).labels = i.labels
         /\ Operation!AcquisitionSnapshot(i).revision = i.revision
         /\ Operation!IsPullRequestOperation => Operation!AcquisitionSnapshot(i).pullRequest = Operation!Identity(i)
<1> DEFINE base == [state |-> i.state, labels |-> i.labels, revision |-> i.revision]
           pr == IF Operation!IsPullRequestOperation THEN [pullRequest |-> Operation!Identity(i)] ELSE <<>>
<1>1. Operation!AcquisitionSnapshot(i) = Operation!With(base, pr)
  BY DEF Operation!AcquisitionSnapshot
<1>2. \A k \in {"state", "labels", "revision"} : k \in DOMAIN base /\ Operation!With(base, pr)[k] = base[k]
  BY MergeKeeps
<1>3. ASSUME Operation!IsPullRequestOperation
      PROVE Operation!With(base, pr)["pullRequest"] = Operation!Identity(i)
  <2>1. pr = [pullRequest |-> Operation!Identity(i)]
    BY <1>3
  <2>2. "pullRequest" \in DOMAIN pr /\ pr["pullRequest"] = Operation!Identity(i) /\ "pullRequest" \notin DOMAIN base
    BY <2>1
  <2> QED
    BY <2>2, MergeAdds
<1>4. base["state"] = i.state /\ base["labels"] = i.labels /\ base["revision"] = i.revision
  OBVIOUS
<1> HIDE DEF base, pr
<1> QED
  BY <1>1, <1>2, <1>3, <1>4

-----------------------------------------------------------------------------
\* The authorization on its way: of this operation, and for a Work Item of the
\* revision, the state, the labels and the identity that were confirmed.
HandedOver ==
  /\ {"operation", "revision"} \subseteq DOMAIN targetInvocation /\ targetInvocation.operation = operation
  /\ targetInvocation.revision \in Revisions
  /\ operation # Operation!Scheduled =>
       /\ settled /\ targetInvocation.number = Operation!Number /\ targetInvocation.revision = confirmed.revision
       /\ confirmed.state = "OPEN" /\ confirmed.labels = {"in-progress"}
  /\ Operation!IsPullRequestOperation =>
       /\ "pullRequest" \in DOMAIN targetInvocation
       /\ targetInvocation.pullRequest = Operation!Identity(confirmed) /\ ~fork

\* The checkout that it is carried to.
CheckedOut ==
  /\ targetAt \in {"install", "spawn", "inspect"} => targetInvocation.revision \notin Private
  /\ targetAt \in {"spawn", "inspect"} => disk = targetInvocation.revision
  /\ targetAt = "inspect" => targetWorker = Operation!WorkerArguments(targetInvocation, Operation!Path)
  /\ targetAt \in {"operate", "remove"} => disk = targetWorker.invocation.revision /\ disk \in Revisions

\* Whether the job ended without an error so far.
Well == targetAt \in {"report", "outcome"} \/ (targetAt \in {"close", "release"} /\ failure = Operation!NoFailure)
FailuresStand ==
  /\ targetAt \notin {"close", "block", "release", "done", "expired"} => failure = Operation!NoFailure
  /\ targetAt = "block" => failure # Operation!NoFailure
  /\ failure.trusted => failure.summary # "message"
  /\ ~diagnostic.output /\ diagnostic.summary # "message"

\* What an answer leaves in the checkout and in the record.
Kept(a) == disk = IF a = "blocked" THEN targetWorker.invocation.revision ELSE "removed"
Recorded(a) == log = IF a = "blocked" THEN "failed" ELSE "completed"
EvidenceStands ==
  /\ targetAt = "remove" \/ Well => targetAnswer \in {"completed", "blocked"} /\ (operation # Operation!Scheduled => settled)
  /\ Well => Kept(targetAnswer)
  /\ Well /\ targetAt \in {"outcome", "release"} => Recorded(targetAnswer)
  /\ targetAt = "done" /\ targetResult \in {"completed", "blocked"} =>
       targetAnswer = targetResult /\ Kept(targetResult) /\ Recorded(targetResult)
  /\ targetAt \notin {"done", "expired"} => targetResult = "none"
  /\ targetAt \notin {"outcome", "block", "release", "done"} => log # "completed"
  /\ log = "completed" \/ disk = "removed" => targetAnswer = "completed"

\* The labels, while nobody else moved one and no call for one failed.
LabelsStand ==
  /\ settled => confirmed.labels = {"in-progress"}
  /\ targetAt \in {"read", "claim", "reread", "untrigger", "settle"} => ~settled
  /\ operation # Operation!Scheduled /\ ~touched /\ ~unheard =>
       /\ targetAt \notin {"read", "claim", "done", "expired"} /\ ~settled => "in-progress" \in item.labels
       /\ targetAt \in {"open", "close", "outcome"} \cup Operation!JobSteps => item.labels = {"in-progress"}
       /\ targetAt = "release" => ("blocked" \in item.labels <=> failure # Operation!NoFailure \/ targetAnswer = "blocked")
       /\ targetAt = "done" /\ targetResult # "untouched" =>
            /\ "in-progress" \in item.labels <=> ~settled
            /\ "blocked" \in item.labels <=> targetResult # "completed"
            /\ targetResult = "completed" => settled

OperationInv ==
  /\ Operation!TypeOK /\ confirmed.revision \in Revisions
  /\ targetAt \in {"open"} \cup Operation!JobSteps => HandedOver
  /\ CheckedOut /\ FailuresStand /\ EvidenceStands /\ LabelsStand

-----------------------------------------------------------------------------
WorkItems ==
  [state : {"OPEN", "CLOSED"}, labels : SUBSET {"trigger", "in-progress", "blocked"},
   revision : Revisions, base : Branches, matches : BOOLEAN]

\* What is assumed of the bounds and of revisions: no commit is one of the marks.
LEMMA OperationBounds == MaxEdits \in Nat /\ MaxTroubles \in Nat
BY JobAssumption

LEMMA NoSpecialRevision == "none" \notin Revisions /\ "made" \notin Revisions /\ "removed" \notin Revisions
BY JobAssumption

\* Labels put, labels taken, and what people do: the Work Item keeps its shape.
LEMMA PutLabel ==
  ASSUME item \in WorkItems, NEW l \in {"trigger", "in-progress", "blocked"}, Operation!Put(l)
  PROVE  item' \in WorkItems /\ item'.labels = item.labels \cup {l}
<1>1. item' \in WorkItems
  BY Zenon DEF WorkItems, Operation!Put
<1>2. item'.labels = item.labels \cup {l}
  BY DEF WorkItems, Operation!Put
<1> QED
  BY <1>1, <1>2

LEMMA TakeLabel ==
  ASSUME item \in WorkItems, NEW l \in {"trigger", "in-progress", "blocked"}, Operation!Take(l)
  PROVE  item' \in WorkItems /\ item'.labels = item.labels \ {l}
<1>1. item' \in WorkItems
  BY Zenon DEF WorkItems, Operation!Take
<1>2. item'.labels = item.labels \ {l}
  BY DEF WorkItems, Operation!Take
<1> QED
  BY <1>1, <1>2

LEMMA EditItem ==
  ASSUME item \in WorkItems, Operation!Edit
  PROVE  item' \in WorkItems
<1>1. CASE \E l \in {"trigger", "in-progress", "blocked"} :
          item' = [item EXCEPT !.labels = IF l \in @ THEN @ \ {l} ELSE @ \cup {l}]
  <2>1. PICK l \in {"trigger", "in-progress", "blocked"} :
          item' = [item EXCEPT !.labels = IF l \in @ THEN @ \ {l} ELSE @ \cup {l}]
    BY <1>1
  <2> DEFINE new == IF l \in item.labels THEN item.labels \ {l} ELSE item.labels \cup {l}
  <2>2. new \in SUBSET {"trigger", "in-progress", "blocked"}
    BY DEF WorkItems
  <2>3. item' = [item EXCEPT !.labels = new]
    BY <2>1
  <2> HIDE DEF new
  <2> QED
    BY <2>2, <2>3, Zenon DEF WorkItems
<1>2. CASE \E s \in {"OPEN", "CLOSED"} \ {item.state} : item' = [item EXCEPT !.state = s]
  BY <1>2, Zenon DEF WorkItems
<1>3. CASE \E r \in Revisions \ {item.revision} : item' = [item EXCEPT !.revision = r]
  BY <1>3, Zenon DEF WorkItems
<1>4. CASE \E b \in Branches \ {item.base} : Operation!IsPullRequestOperation /\ item' = [item EXCEPT !.base = b]
  BY <1>4, Zenon DEF WorkItems
<1>5. CASE ~Operation!IsPullRequestOperation /\ item' = [item EXCEPT !.matches = ~@]
  BY <1>5, Zenon DEF WorkItems
<1> QED
  BY <1>1, <1>2, <1>3, <1>4, <1>5, Zenon DEF Operation!Edit

\* The status of a record is completed after a success only.
LEMMA StatusSays ==
  ASSUME NEW f, NEW a
  PROVE  /\ Operation!StatusOf(f, a) \in {"completed", "failed", "timed-out"}
         /\ f = Operation!NoFailure => Operation!StatusOf(f, a) = IF a = "blocked" THEN "failed" ELSE "completed"
         /\ f # Operation!NoFailure => Operation!StatusOf(f, a) # "completed"
<1>1. CASE f = Operation!NoFailure
  BY <1>1 DEF Operation!StatusOf, Operation!NoFailure
<1>2. CASE f # Operation!NoFailure /\ f.summary = "timed-out"
  BY <1>2 DEF Operation!StatusOf
<1>3. CASE f # Operation!NoFailure /\ f.summary # "timed-out"
  BY <1>3 DEF Operation!StatusOf
<1> QED
  BY <1>1, <1>2, <1>3

-----------------------------------------------------------------------------
\* What a step may assign, apart from the Work Item.
Flagged == settled \in BOOLEAN /\ touched \in BOOLEAN /\ unheard \in BOOLEAN
Assigned ==
  /\ operation \in Operations /\ fork \in BOOLEAN
  /\ Len(reconcile) <= 1 /\ (reconcile # <<>> => operation = "implement-feedback")
  /\ targetAt \in {"read", "claim", "reread", "untrigger", "settle", "open", "input", "clone", "fetch",
             "install", "spawn", "inspect", "operate", "remove", "report", "close", "outcome",
             "block", "release", "done", "expired"}
  /\ targetAnswer \in {"none", "completed", "blocked"}
  /\ disk \in {"none", "made", "removed"} \cup Revisions
  /\ log \in {"none", "running", "completed", "failed", "timed-out"}
  /\ targetResult \in {"none", "untouched", "completed", "blocked", "failed"}
  /\ edits \in 0..MaxEdits /\ troubles \in 0..MaxTroubles
  /\ confirmed.revision \in Revisions

\* A command starts on an available Work Item.
LEMMA OperationInit == Operation!Init => OperationInv
<1> SUFFICES ASSUME Operation!Init PROVE OperationInv
  OBVIOUS
<1>1. item \in WorkItems
  BY Zenon DEF Operation!Init, WorkItems
<1>2. item.labels = {"trigger"} /\ item.revision \in Revisions
  BY DEF Operation!Init
<1>3. Len(reconcile) <= 1 /\ (reconcile # <<>> => operation = "implement-feedback")
  <2>1. reconcile \in {<<>>} \cup {<<r>> : r \in {x \in Operation!Reconciliations : operation = "implement-feedback"}}
    BY Zenon DEF Operation!Init
  <2>2. reconcile = <<>> \/ (operation = "implement-feedback" /\ \E r : reconcile = <<r>>)
    BY <2>1, Zenon
  <2>3. Len(<<>>) <= 1 /\ \A r : Len(<<r>>) <= 1
    OBVIOUS
  <2> QED
    BY <2>2, <2>3, Zenon
<1>4. Operation!TypeOK
  <2>1. fork \in {FALSE, Operation!IsPullRequestOperation} /\ settled = FALSE /\ touched = FALSE /\ unheard = FALSE
    BY Zenon DEF Operation!Init
  <2>2. fork \in BOOLEAN /\ Flagged
    <3>1. Operation!IsPullRequestOperation \in BOOLEAN
      BY DEF Operation!IsPullRequestOperation
    <3> QED
      BY <2>1, <3>1, Zenon DEF Flagged
  <2>3. Assigned
    BY <1>2, <1>3, <2>2, OperationBounds DEF Operation!Init, Assigned
  <2> QED
    BY <1>1, <2>2, <2>3 DEF Operation!TypeOK, WorkItems, Assigned, Flagged
<1>5. CheckedOut /\ FailuresStand
  BY DEF Operation!Init, CheckedOut, FailuresStand, Operation!NoFailure
<1>6. EvidenceStands /\ LabelsStand
  BY DEF Operation!Init, EvidenceStands, LabelsStand, Operation!JobSteps, Well
<1> QED
  BY <1>2, <1>4, <1>5, <1>6 DEF OperationInv, Operation!Init, Operation!JobSteps

\* The Work Item keeps its shape.
LEMMA ItemNext ==
  ASSUME Operation!TypeOK, [Operation!Next]_operationVars
  PROVE  item' \in WorkItems
<1>1. item \in WorkItems
  BY DEF Operation!TypeOK, WorkItems
<1> USE DEF Operation!Quiet, Operation!Lost
<1>2. CASE UNCHANGED item
  BY <1>1, <1>2
<1>3. ASSUME NEW l \in {"trigger", "in-progress", "blocked"}, Operation!Put(l) \/ Operation!Take(l)
      PROVE item' \in WorkItems
  BY <1>1, <1>3, PutLabel, TakeLabel
<1>4. CASE Operation!Edit
  BY <1>1, <1>4, EditItem
<1>5. CASE Operation!Claim
  BY <1>2, <1>3, <1>5, Zenon DEF Operation!Claim
<1>6. CASE Operation!Untrigger
  BY <1>2, <1>3, <1>6, Zenon DEF Operation!Untrigger
<1>7. CASE Operation!Outcome
  BY <1>2, <1>3, <1>7, Zenon DEF Operation!Outcome
<1>8. CASE Operation!Block
  BY <1>2, <1>3, <1>8, Zenon DEF Operation!Block
<1>9. CASE Operation!Release
  BY <1>2, <1>3, <1>9, Zenon DEF Operation!Release
<1>10. CASE \/ Operation!Read \/ Operation!Reread \/ Operation!Settle \/ Operation!Open
            \/ Operation!Input \/ Operation!Clone \/ Operation!Fetch \/ Operation!Install
            \/ Operation!Spawn
            \/ Operation!Inspect \/ Operation!Operate \/ Operation!Remove \/ Operation!Report
            \/ Operation!TimeOut \/ Operation!Close \/ Operation!Expire \/ UNCHANGED operationVars
  BY <1>2, <1>10 DEF Operation!Read, Operation!Reread, Operation!Settle, Operation!Open,
     Operation!Input, Operation!Clone, Operation!Fetch, Operation!Install, Operation!Spawn,
     Operation!Inspect,
       Operation!Operate, Operation!Remove, Operation!Report, Operation!TimeOut, Operation!Close,
       Operation!Expire, operationVars, Operation!Works
<1> QED
  BY <1>4, <1>5, <1>6, <1>7, <1>8, <1>9, <1>10 DEF Operation!Next

\* The flags and the plain variables keep their types.
LEMMA FlagsNext ==
  ASSUME Flagged, [Operation!Next]_operationVars
  PROVE  Flagged'
<1> USE DEF Flagged
<1>1. CASE \/ Operation!Claim \/ Operation!Untrigger \/ Operation!Outcome \/ Operation!Block
           \/ Operation!Release
  <2>1. UNCHANGED <<settled, touched>> /\ (unheard' = TRUE \/ UNCHANGED unheard)
    BY <1>1, Zenon DEF Operation!Claim, Operation!Untrigger, Operation!Outcome, Operation!Block,
       Operation!Release, Operation!Step, Operation!Lost, Operation!Quiet, Operation!held
  <2> QED
    BY <2>1, Zenon
<1>2. CASE Operation!Settle
  <2>1. UNCHANGED <<unheard, touched>> /\ (settled' = TRUE \/ UNCHANGED settled)
    BY <1>2, Zenon DEF Operation!Settle, Operation!Quiet
  <2> QED
    BY <2>1, Zenon
<1>3. CASE Operation!Edit
  <2>1. UNCHANGED <<unheard, settled>> /\ touched' \in BOOLEAN
    BY <1>3, Zenon DEF Operation!Edit, Operation!held
  <2> QED
    BY <2>1, Zenon
<1>4. CASE \/ Operation!Read \/ Operation!Reread \/ Operation!Open \/ Operation!Input
           \/ Operation!Clone \/ Operation!Fetch \/ Operation!Install \/ Operation!Spawn
           \/ Operation!Inspect
           \/ Operation!Operate \/ Operation!Remove \/ Operation!Report \/ Operation!TimeOut
           \/ Operation!Close \/ Operation!Expire \/ UNCHANGED operationVars
  <2>1. UNCHANGED Flagged
    BY <1>4 DEF Operation!Read, Operation!Reread, Operation!Open, Operation!Input, Operation!Clone,
       Operation!Fetch, Operation!Install, Operation!Spawn, Operation!Inspect, Operation!Operate,
       Operation!Remove,
         Operation!Report, Operation!TimeOut, Operation!Close, Operation!Expire, Operation!Works,
         Operation!Step, Operation!Quiet, Operation!held, Operation!history, operationVars
  <2> QED
    BY <2>1, Zenon
<1> QED
  BY <1>1, <1>2, <1>3, <1>4 DEF Operation!Next

LEMMA PlainNext ==
  ASSUME OperationInv, [Operation!Next]_operationVars
  PROVE  Assigned'
<1>1. Assigned /\ item.revision \in Revisions
  BY DEF OperationInv, Operation!TypeOK, Assigned
<1> USE OperationBounds DEF Assigned, Operation!request, Operation!held, Operation!outcome,
    Operation!evidence, Operation!history, Operation!bounds, Operation!Step, Operation!Quiet,
    Operation!Lost,
        Operation!Trouble, Operation!Fine, Operation!Throws, Operation!Works, Operation!Continues,
        Operation!JobFails, Operation!Trusted, Operation!Untrusted, Operation!GithubError
<1>2. CASE Operation!Read
  BY <1>1, <1>2 DEF Operation!Read, Operation!LeavesAlone
<1>3. CASE Operation!Claim
  BY <1>1, <1>3 DEF Operation!Claim
<1>4. CASE Operation!Reread
  BY <1>1, <1>4 DEF Operation!Reread
<1>5. CASE Operation!Untrigger
  BY <1>1, <1>5 DEF Operation!Untrigger
<1>6. CASE Operation!Settle
  BY <1>1, <1>6 DEF Operation!Settle
<1>7. CASE Operation!Open
  BY <1>1, <1>7 DEF Operation!Open
<1>8. CASE Operation!Input
  BY <1>1, <1>8 DEF Operation!Input
<1>9. CASE Operation!Clone
  BY <1>1, <1>9 DEF Operation!Clone
<1>10. CASE Operation!Fetch
  BY <1>1, <1>10 DEF Operation!Fetch
<1>11. CASE Operation!Install
  <2>1. targetInvocation.revision \in Revisions
    BY <1>11 DEF OperationInv, Operation!JobSteps, HandedOver, Operation!Install
  <2> QED
    BY <1>1, <1>11, <2>1 DEF Operation!Install
<1>12. CASE Operation!Spawn
  BY <1>1, <1>12 DEF Operation!Spawn
<1>13. CASE Operation!Inspect
  BY <1>1, <1>13 DEF Operation!Inspect
<1>14. CASE Operation!Operate
  BY <1>1, <1>14 DEF Operation!Operate
<1>15. CASE Operation!Remove
  BY <1>1, <1>15 DEF Operation!Remove
<1>16. CASE Operation!Report
  BY <1>1, <1>16 DEF Operation!Report
<1>17. CASE Operation!TimeOut
  BY <1>1, <1>17 DEF Operation!TimeOut
<1>18. CASE Operation!Close
  BY <1>1, <1>18, StatusSays DEF Operation!Close, Operation!Returns
<1>19. CASE Operation!Outcome
  BY <1>1, <1>19 DEF Operation!Outcome
<1>20. CASE Operation!Block
  BY <1>1, <1>20 DEF Operation!Block
<1>21. CASE Operation!Release
  BY <1>1, <1>21 DEF Operation!Release
<1>22. CASE Operation!Expire
  BY <1>1, <1>22 DEF Operation!Expire
<1>23. CASE Operation!Edit
  BY <1>1, <1>23 DEF Operation!Edit
<1>24. CASE UNCHANGED operationVars
  BY <1>1, <1>24 DEF operationVars
<1> QED
  BY <1>2, <1>3, <1>4, <1>5, <1>6, <1>7, <1>8, <1>9, <1>10, <1>11, <1>12, <1>13, <1>14, <1>15,
     <1>16, <1>17, <1>18, <1>19, <1>20, <1>21, <1>22, <1>23, <1>24 DEF Operation!Next

LEMMA TypeNext == OperationInv /\ [Operation!Next]_operationVars => Operation!TypeOK' /\ confirmed'.revision \in Revisions
<1> SUFFICES ASSUME OperationInv, [Operation!Next]_operationVars
             PROVE Operation!TypeOK' /\ confirmed'.revision \in Revisions
  OBVIOUS
<1>1. item' \in WorkItems
  BY ItemNext DEF OperationInv
<1>2. Flagged'
  BY FlagsNext DEF OperationInv, Operation!TypeOK, Flagged
<1>3. Assigned'
  BY PlainNext
<1> QED
  BY <1>1, <1>2, <1>3 DEF Operation!TypeOK, Assigned, WorkItems, Flagged
-----------------------------------------------------------------------------
(* The authorization and the checkout on their way.                        *)

Delivered == (targetAt \in {"open"} \cup Operation!JobSteps => HandedOver) /\ CheckedOut

\* Nothing of an authorization changes once it is given.
LEMMA HandedStays ==
  HandedOver /\ UNCHANGED <<operation, fork, targetInvocation, settled, confirmed>> => HandedOver'
BY DEF HandedOver, Operation!Identity, Operation!IsPullRequestOperation

\* The acquisition ends in an authorization, or in none.
LEMMA AcquisitionInv ==
  ASSUME OperationInv, \/ Operation!Read \/ Operation!Claim \/ Operation!Reread
                       \/ Operation!Untrigger \/ Operation!Settle
  PROVE  Delivered'
<1>1. CASE Operation!Read
  <2>1. CASE targetAt' = "open"
    <3>1. /\ operation = Operation!Scheduled /\ UNCHANGED <<operation, fork, confirmed>>
          /\ targetInvocation' = [operation |-> operation, revision |-> item.revision, jobId |-> Operation!Job]
      BY <1>1, <2>1 DEF Operation!Read, Operation!Step, Operation!LeavesAlone, Operation!request
    <3>2. ~Operation!IsPullRequestOperation'
      BY <3>1
         DEF Operation!IsPullRequestOperation, Operation!PullRequestOperations, Operation!Scheduled
    <3>4. item.revision \in Revisions
      BY DEF OperationInv, Operation!TypeOK
    <3>3. {"operation", "revision"} \subseteq DOMAIN targetInvocation' /\ targetInvocation'.operation = operation
      BY <3>1
    <3> QED
      BY <2>1, <3>1, <3>2, <3>3, <3>4 DEF Delivered, HandedOver, CheckedOut
  <2>2. CASE targetAt' # "open"
    <3>1. targetAt' \in {"done", "claim"}
      BY <1>1, <2>2 DEF Operation!Read, Operation!LeavesAlone
    <3> QED
      BY <3>1 DEF OperationInv, Delivered, CheckedOut, Operation!JobSteps
  <2> QED
    BY <2>1, <2>2
<1>2. CASE Operation!Claim \/ Operation!Reread \/ Operation!Untrigger
  <2>1. targetAt' \in {"done", "reread", "block", "untrigger", "settle"}
    BY <1>2 DEF Operation!Claim, Operation!Reread, Operation!Untrigger, Operation!Throws
  <2> QED
    BY <2>1 DEF OperationInv, Delivered, CheckedOut, Operation!JobSteps
<1>3. CASE Operation!Settle
  <2>1. CASE targetAt' = "open"
    <3> DEFINE s == Operation!AcquisitionSnapshot(item)
    <3>1. /\ Operation!Routable(item) /\ Operation!RequireSettled(s) /\ confirmed' = item
          /\ targetInvocation' = Operation!AuthorizedInvocation /\ settled' = TRUE /\ UNCHANGED <<operation, fork>>
      BY <1>3, <2>1 DEF Operation!Settle, Operation!Throws, Operation!request
    <3>2. /\ s.state = item.state /\ s.labels = item.labels /\ s.revision = item.revision
          /\ Operation!IsPullRequestOperation => s.pullRequest = Operation!Identity(item)
      BY SnapshotSays
    <3>3. /\ item.state = "OPEN" /\ item.labels = {"in-progress"}
          /\ acquired.revision = item.revision /\ item.revision \in Revisions
          /\ Operation!IsPullRequestOperation => acquired.pullRequest = Operation!Identity(item) /\ ~fork
      BY <3>1, <3>2 DEF Operation!RequireSettled, Operation!SamePullRequest, Operation!Routable,
         OperationInv, Operation!TypeOK
    <3>4. Operation!Identity(confirmed)' = Operation!Identity(item) /\ (Operation!IsPullRequestOperation' <=> Operation!IsPullRequestOperation)
      BY <3>1 DEF Operation!Identity, Operation!IsPullRequestOperation
    <3>5. HandedOver'
      BY <3>1, <3>3, <3>4, InvocationKeeps DEF HandedOver
    <3> QED
      BY <2>1, <3>5 DEF OperationInv, Delivered, CheckedOut
  <2>2. CASE targetAt' # "open"
    <3>1. targetAt' \in {"done", "block"}
      BY <1>3, <2>2 DEF Operation!Settle, Operation!Throws
    <3> QED
      BY <3>1 DEF OperationInv, Delivered, CheckedOut, Operation!JobSteps
  <2> QED
    BY <2>1, <2>2
<1> QED
  BY <1>1, <1>2, <1>3

\* The job carries it, with the checkout it makes.
LEMMA JobInv ==
  ASSUME OperationInv,
         \/ Operation!Open \/ Operation!Input \/ Operation!Clone \/ Operation!Fetch
         \/ Operation!Install \/ Operation!Spawn \/ Operation!Inspect \/ Operation!Operate
         \/ Operation!Remove \/ Operation!Report \/ Operation!TimeOut
  PROVE  Delivered'
<1>1. UNCHANGED <<operation, fork, targetInvocation, settled, confirmed>>
  BY DEF Operation!Open, Operation!Input, Operation!Clone, Operation!Fetch, Operation!Install,
     Operation!Spawn, Operation!Inspect, Operation!Operate, Operation!Remove, Operation!Report,
     Operation!TimeOut,
         Operation!Works, Operation!Step, Operation!request, Operation!held
<1>2. targetAt \in {"open"} \cup Operation!JobSteps
  BY DEF Operation!Open, Operation!Input, Operation!Clone, Operation!Fetch, Operation!Install,
     Operation!Spawn, Operation!Inspect, Operation!Operate, Operation!Remove, Operation!Report,
     Operation!TimeOut,
         Operation!Works, Operation!Step, Operation!JobSteps
<1>3. HandedOver'
  BY <1>1, <1>2, HandedStays DEF OperationInv, Delivered
<1>4. CheckedOut'
  <2> USE DEF Operation!Works, Operation!Step, Operation!Continues, Operation!JobFails, CheckedOut
  <2>1. CASE Operation!Open
    BY <2>1 DEF Operation!Open, Operation!Throws
  <2>2. CASE Operation!Input \/ Operation!Clone
    BY <2>2 DEF Operation!Input, Operation!Clone
  <2>3. CASE Operation!Fetch
    BY <1>1, <2>3 DEF Operation!Fetch
  <2>4. CASE Operation!Install
    BY <1>1, <2>4 DEF OperationInv, Delivered, Operation!Install
  <2>5. CASE Operation!Spawn
    <3>1. CASE targetAt' = "inspect"
      <4>1. /\ targetAt = "spawn" /\ targetWorker' = Operation!WorkerArguments(targetInvocation, Operation!Path)
            /\ UNCHANGED <<disk, operation>>
        BY <2>5, <3>1 DEF Operation!Spawn, Operation!evidence, Operation!request
      <4> QED
        BY <1>1, <3>1, <4>1 DEF OperationInv, Delivered, Operation!WorkerArguments, Operation!With,
           Operation!Path, Operation!Scheduled
    <3>2. CASE targetAt' # "inspect"
      BY <2>5, <3>2 DEF Operation!Spawn
    <3> QED
      BY <3>1, <3>2
  <2>6. CASE Operation!Inspect
    <3>1. targetAt = "inspect" /\ targetAt' \in {"close", "operate", "remove"} /\ UNCHANGED <<targetWorker, disk>>
      BY <2>6 DEF Operation!Inspect, Operation!evidence
    <3>2. HandedOver /\ disk = targetInvocation.revision /\ targetWorker = Operation!WorkerArguments(targetInvocation, Operation!Path)
      BY <3>1 DEF OperationInv, Operation!JobSteps
    <3>3. targetWorker.invocation.revision = targetInvocation.revision /\ targetInvocation.revision \in Revisions
      BY <3>2, ArgumentsKeep DEF HandedOver
    <3> QED
      BY <3>1, <3>2, <3>3
  <2>7. CASE Operation!Operate
    BY <2>7 DEF Operation!Operate, Operation!evidence, OperationInv
  <2>8. CASE Operation!Remove \/ Operation!Report \/ Operation!TimeOut
    BY <2>8 DEF Operation!Remove, Operation!Report, Operation!TimeOut
  <2> QED
    BY <2>1, <2>2, <2>3, <2>4, <2>5, <2>6, <2>7, <2>8
<1> QED
  BY <1>3, <1>4 DEF OperationInv, Delivered

\* Afterwards there is nothing to carry, and people change the Work Item only.
LEMMA RestInv ==
  ASSUME OperationInv, \/ Operation!Close \/ Operation!Outcome \/ Operation!Block
                       \/ Operation!Release \/ Operation!Expire \/ Operation!Edit
                       \/ UNCHANGED operationVars
  PROVE  Delivered'
<1>1. CASE \/ Operation!Close \/ Operation!Outcome \/ Operation!Block \/ Operation!Release
           \/ Operation!Expire
  <2>1. targetAt' \in {"done", "outcome", "block", "release", "expired"}
    BY <1>1 DEF Operation!Close, Operation!Outcome, Operation!Block, Operation!Release,
       Operation!Expire, Operation!Returns, Operation!Throws
  <2> QED
    BY <2>1 DEF OperationInv, Delivered, CheckedOut, Operation!JobSteps
<1>2. CASE Operation!Edit \/ UNCHANGED operationVars
  <2>1. UNCHANGED <<operation, fork, targetAt, targetInvocation, targetWorker, settled, disk, confirmed>>
    BY <1>2 DEF Operation!Edit, operationVars, Operation!request, Operation!held,
       Operation!evidence, Operation!history
  <2>2. HandedOver => HandedOver'
    BY <2>1, HandedStays
  <2>3. CheckedOut'
    BY <2>1 DEF OperationInv, Delivered, CheckedOut, Operation!WorkerArguments, Operation!With,
       Operation!Path, Operation!Scheduled
  <2> QED
    BY <2>1, <2>2, <2>3 DEF OperationInv, Delivered, Operation!JobSteps
<1> QED
  BY <1>1, <1>2

\* Together: the authorization and the checkout on their way.
LEMMA CarriedNext == OperationInv /\ [Operation!Next]_operationVars => Delivered'
BY AcquisitionInv, JobInv, RestInv DEF Operation!Next

\* Only the inspection of the Work Item lets the operation begin.
LEMMA BeginsByInspect ==
  ASSUME [Operation!Next]_operationVars, targetAt' = "operate", targetAt # "operate"
  PROVE  Operation!Inspect
<1>1. CASE \/ Operation!Read \/ Operation!Claim \/ Operation!Reread \/ Operation!Untrigger
           \/ Operation!Settle
  BY <1>1 DEF Operation!Read, Operation!LeavesAlone, Operation!Claim, Operation!Reread,
     Operation!Untrigger, Operation!Settle, Operation!Throws
<1>2. CASE \/ Operation!Open \/ Operation!Input \/ Operation!Clone \/ Operation!Fetch
           \/ Operation!Install \/ Operation!Spawn \/ Operation!Operate \/ Operation!Remove
           \/ Operation!Report \/ Operation!TimeOut
  BY <1>2 DEF Operation!Open, Operation!Input, Operation!Clone, Operation!Fetch, Operation!Install,
     Operation!Spawn, Operation!Operate, Operation!Remove, Operation!Report, Operation!TimeOut,
              Operation!Continues, Operation!JobFails, Operation!Throws
<1>3. CASE \/ Operation!Close \/ Operation!Outcome \/ Operation!Block \/ Operation!Release
           \/ Operation!Expire
  BY <1>3 DEF Operation!Close, Operation!Outcome, Operation!Block, Operation!Release,
     Operation!Expire, Operation!Returns, Operation!Throws
<1>4. CASE Operation!Edit \/ UNCHANGED operationVars
  BY <1>4 DEF Operation!Edit, operationVars
<1> QED
  BY <1>1, <1>2, <1>3, <1>4 DEF Operation!Next

\* What the operation begins on is what was confirmed.
LEMMA StepOperates == OperationInv /\ [Operation!Next]_operationVars => Operation!OperatesOnAcquired
<1> SUFFICES ASSUME OperationInv, [Operation!Next]_operationVars, targetAt' = "operate", targetAt # "operate"
             PROVE Operation!OperatesOnAcquired
  BY DEF Operation!OperatesOnAcquired
<1>1. Operation!Inspect
  BY BeginsByInspect
<1>2. targetAt = "inspect" /\ UNCHANGED <<targetWorker, disk, operation, fork, confirmed, targetInvocation>>
  BY <1>1
     DEF Operation!Inspect, Operation!Works, Operation!Step, Operation!evidence, Operation!request
<1>3. HandedOver /\ CheckedOut
  BY <1>2 DEF OperationInv, Operation!JobSteps
<1>4. /\ disk = targetInvocation.revision /\ targetInvocation.revision \notin Private
      /\ targetWorker = Operation!WorkerArguments(targetInvocation, Operation!Path)
  BY <1>2, <1>3 DEF CheckedOut
<1>5. targetWorker.invocation.revision = targetInvocation.revision
  BY <1>3, <1>4, ArgumentsKeep DEF HandedOver
<1>6. operation # Operation!Scheduled => targetWorker.number = Operation!Number
  BY <1>3, <1>4, ArgumentsKeep DEF HandedOver
<1>7. Operation!IsPullRequestOperation => targetWorker.invocation.pullRequest = Operation!Identity(confirmed) /\ ~fork
  BY <1>3, <1>4, ArgumentsKeep DEF HandedOver
<1>8. Operation!IsPullRequestOperation' <=> Operation!IsPullRequestOperation
  BY <1>2 DEF Operation!IsPullRequestOperation
<1> QED
  BY <1>2, <1>3, <1>4, <1>5, <1>6, <1>7, <1>8 DEF Operation!OperatesOnAcquired, HandedOver

-----------------------------------------------------------------------------
(* What is said about the end of an operation.                             *)

\* A failure that reaches the command is one, and nothing a process wrote is in
\* what is published of it.
LEMMA FailuresNext == OperationInv /\ [Operation!Next]_operationVars => FailuresStand'
<1> SUFFICES ASSUME OperationInv, [Operation!Next]_operationVars PROVE FailuresStand'
  OBVIOUS
<1>1. FailuresStand
  BY DEF OperationInv
<1> USE DEF FailuresStand, Operation!NoFailure, Operation!Step, Operation!Quiet, Operation!Throws,
    Operation!Trusted, Operation!Untrusted, Operation!GithubError, Operation!outcome
<1>2. CASE Operation!Read \/ Operation!Claim \/ Operation!Reread
  BY <1>1, <1>2 DEF Operation!Read, Operation!LeavesAlone, Operation!Claim, Operation!Reread
<1>3. CASE Operation!Untrigger \/ Operation!Settle \/ Operation!Open
  BY <1>1, <1>3 DEF Operation!Untrigger, Operation!Settle, Operation!Open
<1>4. CASE \/ Operation!Input \/ Operation!Clone \/ Operation!Fetch \/ Operation!Install
           \/ Operation!Spawn
  BY <1>1, <1>4 DEF Operation!Input, Operation!Clone, Operation!Fetch, Operation!Install,
     Operation!Spawn, Operation!Works, Operation!Continues, Operation!JobFails
<1>5. CASE Operation!Inspect \/ Operation!Operate \/ Operation!Remove \/ Operation!Report
  BY <1>1, <1>5 DEF Operation!Inspect, Operation!Operate, Operation!Remove, Operation!Report,
     Operation!Works, Operation!Continues, Operation!JobFails
<1>6. CASE Operation!TimeOut
  BY <1>1, <1>6 DEF Operation!TimeOut, Operation!Works
<1>7. CASE Operation!Close
  BY <1>1, <1>7 DEF Operation!Close, Operation!Returns
<1>8. CASE Operation!Outcome
  BY <1>1, <1>8 DEF Operation!Outcome
<1>9. CASE Operation!Block
  BY <1>1, <1>9 DEF Operation!Block, Operation!Published
<1>10. CASE Operation!Release \/ Operation!Expire \/ Operation!Edit \/ UNCHANGED operationVars
  BY <1>1, <1>10 DEF Operation!Release, Operation!Expire, Operation!Edit, operationVars
<1> QED
  BY <1>2, <1>3, <1>4, <1>5, <1>6, <1>7, <1>8, <1>9, <1>10 DEF Operation!Next

\* The record and the checkout follow the answer.
LEMMA EvidenceNext == OperationInv /\ [Operation!Next]_operationVars => EvidenceStands'
<1> SUFFICES ASSUME OperationInv, [Operation!Next]_operationVars PROVE EvidenceStands'
  OBVIOUS
<1>1. EvidenceStands /\ FailuresStand /\ CheckedOut /\ UNCHANGED operation
  BY DEF OperationInv, Operation!Next, Operation!Read, Operation!Claim, Operation!Reread,
     Operation!Untrigger, Operation!Settle, Operation!Open, Operation!Input, Operation!Clone,
     Operation!Fetch, Operation!Install, Operation!Spawn,
    Operation!Inspect, Operation!Operate, Operation!Remove, Operation!Report, Operation!TimeOut,
    Operation!Close, Operation!Outcome, Operation!Block, Operation!Release, Operation!Expire,
    Operation!Edit, Operation!Works,
    Operation!Step, operationVars, Operation!request
<1> USE NoSpecialRevision DEF EvidenceStands, Well, Kept, Recorded, Operation!NoFailure,
    Operation!Step, Operation!Throws, Operation!Trusted, Operation!Untrusted,
    Operation!GithubError, Operation!outcome, Operation!evidence, Operation!held
<1>2. CASE Operation!Read \/ Operation!Claim \/ Operation!Reread \/ Operation!Untrigger
  BY <1>1, <1>2 DEF Operation!Read, Operation!LeavesAlone, Operation!Claim, Operation!Reread,
     Operation!Untrigger
<1>3. CASE Operation!Settle \/ Operation!Open
  BY <1>1, <1>3 DEF Operation!Settle, Operation!Open
<1> USE DEF Operation!Works, Operation!Continues, Operation!JobFails
<1>4. CASE Operation!Input \/ Operation!Clone \/ Operation!Fetch
  BY <1>1, <1>4 DEF Operation!Input, Operation!Clone, Operation!Fetch
<1>5. CASE Operation!Install \/ Operation!Spawn
  <2>1. targetInvocation.revision \in Revisions
    BY <1>5 DEF OperationInv, Operation!JobSteps, HandedOver, Operation!Install, Operation!Spawn
  <2> QED
    BY <1>1, <1>5, <2>1 DEF Operation!Install, Operation!Spawn
<1>6. CASE Operation!Inspect \/ Operation!Operate
  <2>1. operation # Operation!Scheduled => settled
    BY <1>6 DEF OperationInv, Operation!JobSteps, HandedOver, Operation!Inspect, Operation!Operate
  <2>2. CASE Operation!Inspect
    BY <1>1, <2>2, <2>1 DEF Operation!Inspect
  <2>3. CASE Operation!Operate
    BY <1>1, <2>3, <2>1 DEF Operation!Operate, CheckedOut
  <2> QED
    BY <1>6, <2>2, <2>3
<1>7. CASE Operation!Remove
  BY <1>1, <1>7 DEF Operation!Remove, Operation!Disposition, CheckedOut
<1>8. CASE Operation!Report
  BY <1>1, <1>8 DEF Operation!Report
<1>9. CASE Operation!TimeOut
  BY <1>1, <1>9 DEF Operation!TimeOut, Operation!Disposition, Operation!JobSteps
<1>10. CASE Operation!Close
  BY <1>1, <1>10, StatusSays DEF Operation!Close, Operation!Returns, FailuresStand
<1>11. CASE Operation!Outcome \/ Operation!Block
  BY <1>1, <1>11 DEF Operation!Outcome, Operation!Block, FailuresStand
<1>12. CASE Operation!Release
  BY <1>1, <1>12 DEF Operation!Release
<1>13. CASE Operation!Expire \/ Operation!Edit \/ UNCHANGED operationVars
  BY <1>1, <1>13 DEF Operation!Expire, Operation!Edit, operationVars
<1> QED
  BY <1>2, <1>3, <1>4, <1>5, <1>6, <1>7, <1>8, <1>9, <1>10, <1>11, <1>12, <1>13 DEF Operation!Next

\* What the labels say while the command holds the Work Item.
LEMMA LabelsNext == OperationInv /\ [Operation!Next]_operationVars => LabelsStand'
<1> SUFFICES ASSUME OperationInv, [Operation!Next]_operationVars PROVE LabelsStand'
  OBVIOUS
<1>1. LabelsStand /\ item \in WorkItems /\ UNCHANGED operation
  BY DEF OperationInv, Operation!TypeOK, WorkItems, Operation!Next, Operation!Read,
     Operation!Claim, Operation!Reread, Operation!Untrigger, Operation!Settle, Operation!Open,
     Operation!Input, Operation!Clone, Operation!Fetch,
    Operation!Install, Operation!Spawn, Operation!Inspect, Operation!Operate, Operation!Remove,
    Operation!Report, Operation!TimeOut, Operation!Close, Operation!Outcome, Operation!Block,
    Operation!Release, Operation!Expire,
    Operation!Edit, Operation!Works, Operation!Step, operationVars, Operation!request
<1>2. \A l \in {"trigger", "in-progress", "blocked"} :
        /\ Operation!Put(l) => item'.labels = item.labels \cup {l}
        /\ Operation!Take(l) => item'.labels = item.labels \ {l}
  BY <1>1, PutLabel, TakeLabel
<1> USE DEF LabelsStand, Operation!JobSteps, Operation!Step, Operation!Quiet, Operation!Throws,
    Operation!Trusted, Operation!Untrusted, Operation!GithubError
<1>3. CASE Operation!Read
  BY <1>1, <1>3 DEF Operation!Read, Operation!LeavesAlone
<1>4. CASE Operation!Claim
  BY <1>1, <1>2, <1>4 DEF Operation!Claim, Operation!held, Operation!Lost
<1>5. CASE Operation!Reread
  BY <1>1, <1>5 DEF Operation!Reread
<1>6. CASE Operation!Untrigger
  BY <1>1, <1>2, <1>6 DEF Operation!Untrigger, Operation!held, Operation!Lost
<1>7. CASE Operation!Settle
  <2>1. Operation!AcquisitionSnapshot(item).labels = item.labels
    BY SnapshotSays
  <2> QED
    BY <1>1, <1>7, <2>1 DEF Operation!Settle, Operation!RequireSettled
<1>8. CASE Operation!Open
  BY <1>1, <1>8 DEF Operation!Open, Operation!held
<1>9. CASE \/ Operation!Input \/ Operation!Clone \/ Operation!Fetch \/ Operation!Install
           \/ Operation!Spawn
  BY <1>1, <1>9 DEF Operation!Input, Operation!Clone, Operation!Fetch, Operation!Install,
     Operation!Spawn, Operation!Works, Operation!Continues, Operation!JobFails
<1>10. CASE \/ Operation!Inspect \/ Operation!Operate \/ Operation!Remove \/ Operation!Report
            \/ Operation!TimeOut
  BY <1>1, <1>10 DEF Operation!Inspect, Operation!Operate, Operation!Remove, Operation!Report,
     Operation!TimeOut, Operation!Works, Operation!Continues, Operation!JobFails
<1>11. CASE Operation!Close
  BY <1>1, <1>11 DEF Operation!Close, Operation!Returns, Operation!held, OperationInv, FailuresStand
<1>12. CASE Operation!Outcome
  BY <1>1, <1>2, <1>12
     DEF Operation!Outcome, Operation!held, Operation!Lost, OperationInv, FailuresStand
<1>13. CASE Operation!Block
  BY <1>1, <1>2, <1>13
     DEF Operation!Block, Operation!held, Operation!Lost, OperationInv, FailuresStand
<1>14. CASE Operation!Release
  BY <1>1, <1>2, <1>14 DEF Operation!Release, Operation!held, Operation!Lost, OperationInv,
     FailuresStand, EvidenceStands, Well
<1>15. CASE Operation!Expire \/ UNCHANGED operationVars
  BY <1>1, <1>15
     DEF Operation!Expire, Operation!held, operationVars, Operation!outcome, Operation!history
<1>16. CASE Operation!Edit
  BY <1>1, <1>16 DEF Operation!Edit, Operation!held, Operation!outcome
<1> QED
  BY <1>3, <1>4, <1>5, <1>6, <1>7, <1>8, <1>9, <1>10, <1>11, <1>12, <1>13, <1>14, <1>15, <1>16
     DEF Operation!Next

\* Every step of the operation keeps its invariant.
LEMMA OperationNext == OperationInv /\ [Operation!Next]_operationVars => OperationInv'
BY TypeNext, CarriedNext, FailuresNext, EvidenceNext, LabelsNext DEF OperationInv, Delivered

\* What the command leaves behind says what became of it.
LEMMA OwnershipFollows == OperationInv => Operation!OwnershipIsVisible
BY DEF OperationInv, LabelsStand, Operation!OwnershipIsVisible

\* So does the evidence.
LEMMA EvidenceFollows == OperationInv => Operation!EvidenceStays
BY DEF OperationInv, EvidenceStands, FailuresStand, Kept, Recorded, Operation!EvidenceStays

-----------------------------------------------------------------------------
(* The job.                                                                *)

\* A step of the job is one of the part it is about, or leaves that part alone.
LEMMA JobParts ==
  /\ JobInit => Init /\ Stages!Init /\ Work!Init /\ Operation!Init
  /\ [JobNext]_allVars => /\ [Next]_vars /\ [Stages!Next]_stageVars
                          /\ [Work!Next]_workVars /\ [Operation!Next]_operationVars
BY DEF JobInit, JobNext, allVars

\* The four invariants hold of the whole job.
LEMMA PartsHold == JobSpec => [](WorkerInv /\ StagesInv /\ WorkInv /\ OperationInv)
<1>1. JobInit => WorkerInv /\ StagesInv /\ WorkInv /\ OperationInv
  BY JobParts, WorkerInit, StagesInit, WorkInit, OperationInit
<1>2. (WorkerInv /\ StagesInv /\ WorkInv /\ OperationInv) /\ [JobNext]_allVars =>
        (WorkerInv /\ StagesInv /\ WorkInv /\ OperationInv)'
  BY JobParts, WorkerNext, StagesNext, WorkNext, OperationNext
<1> QED
  BY <1>1, <1>2, PTL DEF JobSpec

\* An outcome that does not admit that the cleanup could not be confirmed leaves
\* no process of the job, and says of the deadline and of the leader's exit what
\* happened (worker-process-lifecycle.ts, job-timeout.ts), for groups of any size
\* and any number of failures.
THEOREM ConsistentHolds == JobSpec => []Consistent
<1>1. WorkerInv => Consistent
  BY DEF WorkerInv, Consistent
<1> QED
  BY <1>1, PartsHold, PTL

\* However many runs are rejected, answers unusable and calls lost, no role runs
\* its Agent more often than its attempts allow (agent-runtime.ts,
\* agent-structured-output.ts), and a Target operation's labels, record, checkout
\* and diagnostic say what became of it (target-operation-command.ts,
\* target-operation.ts, target-checkout.ts).
THEOREM JobsAreAccountedForHolds == JobSpec => []JobsAreAccountedFor
<1>1. StagesInv /\ WorkInv /\ OperationInv => JobsAreAccountedFor
  BY OwnershipFollows, EvidenceFollows DEF StagesInv, WorkInv, OperationInv, JobsAreAccountedFor
<1> QED
  BY <1>1, PartsHold, PTL

\* The result of a role comes from the checkout it has to come from
\* (agent-runtime.ts), what is reported as implemented is on GitHub with all that
\* was there before (durable-implementer.ts), and an operation begins in a
\* checkout of the revision, on the Pull Request and for the Work Item that were
\* confirmed last (target-operation-command.ts, target-operation-invocation.ts),
\* whatever people do and whatever fails in between.
THEOREM ResultsAreProvenHolds == JobSpec => ResultsAreProven
<1>1. StagesInv /\ WorkInv /\ OperationInv /\ [JobNext]_allVars =>
        /\ Stages!DeliversProven /\ Work!ImplementsProven
        /\ (subject = "operation" => Operation!OperatesOnAcquired)
  BY JobParts, StepDelivers, StepImplements, StepOperates
<1> QED
  BY <1>1, PartsHold, PTL DEF JobSpec, ResultsAreProven
=============================================================================
