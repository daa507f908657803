------------------------- MODULE AutomationDispatch -------------------------
(***************************************************************************)
(* .sandcastle: the Dispatcher that turns labels of GitHub Work Items into *)
(* jobs. One Dispatch Session recovers interrupted automation, promotes    *)
(* queued Issues and keeps its workers busy until nothing is eligible; a   *)
(* job acquires its Work Item by moving labels. The labels are what        *)
(* sessions, jobs and people share.                                        *)
(*                                                                         *)
(* A job and its worker die with the Dispatcher (host shutdown, or the     *)
(* control group of the systemd unit), and the lock keeps sessions apart.  *)
(***************************************************************************)
EXTENDS Naturals, FiniteSets

CONSTANTS
  Issues,        \* Issues; one that has sub-issues is a Spec
  PullRequests,  \* Pull Requests
  SharedPR,      \* the Pull Request of a Spec's children
  Limit,         \* worker slots
  Children,      \* how many sub-issues a Spec has or is split into
  Starts,        \* bound: the labels and sub-issues the Work Items may begin with
  Wishes,        \* bound: the triggers people may add while the system runs
  MaxCrashes,    \* bound: deaths of the Dispatcher
  MaxTroubles    \* bound: failing GitHub or file calls, and label changes by people

Items == Issues \cup PullRequests
Triggers == {"implement", "to-tickets", "review", "update-branch"}
Asking == Triggers \cup {"queued"}
Labels == Asking \cup {"in-progress", "blocked"}

ASSUME ItemsAssumption ==
  /\ Issues \cap PullRequests = {} /\ SharedPR \in [Issues -> PullRequests]
  /\ Starts \subseteq [Items -> SUBSET Labels] \X [Issues -> 0..Children]
  /\ Wishes \subseteq Items \X Labels
ASSUME BoundsAssumption ==
  /\ Limit \in Nat \ {0} /\ Children \in Nat \ {0}
  /\ MaxCrashes \in Nat /\ MaxTroubles \in Nat

IssueOps == {"implement-issue", "implement-spec", "split-spec"}
PullRequestOps == {"update-branch", "implement", "review"}
Ops == IssueOps \cup PullRequestOps
Slots == 1..Limit

VARIABLES
  labels,      \* the labels of every Work Item
  total, open, \* sub-issues of an Issue, and those still open
  implemented, \* Issues with an open implementation Pull Request
  draft,       \* Pull Requests that are Drafts
  log,         \* the job records of a Work Item: the operation of the newest if it says
               \* running, and whether an older one does
  aged,        \* Work Items whose newest record is at least five minutes old
  unreadable,  \* some record cannot be parsed
  session,     \* dispatchAutomationCommands: where it is, and its variables
  seen,        \* the labels the listing under way has read, per Work Item
  job,         \* the job of every worker slot
  troubles, crashes,
  wanted,      \* history: triggers whose job has not ended
  edited,      \* history: Work Items people changed since the listing began
  reviewed,    \* history: Specs whose final review was requested
  muddled      \* history: Work Items that two jobs had at once, or whose trigger was taken
               \* by a job that left no record where an older one, of another trigger,
               \* says running

github == <<labels, total, open, implemented, draft>>
records == <<log, aged, unreadable>>
bounds == <<troubles, crashes>>
jobs == <<job, muddled>>
vars == <<github, records, session, seen, jobs, bounds, wanted, edited, reviewed>>

Trigger(op) ==
  CASE op \in {"implement-issue", "implement-spec"} -> "implement"
    [] op = "split-spec" -> "to-tickets"
    [] OTHER -> op
Priority(op) ==
  CASE op = "update-branch" -> 1 [] op = "implement" -> 2 [] op = "review" -> 3
    [] op \in {"implement-issue", "implement-spec"} -> 4 [] op = "split-spec" -> 5
Identity(i, op) ==
  CASE op \in {"implement-spec", "split-spec"} -> <<"spec", i>>
    [] op = "implement-issue" -> <<"issue", i>>
    [] OTHER -> <<"pull-request", i>>

\* listCommands on the labels it read: the routes of the triggers, or one
\* command that can only be inspected.
Routed(i, L) ==
  IF i \in PullRequests THEN PullRequestOps \cap L
  ELSE IF "implement" \notin L THEN {op \in {"split-spec"} : "to-tickets" \in L}
  ELSE IF total[i] > 0 THEN {"implement-spec"}
  ELSE {op \in {"implement-issue"} : i \notin implemented}
Commands(i, L) ==
  IF Routed(i, L) = {} /\ L \cap {"in-progress", "blocked"} # {} THEN {"unknown"}
  ELSE Routed(i, L)

\* commandEligibility.
Eligible(op, L) ==
  op # "unknown" /\ Trigger(op) \in L /\ L \cap {"in-progress", "blocked"} = {}
Candidate(L) == "in-progress" \in L /\ "blocked" \notin L

Off == [at |-> "off", first |-> TRUE, failed |-> FALSE, raced |-> FALSE, woken |-> FALSE,
        poll |-> FALSE, repaired |-> {}, todo |-> {}, now |-> {}, step |-> 0]
Free == [at |-> "free", on |-> <<"none", "none">>, op |-> "none", settled |-> FALSE,
         result |-> "none"]
NoRecord == [running |-> "none", older |-> FALSE]
Unread == {"unread"}
Busy(j) == {s \in Slots : j[s].at # "free"}
Running == {Identity(job[s].on, job[s].op) : s \in Busy(job)}

Sessions ==
  [at : {"off", "first", "recover", "wait", "promote", "scan", "list"}, first : BOOLEAN,
   failed : BOOLEAN, raced : BOOLEAN, woken : BOOLEAN, poll : BOOLEAN,
   repaired : SUBSET Items, todo : SUBSET Items, now : SUBSET Items, step : 0..3]
Jobs ==
  [at : {"free", "read", "claim", "acquire", "untrigger", "settle", "log", "work", "close",
         "continue", "complete", "block", "blockAgain", "release", "done"},
   on : Items \cup {Free.on}, op : Ops \cup {"none"}, settled : BOOLEAN,
   result : {"none", "ended", "blocked", "failed"}]

TypeOK ==
  /\ labels \in [Items -> SUBSET Labels]
  /\ total \in [Issues -> 0..Children] /\ open \in [Issues -> 0..Children]
  /\ \A i \in Issues : open[i] <= total[i]
  /\ implemented \subseteq Issues /\ draft \subseteq PullRequests
  /\ log \in [Items -> [running : Ops \cup {"none"}, older : BOOLEAN]]
  /\ aged \subseteq Items /\ unreadable \in BOOLEAN
  /\ session \in Sessions /\ seen \in [Items -> {Unread} \cup SUBSET Labels]
  /\ job \in [Slots -> Jobs]
  /\ \A s \in Busy(job) : /\ job[s].on \in Items /\ job[s].op \in Ops
                          /\ job[s].op \in IssueOps <=> job[s].on \in Issues
  /\ troubles \in 0..MaxTroubles /\ crashes \in 0..MaxCrashes
  /\ wanted \in [Items -> SUBSET Asking]
  /\ edited \subseteq Items /\ muddled \subseteq Items /\ reviewed \subseteq Issues

Init ==
  /\ \E start \in Starts : labels = start[1] /\ total = start[2]
  /\ open = total /\ wanted = [i \in Items |-> labels[i] \cap Asking]
  /\ implemented = {} /\ draft = PullRequests
  /\ log = [i \in Items |-> NoRecord] /\ aged = {} /\ unreadable = FALSE
  /\ session = Off /\ seen = [i \in Items |-> Unread] /\ job = [s \in Slots |-> Free]
  /\ troubles = 0 /\ crashes = 0 /\ edited = {} /\ reviewed = {} /\ muddled = {}

Fault == troubles < MaxTroubles /\ troubles' = troubles + 1
NoFault == UNCHANGED troubles
Put(i, l) == labels' = [labels EXCEPT ![i] = @ \cup {l}]
Take(i, l) == labels' = [labels EXCEPT ![i] = @ \ {l}]
\* A call whose answer is an error may have taken effect.
PutLost(i, l) == Fault /\ (Put(i, l) \/ UNCHANGED labels)
TakeLost(i, l) == Fault /\ (Take(i, l) \/ UNCHANGED labels)

-----------------------------------------------------------------------------
(* dispatchAutomationCommands.                                             *)

Session(a) ==
  /\ session.at = a
  /\ UNCHANGED <<total, open, implemented, draft, records, crashes, reviewed>>
Listing == seen' = [i \in Items |-> Unread] /\ edited' = {}
Armed == Cardinality(Busy(job')) < Limit
Waiting(n) == [n EXCEPT !.at = "wait", !.poll = Armed, !.repaired = {},
                        !.failed = FALSE, !.raced = FALSE]

\* The top of the loop, after a fill: the session drains, waits, or refills at
\* once. The poll is armed only if a slot is free when the wait begins.
Loop(clean) ==
  /\ Listing
  /\ session' = IF ~session.first /\ clean /\ Busy(job') = {} THEN Off
                ELSE IF ~session.first \/ Busy(job') # {} THEN Waiting(session)
                ELSE [Off EXCEPT !.at = "promote", !.first = FALSE]

\* select: the eligible commands, the most urgent one of an identity, none
\* whose identity is in flight.
InFlight(i, op) == Identity(i, op) \in Running
Selected(i, op) ==
  /\ op \in Commands(i, seen[i]) /\ Eligible(op, seen[i]) /\ ~InFlight(i, op)
  /\ \A other \in Commands(i, seen[i]) :
       Eligible(other, seen[i]) => Priority(op) <= Priority(other)
Frontier == {c \in (Items \ session.repaired) \X Ops : Selected(c[1], c[2])}

\* fill: the free slots take the first commands of the order.
Assigned(f) == {f[s] : s \in DOMAIN f}
Fills(f) ==
  /\ \A s, t \in DOMAIN f : f[s] = f[t] => s = t
  /\ \/ DOMAIN f = Slots \ Busy(job)
     \/ DOMAIN f \subseteq Slots \ Busy(job) /\ Assigned(f) = Frontier
  /\ \A c \in Assigned(f), d \in Frontier \ Assigned(f) : Priority(c[2]) <= Priority(d[2])
\* Work Items that two of the jobs have at once.
Shared(j) ==
  {i \in Items : \E s, t \in Slots :
     /\ s # t /\ j[s].on = i /\ j[t].on = i
     /\ {j[s].at, j[t].at} \cap {"free", "done"} = {}}
Fill ==
  \E used \in SUBSET (Slots \ Busy(job)) : \E f \in [used -> Frontier] :
    /\ Fills(f) /\ \A u \in used, v \in Slots \ (used \cup Busy(job)) : u < v
    /\ job' = [s \in Slots |-> IF s \in used
                               THEN [Free EXCEPT !.at = "read", !.on = f[s][1], !.op = f[s][2]]
                               ELSE job[s]]
    /\ muddled' = muddled \cup Shared(job')

\* The lock is taken, the checkout is on a clean master, the labels exist.
StartSession ==
  /\ Session("off") /\ session' = [Off EXCEPT !.at = "first"] /\ Listing
  /\ UNCHANGED <<labels, jobs, troubles, wanted>>

\* One read of a Work Item by the parallel queries of a listing.
ReadItem ==
  /\ session.at \in {"first", "list"} /\ Session(session.at)
  /\ \E i \in Items : seen[i] = Unread /\ seen' = [seen EXCEPT ![i] = labels[i]]
  /\ UNCHANGED <<labels, session, jobs, troubles, wanted, edited>>
Listed == \A i \in Items : seen[i] # Unread

\* attempt: the newest record is the only running one, of this command, old
\* enough, and no live scheduler job has its identity.
Interrupted(i) ==
  /\ Candidate(seen[i])
  /\ log[i].running # "none" /\ ~log[i].older /\ i \in aged
  /\ \/ log[i].running \in Commands(i, seen[i])
     \/ /\ "unknown" \in Commands(i, seen[i])
        /\ seen[i] \cap Triggers \subseteq {Trigger(log[i].running)}
  /\ Identity(i, log[i].running) \notin Running

\* The records are scanned once; a listing that fails ends the session.
FirstListed ==
  /\ Session("first")
  /\ \/ /\ Listed /\ NoFault
        /\ session' = [session EXCEPT !.at = "recover",
                                      !.todo = IF unreadable THEN {}
                                               ELSE {i \in Items : Interrupted(i)}]
     \/ Fault /\ session' = Off
  /\ UNCHANGED <<labels, seen, jobs, wanted, edited>>

\* The trigger comes back before in-progress goes, and then a diagnostic.
ClearsFirst == <<"clear", "restore", "diagnose">>
RepairOrder == <<"restore", "clear", "diagnose">>
Restored(i) == IF Trigger(log[i].running) \in seen[i] THEN UNCHANGED labels
               ELSE Put(i, Trigger(log[i].running))

RepairSteps(i) ==
  \/ RepairOrder[session.step + 1] = "restore" /\ Restored(i)
  \/ RepairOrder[session.step + 1] = "clear" /\ Take(i, "in-progress")
  \/ RepairOrder[session.step + 1] = "diagnose" /\ UNCHANGED labels
RepairContinues(i) ==
  session' = IF session.step < 2 THEN [session EXCEPT !.step = @ + 1, !.now = {i}]
             ELSE [session EXCEPT !.step = 0, !.now = {}, !.todo = @ \ {i},
                                  !.repaired = @ \cup {i}]
Repair ==
  /\ Session("recover")
  /\ \E i \in IF session.now = {} THEN session.todo ELSE session.now :
       \/ NoFault /\ RepairSteps(i) /\ RepairContinues(i)
       \/ Fault /\ (RepairSteps(i) \/ UNCHANGED labels) /\ session' = Off
  /\ UNCHANGED <<seen, jobs, wanted, edited>>

\* The initial fill, from the labels read before the repairs.
FirstFill ==
  /\ Session("recover") /\ session.todo = {} /\ Fill /\ Loop(FALSE)
  /\ UNCHANGED <<labels, troubles, wanted>>

\* A completion ends the wait, or the idle poll where it is armed.
Wake ==
  /\ Session("wait") /\ (session.woken \/ session.poll)
  /\ session' = [session EXCEPT !.at = "promote", !.first = FALSE, !.woken = FALSE,
                               !.poll = FALSE]
  /\ UNCHANGED <<labels, seen, jobs, troubles, wanted, edited>>

\* runQueuePromotionScan: the queued Issues, each read again before its flip.
\* The refill lists commands after the scan, also after one that failed.
ToList(failed) ==
  /\ session' = [session EXCEPT !.at = "list", !.raced = FALSE, !.failed = failed,
                                !.todo = {}, !.now = {}, !.step = 0]
  /\ Listing
Scanning(todo) ==
  IF todo = {} THEN ToList(FALSE)
  ELSE /\ session' = [session EXCEPT !.at = "scan", !.todo = todo, !.now = {}, !.step = 0]
       /\ UNCHANGED <<seen, edited>>

ScanQueue ==
  /\ Session("promote")
  /\ \/ NoFault /\ Scanning({i \in Issues : "queued" \in labels[i]})
     \/ Fault /\ ToList(TRUE)
  /\ UNCHANGED <<labels, jobs, wanted>>

Promotable(L) == "queued" \in L /\ "in-progress" \notin L
ReadQueued ==
  /\ Session("scan") /\ session.now = {}
  /\ \/ \E i \in session.todo :
          /\ NoFault
          /\ \/ /\ Promotable(labels[i]) /\ session' = [session EXCEPT !.now = {i}]
                /\ UNCHANGED <<seen, edited>>
             \/ ~Promotable(labels[i]) /\ Scanning(session.todo \ {i})
     \/ Fault /\ ToList(TRUE)
  /\ UNCHANGED <<labels, jobs, wanted>>

PromotionOrder == <<"trigger", "unqueue", "diagnose">>
PromotionSteps(i) ==
  \/ PromotionOrder[session.step + 1] = "trigger" /\ Put(i, "implement")
  \/ PromotionOrder[session.step + 1] = "unqueue" /\ Take(i, "queued")
  \/ PromotionOrder[session.step + 1] = "diagnose" /\ UNCHANGED labels

\* A flip that fails marks the Issue and ends the scan.
Promote ==
  /\ Session("scan")
  /\ \E i \in session.now :
       \/ /\ session.step < 3 /\ NoFault /\ PromotionSteps(i)
          /\ \/ session.step < 2 /\ session' = [session EXCEPT !.step = @ + 1]
                /\ UNCHANGED <<seen, edited>>
             \/ session.step = 2 /\ Scanning(session.todo \ {i})
       \/ /\ session.step < 3 /\ Fault /\ (PromotionSteps(i) \/ UNCHANGED labels)
          /\ session' = [session EXCEPT !.step = 3] /\ UNCHANGED <<seen, edited>>
       \/ /\ session.step = 3 /\ ((NoFault /\ Put(i, "blocked")) \/ PutLost(i, "blocked"))
          /\ ToList(TRUE)
  /\ UNCHANGED <<jobs, wanted>>

\* The refill: a listing during which a worker completed is discarded, and a
\* failed scan or listing proves nothing.
RacedIgnored == FALSE
Raced == session.raced
Refill ==
  /\ Session("list") /\ Listed
  /\ IF Raced THEN UNCHANGED jobs /\ Loop(FALSE)
     ELSE Fill /\ Loop(~session.failed /\ Frontier = {})
  /\ UNCHANGED <<labels, troubles, wanted>>

ListingFails ==
  /\ Session("list") /\ Fault /\ UNCHANGED jobs /\ Loop(FALSE)
  /\ UNCHANGED <<labels, wanted>>

SessionStep ==
  \/ StartSession \/ ReadItem \/ FirstListed \/ Repair \/ FirstFill \/ Wake
  \/ ScanQueue \/ ReadQueued \/ Promote \/ Refill \/ ListingFails

-----------------------------------------------------------------------------
(* A job: TargetOperationCommandRunner.run around the target operation.    *)

Job(s, a) ==
  /\ job[s].at = a
  /\ UNCHANGED <<seen, crashes, edited, muddled>>
Moves(s, a) == job' = [job EXCEPT ![s].at = a]
Rejects(s) == job' = [job EXCEPT ![s].at = "block", ![s].result = "failed"]
On(s) == job[s].on
Own(s) == Trigger(job[s].op)
Untouched ==
  UNCHANGED <<total, open, implemented, draft, records, session, wanted, reviewed>>

\* requireAvailable, and the Work Item still has the shape of the operation;
\* nothing was changed when it throws.
Shaped(s) ==
  /\ job[s].op = "implement-issue" => total[On(s)] = 0
  /\ job[s].op = "implement-spec" => total[On(s)] > 0
ReadAvailable(s) ==
  /\ Job(s, "read")
  /\ \/ /\ Moves(s, IF Eligible(job[s].op, labels[On(s)]) /\ Shaped(s) THEN "claim" ELSE "done")
        /\ NoFault
     \/ Fault /\ Moves(s, "done")
  /\ UNCHANGED labels /\ Untouched

Claim(s) ==
  /\ Job(s, "claim")
  /\ \/ NoFault /\ Put(On(s), "in-progress") /\ Moves(s, "acquire")
     \/ PutLost(On(s), "in-progress") /\ Moves(s, "done")
  /\ Untouched

\* requireAcquiring.
Acquire(s) ==
  /\ Job(s, "acquire")
  /\ \/ /\ {Own(s), "in-progress"} \subseteq labels[On(s)] /\ "blocked" \notin labels[On(s)]
        /\ Shaped(s) /\ NoFault /\ Moves(s, "untrigger")
     \/ /\ ~({Own(s), "in-progress"} \subseteq labels[On(s)] /\ "blocked" \notin labels[On(s)]
             /\ Shaped(s))
        /\ NoFault /\ Rejects(s)
     \/ Fault /\ Rejects(s)
  /\ UNCHANGED labels /\ Untouched

RemoveTrigger(s) ==
  /\ Job(s, "untrigger")
  /\ \/ NoFault /\ Take(On(s), Own(s)) /\ Moves(s, "settle")
     \/ TakeLost(On(s), Own(s)) /\ Rejects(s)
  /\ Untouched

\* requireSettled; the revision, too, may have changed.
Settle(s) ==
  /\ Job(s, "settle")
  /\ \/ /\ "in-progress" \in labels[On(s)] /\ labels[On(s)] \cap {Own(s), "blocked"} = {}
        /\ NoFault /\ job' = [job EXCEPT ![s].at = "log", ![s].settled = TRUE]
     \/ /\ ~("in-progress" \in labels[On(s)] /\ labels[On(s)] \cap {Own(s), "blocked"} = {})
        /\ NoFault /\ job' = [job EXCEPT ![s].at = "block", ![s].result = "failed",
                                         ![s].settled = FALSE]
     \/ /\ Fault /\ job' = [job EXCEPT ![s].at = "block", ![s].result = "failed",
                                       ![s].settled = FALSE]
  /\ UNCHANGED labels /\ Untouched

\* An Issue that was queued is served by its implementation.
Served(s) == {l \in {Own(s)} : l \notin labels[On(s)]} \cup
             {l \in {"queued"} : Own(s) = "implement"}
Concluded(s) == wanted' = [wanted EXCEPT ![On(s)] = @ \ Served(s)]

\* createJobLog: the running record by which a later session finds the job.
LogStart(s) ==
  /\ Job(s, "log")
  /\ \/ /\ NoFault /\ Moves(s, "work") /\ UNCHANGED wanted
        /\ log' = [log EXCEPT ![On(s)] = [running |-> job[s].op,
                                          older |-> @.older \/ @.running # "none"]]
        /\ aged' = aged \ {On(s)}
     \/ Fault /\ Rejects(s) /\ Concluded(s) /\ UNCHANGED <<log, aged>>
  /\ UNCHANGED <<labels, total, open, implemented, draft, unreadable, session, reviewed>>

Outcome(s, r) == job' = [job EXCEPT ![s].at = "complete", ![s].result = r]
Working(s, op) ==
  /\ Job(s, "work") /\ job[s].op = op
  /\ UNCHANGED <<records, session, wanted>>
\* A worker that exits, times out or answers nonsense, or an operation that
\* reports itself blocked.
Breaks(s) == Outcome(s, "failed") \/ Outcome(s, "blocked")

RunImplementation(s) ==
  /\ Working(s, "implement-issue")
  /\ \/ Outcome(s, "ended") /\ implemented' = implemented \cup {On(s)}
     \/ Breaks(s) /\ UNCHANGED implemented
  /\ UNCHANGED <<labels, total, open, draft, troubles, reviewed>>

RunFeedback(s) ==
  /\ Working(s, "implement")
  /\ Outcome(s, "ended") \/ Breaks(s)
  /\ UNCHANGED <<github, troubles, reviewed>>

\* A Pull Request that is no Draft is refused; a review makes it ready.
RunReview(s) ==
  /\ Working(s, "review")
  /\ \/ On(s) \notin draft /\ Outcome(s, "ended") /\ UNCHANGED draft
     \/ /\ On(s) \in draft
        /\ \/ Outcome(s, "ended") /\ draft' = draft \ {On(s)}
           \/ Breaks(s) /\ (draft' = draft \ {On(s)} \/ UNCHANGED draft)
  /\ UNCHANGED <<labels, total, open, implemented, troubles, reviewed>>

RunBranchUpdate(s) ==
  /\ Working(s, "update-branch")
  /\ Outcome(s, "ended") \/ Breaks(s)
  /\ UNCHANGED <<github, troubles, reviewed>>

\* publishSpecSplit creates the sub-issues one by one; an Issue that has some
\* is refused.
RunSpecSplit(s) ==
  /\ Working(s, "split-spec")
  /\ LET i == On(s) IN
       \/ /\ total[i] < Children
          /\ total' = [total EXCEPT ![i] = @ + 1] /\ open' = [open EXCEPT ![i] = @ + 1]
          /\ IF total'[i] = Children THEN Outcome(s, "ended") ELSE UNCHANGED job
       \/ Breaks(s) /\ UNCHANGED <<total, open>>
  /\ UNCHANGED <<labels, implemented, draft, troubles, reviewed>>

\* The first open sub-issue is implemented on the shared Draft Pull Request
\* and closed; without one the Spec is refused.
OpenChildren(i) == open[i]
RunSpecImplementation(s) ==
  /\ Working(s, "implement-spec")
  /\ \/ OpenChildren(On(s)) = 0 /\ Outcome(s, "ended")
     \/ OpenChildren(On(s)) > 0 /\ SharedPR[On(s)] \in draft /\ Moves(s, "close")
     \/ OpenChildren(On(s)) > 0 /\ Breaks(s)
  /\ UNCHANGED <<github, troubles, reviewed>>

CloseChild(s) ==
  /\ Job(s, "close")
  /\ \/ NoFault /\ open' = [open EXCEPT ![On(s)] = @ - 1] /\ Moves(s, "continue")
     \/ /\ Fault /\ Outcome(s, "blocked")
        /\ (open' = [open EXCEPT ![On(s)] = @ - 1] \/ UNCHANGED open)
  /\ UNCHANGED <<labels, total, implemented, draft, records, session, wanted, reviewed>>

\* The Spec's own trigger, or the final review of the Pull Request.
Continue(s) ==
  /\ Job(s, "continue")
  /\ LET next == IF open[On(s)] > 0 THEN <<On(s), "implement">> ELSE <<SharedPR[On(s)], "review">>
     IN \/ /\ NoFault /\ Put(next[1], next[2]) /\ Outcome(s, "ended")
           /\ wanted' = [wanted EXCEPT ![next[1]] = @ \cup {next[2]}]
           /\ reviewed' = IF next[2] = "review" THEN reviewed \cup {On(s)} ELSE reviewed
        \/ PutLost(next[1], next[2]) /\ Outcome(s, "blocked") /\ UNCHANGED <<wanted, reviewed>>
  /\ UNCHANGED <<total, open, implemented, draft, records, session>>

\* completeJobLog; a record that cannot be completed still says running.
Completed(s) ==
  /\ log' = [log EXCEPT ![On(s)].running = "none"]
  /\ IF job[s].result = "ended" THEN Moves(s, "release") ELSE Moves(s, "block")
LogEnd(s) ==
  /\ Job(s, "complete") /\ Concluded(s)
  /\ \/ NoFault /\ Completed(s)
     \/ Fault /\ Rejects(s) /\ UNCHANGED log
  /\ UNCHANGED <<labels, total, open, implemented, draft, aged, unreadable, session, reviewed>>

\* addBlocked, tried once more where a blocked outcome could not be marked;
\* in-progress goes only if the acquisition had settled.
Unblocked(s) == Moves(s, IF job[s].settled THEN "release" ELSE "done")
Block(s) ==
  /\ \E a \in {"block", "blockAgain"} : Job(s, a)
  /\ \/ NoFault /\ Put(On(s), "blocked") /\ Unblocked(s)
     \/ /\ PutLost(On(s), "blocked")
        /\ IF job[s].at = "block" /\ job[s].result = "blocked" THEN Moves(s, "blockAgain")
           ELSE Unblocked(s)
  /\ Untouched

Release(s) ==
  /\ Job(s, "release") /\ Moves(s, "done")
  /\ ((NoFault /\ Take(On(s), "in-progress")) \/ TakeLost(On(s), "in-progress"))
  /\ Untouched

\* The jobs of S end. What has the trigger of a Work Item and no record of its
\* own leaves it to an older record.
HasTaken(s) ==
  /\ Own(s) \notin labels[On(s)]
  /\ \/ job[s].at \in {"settle", "log"}
     \/ job[s].at \in {"block", "blockAgain", "done"} /\ ~job[s].settled
        /\ job[s].result = "failed"
Misled(s) == log[On(s)].running # "none" /\ Trigger(log[On(s)].running) # Own(s)
Leaves(S) == muddled' = muddled \cup {On(s) : s \in {t \in S : HasTaken(t) /\ Misled(t)}}

\* The slot is free and the session is woken; a listing under way is stale.
WakesNobody == FALSE
Wakes == TRUE
Done(s) ==
  /\ job[s].at = "done" /\ Leaves({s}) /\ job' = [job EXCEPT ![s] = Free]
  /\ session' = [session EXCEPT !.woken = Wakes,
                                   !.raced = (session.at = "list")]
  /\ UNCHANGED <<github, records, seen, bounds, wanted, edited, reviewed>>

JobStep(s) ==
  \/ ReadAvailable(s) \/ Claim(s) \/ Acquire(s) \/ RemoveTrigger(s) \/ Settle(s) \/ LogStart(s)
  \/ RunImplementation(s) \/ RunFeedback(s) \/ RunReview(s) \/ RunBranchUpdate(s)
  \/ RunSpecSplit(s) \/ RunSpecImplementation(s) \/ CloseChild(s) \/ Continue(s)
  \/ LogEnd(s) \/ Block(s) \/ Release(s) \/ Done(s)

-----------------------------------------------------------------------------
(* What surrounds the Dispatcher.                                          *)

\* The Dispatcher dies with its jobs; a record being written stays torn.
Crash ==
  /\ session.at # "off" /\ crashes < MaxCrashes /\ crashes' = crashes + 1
  /\ Leaves(Busy(job))
  /\ session' = Off /\ job' = [s \in Slots |-> Free]
  /\ unreadable' \in {unreadable, unreadable \/ \E s \in Slots : job[s].at \in {"log", "complete"}}
  /\ UNCHANGED <<github, log, aged, seen, troubles, wanted, edited, reviewed>>

\* Five minutes pass; it matters to the recovery of the next session only.
Age ==
  /\ session.at = "off"
  /\ \E i \in Items : log[i].running # "none" /\ i \notin aged /\ aged' = aged \cup {i}
  /\ UNCHANGED <<github, log, unreadable, session, seen, jobs, bounds, wanted, edited, reviewed>>

\* People add a trigger, or retry a blocked Work Item that no live job owns: they
\* take its blocked (and in-progress) and put its trigger back.
Retries(i, l) ==
  /\ "blocked" \in labels[i] /\ \A s \in Slots : job[s].on # i
  /\ l \in IF i \in PullRequests THEN PullRequestOps ELSE {"implement", "to-tickets"}
  /\ i \in Issues => labels[i] \cap Triggers \subseteq {l}
  /\ labels' = [labels EXCEPT ![i] = (@ \ {"blocked", "in-progress"}) \cup {l}]
  /\ wanted' = [wanted EXCEPT ![i] = labels'[i] \cap Triggers]
Edit ==
  /\ Fault
  /\ \E i \in Items :
       /\ \/ \E l \in Labels \ labels[i] :
               /\ <<i, l>> \in Wishes /\ Put(i, l)
               /\ wanted' = [wanted EXCEPT ![i] = @ \cup ({l} \cap Asking)]
          \/ \E l \in Triggers : Retries(i, l)
       /\ edited' = IF session.at = "list" THEN edited \cup {i} ELSE edited
  /\ UNCHANGED <<total, open, implemented, draft, records, session, seen, jobs, crashes, reviewed>>

Next == SessionStep \/ (\E s \in Slots : JobStep(s)) \/ Crash \/ Age \/ Edit

\* Promises settle, the poll fires, the timer starts sessions, time passes.
Fairness ==
  /\ WF_vars(SessionStep) /\ WF_vars(Age)
  /\ \A s \in Slots : WF_vars(JobStep(s))
Spec == Init /\ [][Next]_vars /\ Fairness

-----------------------------------------------------------------------------
(* What the Dispatcher promises.                                           *)

\* Every command that a Work Item still owes shows: its trigger is there, or a label
\* that stops the Work Item.
Shows(i) ==
  \/ labels[i] \cap {"in-progress", "blocked"} # {}
  \/ \A l \in wanted[i] : l \in labels[i] \/ (l = "queued" /\ "implement" \in labels[i])

\* A command that was asked for and whose job has not ended can be seen. At every
\* death between two label changes, too. But where a job died before it had a record,
\* an older record, of another trigger, can pass for its own; and two jobs may have
\* one Work Item at once, as an Issue and as a Spec.
NothingForgotten == \A i \in Items \ muddled : Shows(i)

\* One Work Item identity never has two jobs.
OneJobPerIdentity ==
  \A s, t \in Busy(job) :
    Identity(job[s].on, job[s].op) = Identity(job[t].on, job[t].op) => s = t

\* The slots, labels and logs fit together: no slot is taken twice for one job,
\* and no command is forgotten.
Consistent == TypeOK /\ OneJobPerIdentity /\ NothingForgotten

\* A session drains only when no command was left eligible, unless people
\* changed the Work Item while it was being listed.
DrainIsClean ==
  [][session.at = "list" /\ session'.at = "off" /\ crashes' = crashes =>
       /\ Busy(job) = {}
       /\ \A i \in Items \ edited : \A op \in Commands(i, labels[i]) : ~Eligible(op, labels[i])]_vars

\* Whatever fails, a session comes to its end.
SessionEnds == session.at # "off" ~> session.at = "off"

\* Every command is taken up in the end: its job ends, or somebody has to look
\* at the Work Item, or the Pull Request families own it.
CommandsSettle ==
  \A i \in Items :
    wanted[i] # {} ~> \/ wanted[i] = {} \/ labels[i] \cap {"in-progress", "blocked"} # {}
                      \/ i \in implemented

\* The Dispatcher goes on: sessions end, and commands are taken up.
Progress == SessionEnds /\ CommandsSettle

\* automation-dispatch.ts: one Work Item never runs two operations concurrently.
OneOperation == \A s, t \in Busy(job) : job[s].on = job[t].on => s = t

\* interrupted-automation-recovery.ts: an older lingering running record does not
\* impersonate the owner of a later leftover, so recovery forgets no command.
RecoveryForgetsNothing == OneOperation => \A i \in Items : Shows(i)

\* sandcastle-automation-guide.md: when the last sub-issue has succeeded, the
\* shared Pull Request gets agent:review.
FinalReviewRequested ==
  \A i \in Issues :
    total[i] = Children /\ open[i] = 0 /\ labels[i] \subseteq {"to-tickets"} => i \in reviewed
=============================================================================
