------------------------ MODULE FeedbackPublication -------------------------
(***************************************************************************)
(* .sandcastle: the implementation of review feedback on a Pull Request,   *)
(* the only publisher of its push and of its reply. An invocation selects  *)
(* one unresolved review thread, has an Agent commit on the head it        *)
(* acquired, pushes with an exact lease, waits until GitHub shows the      *)
(* push, and replies with a marker that names both revisions. Whatever is  *)
(* lost on the way, the next invocation decides from the head and the      *)
(* replies alone; what was published may only be adopted by reconcile.     *)
(*                                                                         *)
(* Invocations of one Pull Request exclude each other (AutomationDispatch).*)
(* GitHub shows a push or a reply some time after it happened, but before  *)
(* the next invocation begins.                                             *)
(***************************************************************************)
EXTENDS Naturals, Sequences, FiniteSets

CONSTANTS
  Roots,        \* review threads, by their root comment
  Attempts,     \* reads of a convergence or of a read-back
  MaxCommits,   \* bound: commits of an Agent
  MaxInvocations, \* bound
  MaxOthers,    \* bound: pushes, replies, new and resolved threads of other people
  MaxFaults     \* bound: failing calls and deaths

ASSUME BoundsAssumption ==
  /\ Attempts \in Nat \ {0} /\ MaxCommits \in Nat \ {0}
  /\ MaxInvocations \in Nat /\ MaxOthers \in Nat /\ MaxFaults \in Nat
ASSUME RootsAssumption == "none" \notin Roots

VARIABLES
  parent,      \* the commits: the first parent of each, the acquired one is 1
  head,        \* the branch in git
  shown,       \* the head the API shows
  unresolved,  \* unresolved threads
  replies,     \* the replies of the threads
  visible,     \* those the API shows
  op,          \* the invocation
  heads,       \* history: every revision that was the head
  published,   \* history: what was pushed, on what, for which thread, by which invocation
  others,      \* history: commits of other people
  invocations, faults, interventions

branch == <<parent, head, shown, heads, others>>
threads == <<unresolved, replies, visible>>
bounds == <<invocations, faults, interventions>>
vars == <<branch, threads, op, published, bounds>>

NoRevision == 0
NoRoot == "none"
Revisions == 1..Len(parent)
NoAuthorization == [base |-> NoRevision, post |-> NoRevision, root |-> NoRoot]
Idle ==
  [at |-> "idle", reconcile |-> FALSE, auth |-> NoAuthorization, pre |-> NoRevision,
   root |-> NoRoot, post |-> NoRevision, known |-> FALSE, reads |-> 0, limited |-> FALSE,
   result |-> "none", revision |-> NoRevision]

Ancestors(c) ==
  LET older[k \in 0..Len(parent)] ==
        IF k = 0 THEN {} ELSE {k} \cup older[parent[k]]
  IN older[c]

-----------------------------------------------------------------------------
(* feedback-reconciliation.ts. A reply has a marker (its post is a         *)
(* revision), or names a revision, or neither.                             *)

Of(rs, root) == {r \in rs : r.root = root}
Marked(r) == r.post # NoRevision
Carries(r, marker) == r.pre = marker.pre /\ r.post = marker.post

\* selectFeedbackIntent: how one unresolved thread counts.
Proven(r) == parent[r.post] = r.pre
Standing(rs, reconcile) ==
  IF rs = {} THEN "pending"
  ELSE IF /\ Cardinality(rs) = 1
          /\ \E r \in rs : IF Marked(r) THEN Proven(r)
                           ELSE reconcile /\ r.names # NoRevision
       THEN "completed" ELSE "ambiguous"
InStanding(rs, reconcile, s) == {x \in unresolved : Standing(Of(rs, x), reconcile) = s}

\* The one pending thread, or else the only completed one.
Selected(rs, reconcile) ==
  LET pending == InStanding(rs, reconcile, "pending")
      completed == InStanding(rs, reconcile, "completed")
  IN IF InStanding(rs, reconcile, "ambiguous") # {} THEN {}
     ELSE IF pending = {} THEN (IF Cardinality(completed) = 1 THEN completed ELSE {})
     ELSE IF Cardinality(pending) = 1 THEN pending ELSE {}

\* classifyFeedbackReconciliation, of the head that was read and the replies of
\* the selected thread.
AdoptsTheAcquired(r, at) == r.pre = at
Adopts(r, at) == r.post = at /\ parent[at] = r.pre
Classified(rs, at, root, reconcile, auth) ==
  LET own == Of(rs, root)
      marked == {r \in own : Marked(r)}
      legacy == {r \in own \ marked : r.names = at}
  IN IF Cardinality(own) > 1 THEN "fail"
     ELSE IF marked # {}
          THEN (IF reconcile /\ \A r \in marked : Adopts(r, at) THEN "adopt" ELSE "fail")
     ELSE IF legacy # {}
          THEN (IF reconcile /\ auth.base # NoRevision /\ parent[at] = auth.base
                THEN "adopt" ELSE "fail")
     ELSE IF auth.post # NoRevision
          THEN (IF reconcile /\ auth.root = root /\ at = auth.post THEN "reply-only" ELSE "fail")
     ELSE IF auth.base \notin {NoRevision, at} THEN "fail" ELSE "proceed"

\* inspectFeedbackMarkerReplies.
Inspected(rs, marker) ==
  LET own == Of(rs, marker.root)
  IN IF own = {} THEN "none"
     ELSE IF Cardinality(own) = 1 /\ \E r \in own : Carries(r, marker) THEN "exactly-one"
     ELSE "conflict"

-----------------------------------------------------------------------------
Replies(n) == [id : Nat, root : Roots, pre : 0..n, post : 0..n, names : 0..n]
TypeOK ==
  /\ \A k \in Revisions : parent[k] \in 0..(k - 1)
  /\ {head, shown} \subseteq heads /\ heads \subseteq Revisions /\ others \subseteq Revisions
  /\ unresolved \subseteq Roots /\ visible \subseteq replies
  /\ replies \subseteq Replies(Len(parent))
  /\ op.at \in {"idle", "read", "select", "claim", "implement", "check", "push", "threads",
                "converge", "recheck", "reply", "readBack", "done"}
  /\ op.root \in Roots \cup {NoRoot} /\ op.reads \in 0..(Attempts - 1)
  /\ {op.pre, op.post, op.revision} \subseteq 0..Len(parent)
  /\ op.result \in {"none", "implemented", "refused", "blocked"}
  /\ {op.reconcile, op.known, op.limited} \subseteq BOOLEAN

Init ==
  /\ parent = <<0>> /\ head = 1 /\ shown = 1 /\ heads = {1} /\ others = {}
  /\ unresolved \in (SUBSET Roots) \ {{}} /\ replies = {} /\ visible = {}
  /\ op = Idle /\ published = {}
  /\ invocations = 0 /\ faults = 0 /\ interventions = 0

Fails == faults < MaxFaults /\ faults' = faults + 1
Works == UNCHANGED faults
Op(a) == op.at = a /\ UNCHANGED <<invocations, interventions, others>>
Goes(a) == op' = [op EXCEPT !.at = a]
Ends(result, revision) ==
  op' = [op EXCEPT !.at = "done", !.result = result, !.revision = revision]
\* FeedbackStageError and blockAndSettle: the revision of the error, or else
\* the one the publisher returned.
Tells == IF op.known THEN op.post ELSE NoRevision
Blocked == Ends("blocked", Tells)
UnchangedBranch == UNCHANGED <<branch, published>>

\* An ordinary invocation, or an operator's reconcile with what they believe.
\* A post without a thread is refused as proof, a thread without a post is no proof.
Authorizations ==
  [base : {NoRevision} \cup Revisions, post : {NoRevision} \cup Revisions, root : Roots \cup {NoRoot}]
Start ==
  /\ op.at \in {"idle", "done"} /\ shown = head /\ visible = replies
  /\ invocations < MaxInvocations /\ invocations' = invocations + 1
  /\ \E reconcile \in BOOLEAN, auth \in Authorizations :
       /\ ~reconcile => auth = NoAuthorization
       /\ (auth.post = NoRevision) <=> (auth.root = NoRoot)
       /\ op' = [Idle EXCEPT !.at = "read", !.reconcile = reconcile, !.auth = auth]
  /\ UNCHANGED <<branch, threads, published, faults, interventions>>

ReadPullRequest ==
  /\ Op("read")
  /\ \/ Works /\ op' = [op EXCEPT !.at = "select", !.pre = shown]
     \/ Fails /\ Blocked
  /\ UNCHANGED threads /\ UnchangedBranch

\* The review state is read once; commits and their parents do not change.
Decide(root) ==
  LET status == Classified(visible, op.pre, root, op.reconcile, op.auth)
  IN \/ status = "adopt" /\ Ends("implemented", op.pre)
     \/ status = "fail" /\ Blocked
     \/ status = "proceed" /\ op' = [op EXCEPT !.at = "claim", !.root = root]
     \/ /\ status = "reply-only"
        /\ IF parent[op.pre] = NoRevision THEN Blocked
           ELSE op' = [op EXCEPT !.at = "recheck", !.root = root, !.post = op.pre,
                                 !.pre = parent[op.pre], !.known = TRUE]
Select ==
  /\ Op("select")
  /\ \/ Works /\ \E root \in Selected(visible, op.reconcile) : Decide(root)
     \/ Works /\ Selected(visible, op.reconcile) = {} /\ Blocked
     \/ Fails /\ Blocked
  /\ UNCHANGED threads /\ UnchangedBranch

\* The lease is taken and the head is read again; a moved head is a race.
Claim ==
  /\ Op("claim")
  /\ \/ Works /\ shown = op.pre /\ Goes("implement")
     \/ Works /\ shown # op.pre /\ (Ends("refused", NoRevision) \/ Blocked)
     \/ Fails /\ Blocked
  /\ UNCHANGED threads /\ UnchangedBranch

\* The Agent works in a checkout of the acquired revision and may leave it at any
\* other one: commits on what it acquired, or on something else (it amended, reset
\* or began anew), or an old commit. Only that HEAD is another one is checked.
\* New commits are no part of the branch yet.
Committed(base, n) ==
  parent' = parent \o [k \in 1..n |-> IF k = 1 THEN base ELSE Len(parent) + k - 1]
Implement ==
  /\ Op("implement")
  /\ \/ /\ Works
        /\ \E base \in {NoRevision} \cup Revisions, n \in 0..MaxCommits :
             /\ n = 0 => base \notin {NoRevision, op.pre}
             /\ Committed(base, n)
             /\ op' = [op EXCEPT !.at = "check", !.post = IF n = 0 THEN base ELSE Len(parent')]
     \/ Fails /\ Blocked /\ UNCHANGED parent
  /\ UNCHANGED <<head, shown, heads, published, threads>>

\* assertIntentRemainsPending: the same selection, and no reply yet.
Pending == Selected(visible, op.reconcile) = {op.root} /\ Of(visible, op.root) = {}
Check ==
  /\ Op("check")
  /\ \/ Works /\ Pending /\ Goes("push")
     \/ Works /\ ~Pending /\ Blocked
     \/ Fails /\ Blocked
  /\ UNCHANGED threads /\ UnchangedBranch

\* The exact-lease push; its answer may be lost. Where the branch is at the
\* revision already, git finds it up to date before it looks at the lease.
NoLease == TRUE
Leased == head \in {op.pre, op.post}
Pushed(answered) ==
  /\ Leased /\ head' = op.post /\ heads' = heads \cup {op.post}
  /\ published' = published \cup {[pre |-> op.pre, post |-> op.post, root |-> op.root,
                                  answered |-> answered, by |-> invocations]}
NotPushed == UNCHANGED <<head, heads, published>>
Push ==
  /\ Op("push")
  /\ \/ Works /\ Pushed(TRUE) /\ op' = [op EXCEPT !.at = "threads", !.known = TRUE]
     \/ Works /\ ~Leased /\ NotPushed /\ Blocked
     \/ Fails /\ (Pushed(FALSE) \/ NotPushed) /\ Blocked
  /\ UNCHANGED <<parent, shown, threads>>

ReadThreads ==
  /\ Op("threads")
  /\ \/ Works /\ op.root \in unresolved /\ Goes("converge")
     \/ Works /\ op.root \notin unresolved /\ Blocked
     \/ Fails /\ Blocked
  /\ UNCHANGED threads /\ UnchangedBranch

\* One more read, unless they are used up.
Uncounted(reads) == reads
Counted(reads) == reads + 1
UsedUp(reads) == Counted(reads) = Attempts
Again == IF UsedUp(op.reads) THEN Blocked ELSE op' = [op EXCEPT !.reads = Counted(@)]
\* A read that fails for good, for a moment, or by the rate limit, which gets
\* one retry of its own.
ReadFails ==
  /\ Fails
  /\ \/ Blocked \/ Again
     \/ IF op.limited THEN Blocked ELSE op' = [op EXCEPT !.limited = TRUE]

\* convergeFeedbackHead.
Converge ==
  /\ Op("converge")
  /\ \/ Works /\ shown = op.post
        /\ op' = [op EXCEPT !.at = "recheck", !.reads = 0, !.limited = FALSE]
     \/ Works /\ shown = op.pre /\ Again
     \/ Works /\ shown \notin {op.pre, op.post} /\ Blocked
     \/ ReadFails
  /\ UNCHANGED threads /\ UnchangedBranch

Recheck ==
  /\ Op("recheck")
  /\ \/ Works /\ Pending /\ Goes("reply")
     \/ Works /\ ~Pending /\ Blocked
     \/ Fails /\ Blocked
  /\ UNCHANGED threads /\ UnchangedBranch

\* publishCanonicalReply: one write, whatever its answer; then reads only.
Marker == [root |-> op.root, pre |-> op.pre, post |-> op.post]
Adds(root, pre, post, names) ==
  replies' = replies \cup {[id |-> Cardinality(replies), root |-> root, pre |-> pre, post |-> post,
                            names |-> names]}
Replied == Adds(op.root, op.pre, op.post, NoRevision)
Reply ==
  /\ Op("reply") /\ Goes("readBack")
  /\ \/ Works /\ Replied
     \/ Fails /\ (Replied \/ UNCHANGED replies)
  /\ UNCHANGED <<unresolved, visible>> /\ UnchangedBranch

ReadsAgain == Again
ReadBack ==
  /\ Op("readBack")
  /\ LET seen == Inspected(visible, Marker)
     IN \/ Works /\ seen = "exactly-one" /\ Ends("implemented", op.post)
        \/ Works /\ seen = "conflict" /\ Blocked
        \/ Works /\ seen = "none" /\ ReadsAgain
        \/ ReadFails
  /\ UNCHANGED threads /\ UnchangedBranch

Crash ==
  /\ op.at \notin {"idle", "done"} /\ Fails /\ op' = Idle
  /\ UNCHANGED <<threads, invocations, interventions, others>> /\ UnchangedBranch

OpStep ==
  \/ ReadPullRequest \/ Select \/ Claim \/ Implement \/ Check \/ Push \/ ReadThreads
  \/ Converge \/ Recheck \/ Reply \/ ReadBack

-----------------------------------------------------------------------------
(* GitHub and other people.                                                *)

ShowHead ==
  /\ shown # head /\ shown' = head
  /\ UNCHANGED <<parent, head, heads, others, threads, op, published, bounds>>
ShowReplies ==
  /\ visible # replies /\ visible' = replies
  /\ UNCHANGED <<branch, unresolved, replies, op, published, bounds>>

Intervenes ==
  /\ interventions < MaxOthers /\ interventions' = interventions + 1
  /\ UNCHANGED <<op, published, invocations, faults>>
\* Somebody pushes on the head, or rewrites the branch.
OthersPush ==
  /\ Intervenes
  /\ \E base \in Ancestors(head) :
       /\ parent' = Append(parent, base) /\ head' = Len(parent')
       /\ heads' = heads \cup {head'} /\ others' = others \cup {head'}
  /\ UNCHANGED <<shown, threads>>
\* Somebody answers in a thread, naming a revision or none.
OthersReply ==
  /\ Intervenes
  /\ \E root \in Roots, names \in {NoRevision, head} :
       Adds(root, NoRevision, NoRevision, names)
  /\ UNCHANGED <<branch, unresolved, visible>>
\* Somebody resolves a thread, or opens one (again).
OthersResolve ==
  /\ Intervenes
  /\ \E root \in Roots :
       unresolved' = IF root \in unresolved THEN unresolved \ {root} ELSE unresolved \cup {root}
  /\ UNCHANGED <<branch, replies, visible>>

Next ==
  \/ Start \/ OpStep \/ Crash
  \/ ShowHead \/ ShowReplies \/ OthersPush \/ OthersReply \/ OthersResolve

\* Promises settle; GitHub may show a write as late as it likes.
Spec == Init /\ [][Next]_vars /\ WF_vars(OpStep)

-----------------------------------------------------------------------------
(* What an invocation promises.                                            *)

\* A thread never gets two replies of the orchestrator, whatever was lost and
\* however often it is tried again.
OneReplyPerThread ==
  \A r, t \in replies : Marked(r) /\ Marked(t) /\ r.root = t.root => r.id = t.id

\* A blocked result names the revision, once its push was answered.
BlockedTellsPublished ==
  op.result = "blocked" =>
    \A p \in published : p.answered /\ p.by = invocations => op.revision = p.post

\* What is reported as implemented is true: the revision was the head of the
\* branch, and the thread shows one reply, which names it.
ReportsTruly ==
  op.result # "implemented" /\ op'.result = "implemented" =>
    /\ op'.revision \in heads
    /\ \E root \in unresolved \cup {op.root} : \E r \in replies :
         Of(visible, root) = {r} /\ op'.revision \in {r.post, r.names}

\* Another person's commit leaves the branch only with the history that the Agent
\* was given and dropped: never one that came after the acquired head, and none
\* at all when the Agent's revision stands on that head (the publisher does not
\* check that it does).
SparesOthers ==
  LET gone == (Ancestors(head) \cap others) \ Ancestors(head)'
  IN interventions' = interventions /\ gone # {} =>
       gone \subseteq Ancestors(op.pre) /\ op.pre \notin Ancestors(op.post)

\* Whatever was lost, late or done by others between two calls, a report is true
\* and no commit is overwritten that the invocation did not acquire.
PublicationIsTrue == [][ReportsTruly /\ SparesOthers]_vars

\* What was published is not lost: while nobody else intervenes in the branch
\* and the threads, and no other thread is left unresolved with its reply, some
\* authorization lets reconcile complete it.
Quiet == op.at \in {"idle", "done"} /\ shown = head /\ visible = replies
Completes(auth) ==
  \E root \in Selected(visible, TRUE) :
    Classified(visible, head, root, TRUE, auth) \in {"adopt", "reply-only"}
OnTop(p) == head = p.post /\ parent[p.post] = p.pre /\ p.root \in unresolved
ReconcileCompletes ==
  \A p \in published :
    /\ Quiet /\ OnTop(p)
    /\ \A r \in replies : Marked(r) /\ Proven(r) /\ (r.root = p.root => r.post = p.post)
    /\ \A x \in unresolved \ {p.root} :
         Of(replies, p.root) = {} /\ Of(replies, x) # {}
    => \E auth \in Authorizations : Completes(auth)

\* The branch, the threads and the results fit together: no thread is answered
\* twice, what was published can be told, and it can be completed.
Consistent == TypeOK /\ OneReplyPerThread /\ BlockedTellsPublished /\ ReconcileCompletes

\* An invocation ends, however late GitHub shows what it wrote.
InvocationEnds == op.at \notin {"idle", "done"} ~> op.at \in {"idle", "done"}

\* sandcastle-local-dispatcher-runbook.md: markers of other threads neither
\* satisfy the current intent nor stand in its way.
OldMarkersDoNotBlock ==
  \A p \in published :
    /\ Quiet /\ OnTop(p) /\ op.result # "implemented"
    /\ \A x \in unresolved :
         \E r \in replies : /\ Of(replies, x) = {r} /\ Marked(r) /\ Proven(r)
                            /\ r.post = p.post <=> x = p.root
    => \E auth \in Authorizations : Completes(auth)
=============================================================================
