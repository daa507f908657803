----------------------- MODULE AutomationDispatchProofs -----------------------
(* The Dispatcher, for any Work Items, labels, slots, failing calls and       *)
(* deaths.                                                                    *)
EXTENDS AutomationDispatch, TLAPS

-----------------------------------------------------------------------------
(* The inductive invariant.                                                 *)

\* A job that does something, and one that has something of its Work Item.
Active(s) == job[s].at \notin {"free", "done"}
Dangling(s) == ~job[s].settled /\ job[s].result = "failed"
Engaged(s) == job[s].at \notin {"free", "read", "done"} \/ (job[s].at = "done" /\ Dangling(s))
Owes(s) ==
  \/ job[s].at \in {"settle", "log", "work", "close", "continue", "complete"}
  \/ job[s].at \in {"block", "blockAgain", "done"} /\ Dangling(s)

\* The labels that an operation takes off, and those that are asked for and
\* cannot be seen, or are about to be taken by the promotion.
Serves(op) == {Trigger(op)} \cup {l \in {"queued"} : Trigger(op) = "implement"}
Flipping(i) == session.at = "scan" /\ session.step = 1 /\ i \in session.now
Firm(i, l) ==
  \/ l \in labels[i] /\ ~(l = "queued" /\ Flipping(i))
  \/ l = "queued" /\ "implement" \in labels[i]
Missing(i) == {l \in wanted[i] : ~Firm(i, l)}

\* No job runs while a session recovers, and what a session works on.
SessionShape ==
  /\ session.at \in {"off", "first", "recover"} => Busy(job) = {}
  /\ session.at \in {"first", "recover"} => session.first
  /\ session.at \in {"promote", "scan", "list"} => ~session.first
  /\ session.at \in {"wait", "promote", "scan", "list"} => session.repaired = {}
  /\ session.at = "first" => session.now = {} /\ session.step = 0
  /\ session.at = "recover" =>
       /\ session.step \in 0..2 /\ (session.now = {} <=> session.step = 0)
       /\ session.now \subseteq session.todo
       /\ \A i \in session.todo : log[i].running # "none"
  /\ session.at = "scan" =>
       /\ session.todo \subseteq Issues /\ session.now \subseteq session.todo
       /\ session.now = {} => session.step = 0
       /\ \A i, k \in session.now : i = k
       /\ \A i \in session.now : session.step \in {0, 1} => "queued" \in labels[i]

\* What a listing has read: the recovery only adds triggers, and without jobs
\* nothing but people changes what is listed.
Listings ==
  /\ session.at \in {"first", "recover"} =>
       \A i \in Items : seen[i] \cap Triggers \subseteq labels[i]
  /\ session.at = "recover" /\ session.step = 1 =>
       \A i \in session.now : Trigger(log[i].running) \in labels[i]
  /\ session.at = "list" /\ ~session.raced /\ Busy(job) = {} =>
       \A i \in Items \ edited : seen[i] # Unread => seen[i] = labels[i]

JobShape ==
  \A s \in Slots :
    /\ job[s].at \in {"log", "work", "close", "continue", "complete", "release"} => job[s].settled
    /\ job[s].at \in {"block", "blockAgain"} /\ ~job[s].settled => job[s].result = "failed"
    /\ job[s].at \in {"read", "claim", "acquire", "untrigger", "settle"} => ~job[s].settled
    /\ job[s].at \in {"read", "claim"} => job[s].result = "none"
    /\ job[s].at \in {"close", "continue"} => job[s].op = "implement-spec"
    /\ job[s].at = "close" => open[job[s].on] > 0

\* One job at a time has a Work Item, and marks it.
Ownership ==
  \A s \in Slots : job[s].on \notin muddled =>
    /\ job[s].at \in {"work", "close", "continue", "complete"} =>
         log[job[s].on].running = job[s].op
    /\ Engaged(s) /\ job[s].at # "claim" => "in-progress" \in labels[job[s].on]
    /\ \A t \in Slots : job[t].on = job[s].on =>
         \/ s = t
         \/ ~(Active(s) /\ Active(t)) /\ ~(Engaged(s) /\ Engaged(t))

\* What cannot be seen is what the job that has the Work Item took, or what the
\* record that is left would restore.
Accounted ==
  /\ \A i \in Items \ muddled : \A s \in Slots : Engaged(s) /\ job[s].on = i =>
       Missing(i) \subseteq IF Owes(s) THEN Serves(job[s].op) ELSE {}
  /\ \A i \in Items \ muddled :
       (\A s \in Slots : Engaged(s) => job[s].on # i) /\ Missing(i) # {} =>
         /\ labels[i] \cap {"in-progress", "blocked"} # {}
         /\ log[i].running = "none" \/ Missing(i) \subseteq Serves(log[i].running)

IInv ==
  /\ TypeOK /\ OneJobPerIdentity
  /\ SessionShape /\ Listings /\ JobShape /\ Ownership /\ Accounted

-----------------------------------------------------------------------------
(* Labels.                                                                  *)

\* The labels of i become L, those of the others stay.
Relabeled(i, L) ==
  /\ labels' \in [Items -> SUBSET Labels] /\ labels'[i] = L
  /\ \A k \in Items : k # i => labels'[k] = labels[k]

LEMMA LabelSets ==
  /\ Triggers \subseteq Labels /\ "queued" \notin Triggers
  /\ "in-progress" \notin Asking /\ "blocked" \notin Asking
  /\ Triggers \subseteq Asking /\ "queued" \in Asking /\ Asking \subseteq Labels
  /\ {"in-progress", "blocked", "queued", "implement", "review"} \subseteq Labels
  /\ \A op \in Ops : Trigger(op) \in Triggers /\ Trigger(op) # "queued"
  /\ "none" \notin Ops
BY DEF Triggers, Asking, Labels, Ops, IssueOps, PullRequestOps, Trigger

LEMMA PutLabels ==
  ASSUME TypeOK, NEW i \in Items, NEW l \in Labels, Put(i, l)
  PROVE  Relabeled(i, labels[i] \cup {l})
BY DEF TypeOK, Put, Relabeled

LEMMA TakeLabels ==
  ASSUME TypeOK, NEW i \in Items, NEW l, Take(i, l)
  PROVE  Relabeled(i, labels[i] \ {l})
BY DEF TypeOK, Take, Relabeled

LEMMA SameLabels ==
  ASSUME TypeOK, NEW i \in Items, UNCHANGED labels
  PROVE  Relabeled(i, labels[i])
BY DEF TypeOK, Relabeled

\* What can be seen stays to be seen where labels are added.
LEMMA MissingShrinks ==
  ASSUME NEW i \in Items, Flipping(i)' => Flipping(i), labels[i] \subseteq labels'[i],
         \A l \in wanted'[i] : l \in wanted[i] \/ Firm(i, l)'
  PROVE  Missing(i)' \subseteq Missing(i)
BY DEF Missing, Firm

LEMMA TakingOwn ==
  ASSUME NEW i \in Items, NEW op \in Ops, Flipping(i)' => Flipping(i), wanted' = wanted,
         labels[i] \ {Trigger(op)} \subseteq labels'[i]
  PROVE  Missing(i)' \subseteq Missing(i) \cup Serves(op)
BY DEF Missing, Firm, Serves

LEMMA OwnIsSeen ==
  ASSUME NEW i \in Items, NEW op \in Ops, Missing(i) \subseteq Serves(op),
         Trigger(op) \in labels[i]
  PROVE  Missing(i) = {}
BY LabelSets DEF Missing, Firm, Serves

-----------------------------------------------------------------------------
(* Jobs.                                                                    *)

JobAt == {"free", "read", "claim", "acquire", "untrigger", "settle", "log", "work", "close",
          "continue", "complete", "block", "blockAgain", "release", "done"}
Results == {"none", "ended", "blocked", "failed"}

\* The job of s goes on to a, with e as settled and r as its result.
Becomes(s, a, e, r) ==
  /\ job' \in [Slots -> Jobs]
  /\ job'[s].at = a /\ job'[s].settled = e /\ job'[s].result = r
  /\ job'[s].on = job[s].on /\ job'[s].op = job[s].op
  /\ \A t \in Slots : t # s => job'[t] = job[t]

LEMMA Becoming ==
  ASSUME TypeOK, NEW s \in Slots, NEW a \in JobAt, NEW e \in BOOLEAN, NEW r \in Results,
         job' = [job EXCEPT ![s] = [job[s] EXCEPT !.at = a, !.settled = e, !.result = r]]
  PROVE  Becomes(s, a, e, r)
<1>1. job[s] \in Jobs
  BY DEF TypeOK
<1>2. [job[s] EXCEPT !.at = a, !.settled = e, !.result = r] \in Jobs
  BY <1>1, Zenon DEF Jobs, JobAt, Results
<1>3. job' \in [Slots -> Jobs] /\ job'[s] = [job[s] EXCEPT !.at = a, !.settled = e, !.result = r]
  BY <1>2 DEF TypeOK
<1>4. \A t \in Slots : t # s => job'[t] = job[t]
  BY DEF TypeOK
<1>5. /\ job'[s].at = a /\ job'[s].settled = e /\ job'[s].result = r
      /\ job'[s].on = job[s].on /\ job'[s].op = job[s].op
  BY <1>1, <1>3 DEF Jobs
<1> QED
  BY <1>3, <1>4, <1>5 DEF Becomes

LEMMA JobFields ==
  ASSUME TypeOK, NEW s \in Slots
  PROVE  /\ job[s].at \in JobAt /\ job[s].settled \in BOOLEAN /\ job[s].result \in Results
         /\ job[s] = [job[s] EXCEPT !.at = job[s].at, !.settled = job[s].settled,
                                    !.result = job[s].result]
<1>1. job[s] \in Jobs
  BY DEF TypeOK
<1> QED
  BY <1>1 DEF Jobs, JobAt, Results

LEMMA MovesBecomes ==
  ASSUME TypeOK, NEW s \in Slots, NEW a \in JobAt, Moves(s, a)
  PROVE  Becomes(s, a, job[s].settled, job[s].result)
<1>1. job[s] \in Jobs /\ job \in [Slots -> Jobs]
  BY DEF TypeOK
<1>2. [job[s] EXCEPT !.at = a]
        = [job[s] EXCEPT !.at = a, !.settled = job[s].settled, !.result = job[s].result]
  BY <1>1 DEF Jobs
<1>3. job' = [job EXCEPT ![s] = [job[s] EXCEPT !.at = a]]
  BY <1>1 DEF Moves
<1>4. job' = [job EXCEPT ![s] = [job[s] EXCEPT !.at = a, !.settled = job[s].settled,
                                                         !.result = job[s].result]]
  BY <1>2, <1>3, Zenon
<1>5. job[s].settled \in BOOLEAN /\ job[s].result \in Results
  BY JobFields
<1> QED
  BY <1>4, <1>5, Becoming, Zenon

LEMMA OutcomeBecomes ==
  ASSUME TypeOK, NEW s \in Slots, NEW a \in JobAt, NEW r \in Results,
         job' = [job EXCEPT ![s].at = a, ![s].result = r]
  PROVE  Becomes(s, a, job[s].settled, r)
<1>1. job[s] \in Jobs /\ job \in [Slots -> Jobs]
  BY DEF TypeOK
<1>2. [job[s] EXCEPT !.at = a, !.result = r]
        = [job[s] EXCEPT !.at = a, !.settled = job[s].settled, !.result = r]
  BY <1>1 DEF Jobs
<1>3. job' = [job EXCEPT ![s] = [job[s] EXCEPT !.at = a, !.result = r]]
  BY <1>1
<1>4. job' = [job EXCEPT ![s] = [job[s] EXCEPT !.at = a, !.settled = job[s].settled, !.result = r]]
  BY <1>2, <1>3, Zenon
<1>5. job[s].settled \in BOOLEAN /\ job[s].result \in Results
  BY JobFields
<1> QED
  BY <1>4, <1>5, Becoming, Zenon

LEMMA RejectsBecomes ==
  ASSUME TypeOK, NEW s \in Slots, Rejects(s)
  PROVE  Becomes(s, "block", job[s].settled, "failed")
BY OutcomeBecomes DEF Rejects, JobAt, Results

LEMMA SettledBecomes ==
  ASSUME TypeOK, NEW s \in Slots,
         job' = [job EXCEPT ![s].at = "log", ![s].settled = TRUE]
  PROVE  Becomes(s, "log", TRUE, job[s].result)
<1>1. job[s] \in Jobs /\ job \in [Slots -> Jobs]
  BY DEF TypeOK
<1>2. [job[s] EXCEPT !.at = "log", !.settled = TRUE]
        = [job[s] EXCEPT !.at = "log", !.settled = TRUE, !.result = job[s].result]
  BY <1>1 DEF Jobs
<1>3. job' = [job EXCEPT ![s] = [job[s] EXCEPT !.at = "log", !.settled = TRUE]]
  BY <1>1
<1>4. "log" \in JobAt /\ TRUE \in BOOLEAN
  BY DEF JobAt
<1> QED
  BY <1>2, <1>3, <1>4, JobFields, Becoming

LEMMA UnsettledBecomes ==
  ASSUME TypeOK, NEW s \in Slots,
         job' = [job EXCEPT ![s].at = "block", ![s].result = "failed", ![s].settled = FALSE]
  PROVE  Becomes(s, "block", FALSE, "failed")
<1>1. job[s] \in Jobs /\ job \in [Slots -> Jobs]
  BY DEF TypeOK
<1>2. job' = [job EXCEPT ![s] = [job[s] EXCEPT !.at = "block", !.settled = FALSE,
                                               !.result = "failed"]]
  BY <1>1
<1>3. "block" \in JobAt /\ "failed" \in Results /\ FALSE \in BOOLEAN
  BY DEF JobAt, Results
<1> QED
  BY <1>2, <1>3, Becoming

\* A job that goes on leaves sessions and listings as they are.
LEMMA JobFrame ==
  ASSUME IInv, NEW s \in Slots, NEW a \in JobAt, NEW e, NEW r, Becomes(s, a, e, r),
         job[s].at # "free", a # "free", session' = session, seen' = seen, edited' = edited,
         \A i \in Items : "queued" \in labels[i] => "queued" \in labels'[i]
  PROVE  OneJobPerIdentity' /\ SessionShape' /\ Listings'
<1>1. /\ Busy(job') = Busy(job) /\ s \in Busy(job)
      /\ \A t \in Slots : job'[t].on = job[t].on /\ job'[t].op = job[t].op
  BY DEF Becomes, Busy
<1>2. OneJobPerIdentity'
  BY <1>1, Zenon DEF IInv, OneJobPerIdentity, Busy
<1>3. session.at \notin {"off", "first", "recover"}
  BY <1>1 DEF IInv, SessionShape
<1>4. SessionShape'
  <2>1. session'.at = "scan" =>
          session'.todo \subseteq Issues /\ session'.now \subseteq session'.todo
    BY DEF IInv, SessionShape
  <2>2. session.at = "scan" => \A i \in session.now : session.step \in {0, 1} =>
          "queued" \in labels'[i]
    BY DEF IInv, SessionShape, Items
  <2> QED
    BY <1>3, <2>1, <2>2 DEF IInv, SessionShape
<1>5. Listings'
  BY <1>1, <1>3 DEF Listings
<1> QED
  BY <1>2, <1>4, <1>5

OwesAs(a, e, r) ==
  \/ a \in {"settle", "log", "work", "close", "continue", "complete"}
  \/ a \in {"block", "blockAgain", "done"} /\ ~e /\ r = "failed"

\* What holds of the other Work Items after a step of the job of s.
OthersLeft(s) ==
  /\ muddled' = muddled
  /\ \A i \in Items : i # On(s) =>
       /\ labels[i] \subseteq labels'[i] /\ Missing(i)' \subseteq Missing(i)
       /\ log'[i] = log[i]

LEMMA Engagement ==
  ASSUME IInv, NEW s \in Slots, NEW a \in JobAt, NEW e, NEW r, Becomes(s, a, e, r),
         job[s].at # "free"
  PROVE  /\ On(s) \in Items /\ job[s].op \in Ops
         /\ \A t \in Slots : t # s =>
              /\ Engaged(t)' <=> Engaged(t)
              /\ Active(t)' <=> Active(t)
              /\ Owes(t)' <=> Owes(t)
         /\ Owes(s)' <=> OwesAs(a, e, r)
         /\ Active(s)' <=> a \notin {"free", "done"}
         /\ Engaged(s)' <=> (a \notin {"free", "read", "done"} \/ (a = "done" /\ ~e /\ r = "failed"))
         /\ \A t \in Slots : job'[t].on = job[t].on /\ job'[t].op = job[t].op
<1>1. On(s) \in Items /\ job[s].op \in Ops
  BY DEF IInv, TypeOK, Busy, On
<1>2. \A t \in Slots : t # s => job'[t] = job[t]
  BY DEF Becomes
<1> QED
  BY <1>1, <1>2 DEF Becomes, Engaged, Active, Owes, OwesAs, Dangling

\* A job that has its Work Item goes on with it.
LEMMA EngagedStep ==
  ASSUME IInv, NEW s \in Slots, NEW a \in JobAt, NEW e, NEW r, Becomes(s, a, e, r),
         job[s].at # "free", Engaged(s), Engaged(s)', job[s].at # "done" \/ a = "done",
         NEW i, i = job[s].on, OthersLeft(s),
         i \notin muddled => "in-progress" \in labels'[i] \/ a = "claim",
         i \notin muddled /\ a \in {"work", "close", "continue", "complete"} =>
           log'[i].running = job[s].op,
         i \notin muddled =>
           Missing(i)' \subseteq IF OwesAs(a, e, r) THEN Serves(job[s].op) ELSE {}
  PROVE  Ownership' /\ Accounted'
<1>1. /\ i \in Items /\ muddled' = muddled
      /\ \A t \in Slots : t # s =>
           (Engaged(t)' <=> Engaged(t)) /\ (Active(t)' <=> Active(t)) /\ (Owes(t)' <=> Owes(t))
      /\ Owes(s)' <=> OwesAs(a, e, r)
      /\ \A t \in Slots : job'[t].on = job[t].on /\ job'[t].op = job[t].op
      /\ \A t \in Slots : t # s => job'[t] = job[t]
      /\ job'[s].at = a
  BY Engagement DEF OthersLeft, Becomes, On
<1>2. Active(s)' => Active(s)
  BY Engagement DEF Active
<1>3. Ownership'
  <2> SUFFICES ASSUME NEW t \in Slots, job'[t].on \notin muddled'
               PROVE  /\ job'[t].at \in {"work", "close", "continue", "complete"} =>
                           log'[job'[t].on].running = job'[t].op
                      /\ Engaged(t)' /\ job'[t].at # "claim" => "in-progress" \in labels'[job'[t].on]
                      /\ \A u \in Slots : job'[u].on = job'[t].on =>
                           \/ t = u
                           \/ ~(Active(t)' /\ Active(u)') /\ ~(Engaged(t)' /\ Engaged(u)')
    BY DEF Ownership
  <2>1. CASE t = s
    <3>1. \A u \in Slots : job'[u].on = job'[s].on =>
            s = u \/ (~(Active(s)' /\ Active(u)') /\ ~(Engaged(s)' /\ Engaged(u)'))
      BY <1>1, <1>2, <2>1 DEF IInv, Ownership, On
    <3> QED
      BY <1>1, <2>1, <3>1 DEF On
  <2>2. CASE t # s /\ job[t].on # i
    <3>1. /\ Engaged(t)' => Engaged(t)
          /\ job'[t] = job[t] /\ job[t].on \notin muddled
      BY <1>1, <2>2
    <3>2. Engaged(t) => job[t].on \in Items
      BY DEF IInv, TypeOK, Busy, Engaged
    <3>3. Engaged(t) /\ job[t].at # "claim" => "in-progress" \in labels'[job[t].on]
      BY <3>1, <3>2, <2>2 DEF IInv, Ownership, OthersLeft, On
    <3>4. job[t].at \in {"work", "close", "continue", "complete"} =>
            log'[job[t].on].running = job[t].op
      <4>1. job[t].at \in {"work", "close", "continue", "complete"} => Engaged(t)
        BY DEF Engaged
      <4> QED
        BY <4>1, <3>1, <3>2, <2>2 DEF IInv, Ownership, OthersLeft, On
    <3>5. \A u \in Slots : job'[u].on = job[t].on =>
            t = u \/ (~(Active(t)' /\ Active(u)') /\ ~(Engaged(t)' /\ Engaged(u)'))
      BY <1>1, <2>2, <3>1 DEF IInv, Ownership, On
    <3> QED
      BY <3>1, <3>3, <3>4, <3>5
  <2>3. CASE t # s /\ job[t].on = i
    <3>1. ~Engaged(t)
      BY <1>1, <2>3 DEF IInv, Ownership, On
    <3>2. job[t].at \notin {"work", "close", "continue", "complete"}
      BY <3>1 DEF Engaged
    <3>3. \A u \in Slots : job'[u].on = job[t].on =>
            t = u \/ (~(Active(t)' /\ Active(u)') /\ ~(Engaged(t)' /\ Engaged(u)'))
      BY <1>1, <1>2, <2>3, <3>1 DEF IInv, Ownership, On
    <3> QED
      BY <1>1, <2>3, <3>1, <3>2, <3>3
  <2> QED
    BY <2>1, <2>2, <2>3
<1>4. Accounted'
  <2>1. ASSUME NEW k \in Items \ muddled', NEW t \in Slots, Engaged(t)', job'[t].on = k
        PROVE  Missing(k)' \subseteq IF Owes(t)' THEN Serves(job'[t].op) ELSE {}
    <3>1. CASE t = s
      BY <1>1, <2>1, <3>1
    <3>2. CASE t # s
      <4>1. Engaged(t) /\ k \notin muddled /\ job'[t] = job[t] /\ job[t].on = k
        BY <1>1, <2>1, <3>2
      <4>2. k # i
        BY <1>1, <3>2, <4>1 DEF IInv, Ownership
      <4>3. Missing(k)' \subseteq Missing(k)
        BY <4>2 DEF OthersLeft, On
      <4>4. Missing(k) \subseteq IF Owes(t) THEN Serves(job[t].op) ELSE {}
        BY <4>1 DEF IInv, Accounted
      <4> QED
        BY <1>1, <3>2, <4>1, <4>3, <4>4
    <3> QED
      BY <3>1, <3>2
  <2>2. ASSUME NEW k \in Items \ muddled', \A t \in Slots : Engaged(t)' => job'[t].on # k,
               Missing(k)' # {}
        PROVE  /\ labels'[k] \cap {"in-progress", "blocked"} # {}
               /\ log'[k].running = "none" \/ Missing(k)' \subseteq Serves(log'[k].running)
    <3>1. k # i /\ k \notin muddled
      BY <1>1, <2>2 DEF On
    <3>2. \A t \in Slots : Engaged(t) => job[t].on # k
      BY <1>1, <2>2, <3>1 DEF On
    <3>3. Missing(k)' \subseteq Missing(k) /\ labels[k] \subseteq labels'[k] /\ log'[k] = log[k]
      BY <3>1 DEF OthersLeft, On
    <3>4. /\ labels[k] \cap {"in-progress", "blocked"} # {}
          /\ log[k].running = "none" \/ Missing(k) \subseteq Serves(log[k].running)
      BY <2>2, <3>1, <3>2, <3>3 DEF IInv, Accounted
    <3> QED
      BY <3>3, <3>4
  <2> QED
    BY <2>1, <2>2 DEF Accounted
<1> QED
  BY <1>3, <1>4

\* A job that ends lets go of a Work Item from which it has nothing.
LEMMA ReleasingStep ==
  ASSUME IInv, NEW s \in Slots, NEW e, NEW r, Becomes(s, "done", e, r),
         job[s].at # "free", ~Engaged(s)', NEW i, i = job[s].on, OthersLeft(s),
         log'[i] = log[i], Missing(i)' \subseteq Missing(i),
         \/ ~Engaged(s) /\ labels[i] \subseteq labels'[i]
         \/ Engaged(s) /\ ~Owes(s)
  PROVE  Ownership' /\ Accounted'
<1>1. /\ i \in Items /\ muddled' = muddled
      /\ \A t \in Slots : t # s =>
           (Engaged(t)' <=> Engaged(t)) /\ (Active(t)' <=> Active(t)) /\ (Owes(t)' <=> Owes(t))
      /\ \A t \in Slots : job'[t].on = job[t].on /\ job'[t].op = job[t].op
      /\ \A t \in Slots : t # s => job'[t] = job[t]
      /\ job'[s].at = "done" /\ ~Active(s)' /\ ~Engaged(s)'
  BY Engagement DEF OthersLeft, Becomes, On, JobAt
<1>2. \A t \in Slots : t # s /\ job[t].on = i /\ i \notin muddled /\ Engaged(t) =>
        ~Engaged(s) /\ labels[i] \subseteq labels'[i]
  BY DEF IInv, Ownership
<1>3. Ownership'
  <2> SUFFICES ASSUME NEW t \in Slots, job'[t].on \notin muddled'
               PROVE  /\ job'[t].at \in {"work", "close", "continue", "complete"} =>
                           log'[job'[t].on].running = job'[t].op
                      /\ Engaged(t)' /\ job'[t].at # "claim" => "in-progress" \in labels'[job'[t].on]
                      /\ \A u \in Slots : job'[u].on = job'[t].on =>
                           \/ t = u
                           \/ ~(Active(t)' /\ Active(u)') /\ ~(Engaged(t)' /\ Engaged(u)')
    BY DEF Ownership
  <2>1. CASE t = s
    BY <1>1, <2>1
  <2>2. CASE t # s
    <3> DEFINE k == job[t].on
    <3>1. job'[t] = job[t] /\ k \notin muddled
      BY <1>1, <2>2
    <3>2. Engaged(t) => k \in Items
      BY DEF IInv, TypeOK, Busy, Engaged
    <3>3. Engaged(t) => log'[k] = log[k] /\ labels[k] \subseteq labels'[k]
      BY <1>2, <2>2, <3>1, <3>2 DEF OthersLeft, On
    <3>4. Engaged(t) /\ job[t].at # "claim" => "in-progress" \in labels'[k]
      BY <3>1, <3>3 DEF IInv, Ownership
    <3>5. job[t].at \in {"work", "close", "continue", "complete"} => log'[k].running = job[t].op
      <4>1. job[t].at \in {"work", "close", "continue", "complete"} => Engaged(t)
        BY DEF Engaged
      <4> QED
        BY <3>1, <3>3, <4>1 DEF IInv, Ownership
    <3>6. \A u \in Slots : job'[u].on = k =>
            t = u \/ (~(Active(t)' /\ Active(u)') /\ ~(Engaged(t)' /\ Engaged(u)'))
      BY <1>1, <2>2, <3>1 DEF IInv, Ownership
    <3> QED
      BY <1>1, <2>2, <3>1, <3>4, <3>5, <3>6
  <2> QED
    BY <2>1, <2>2
<1>4. Accounted'
  <2>1. ASSUME NEW k \in Items \ muddled', NEW t \in Slots, Engaged(t)', job'[t].on = k
        PROVE  Missing(k)' \subseteq IF Owes(t)' THEN Serves(job'[t].op) ELSE {}
    <3>1. t # s /\ Engaged(t) /\ k \notin muddled /\ job[t].on = k
      BY <1>1, <2>1
    <3>2. Missing(k)' \subseteq Missing(k)
      BY <2>1 DEF OthersLeft, On
    <3>3. Missing(k) \subseteq IF Owes(t) THEN Serves(job[t].op) ELSE {}
      BY <3>1 DEF IInv, Accounted
    <3> QED
      BY <1>1, <3>1, <3>2, <3>3
  <2>2. ASSUME NEW k \in Items \ muddled', \A t \in Slots : Engaged(t)' => job'[t].on # k,
               Missing(k)' # {}
        PROVE  /\ labels'[k] \cap {"in-progress", "blocked"} # {}
               /\ log'[k].running = "none" \/ Missing(k)' \subseteq Serves(log'[k].running)
    <3>1. k \notin muddled /\ Missing(k)' \subseteq Missing(k) /\ log'[k] = log[k]
      BY <1>1, <2>2 DEF OthersLeft, On
    <3>2. ~(Engaged(s) /\ k = i)
      BY <2>2, <3>1 DEF IInv, Accounted
    <3>3. \A t \in Slots : Engaged(t) => job[t].on # k
      BY <1>1, <2>2, <3>2
    <3>4. labels[k] \subseteq labels'[k]
      BY <1>1, <3>2 DEF OthersLeft, On
    <3>5. /\ labels[k] \cap {"in-progress", "blocked"} # {}
          /\ log[k].running = "none" \/ Missing(k) \subseteq Serves(log[k].running)
      BY <2>2, <3>1, <3>3 DEF IInv, Accounted
    <3> QED
      BY <3>1, <3>4, <3>5
  <2> QED
    BY <2>1, <2>2 DEF Accounted
<1> QED
  BY <1>3, <1>4

LEMMA JobShapeStep ==
  ASSUME IInv, NEW s \in Slots, NEW a \in JobAt, NEW e, NEW r, Becomes(s, a, e, r),
         a \in {"log", "work", "close", "continue", "complete", "release"} => e,
         a \in {"block", "blockAgain"} /\ ~e => r = "failed",
         a \in {"read", "claim", "acquire", "untrigger", "settle"} => ~e,
         a \in {"read", "claim"} => r = "none",
         a \in {"close", "continue"} => job[s].op = "implement-spec",
         a = "close" => open'[job[s].on] > 0,
         \A t \in Slots : t # s /\ job[t].at = "close" => open'[job[t].on] = open[job[t].on]
  PROVE  JobShape'
<1> SUFFICES ASSUME NEW t \in Slots
             PROVE  /\ job'[t].at \in {"log", "work", "close", "continue", "complete", "release"} =>
                         job'[t].settled
                    /\ job'[t].at \in {"block", "blockAgain"} /\ ~job'[t].settled =>
                         job'[t].result = "failed"
                    /\ job'[t].at \in {"read", "claim", "acquire", "untrigger", "settle"} =>
                         ~job'[t].settled
                    /\ job'[t].at \in {"read", "claim"} => job'[t].result = "none"
                    /\ job'[t].at \in {"close", "continue"} => job'[t].op = "implement-spec"
                    /\ job'[t].at = "close" => open'[job'[t].on] > 0
  BY DEF JobShape
<1>1. CASE t = s
  BY <1>1 DEF Becomes
<1>2. CASE t # s
  <2>1. job'[t] = job[t]
    BY <1>2 DEF Becomes
  <2> QED
    BY <1>2, <2>1 DEF IInv, JobShape
<1> QED
  BY <1>1, <1>2

LEMMA Faults ==
  ASSUME TypeOK, Fault \/ NoFault
  PROVE  troubles' \in 0..MaxTroubles
BY BoundsAssumption DEF TypeOK, Fault, NoFault

LEMMA JobsTyped ==
  ASSUME TypeOK, NEW s \in Slots, NEW a \in JobAt, NEW e, NEW r, Becomes(s, a, e, r),
         job[s].at # "free"
  PROVE  /\ job' \in [Slots -> Jobs]
         /\ \A t \in Busy(job') : /\ job'[t].on \in Items /\ job'[t].op \in Ops
                                  /\ job'[t].op \in IssueOps <=> job'[t].on \in Issues
<1>1. \A t \in Busy(job') :
        t \in Busy(job) /\ job'[t].on = job[t].on /\ job'[t].op = job[t].op
  BY DEF Becomes, Busy
<1> QED
  BY <1>1, Zenon DEF TypeOK, Becomes

LEMMA UntouchedTypes ==
  ASSUME TypeOK, NEW s \in Slots, NEW a \in JobAt, NEW e, NEW r, Becomes(s, a, e, r),
         job[s].at # "free", labels' \in [Items -> SUBSET Labels], Fault \/ NoFault,
         Untouched, seen' = seen, crashes' = crashes, edited' = edited, muddled' = muddled
  PROVE  TypeOK'
<1>1. troubles' \in 0..MaxTroubles
  BY Faults
<1> QED
  BY <1>1, JobsTyped DEF TypeOK, Untouched, records

LEMMA OthersStay ==
  ASSUME NEW s \in Slots, NEW L, Relabeled(On(s), L), session' = session,
         muddled' = muddled,
         \A k \in Items : k # On(s) => wanted'[k] = wanted[k] /\ log'[k] = log[k]
  PROVE  OthersLeft(s)
<1> SUFFICES ASSUME NEW k \in Items, k # On(s)
             PROVE  /\ labels[k] \subseteq labels'[k] /\ Missing(k)' \subseteq Missing(k)
                    /\ log'[k] = log[k]
  BY DEF OthersLeft
<1>1. labels'[k] = labels[k] /\ wanted'[k] = wanted[k] /\ log'[k] = log[k]
  BY DEF Relabeled
<1>2. Missing(k)' \subseteq Missing(k)
  BY <1>1, MissingShrinks DEF Flipping
<1> QED
  BY <1>1, <1>2

\* What a job that has its Work Item may have missing.
LEMMA HasItem ==
  ASSUME IInv, NEW s \in Slots, NEW i, i = job[s].on, Engaged(s)
  PROVE  /\ i \in Items /\ job[s].op \in Ops
         /\ i \notin muddled =>
              /\ Missing(i) \subseteq Serves(job[s].op) /\ (~Owes(s) => Missing(i) = {})
              /\ job[s].at # "claim" => "in-progress" \in labels[i]
              /\ job[s].at \in {"work", "close", "continue", "complete"} =>
                   log[i].running = job[s].op
<1>1. i \in Items /\ job[s].op \in Ops
  BY DEF IInv, TypeOK, Busy, Engaged
<1> QED
  BY <1>1 DEF IInv, Accounted, Ownership

\* A step that leaves all but the labels of its Work Item alone.
UntouchedStep(s) ==
  /\ Fault \/ NoFault
  /\ Untouched /\ seen' = seen /\ crashes' = crashes /\ edited' = edited /\ muddled' = muddled

LEMMA UntouchedEngaged ==
  ASSUME IInv, NEW s \in Slots, NEW a \in JobAt, NEW e, NEW r, Becomes(s, a, e, r),
         job[s].at \notin {"free", "read", "done"}, UntouchedStep(s), a # "free",
         a \notin {"read", "done"} \/ (a = "done" /\ ~e /\ r = "failed"),
         NEW i, i = job[s].on, NEW L, Relabeled(i, L),
         labels[i] \ {Trigger(job[s].op)} \subseteq L,
         Trigger(job[s].op) \notin labels[i] \/ Trigger(job[s].op) \in L \/ OwesAs(a, e, r),
         Owes(s) => OwesAs(a, e, r),
         job[s].at # "claim" \/ "in-progress" \in L,
         a \notin {"claim", "work", "close", "continue", "complete"},
         a \in {"acquire", "untrigger", "settle"} => ~e,
         a \in {"log", "release"} => e,
         a \in {"block", "blockAgain"} /\ ~e => r = "failed"
  PROVE  IInv'
<1>1. i \in Items /\ job[s].op \in Ops /\ i = On(s) /\ Engaged(s) /\ Trigger(job[s].op) # "queued"
      /\ Trigger(job[s].op) # "in-progress"
  BY Engagement, LabelSets DEF On, Engaged
<1>2. TypeOK'
  BY UntouchedTypes DEF IInv, UntouchedStep, Relabeled
<1>3. \A k \in Items : "queued" \in labels[k] => "queued" \in labels'[k]
  BY <1>1 DEF Relabeled
<1>4. OneJobPerIdentity' /\ SessionShape' /\ Listings'
  BY <1>3, JobFrame DEF UntouchedStep, Untouched
<1>5. JobShape'
  BY JobShapeStep DEF UntouchedStep, Untouched
<1>6. OthersLeft(s)
  BY <1>1, OthersStay DEF UntouchedStep, Untouched, records
<1>7. Engaged(s)'
  BY Engagement
<1>8. i \notin muddled => Missing(i)' \subseteq IF OwesAs(a, e, r) THEN Serves(job[s].op) ELSE {}
  <2>1. Flipping(i)' => Flipping(i)
    BY DEF Flipping, UntouchedStep, Untouched
  <2>2. wanted' = wanted /\ labels'[i] = L
    BY DEF UntouchedStep, Untouched, Relabeled
  <2>3. CASE OwesAs(a, e, r)
    <3>1. Missing(i)' \subseteq Missing(i) \cup Serves(job[s].op)
      BY <1>1, <2>1, <2>2, TakingOwn
    <3> QED
      BY <1>1, <2>3, <3>1, HasItem
  <2>4. CASE ~OwesAs(a, e, r)
    <3>1. labels[i] \subseteq labels'[i]
      BY <2>2, <2>4
    <3>2. Missing(i)' \subseteq Missing(i)
      BY <1>1, <2>1, <2>2, <3>1, MissingShrinks
    <3> QED
      BY <1>1, <2>4, <3>2, HasItem
  <2> QED
    BY <2>3, <2>4
<1>9. i \notin muddled => "in-progress" \in labels'[i] \/ a = "claim"
  BY <1>1, HasItem DEF Relabeled
<1>10. Ownership' /\ Accounted'
  BY <1>1, <1>6, <1>7, <1>8, <1>9, EngagedStep
<1> QED
  BY <1>2, <1>4, <1>5, <1>10 DEF IInv

LEMMA UntouchedReleases ==
  ASSUME IInv, NEW s \in Slots, NEW e, NEW r, Becomes(s, "done", e, r),
         job[s].at # "free", UntouchedStep(s), e \/ r # "failed",
         NEW i, i = job[s].on, NEW L, Relabeled(i, L),
         \/ ~Engaged(s) /\ labels[i] \subseteq L
         \/ Engaged(s) /\ ~Owes(s) /\ labels[i] \ {"in-progress"} \subseteq L
  PROVE  IInv'
<1>1. i \in Items /\ job[s].op \in Ops /\ i = On(s) /\ "done" \in JobAt
  BY Engagement DEF On, JobAt
<1>2. TypeOK'
  BY <1>1, UntouchedTypes DEF IInv, UntouchedStep, Relabeled
<1>3. \A k \in Items : "queued" \in labels[k] => "queued" \in labels'[k]
  BY <1>1 DEF Relabeled
<1>4. OneJobPerIdentity' /\ SessionShape' /\ Listings'
  BY <1>1, <1>3, JobFrame DEF UntouchedStep, Untouched
<1>5. JobShape'
  BY <1>1, JobShapeStep DEF UntouchedStep, Untouched
<1>6. OthersLeft(s)
  BY <1>1, OthersStay DEF UntouchedStep, Untouched, records
<1>7. ~Engaged(s)'
  BY <1>1, Engagement
<1>8. Missing(i)' \subseteq Missing(i)
  <2>1. /\ session' = session /\ wanted' = wanted /\ labels[i] \ {"in-progress"} \subseteq labels'[i]
    BY DEF UntouchedStep, Untouched, Relabeled
  <2>2. "in-progress" \notin wanted[i]
    BY <1>1, LabelSets DEF IInv, TypeOK
  <2> QED
    BY <1>1, <2>1, <2>2 DEF Missing, Firm, Flipping
<1>9. log'[i] = log[i] /\ labels'[i] = L
  BY DEF UntouchedStep, Untouched, records, Relabeled
<1>10. Ownership' /\ Accounted'
  BY <1>1, <1>6, <1>7, <1>8, <1>9, ReleasingStep
<1> QED
  BY <1>2, <1>4, <1>5, <1>10 DEF IInv

-----------------------------------------------------------------------------
(* The steps of a job.                                                      *)

\* A job begins only at a Work Item where nothing is missing and which no
\* other job has.
LEMMA ReadAvailableStep ==
  ASSUME IInv, NEW s \in Slots, ReadAvailable(s)
  PROVE  IInv'
<1> DEFINE i == job[s].on
<1>1. /\ job[s].at = "read" /\ UntouchedStep(s) /\ labels' = labels
  BY DEF ReadAvailable, Job, UntouchedStep
<1>2. i \in Items /\ i = On(s) /\ TypeOK /\ job[s].result = "none" /\ ~Engaged(s) /\ Active(s)
      /\ ~job[s].settled
      /\ job[s].op \in Ops
  BY <1>1 DEF IInv, TypeOK, Busy, On, JobShape, Engaged, Active
<1>3. Relabeled(i, labels[i])
  BY <1>1, <1>2, SameLabels
<1>4. {"done", "claim"} \subseteq JobAt
  BY DEF JobAt
<1>5. CASE Moves(s, "done")
  BY <1>1, <1>2, <1>3, <1>4, <1>5, MovesBecomes, UntouchedReleases
<1>6. CASE Moves(s, "claim") /\ Eligible(job[s].op, labels[i])
  <2>1. Becomes(s, "claim", job[s].settled, "none")
    BY <1>2, <1>4, <1>6, MovesBecomes
  <2>2. TypeOK'
    BY <1>1, <1>2, <1>3, <1>4, <2>1, UntouchedTypes DEF UntouchedStep, Relabeled
  <2>3. OneJobPerIdentity' /\ SessionShape' /\ Listings'
    BY <1>1, <1>4, <2>1, JobFrame DEF UntouchedStep, Untouched
  <2>4. JobShape'
    BY <1>1, <1>2, <1>4, <2>1, JobShapeStep DEF UntouchedStep, Untouched
  <2>5. /\ session' = session /\ wanted' = wanted /\ log' = log /\ muddled' = muddled
    BY <1>1 DEF UntouchedStep, Untouched, records
  <2>6. \A k \in Items : Missing(k)' = Missing(k)
    BY <1>1, <2>5 DEF Missing, Firm, Flipping
  <2>7. /\ \A t \in Slots : t # s =>
             /\ Engaged(t)' <=> Engaged(t)
             /\ Active(t)' <=> Active(t)
             /\ Owes(t)' <=> Owes(t)
        /\ ~Owes(s)' /\ Active(s)' /\ Engaged(s)'
        /\ \A t \in Slots : job'[t].on = job[t].on /\ job'[t].op = job[t].op
        /\ \A t \in Slots : t # s => job'[t] = job[t]
        /\ job'[s].at = "claim"
    BY <1>1, <1>4, <2>1, Engagement DEF Becomes, OwesAs
  <2>8. labels[i] \cap {"in-progress", "blocked"} = {}
    BY <1>6 DEF Eligible
  <2>9. i \notin muddled => \A t \in Slots : t # s /\ job[t].on = i => ~Engaged(t)
    <3> SUFFICES ASSUME i \notin muddled, NEW t \in Slots, t # s, job[t].on = i, Engaged(t)
                 PROVE  FALSE
      OBVIOUS
    <3>1. ~Active(t)
      BY <1>2 DEF IInv, Ownership
    <3>2. job[t].at # "claim"
      BY <3>1 DEF Active
    <3> QED
      BY <2>8, <3>2 DEF IInv, Ownership
  <2>10. i \notin muddled => Missing(i) = {}
    BY <1>2, <2>8, <2>9 DEF IInv, Accounted
  <2>11. Ownership'
    <3> SUFFICES ASSUME NEW t \in Slots, job'[t].on \notin muddled'
                 PROVE  /\ job'[t].at \in {"work", "close", "continue", "complete"} =>
                             log'[job'[t].on].running = job'[t].op
                        /\ Engaged(t)' /\ job'[t].at # "claim" =>
                             "in-progress" \in labels'[job'[t].on]
                        /\ \A u \in Slots : job'[u].on = job'[t].on =>
                             \/ t = u
                             \/ ~(Active(t)' /\ Active(u)') /\ ~(Engaged(t)' /\ Engaged(u)')
      BY DEF Ownership
    <3>1. CASE t = s
      BY <1>2, <2>5, <2>7, <2>9, <3>1 DEF IInv, Ownership
    <3>2. CASE t # s
      BY <1>1, <1>2, <2>5, <2>7, <2>9, <3>2 DEF IInv, Ownership
    <3> QED
      BY <3>1, <3>2
  <2>12. Accounted'
    <3>1. ASSUME NEW k \in Items \ muddled', NEW t \in Slots, Engaged(t)', job'[t].on = k
          PROVE  Missing(k)' \subseteq IF Owes(t)' THEN Serves(job'[t].op) ELSE {}
      BY <2>5, <2>6, <2>7, <2>10, <3>1 DEF IInv, Accounted
    <3>2. ASSUME NEW k \in Items \ muddled', \A t \in Slots : Engaged(t)' => job'[t].on # k,
                 Missing(k)' # {}
          PROVE  /\ labels'[k] \cap {"in-progress", "blocked"} # {}
                 /\ log'[k].running = "none" \/ Missing(k)' \subseteq Serves(log'[k].running)
      BY <1>1, <1>2, <2>5, <2>6, <2>7, <3>2 DEF IInv, Accounted
    <3> QED
      BY <3>1, <3>2 DEF Accounted
  <2> QED
    BY <2>2, <2>3, <2>4, <2>11, <2>12 DEF IInv
<1> QED
  BY <1>1, <1>5, <1>6 DEF ReadAvailable, On

LEMMA ClaimStep ==
  ASSUME IInv, NEW s \in Slots, Claim(s)
  PROVE  IInv'
<1> DEFINE i == job[s].on
<1>1. job[s].at = "claim" /\ UntouchedStep(s)
  BY DEF Claim, Job, UntouchedStep, PutLost
<1>2. /\ i \in Items /\ i = On(s) /\ TypeOK /\ job[s].result = "none" /\ ~job[s].settled
      /\ Engaged(s) /\ ~Owes(s) /\ "in-progress" \in Labels
  BY <1>1, LabelSets DEF IInv, TypeOK, Busy, On, JobShape, Engaged, Owes
<1>3. {"done", "acquire"} \subseteq JobAt
  BY DEF JobAt
<1>4. CASE Put(i, "in-progress") /\ Moves(s, "acquire")
  <2>1. Relabeled(i, labels[i] \cup {"in-progress"})
    BY <1>2, <1>4, PutLabels
  <2>2. Becomes(s, "acquire", job[s].settled, "none")
    BY <1>2, <1>3, <1>4, MovesBecomes
  <2> QED
    BY <1>1, <1>2, <1>3, <2>1, <2>2, UntouchedEngaged
<1>5. CASE PutLost(i, "in-progress") /\ Moves(s, "done")
  <2>1. Relabeled(i, labels[i] \cup {"in-progress"}) \/ Relabeled(i, labels[i])
    BY <1>2, <1>5, PutLabels, SameLabels DEF PutLost
  <2>2. Becomes(s, "done", job[s].settled, "none")
    BY <1>2, <1>3, <1>5, MovesBecomes
  <2> QED
    BY <1>1, <1>2, <2>1, <2>2, UntouchedReleases
<1> QED
  BY <1>2, <1>4, <1>5 DEF Claim

LEMMA AcquireStep ==
  ASSUME IInv, NEW s \in Slots, Acquire(s)
  PROVE  IInv'
<1> DEFINE i == job[s].on
<1>1. job[s].at = "acquire" /\ UntouchedStep(s) /\ labels' = labels
  BY DEF Acquire, Job, UntouchedStep
<1>2. /\ i \in Items /\ i = On(s) /\ TypeOK /\ ~job[s].settled /\ ~Owes(s)
  BY <1>1 DEF IInv, TypeOK, Busy, On, JobShape, Owes
<1>3. {"untrigger", "block"} \subseteq JobAt /\ Relabeled(i, labels[i])
  BY <1>1, <1>2, SameLabels DEF JobAt
<1>4. CASE Moves(s, "untrigger")
  <2>1. Becomes(s, "untrigger", job[s].settled, job[s].result)
    BY <1>2, <1>3, <1>4, MovesBecomes
  <2> QED
    BY <1>1, <1>2, <1>3, <2>1, UntouchedEngaged
<1>5. CASE Rejects(s)
  <2>1. Becomes(s, "block", job[s].settled, "failed")
    BY <1>2, <1>5, RejectsBecomes
  <2> QED
    BY <1>1, <1>2, <1>3, <2>1, UntouchedEngaged
<1> QED
  BY <1>4, <1>5 DEF Acquire

LEMMA RemoveTriggerStep ==
  ASSUME IInv, NEW s \in Slots, RemoveTrigger(s)
  PROVE  IInv'
<1> DEFINE i == job[s].on
           l == Trigger(job[s].op)
<1>1. job[s].at = "untrigger" /\ UntouchedStep(s)
  BY DEF RemoveTrigger, Job, UntouchedStep, TakeLost
<1>2. i \in Items /\ i = On(s) /\ l = Own(s) /\ TypeOK /\ ~job[s].settled /\ ~Owes(s)
  BY <1>1 DEF IInv, TypeOK, Busy, On, Own, JobShape, Owes
<1>3. {"settle", "block"} \subseteq JobAt
  BY DEF JobAt
<1>4. CASE Take(i, l) /\ Moves(s, "settle")
  <2>1. Relabeled(i, labels[i] \ {l})
    BY <1>2, <1>4, TakeLabels
  <2>2. Becomes(s, "settle", job[s].settled, job[s].result)
    BY <1>2, <1>3, <1>4, MovesBecomes
  <2>3. OwesAs("settle", job[s].settled, job[s].result)
    BY DEF OwesAs
  <2> QED
    BY <1>1, <1>2, <1>3, <2>1, <2>2, <2>3, UntouchedEngaged
<1>5. CASE TakeLost(i, l) /\ Rejects(s)
  <2>1. Relabeled(i, labels[i] \ {l}) \/ Relabeled(i, labels[i])
    BY <1>2, <1>5, TakeLabels, SameLabels DEF TakeLost
  <2>2. Becomes(s, "block", job[s].settled, "failed")
    BY <1>2, <1>5, RejectsBecomes
  <2>3. OwesAs("block", job[s].settled, "failed")
    BY <1>2 DEF OwesAs
  <2> QED
    BY <1>1, <1>2, <1>3, <2>1, <2>2, <2>3, UntouchedEngaged
<1> QED
  BY <1>2, <1>4, <1>5 DEF RemoveTrigger

LEMMA SettleStep ==
  ASSUME IInv, NEW s \in Slots, Settle(s)
  PROVE  IInv'
<1> DEFINE i == job[s].on
<1>1. job[s].at = "settle" /\ UntouchedStep(s) /\ labels' = labels
  BY DEF Settle, Job, UntouchedStep
<1>2. i \in Items /\ i = On(s) /\ TypeOK /\ Owes(s)
  BY <1>1 DEF IInv, TypeOK, Busy, On, Owes
<1>3. {"log", "block"} \subseteq JobAt /\ Relabeled(i, labels[i])
      /\ OwesAs("log", TRUE, job[s].result) /\ OwesAs("block", FALSE, "failed")
  BY <1>1, <1>2, SameLabels DEF JobAt, OwesAs
<1>4. CASE job' = [job EXCEPT ![s].at = "log", ![s].settled = TRUE]
  <2>1. Becomes(s, "log", TRUE, job[s].result)
    BY <1>2, <1>4, SettledBecomes
  <2> QED
    BY <1>1, <1>2, <1>3, <2>1, UntouchedEngaged
<1>5. CASE job' = [job EXCEPT ![s].at = "block", ![s].result = "failed", ![s].settled = FALSE]
  <2>1. Becomes(s, "block", FALSE, "failed")
    BY <1>2, <1>5, UnsettledBecomes
  <2> QED
    BY <1>1, <1>2, <1>3, <2>1, UntouchedEngaged
<1> QED
  BY <1>4, <1>5 DEF Settle

LEMMA BlockStep ==
  ASSUME IInv, NEW s \in Slots, Block(s)
  PROVE  IInv'
<1> DEFINE i == job[s].on
<1>1. job[s].at \in {"block", "blockAgain"} /\ UntouchedStep(s)
  BY DEF Block, Job, UntouchedStep, PutLost
<1>2. /\ i \in Items /\ i = On(s) /\ TypeOK /\ job[s].settled \in BOOLEAN
      /\ "blocked" \in Labels /\ (Owes(s) => ~job[s].settled)
      /\ (~job[s].settled => job[s].result = "failed")
      /\ (Owes(s) <=> OwesAs("done", job[s].settled, job[s].result) /\ ~job[s].settled)
      /\ (Owes(s) <=> OwesAs("blockAgain", job[s].settled, job[s].result) /\ ~job[s].settled)
  BY <1>1, LabelSets, JobFields DEF IInv, TypeOK, Busy, On, JobShape, Owes, OwesAs, Dangling
<1>3. {"done", "release", "blockAgain"} \subseteq JobAt
  BY DEF JobAt
<1>4. Relabeled(i, labels[i] \cup {"blocked"}) \/ Relabeled(i, labels[i])
  BY <1>2, PutLabels, SameLabels DEF Block, PutLost
<1>5. CASE Moves(s, "blockAgain")
  <2>1. Becomes(s, "blockAgain", job[s].settled, job[s].result)
    BY <1>2, <1>3, <1>5, MovesBecomes
  <2> QED
    BY <1>1, <1>2, <1>3, <1>4, <2>1, UntouchedEngaged
<1>6. CASE Moves(s, "release") /\ job[s].settled
  <2>1. Becomes(s, "release", job[s].settled, job[s].result)
    BY <1>2, <1>3, <1>6, MovesBecomes
  <2>2. ~Owes(s) /\ job[s].at \notin {"free", "read", "done", "claim"}
    BY <1>1, <1>2, <1>6
  <2>3. PICK L \in {labels[i] \cup {"blocked"}, labels[i]} : Relabeled(i, L)
    BY <1>4
  <2>4. labels[i] \subseteq L
    BY <2>3
  <2> QED
    BY <1>1, <1>3, <1>6, <2>1, <2>2, <2>3, <2>4, UntouchedEngaged
<1>7. CASE Moves(s, "done") /\ ~job[s].settled
  <2>1. Becomes(s, "done", job[s].settled, job[s].result)
    BY <1>2, <1>3, <1>7, MovesBecomes
  <2> QED
    BY <1>1, <1>2, <1>3, <1>4, <1>7, <2>1, UntouchedEngaged
<1> QED
  BY <1>2, <1>5, <1>6, <1>7 DEF Block, Unblocked

LEMMA ReleaseStep ==
  ASSUME IInv, NEW s \in Slots, Release(s)
  PROVE  IInv'
<1> DEFINE i == job[s].on
<1>1. job[s].at = "release" /\ UntouchedStep(s) /\ Moves(s, "done")
  BY DEF Release, Job, UntouchedStep, TakeLost
<1>2. i \in Items /\ i = On(s) /\ TypeOK /\ job[s].settled /\ ~Owes(s) /\ Engaged(s)
  BY <1>1 DEF IInv, TypeOK, Busy, On, JobShape, Owes, Engaged
<1>3. Relabeled(i, labels[i] \ {"in-progress"}) \/ Relabeled(i, labels[i])
  BY <1>2, TakeLabels, SameLabels DEF Release, TakeLost
<1>4. Becomes(s, "done", job[s].settled, job[s].result)
  BY <1>1, <1>2, MovesBecomes DEF JobAt
<1> QED
  BY <1>1, <1>2, <1>3, <1>4, UntouchedReleases

\* A job that has its Work Item and changes only its own labels, its record and
\* what its operation is about goes on with it.
LEMMA WorkingStep ==
  ASSUME IInv, TypeOK', NEW s \in Slots, NEW a \in JobAt, NEW r,
         Becomes(s, a, job[s].settled, r),
         job[s].at \in {"log", "work", "close", "continue", "complete"},
         a \in {"work", "close", "continue", "complete", "block", "release"},
         session' = session, seen' = seen, edited' = edited, muddled' = muddled,
         NEW i, i = job[s].on,
         \A k \in Items : labels[k] \subseteq labels'[k],
         \A k \in Items : k # i => log'[k] = log[k],
         \A k \in Items : k # i => \A l \in wanted'[k] : l \in wanted[k] \/ l \in labels'[k] \ {"queued"},
         i \notin muddled /\ a \in {"work", "close", "continue", "complete"} =>
           log'[i].running = job[s].op,
         i \notin muddled =>
           Missing(i)' \subseteq IF OwesAs(a, job[s].settled, r) THEN Serves(job[s].op) ELSE {},
         a \in {"close", "continue"} => job[s].op = "implement-spec",
         a = "close" => open'[i] > 0,
         \A t \in Slots : t # s /\ job[t].at = "close" => open'[job[t].on] = open[job[t].on]
  PROVE  IInv'
<1>1. i \in Items /\ job[s].op \in Ops /\ i = On(s) /\ Engaged(s) /\ job[s].settled
      /\ a # "free" /\ a # "done" /\ job[s].at # "free"
  BY Engagement DEF On, Engaged, IInv, JobShape
<1>2. OneJobPerIdentity' /\ SessionShape' /\ Listings'
  BY <1>1, JobFrame
<1>3. JobShape'
  BY <1>1, JobShapeStep
<1>4. OthersLeft(s)
  <2> SUFFICES ASSUME NEW k \in Items, k # i
               PROVE  Missing(k)' \subseteq Missing(k)
    BY <1>1 DEF OthersLeft
  <2>1. Flipping(k)' => Flipping(k)
    BY DEF Flipping
  <2>2. \A l \in wanted'[k] : l \in wanted[k] \/ Firm(k, l)'
    BY DEF Firm
  <2> QED
    BY <2>1, <2>2, MissingShrinks
<1>5. Engaged(s)'
  BY <1>1, Engagement
<1>6. i \notin muddled => "in-progress" \in labels'[i]
  BY <1>1, HasItem
<1>7. Ownership' /\ Accounted'
  BY <1>1, <1>4, <1>5, <1>6, EngagedStep
<1> QED
  BY <1>2, <1>3, <1>7 DEF IInv

\* What the end of an operation no longer asks for.
LEMMA ConcludedServes ==
  ASSUME IInv, NEW s \in Slots, Engaged(s), NEW i, i = job[s].on, i \notin muddled,
         Concluded(s), labels' = labels, session' = session
  PROVE  Missing(i)' = {}
<1>1. i \in Items /\ job[s].op \in Ops /\ Missing(i) \subseteq Serves(job[s].op) /\ i = On(s)
  BY HasItem DEF On
<1>2. wanted'[i] = wanted[i] \ Served(s)
  BY <1>1 DEF Concluded, IInv, TypeOK
<1>3. Missing(i)' = Missing(i) \ Served(s)
  BY <1>2 DEF Missing, Firm, Flipping
<1> QED
  BY <1>1, <1>3, LabelSets DEF Served, Serves, Own, Missing, Firm

LEMMA ConcludedTypes ==
  ASSUME TypeOK, NEW s \in Slots, Concluded(s)
  PROVE  /\ wanted' \in [Items -> SUBSET Asking]
         /\ \A k \in Items : k # On(s) => wanted'[k] = wanted[k]
         /\ \A k \in Items : wanted'[k] \subseteq wanted[k]
BY DEF TypeOK, Concluded

LEMMA LogStartStep ==
  ASSUME IInv, NEW s \in Slots, LogStart(s)
  PROVE  IInv'
<1> SUFFICES ASSUME NEW i, i = job[s].on
             PROVE  IInv'
  OBVIOUS
<1>1. /\ job[s].at = "log" /\ labels' = labels /\ session' = session /\ seen' = seen
      /\ edited' = edited /\ muddled' = muddled /\ crashes' = crashes /\ open' = open
      /\ total' = total /\ implemented' = implemented /\ draft' = draft
      /\ unreadable' = unreadable /\ reviewed' = reviewed /\ troubles' \in 0..MaxTroubles
  BY Faults DEF LogStart, Job, IInv
<1>2. i \in Items /\ i = On(s) /\ TypeOK /\ job[s].settled /\ Engaged(s) /\ job[s].op \in Ops /\ Owes(s)
  BY <1>1 DEF IInv, TypeOK, Busy, On, JobShape, Engaged, Owes
<1>3. {"work", "block"} \subseteq JobAt
  BY DEF JobAt
<1>4. CASE /\ Moves(s, "work") /\ wanted' = wanted /\ aged' = aged \ {i}
           /\ log' = [log EXCEPT ![i] = [running |-> job[s].op,
                                         older |-> @.older \/ @.running # "none"]]
  <2>1. Becomes(s, "work", job[s].settled, job[s].result)
    BY <1>2, <1>3, <1>4, MovesBecomes
  <2>2. /\ log' \in [Items -> [running : Ops \cup {"none"}, older : BOOLEAN]]
        /\ log'[i].running = job[s].op /\ \A k \in Items : k # i => log'[k] = log[k]
    BY <1>2, <1>4 DEF TypeOK
  <2>3. TypeOK'
    BY <1>1, <1>2, <1>3, <1>4, <2>1, <2>2, JobsTyped DEF TypeOK
  <2>4. i \notin muddled => Missing(i)' \subseteq Serves(job[s].op)
    <3>1. Missing(i)' = Missing(i)
      BY <1>1, <1>4 DEF Missing, Firm, Flipping
    <3> QED
      BY <1>2, <3>1, HasItem
  <2>5. i \notin muddled => Missing(i)' \subseteq
          IF OwesAs("work", job[s].settled, job[s].result) THEN Serves(job[s].op) ELSE {}
    BY <2>4 DEF OwesAs
  <2>6. \A k \in Items : labels[k] \subseteq labels'[k]
    BY <1>1
  <2>7. \A k \in Items : k # i => \A l \in wanted'[k] : l \in wanted[k] \/ l \in labels'[k] \ {"queued"}
    BY <1>4
  <2>8. \A t \in Slots : t # s /\ job[t].at = "close" => open'[job[t].on] = open[job[t].on]
    BY <1>1
  <2> QED
    BY <1>1, <1>3, <2>1, <2>2, <2>3, <2>5, <2>6, <2>7, <2>8, WorkingStep
<1>5. CASE Rejects(s) /\ Concluded(s) /\ log' = log /\ aged' = aged
  <2>1. Becomes(s, "block", job[s].settled, "failed")
    BY <1>2, <1>5, RejectsBecomes
  <2>2. TypeOK'
    BY <1>1, <1>2, <1>3, <1>5, <2>1, JobsTyped, ConcludedTypes DEF TypeOK
  <2>3. i \notin muddled => Missing(i)' = {}
    BY <1>1, <1>2, <1>5, ConcludedServes
  <2>4. \A k \in Items : wanted'[k] \subseteq wanted[k]
    BY <1>2, <1>5, ConcludedTypes
  <2> QED
    BY <1>1, <1>2, <1>3, <1>5, <2>1, <2>2, <2>3, <2>4, WorkingStep
<1> QED
  BY <1>2, <1>4, <1>5 DEF LogStart

LEMMA SameBecomes ==
  ASSUME TypeOK, NEW s \in Slots, job' = job
  PROVE  Becomes(s, job[s].at, job[s].settled, job[s].result)
BY DEF TypeOK, Becomes

\* The operation: what it changes is not what the jobs and labels are about.
LEMMA WorkStep ==
  ASSUME IInv, NEW s \in Slots, NEW op, Working(s, op), NEW a \in {"work", "close", "complete"},
         NEW r, Becomes(s, a, job[s].settled, r),
         labels' = labels, troubles' = troubles, reviewed' \subseteq Issues,
         total' \in [Issues -> 0..Children], open' \in [Issues -> 0..Children],
         \A k \in Issues : open'[k] <= total'[k],
         implemented' \subseteq Issues, draft' \subseteq PullRequests,
         a = "close" => op = "implement-spec" /\ open'[job[s].on] > 0,
         \A t \in Slots : t # s /\ job[t].at = "close" => open'[job[t].on] = open[job[t].on]
  PROVE  IInv'
<1> SUFFICES ASSUME NEW i, i = job[s].on
             PROVE  IInv'
  OBVIOUS
<1>1. /\ job[s].at = "work" /\ a \in JobAt /\ job[s].op = op /\ log' = log /\ aged' = aged
      /\ unreadable' = unreadable /\ session' = session /\ wanted' = wanted /\ seen' = seen
      /\ crashes' = crashes /\ edited' = edited /\ muddled' = muddled
  BY DEF Working, Job, JobAt, records
<1>2. i \in Items /\ i = On(s) /\ TypeOK /\ job[s].settled /\ Engaged(s) /\ Owes(s)
      /\ log[i].running \in Ops \cup {"none"}
  BY <1>1 DEF IInv, TypeOK, Busy, On, JobShape, Engaged, Owes
<1>3. TypeOK'
  BY <1>1, <1>2, JobsTyped DEF TypeOK
<1>4. i \notin muddled => Missing(i)' \subseteq Serves(job[s].op) /\ log[i].running = job[s].op
  <2>1. Missing(i)' = Missing(i)
    BY <1>1 DEF Missing, Firm, Flipping
  <2>2. i \notin muddled => Missing(i) \subseteq Serves(job[s].op) /\ log[i].running = job[s].op
    BY <1>1, <1>2, HasItem
  <2> QED
    BY <2>1, <2>2
<1>5. OwesAs(a, job[s].settled, r)
  BY DEF OwesAs
<1> QED
  BY <1>1, <1>2, <1>3, <1>4, <1>5, WorkingStep

\* The steps of an operation that do not have sub-issues to do with.
LEMMA PlainWorkStep ==
  ASSUME IInv, NEW s \in Slots, NEW op, Working(s, op),
         NEW a \in {"close", "complete"}, NEW r, Becomes(s, a, job[s].settled, r),
         labels' = labels, troubles' = troubles, reviewed' = reviewed,
         total' = total, open' = open, implemented' \subseteq Issues, draft' \subseteq PullRequests,
         a = "close" => op = "implement-spec" /\ open[job[s].on] > 0
  PROVE  IInv'
<1>1. /\ reviewed \subseteq Issues /\ total \in [Issues -> 0..Children]
      /\ open \in [Issues -> 0..Children] /\ \A k \in Issues : open[k] <= total[k]
  BY DEF IInv, TypeOK
<1> QED
  BY <1>1, WorkStep

LEMMA OutcomeStep ==
  ASSUME IInv, NEW s \in Slots, NEW op, Working(s, op), NEW r \in Results, Outcome(s, r),
         labels' = labels, troubles' = troubles, reviewed' = reviewed,
         total' = total, open' = open, implemented' \subseteq Issues, draft' \subseteq PullRequests
  PROVE  IInv'
<1>1. Becomes(s, "complete", job[s].settled, r)
  BY OutcomeBecomes DEF Outcome, JobAt, IInv
<1> QED
  BY <1>1, PlainWorkStep

LEMMA WorkTypes ==
  ASSUME IInv, NEW s \in Slots, job[s].at # "free"
  PROVE  /\ implemented \subseteq Issues /\ draft \subseteq PullRequests
         /\ {"ended", "failed", "blocked"} \subseteq Results
         /\ job[s].op \in IssueOps => job[s].on \in Issues
BY DEF IInv, TypeOK, Busy, Results

LEMMA RunImplementationStep ==
  ASSUME IInv, NEW s \in Slots, RunImplementation(s)
  PROVE  IInv'
<1>1. /\ Working(s, "implement-issue") /\ labels' = labels /\ troubles' = troubles
      /\ reviewed' = reviewed /\ total' = total /\ open' = open /\ draft' = draft
  BY DEF RunImplementation
<1>2. On(s) \in Issues
  BY <1>1, WorkTypes DEF Working, Job, On, IssueOps
<1>3. implemented' \subseteq Issues /\ draft' \subseteq PullRequests
  BY <1>1, <1>2, WorkTypes DEF RunImplementation, Working, Job
<1>4. \E r \in Results : Outcome(s, r)
  BY DEF RunImplementation, Breaks, Results
<1> QED
  BY <1>1, <1>3, <1>4, OutcomeStep

LEMMA RunFeedbackStep ==
  ASSUME IInv, NEW s \in Slots, RunFeedback(s)
  PROVE  IInv'
<1>1. /\ Working(s, "implement") /\ labels' = labels /\ troubles' = troubles
      /\ reviewed' = reviewed /\ total' = total /\ open' = open /\ draft' = draft
      /\ implemented' = implemented
  BY DEF RunFeedback, github
<1>2. implemented' \subseteq Issues /\ draft' \subseteq PullRequests
  BY <1>1, WorkTypes DEF Working, Job
<1>3. \E r \in Results : Outcome(s, r)
  BY DEF RunFeedback, Breaks, Results
<1> QED
  BY <1>1, <1>2, <1>3, OutcomeStep

LEMMA RunReviewStep ==
  ASSUME IInv, NEW s \in Slots, RunReview(s)
  PROVE  IInv'
<1>1. /\ Working(s, "review") /\ labels' = labels /\ troubles' = troubles
      /\ reviewed' = reviewed /\ total' = total /\ open' = open /\ implemented' = implemented
      /\ draft' \subseteq draft
  BY DEF RunReview
<1>2. implemented' \subseteq Issues /\ draft' \subseteq PullRequests
  BY <1>1, WorkTypes DEF Working, Job
<1>3. \E r \in Results : Outcome(s, r)
  BY DEF RunReview, Breaks, Results
<1> QED
  BY <1>1, <1>2, <1>3, OutcomeStep

LEMMA RunBranchUpdateStep ==
  ASSUME IInv, NEW s \in Slots, RunBranchUpdate(s)
  PROVE  IInv'
<1>1. /\ Working(s, "update-branch") /\ labels' = labels /\ troubles' = troubles
      /\ reviewed' = reviewed /\ total' = total /\ open' = open /\ draft' = draft
      /\ implemented' = implemented
  BY DEF RunBranchUpdate, github
<1>2. implemented' \subseteq Issues /\ draft' \subseteq PullRequests
  BY <1>1, WorkTypes DEF Working, Job
<1>3. \E r \in Results : Outcome(s, r)
  BY DEF RunBranchUpdate, Breaks, Results
<1> QED
  BY <1>1, <1>2, <1>3, OutcomeStep

\* No other job splits or implements the same Spec.
LEMMA OneOfASpec ==
  ASSUME IInv, NEW s \in Slots, job[s].at # "free", job[s].op \in {"split-spec", "implement-spec"},
         NEW t \in Slots, t # s, job[t].at = "close"
  PROVE  job[t].on # job[s].on
<1>1. job[t].op = "implement-spec"
  BY DEF IInv, JobShape
<1> QED
  BY <1>1 DEF IInv, OneJobPerIdentity, Busy, Identity

LEMMA RunSpecSplitStep ==
  ASSUME IInv, NEW s \in Slots, RunSpecSplit(s)
  PROVE  IInv'
<1> SUFFICES ASSUME NEW i, i = job[s].on
             PROVE  IInv'
  OBVIOUS
<1>1. /\ Working(s, "split-spec") /\ labels' = labels /\ troubles' = troubles
      /\ reviewed' = reviewed /\ draft' = draft /\ implemented' = implemented
      /\ job[s].at = "work" /\ job[s].op = "split-spec"
  BY DEF RunSpecSplit, Working, Job
<1>2. /\ i \in Issues /\ i = On(s) /\ implemented' \subseteq Issues /\ draft' \subseteq PullRequests
      /\ reviewed' \subseteq Issues /\ TypeOK
      /\ total \in [Issues -> 0..Children] /\ open \in [Issues -> 0..Children]
      /\ \A k \in Issues : open[k] <= total[k]
  BY <1>1, WorkTypes DEF IssueOps, On, IInv, TypeOK
<1>3. CASE Breaks(s) /\ total' = total /\ open' = open
  <2>1. \E r \in Results : Outcome(s, r)
    BY <1>3 DEF Breaks, Results
  <2> QED
    BY <1>1, <1>2, <1>3, <2>1, OutcomeStep
<1>4. CASE /\ total[i] < Children
           /\ total' = [total EXCEPT ![i] = @ + 1] /\ open' = [open EXCEPT ![i] = @ + 1]
           /\ Outcome(s, "ended") \/ UNCHANGED job
  <2>1. /\ total' \in [Issues -> 0..Children] /\ open' \in [Issues -> 0..Children]
        /\ \A k \in Issues : open'[k] <= total'[k]
    BY <1>2, <1>4, BoundsAssumption
  <2>2. \A t \in Slots : t # s /\ job[t].at = "close" => open'[job[t].on] = open[job[t].on]
    <3> SUFFICES ASSUME NEW t \in Slots, t # s, job[t].at = "close"
                 PROVE  open'[job[t].on] = open[job[t].on]
      OBVIOUS
    <3>1. job[t].on # i
      BY <1>1, <1>2, OneOfASpec
    <3>2. job[t].on \in Issues
      BY WorkTypes DEF IInv, JobShape, IssueOps
    <3> QED
      BY <1>2, <1>4, <3>1, <3>2
  <2>3. \E a \in {"work", "complete"}, r \in Results : Becomes(s, a, job[s].settled, r)
    <3>1. CASE Outcome(s, "ended")
      BY <1>2, <3>1, OutcomeBecomes DEF Outcome, JobAt, Results
    <3>2. CASE UNCHANGED job
      BY <1>1, <1>2, <3>2, SameBecomes, JobFields
    <3> QED
      BY <1>4, <3>1, <3>2
  <2> QED
    BY <1>1, <1>2, <2>1, <2>2, <2>3, WorkStep
<1> QED
  BY <1>2, <1>3, <1>4 DEF RunSpecSplit

LEMMA RunSpecImplementationStep ==
  ASSUME IInv, NEW s \in Slots, RunSpecImplementation(s)
  PROVE  IInv'
<1>1. /\ Working(s, "implement-spec") /\ labels' = labels /\ troubles' = troubles
      /\ reviewed' = reviewed /\ total' = total /\ open' = open /\ draft' = draft
      /\ implemented' = implemented /\ job[s].at = "work"
  BY DEF RunSpecImplementation, github, Working, Job
<1>2. implemented' \subseteq Issues /\ draft' \subseteq PullRequests
  BY <1>1, WorkTypes
<1>3. CASE \E r \in Results : Outcome(s, r)
  BY <1>1, <1>2, <1>3, OutcomeStep
<1>4. CASE open[job[s].on] > 0 /\ Moves(s, "close")
  <2>1. Becomes(s, "close", job[s].settled, job[s].result)
    BY <1>4, MovesBecomes DEF JobAt, IInv
  <2> QED
    BY <1>1, <1>2, <1>4, <2>1, PlainWorkStep
<1> QED
  BY <1>3, <1>4 DEF RunSpecImplementation, OpenChildren, On, Breaks, Results

LEMMA CloseChildStep ==
  ASSUME IInv, NEW s \in Slots, CloseChild(s)
  PROVE  IInv'
<1> SUFFICES ASSUME NEW i, i = job[s].on
             PROVE  IInv'
  OBVIOUS
<1>1. /\ job[s].at = "close" /\ labels' = labels /\ session' = session /\ seen' = seen
      /\ edited' = edited /\ muddled' = muddled /\ crashes' = crashes /\ wanted' = wanted
      /\ total' = total /\ implemented' = implemented /\ draft' = draft /\ log' = log
      /\ aged' = aged /\ unreadable' = unreadable /\ reviewed' = reviewed
      /\ troubles' \in 0..MaxTroubles
  BY Faults DEF CloseChild, Job, IInv, records
<1>2. /\ i = On(s) /\ TypeOK /\ job[s].settled /\ Engaged(s) /\ Owes(s) /\ i \in Items
      /\ job[s].op = "implement-spec" /\ open[i] > 0
  BY <1>1 DEF IInv, JobShape, Engaged, Owes, On, TypeOK, Busy
<1>3. i \in Issues
  BY <1>1, <1>2, WorkTypes DEF IssueOps
<1>4. /\ open' \in [Issues -> 0..Children] /\ \A k \in Issues : open'[k] <= total[k]
      /\ \A k \in Issues : k # i => open'[k] = open[k]
  <2>1. /\ open \in [Issues -> 0..Children] /\ \A k \in Issues : open[k] <= total[k]
        /\ total \in [Issues -> 0..Children]
    BY <1>2 DEF TypeOK
  <2>2. CASE open' = [open EXCEPT ![i] = @ - 1]
    BY <1>2, <1>3, <2>1, <2>2, BoundsAssumption
  <2> QED
    BY <1>2, <2>1, <2>2 DEF CloseChild
<1>5. PICK a \in {"continue", "complete"}, r \in Results : Becomes(s, a, job[s].settled, r)
  <2>1. CASE Moves(s, "continue")
    BY <1>2, <2>1, MovesBecomes, JobFields DEF JobAt
  <2>2. CASE Outcome(s, "blocked")
    BY <1>2, <2>2, OutcomeBecomes DEF Outcome, JobAt, Results
  <2> QED
    BY <2>1, <2>2 DEF CloseChild
<1>6. a \in JobAt /\ OwesAs(a, job[s].settled, r)
  BY DEF JobAt, OwesAs
<1>7. TypeOK'
  BY <1>1, <1>2, <1>4, <1>5, <1>6, JobsTyped DEF TypeOK
<1>8. i \notin muddled => Missing(i)' \subseteq Serves(job[s].op) /\ log[i].running = job[s].op
  <2>1. Missing(i)' = Missing(i)
    BY <1>1 DEF Missing, Firm, Flipping
  <2>2. i \notin muddled => Missing(i) \subseteq Serves(job[s].op) /\ log[i].running = job[s].op
    BY <1>1, <1>2, HasItem
  <2> QED
    BY <2>1, <2>2
<1>9. \A t \in Slots : t # s /\ job[t].at = "close" => open'[job[t].on] = open[job[t].on]
  <2> SUFFICES ASSUME NEW t \in Slots, t # s, job[t].at = "close"
               PROVE  open'[job[t].on] = open[job[t].on]
    OBVIOUS
  <2>1. job[t].on # i
    BY <1>1, <1>2, OneOfASpec
  <2>2. job[t].on \in Issues
    BY WorkTypes DEF IInv, JobShape, IssueOps
  <2> QED
    BY <1>4, <2>1, <2>2
<1> QED
  BY <1>1, <1>2, <1>5, <1>6, <1>7, <1>8, <1>9, WorkingStep

\* The trigger that a Spec's implementation adds, to the Spec or to the Pull Request.
LEMMA ContinueStep ==
  ASSUME IInv, NEW s \in Slots, Continue(s)
  PROVE  IInv'
<1> SUFFICES ASSUME NEW i, i = job[s].on
             PROVE  IInv'
  OBVIOUS
<1>1. /\ job[s].at = "continue" /\ session' = session /\ seen' = seen
      /\ edited' = edited /\ muddled' = muddled /\ crashes' = crashes
      /\ total' = total /\ open' = open /\ implemented' = implemented /\ draft' = draft
      /\ log' = log /\ aged' = aged /\ unreadable' = unreadable
      /\ troubles' \in 0..MaxTroubles
  BY Faults DEF Continue, Job, IInv, records, PutLost
<1>2. /\ i = On(s) /\ TypeOK /\ job[s].settled /\ Engaged(s) /\ Owes(s) /\ i \in Items
      /\ job[s].op = "implement-spec"
  BY <1>1 DEF IInv, JobShape, Engaged, Owes, On, TypeOK, Busy
<1>3. i \in Issues
  BY <1>1, <1>2, WorkTypes DEF IssueOps
<1>4. PICK k \in Items, l \in {"implement", "review"} :
        \/ /\ Put(k, l) /\ Outcome(s, "ended") /\ wanted' = [wanted EXCEPT ![k] = @ \cup {l}]
           /\ reviewed' \subseteq Issues
        \/ (Put(k, l) \/ labels' = labels) /\ Outcome(s, "blocked") /\ wanted' = wanted
           /\ reviewed' = reviewed
  <2>1. SharedPR[i] \in Items /\ reviewed \subseteq Issues
    BY <1>2, <1>3, ItemsAssumption DEF Items, TypeOK
  <2> QED
    BY <1>2, <1>3, <2>1 DEF Continue, PutLost
<1>5. l \in Labels /\ l \in Asking /\ l # "queued" /\ reviewed' \subseteq Issues
  BY <1>2, <1>4, LabelSets DEF Triggers, TypeOK
<1>6. /\ labels' \in [Items -> SUBSET Labels] /\ \A m \in Items : labels[m] \subseteq labels'[m]
  <2>1. labels \in [Items -> SUBSET Labels] /\ {l} \subseteq Labels
    BY <1>2, <1>5 DEF TypeOK
  <2>2. CASE labels' = [labels EXCEPT ![k] = @ \cup {l}]
    BY <2>1, <2>2
  <2>3. CASE labels' = labels
    BY <2>1, <2>3
  <2> QED
    BY <1>4, <2>2, <2>3 DEF Put
<1>7. /\ wanted' \in [Items -> SUBSET Asking]
      /\ \A m \in Items : \A x \in wanted'[m] : x \in wanted[m] \/ x \in labels'[m] \ {"queued"}
  <2>1. labels \in [Items -> SUBSET Labels] /\ wanted \in [Items -> SUBSET Asking]
    BY <1>2 DEF TypeOK
  <2> QED
    BY <1>4, <1>5, <2>1 DEF Put
<1>8. PICK r \in Results : Becomes(s, "complete", job[s].settled, r)
  BY <1>2, <1>4, OutcomeBecomes DEF Outcome, JobAt, Results
<1>9. "complete" \in JobAt /\ OwesAs("complete", job[s].settled, r)
  BY DEF JobAt, OwesAs
<1>10. TypeOK'
  BY <1>1, <1>2, <1>5, <1>6, <1>7, <1>8, <1>9, JobsTyped DEF TypeOK
<1>11. i \notin muddled => Missing(i)' \subseteq Serves(job[s].op) /\ log[i].running = job[s].op
  <2>1. Missing(i)' \subseteq Missing(i)
    <3>1. Flipping(i)' => Flipping(i)
      BY <1>1 DEF Flipping
    <3>2. \A x \in wanted'[i] : x \in wanted[i] \/ Firm(i, x)'
      BY <1>2, <1>7 DEF Firm
    <3> QED
      BY <1>2, <1>6, <3>1, <3>2, MissingShrinks
  <2>2. i \notin muddled => Missing(i) \subseteq Serves(job[s].op) /\ log[i].running = job[s].op
    BY <1>1, <1>2, HasItem
  <2> QED
    BY <2>1, <2>2
<1>12. \A m \in Items : m # i =>
         \A x \in wanted'[m] : x \in wanted[m] \/ x \in labels'[m] \ {"queued"}
  BY <1>7
<1>13. \A t \in Slots : t # s /\ job[t].at = "close" => open'[job[t].on] = open[job[t].on]
  BY <1>1
<1>14. i \notin muddled => Missing(i)' \subseteq
         IF OwesAs("complete", job[s].settled, r) THEN Serves(job[s].op) ELSE {}
  BY <1>9, <1>11
<1>15. i \notin muddled => log'[i].running = job[s].op
  BY <1>1, <1>11
<1>16. \A m \in Items : labels[m] \subseteq labels'[m]
  BY <1>6
<1>17. \A m \in Items : m # i => log'[m] = log[m]
  BY <1>1
<1> QED
  BY <1>1, <1>8, <1>9, <1>10, <1>12, <1>13, <1>14, <1>15, <1>16, <1>17, WorkingStep

LEMMA LogEndStep ==
  ASSUME IInv, NEW s \in Slots, LogEnd(s)
  PROVE  IInv'
<1> SUFFICES ASSUME NEW i, i = job[s].on
             PROVE  IInv'
  OBVIOUS
<1>1. /\ job[s].at = "complete" /\ labels' = labels /\ session' = session /\ seen' = seen
      /\ edited' = edited /\ muddled' = muddled /\ crashes' = crashes /\ open' = open
      /\ total' = total /\ implemented' = implemented /\ draft' = draft
      /\ aged' = aged /\ unreadable' = unreadable /\ reviewed' = reviewed
      /\ troubles' \in 0..MaxTroubles /\ Concluded(s)
  BY Faults DEF LogEnd, Job, IInv
<1>2. /\ i = On(s) /\ TypeOK /\ job[s].settled /\ Engaged(s) /\ i \in Items
  BY <1>1 DEF IInv, JobShape, Engaged, On, TypeOK, Busy
<1>3. PICK a \in {"release", "block"}, r \in Results : Becomes(s, a, job[s].settled, r)
  <2>1. CASE Moves(s, "release")
    BY <1>2, <2>1, MovesBecomes, JobFields DEF JobAt
  <2>2. CASE Moves(s, "block")
    BY <1>2, <2>2, MovesBecomes, JobFields DEF JobAt
  <2>3. CASE Rejects(s)
    BY <1>2, <2>3, RejectsBecomes DEF Results
  <2> QED
    BY <2>1, <2>2, <2>3 DEF LogEnd, Completed
<1>4. /\ log' \in [Items -> [running : Ops \cup {"none"}, older : BOOLEAN]]
      /\ \A k \in Items : k # i => log'[k] = log[k]
  <2>1. CASE log' = [log EXCEPT ![i].running = "none"]
    BY <1>2, <2>1 DEF TypeOK
  <2> QED
    BY <1>2, <2>1 DEF LogEnd, Completed, TypeOK
<1>5. a \in JobAt /\ a \notin {"work", "close", "continue", "complete"}
  BY DEF JobAt
<1>6. TypeOK'
  BY <1>1, <1>2, <1>3, <1>4, <1>5, JobsTyped, ConcludedTypes DEF TypeOK
<1>7. i \notin muddled => Missing(i)' = {}
  BY <1>1, <1>2, ConcludedServes
<1>8. \A k \in Items : k # i =>
        \A l \in wanted'[k] : l \in wanted[k] \/ l \in labels'[k] \ {"queued"}
  BY <1>1, <1>2, ConcludedTypes
<1>9. \A k \in Items : labels[k] \subseteq labels'[k]
  BY <1>1
<1>10. \A t \in Slots : t # s /\ job[t].at = "close" => open'[job[t].on] = open[job[t].on]
  BY <1>1
<1> QED
  BY <1>1, <1>3, <1>4, <1>5, <1>6, <1>7, <1>8, <1>9, <1>10, WorkingStep

\* What the end of a job leaves to the record: nothing is missing, or what is
\* missing is what the record restores.
LEMMA LeftToRecord ==
  ASSUME IInv, NEW s \in Slots, Engaged(s), NEW i, i = job[s].on, i \notin muddled,
         ~(HasTaken(s) /\ Misled(s))
  PROVE  /\ Missing(i) # {} => "in-progress" \in labels[i]
         /\ log[i].running = "none" \/ Missing(i) \subseteq Serves(log[i].running)
<1>1. /\ i \in Items /\ job[s].op \in Ops /\ i = On(s) /\ Missing(i) \subseteq Serves(job[s].op)
      /\ ~Owes(s) => Missing(i) = {}
      /\ job[s].at # "claim" => "in-progress" \in labels[i]
      /\ job[s].at \in {"work", "close", "continue", "complete"} => log[i].running = job[s].op
  BY HasItem DEF On
<1>2. Missing(i) # {} => "in-progress" \in labels[i]
  BY <1>1 DEF Owes
<1>3. CASE ~Owes(s) \/ Trigger(job[s].op) \in labels[i]
  BY <1>1, <1>2, <1>3, OwnIsSeen
<1>4. CASE job[s].at \in {"work", "close", "continue", "complete"}
  BY <1>1, <1>2, <1>4
<1>5. CASE /\ Trigger(job[s].op) \notin labels[i] /\ Owes(s)
           /\ job[s].at \notin {"work", "close", "continue", "complete"}
  <2>1. HasTaken(s)
    BY <1>1, <1>5 DEF HasTaken, Own, Owes, Dangling
  <2>2. log[i].running = "none" \/ Trigger(log[i].running) = Trigger(job[s].op)
    BY <1>1, <2>1 DEF Misled, Own
  <2> QED
    BY <1>1, <1>2, <2>2 DEF Serves
<1> QED
  BY <1>3, <1>4, <1>5

LEMMA FreeJob ==
  ASSUME TypeOK
  PROVE  Free \in Jobs /\ Free.at = "free" /\ Free.result = "none"
         /\ \A s \in Slots : job[s] \in Jobs
BY DEF Free, Jobs, TypeOK

\* A slot that is freed has lost its job: nothing but a record that misleads
\* keeps what it has taken from being restored.
LEMMA DoneStep ==
  ASSUME IInv, NEW s \in Slots, Done(s)
  PROVE  IInv'
<1> SUFFICES ASSUME NEW i, i = job[s].on
             PROVE  IInv'
  OBVIOUS
<1>1. /\ job[s].at = "done" /\ labels' = labels /\ seen' = seen /\ edited' = edited
      /\ wanted' = wanted /\ log' = log /\ crashes' = crashes /\ open' = open
      /\ total' = total /\ implemented' = implemented /\ draft' = draft /\ aged' = aged
      /\ unreadable' = unreadable /\ reviewed' = reviewed /\ troubles' = troubles
      /\ job' = [job EXCEPT ![s] = Free]
  BY DEF Done, github, records, bounds
<1>2. i \in Items /\ i = On(s) /\ TypeOK /\ s \in Busy(job)
  BY <1>1 DEF IInv, TypeOK, Busy, On
<1>3. /\ job' \in [Slots -> Jobs] /\ job'[s] = Free /\ Free.at = "free" /\ Free.result = "none"
      /\ \A t \in Slots : t # s => job'[t] = job[t]
  BY <1>1, <1>2, FreeJob DEF TypeOK
<1>4. \A t \in Busy(job') : t \in Busy(job) /\ job'[t] = job[t]
  BY <1>3 DEF Busy
<1>5. /\ muddled \subseteq muddled' /\ muddled' \subseteq Items
      /\ HasTaken(s) /\ Misled(s) => i \in muddled'
  BY <1>2 DEF Done, Leaves, TypeOK
<1>6. /\ session' \in Sessions /\ session'.at = session.at /\ session'.first = session.first
      /\ session'.repaired = session.repaired /\ session'.todo = session.todo
      /\ session'.now = session.now /\ session'.step = session.step
      /\ session'.raced = (session.at = "list")
  <2>1. session \in Sessions /\ Wakes \in BOOLEAN
    BY <1>2 DEF TypeOK, Wakes
  <2>2. session' = [session EXCEPT !.woken = Wakes, !.raced = (session.at = "list")]
    BY DEF Done
  <2>3. session' \in Sessions
    BY <2>1, <2>2, Zenon DEF Sessions
  <2> QED
    BY <2>1, <2>2, <2>3 DEF Sessions
<1>7. TypeOK'
  <2>1. \A t \in Busy(job') : /\ job'[t].on \in Items /\ job'[t].op \in Ops
                              /\ job'[t].op \in IssueOps <=> job'[t].on \in Issues
    BY <1>2, <1>4, Zenon DEF TypeOK
  <2> QED
    BY <1>1, <1>2, <1>3, <1>5, <1>6, <2>1 DEF TypeOK
<1>8. OneJobPerIdentity'
  BY <1>4, Zenon DEF IInv, OneJobPerIdentity
<1>9. session.at \notin {"off", "first", "recover"}
  BY <1>2 DEF IInv, SessionShape
<1>10. SessionShape' /\ Listings'
  BY <1>1, <1>6, <1>9 DEF IInv, SessionShape, Listings
<1>11. JobShape'
  BY <1>1, <1>3 DEF IInv, JobShape
<1>12. /\ \A t \in Slots : t # s =>
             (Engaged(t)' <=> Engaged(t)) /\ (Active(t)' <=> Active(t)) /\ (Owes(t)' <=> Owes(t))
       /\ ~Engaged(s)' /\ ~Active(s)'
  BY <1>3 DEF Engaged, Active, Owes, Dangling
<1>13. Ownership'
  <2> SUFFICES ASSUME NEW t \in Slots, job'[t].on \notin muddled'
               PROVE  /\ job'[t].at \in {"work", "close", "continue", "complete"} =>
                           log'[job'[t].on].running = job'[t].op
                      /\ Engaged(t)' /\ job'[t].at # "claim" => "in-progress" \in labels'[job'[t].on]
                      /\ \A u \in Slots : job'[u].on = job'[t].on =>
                           \/ t = u
                           \/ ~(Active(t)' /\ Active(u)') /\ ~(Engaged(t)' /\ Engaged(u)')
    BY DEF Ownership
  <2>1. CASE t = s
    BY <1>3, <1>12, <2>1
  <2>2. CASE t # s
    <3>1. job'[t] = job[t] /\ job[t].on \notin muddled
      BY <1>3, <1>5, <2>2
    <3>2. \A u \in Slots : job'[u].on = job[t].on =>
            t = u \/ (~(Active(t)' /\ Active(u)') /\ ~(Engaged(t)' /\ Engaged(u)'))
      BY <1>3, <1>12, <2>2, <3>1 DEF IInv, Ownership
    <3> QED
      BY <1>1, <1>12, <2>2, <3>1, <3>2 DEF IInv, Ownership
  <2> QED
    BY <2>1, <2>2
<1>14. \A k \in Items : Missing(k)' = Missing(k)
  BY <1>1, <1>6 DEF Missing, Firm, Flipping
<1>15. Accounted'
  <2>1. ASSUME NEW k \in Items \ muddled', NEW t \in Slots, Engaged(t)', job'[t].on = k
        PROVE  Missing(k)' \subseteq IF Owes(t)' THEN Serves(job'[t].op) ELSE {}
    <3>1. t # s /\ Engaged(t) /\ k \notin muddled /\ job[t].on = k /\ job'[t] = job[t]
      BY <1>3, <1>5, <1>12, <2>1
    <3> QED
      BY <1>12, <1>14, <3>1 DEF IInv, Accounted
  <2>2. ASSUME NEW k \in Items \ muddled', \A t \in Slots : Engaged(t)' => job'[t].on # k,
               Missing(k)' # {}
        PROVE  /\ labels'[k] \cap {"in-progress", "blocked"} # {}
               /\ log'[k].running = "none" \/ Missing(k)' \subseteq Serves(log'[k].running)
    <3>1. k \notin muddled /\ Missing(k)' = Missing(k)
      BY <1>5, <1>14
    <3>2. CASE Engaged(s) /\ k = i
      <4>1. ~(HasTaken(s) /\ Misled(s))
        BY <1>5, <3>2
      <4> QED
        BY <1>1, <2>2, <3>1, <3>2, <4>1, LeftToRecord
    <3>3. CASE ~(Engaged(s) /\ k = i)
      <4>1. \A t \in Slots : Engaged(t) => job[t].on # k
        BY <1>3, <1>12, <2>2, <3>3
      <4> QED
        BY <1>1, <2>2, <3>1, <4>1 DEF IInv, Accounted
    <3> QED
      BY <3>2, <3>3
  <2> QED
    BY <2>1, <2>2 DEF Accounted
<1> QED
  BY <1>7, <1>8, <1>10, <1>11, <1>13, <1>15 DEF IInv

LEMMA JobStepKeeps ==
  ASSUME IInv, NEW s \in Slots, JobStep(s)
  PROVE  IInv'
BY ReadAvailableStep, ClaimStep, AcquireStep, RemoveTriggerStep, SettleStep, LogStartStep,
   RunImplementationStep, RunFeedbackStep, RunReviewStep, RunBranchUpdateStep,
   RunSpecSplitStep, RunSpecImplementationStep, CloseChildStep, ContinueStep, LogEndStep,
   BlockStep, ReleaseStep, DoneStep
   DEF JobStep

-----------------------------------------------------------------------------
(* What surrounds the Dispatcher.                                           *)

LEMMA OffSession ==
  /\ Off \in Sessions /\ Off.at = "off" /\ Off.first /\ Off.repaired = {} /\ Off.todo = {}
  /\ Off.now = {} /\ Off.step = 0
BY DEF Off, Sessions

\* A step that leaves the jobs alone: the labels that stop a Work Item stay, and
\* no more is missing, but where no job is.
LEMMA JobsRest ==
  ASSUME IInv, job' = job, muddled' = muddled, log' = log,
         \A k \in Items \ muddled :
           \/ /\ labels[k] \cap {"in-progress", "blocked"} \subseteq labels'[k]
              /\ Missing(k)' \subseteq Missing(k)
           \/ /\ \A s \in Slots : job[s].on # k \/ job[s].at = "free"
              /\ Missing(k)' = {}
  PROVE  OneJobPerIdentity' /\ Ownership' /\ Accounted'
<1>1. /\ \A s \in Slots : (Engaged(s)' <=> Engaged(s)) /\ (Active(s)' <=> Active(s))
      /\ \A s \in Slots : Owes(s)' <=> Owes(s)
  BY DEF Engaged, Active, Owes, Dangling
<1>2. OneJobPerIdentity'
  BY DEF IInv, OneJobPerIdentity
<1>3. Ownership'
  <2> SUFFICES ASSUME NEW s \in Slots, job'[s].on \notin muddled'
               PROVE  /\ job'[s].at \in {"work", "close", "continue", "complete"} =>
                           log'[job'[s].on].running = job'[s].op
                      /\ Engaged(s)' /\ job'[s].at # "claim" => "in-progress" \in labels'[job'[s].on]
                      /\ \A t \in Slots : job'[t].on = job'[s].on =>
                           \/ s = t
                           \/ ~(Active(s)' /\ Active(t)') /\ ~(Engaged(s)' /\ Engaged(t)')
    BY DEF Ownership
  <2>1. Engaged(s) => job[s].on \in Items /\ job[s].at # "free"
    BY DEF IInv, TypeOK, Busy, Engaged
  <2>2. Engaged(s) /\ job[s].at # "claim" => "in-progress" \in labels'[job[s].on]
    BY <2>1 DEF IInv, Ownership
  <2>3. \A t \in Slots : job[t].on = job[s].on =>
          \/ s = t
          \/ ~(Active(s)' /\ Active(t)') /\ ~(Engaged(s)' /\ Engaged(t)')
    BY <1>1 DEF IInv, Ownership
  <2> QED
    BY <1>1, <2>2, <2>3 DEF IInv, Ownership
<1>4. Accounted'
  <2>1. ASSUME NEW k \in Items \ muddled', NEW s \in Slots, Engaged(s)', job'[s].on = k
        PROVE  Missing(k)' \subseteq IF Owes(s)' THEN Serves(job'[s].op) ELSE {}
    <3>1. Engaged(s) /\ job[s].at # "free"
      BY <1>1, <2>1 DEF Engaged
    <3>2. Missing(k)' \subseteq Missing(k)
      BY <2>1, <3>1
    <3>3. Missing(k) \subseteq IF Owes(s) THEN Serves(job[s].op) ELSE {}
      BY <2>1, <3>1 DEF IInv, Accounted
    <3> QED
      BY <1>1, <3>2, <3>3
  <2>2. ASSUME NEW k \in Items \ muddled', \A s \in Slots : Engaged(s)' => job'[s].on # k,
               Missing(k)' # {}
        PROVE  /\ labels'[k] \cap {"in-progress", "blocked"} # {}
               /\ log'[k].running = "none" \/ Missing(k)' \subseteq Serves(log'[k].running)
    <3>1. /\ labels[k] \cap {"in-progress", "blocked"} \subseteq labels'[k]
          /\ Missing(k)' \subseteq Missing(k)
      BY <2>2
    <3>2. \A s \in Slots : Engaged(s) => job[s].on # k
      BY <1>1, <2>2
    <3>3. /\ labels[k] \cap {"in-progress", "blocked"} # {}
          /\ log[k].running = "none" \/ Missing(k) \subseteq Serves(log[k].running)
      BY <2>2, <3>1, <3>2 DEF IInv, Accounted
    <3> QED
      BY <3>1, <3>3
  <2> QED
    BY <2>1, <2>2 DEF Accounted
<1> QED
  BY <1>2, <1>3, <1>4

\* Death takes all jobs; what they had taken is in their records.
LEMMA CrashStep ==
  ASSUME IInv, Crash
  PROVE  IInv'
<1>1. /\ labels' = labels /\ seen' = seen /\ edited' = edited
      /\ wanted' = wanted /\ log' = log /\ open' = open
      /\ total' = total /\ implemented' = implemented /\ draft' = draft /\ aged' = aged
      /\ reviewed' = reviewed /\ troubles' = troubles
      /\ session' = Off /\ job' = [s \in Slots |-> Free]
      /\ crashes < MaxCrashes /\ crashes' = crashes + 1
  BY DEF Crash, github
<1>2. TypeOK /\ Free \in Jobs /\ Free.at = "free" /\ Free.result = "none"
  BY FreeJob DEF IInv
<1>3. job' \in [Slots -> Jobs] /\ \A s \in Slots : job'[s].at = "free" /\ job'[s].result = "none"
  BY <1>1, <1>2
<1>4. Busy(job') = {} /\ \A s \in Slots : ~Engaged(s)' /\ ~Active(s)'
  BY <1>3 DEF Busy, Engaged, Active, Dangling
<1>5. /\ muddled \subseteq muddled' /\ muddled' \subseteq Items
      /\ \A s \in Busy(job) : HasTaken(s) /\ Misled(s) => On(s) \in muddled'
  BY <1>2 DEF Crash, Leaves, TypeOK, On
<1>6. unreadable' \in BOOLEAN /\ crashes' \in 0..MaxCrashes
  <2>1. unreadable' \in BOOLEAN
    BY <1>2, Zenon DEF Crash, TypeOK
  <2>2. crashes' \in 0..MaxCrashes
    BY <1>1, <1>2, BoundsAssumption DEF TypeOK
  <2> QED
    BY <2>1, <2>2
<1>7. TypeOK'
  BY <1>1, <1>2, <1>3, <1>4, <1>5, <1>6, OffSession DEF TypeOK
<1>8. OneJobPerIdentity'
  BY <1>4 DEF OneJobPerIdentity
<1>9. SessionShape' /\ Listings'
  BY <1>1, <1>4, OffSession DEF SessionShape, Listings
<1>10. JobShape' /\ Ownership'
  BY <1>3, <1>4 DEF JobShape, Ownership
<1>11. Accounted'
  <2>1. ASSUME NEW k \in Items \ muddled', Missing(k)' # {}
        PROVE  /\ labels'[k] \cap {"in-progress", "blocked"} # {}
               /\ log'[k].running = "none" \/ Missing(k)' \subseteq Serves(log'[k].running)
    <3>1. k \notin muddled /\ Missing(k)' \subseteq Missing(k)
      BY <1>1, <1>5, OffSession DEF Missing, Firm, Flipping
    <3>2. CASE \E s \in Slots : Engaged(s) /\ job[s].on = k
      <4>1. PICK s \in Slots : Engaged(s) /\ job[s].on = k
        BY <3>2
      <4>2. ~(HasTaken(s) /\ Misled(s))
        BY <1>5, <4>1 DEF Busy, Engaged, On
      <4>3. /\ Missing(k) # {} => "in-progress" \in labels[k]
            /\ log[k].running = "none" \/ Missing(k) \subseteq Serves(log[k].running)
        BY <3>1, <4>1, <4>2, LeftToRecord
      <4> QED
        BY <1>1, <2>1, <3>1, <4>3
    <3>3. CASE \A s \in Slots : Engaged(s) => job[s].on # k
      <4>1. /\ labels[k] \cap {"in-progress", "blocked"} # {}
            /\ log[k].running = "none" \/ Missing(k) \subseteq Serves(log[k].running)
        BY <2>1, <3>1, <3>3 DEF IInv, Accounted
      <4> QED
        BY <1>1, <3>1, <4>1
    <3> QED
      BY <3>2, <3>3
  <2> QED
    BY <1>4, <2>1 DEF Accounted
<1> QED
  BY <1>7, <1>8, <1>9, <1>10, <1>11 DEF IInv

LEMMA AgeStep ==
  ASSUME IInv, Age
  PROVE  IInv'
<1>1. /\ labels' = labels /\ seen' = seen /\ edited' = edited
      /\ wanted' = wanted /\ log' = log /\ open' = open
      /\ total' = total /\ implemented' = implemented /\ draft' = draft
      /\ reviewed' = reviewed /\ troubles' = troubles /\ session' = session /\ job' = job
      /\ crashes' = crashes /\ muddled' = muddled /\ unreadable' = unreadable
  BY DEF Age, github, jobs, bounds
<1>2. TypeOK'
  <2>1. aged' \subseteq Items
    BY DEF Age, IInv, TypeOK
  <2> QED
    BY <1>1, <2>1 DEF IInv, TypeOK
<1>3. SessionShape' /\ Listings' /\ JobShape'
  BY <1>1 DEF IInv, SessionShape, Listings, JobShape
<1>4. \A k \in Items : Missing(k)' = Missing(k)
  BY <1>1 DEF Missing, Firm, Flipping
<1>5. OneJobPerIdentity' /\ Ownership' /\ Accounted'
  BY <1>1, <1>4, JobsRest
<1> QED
  BY <1>2, <1>3, <1>5 DEF IInv

\* People ask for more, or ask again where no job is.
LEMMA EditStep ==
  ASSUME IInv, Edit
  PROVE  IInv'
<1>1. /\ seen' = seen /\ log' = log /\ open' = open /\ total' = total
      /\ implemented' = implemented /\ draft' = draft /\ aged' = aged
      /\ unreadable' = unreadable /\ reviewed' = reviewed /\ session' = session /\ job' = job
      /\ crashes' = crashes /\ muddled' = muddled /\ troubles' \in 0..MaxTroubles
  BY Faults DEF Edit, records, jobs, IInv
<1>2. PICK i \in Items :
        /\ \/ \E l \in Labels \ labels[i] :
                Put(i, l) /\ wanted' = [wanted EXCEPT ![i] = @ \cup ({l} \cap Asking)]
           \/ \E l \in Triggers : Retries(i, l)
        /\ edited' = IF session.at = "list" THEN edited \cup {i} ELSE edited
  BY DEF Edit
<1>3. /\ TypeOK /\ labels \in [Items -> SUBSET Labels] /\ wanted \in [Items -> SUBSET Asking]
      /\ Asking \subseteq Labels /\ Triggers \subseteq Asking
  BY LabelSets DEF IInv, TypeOK
<1>4. /\ labels' \in [Items -> SUBSET Labels] /\ wanted' \in [Items -> SUBSET Asking]
      /\ \A k \in Items : k # i => labels'[k] = labels[k] /\ wanted'[k] = wanted[k]
      /\ labels[i] \cap Asking \subseteq labels'[i]
      /\ \/ /\ labels[i] \subseteq labels'[i]
            /\ \A l \in wanted'[i] : l \in wanted[i] \/ l \in labels'[i] \ labels[i]
         \/ /\ \A s \in Slots : job[s].on # i
            /\ wanted'[i] \subseteq labels'[i] \cap Triggers
  <2>1. CASE \E l \in Labels \ labels[i] :
               Put(i, l) /\ wanted' = [wanted EXCEPT ![i] = @ \cup ({l} \cap Asking)]
    BY <1>3, <2>1 DEF Put
  <2>2. CASE \E l \in Triggers : Retries(i, l)
    <3>1. PICK l \in Triggers : Retries(i, l)
      BY <2>2
    <3>2. labels' = [labels EXCEPT ![i] = (labels[i] \ {"blocked", "in-progress"}) \cup {l}]
      BY <3>1, <1>3 DEF Retries
    <3>3. wanted' = [wanted EXCEPT ![i] = labels'[i] \cap Triggers]
      BY <3>1 DEF Retries
    <3>4. \A s \in Slots : job[s].on # i
      BY <3>1 DEF Retries
    <3>5. "blocked" \notin Asking /\ "in-progress" \notin Asking
      BY LabelSets
    <3> QED
      BY <1>3, <3>2, <3>3, <3>4, <3>5
  <2> QED
    BY <1>2, <2>1, <2>2
<1>5. TypeOK'
  <2>1. edited' \subseteq Items
    BY <1>2, <1>3 DEF TypeOK
  <2> QED
    BY <1>1, <1>3, <1>4, <2>1 DEF TypeOK
<1>6. JobShape'
  BY <1>1 DEF IInv, JobShape
<1>7. \A k \in Items : labels[k] \cap Asking \subseteq labels'[k]
  BY <1>4
<1>8. SessionShape'
  <2>1. session.at = "scan" => \A k \in session.now : session.step \in {0, 1} =>
          "queued" \in labels'[k]
    BY <1>7, LabelSets DEF IInv, SessionShape, Items
  <2> QED
    BY <1>1, <2>1 DEF IInv, SessionShape
<1>9. Listings'
  <2>1. session.at \in {"first", "recover"} =>
          \A k \in Items : seen[k] \cap Triggers \subseteq labels'[k]
    BY <1>3, <1>7 DEF IInv, Listings
  <2>2. session.at = "recover" /\ session.step = 1 =>
          \A k \in session.now : Trigger(log[k].running) \in labels'[k]
    <3> SUFFICES ASSUME session.at = "recover", session.step = 1, NEW k \in session.now
                 PROVE  Trigger(log[k].running) \in labels'[k]
      OBVIOUS
    <3>1. k \in Items /\ log[k].running \in Ops
      BY <1>3 DEF IInv, SessionShape, TypeOK, Sessions
    <3>2. Trigger(log[k].running) \in labels[k] \cap Asking
      BY <3>1, LabelSets DEF IInv, Listings
    <3> QED
      BY <1>7, <3>1, <3>2
  <2>3. session.at = "list" /\ ~session.raced /\ Busy(job) = {} =>
          \A k \in Items \ edited' : seen[k] # Unread => seen[k] = labels'[k]
    BY <1>2, <1>4 DEF IInv, Listings
  <2> QED
    BY <1>1, <2>1, <2>2, <2>3 DEF Listings
<1>10. \A k \in Items :
         \/ /\ labels[k] \cap {"in-progress", "blocked"} \subseteq labels'[k]
            /\ Missing(k)' \subseteq Missing(k)
         \/ (\A s \in Slots : job[s].on # k) /\ Missing(k)' = {}
  <2> SUFFICES ASSUME NEW k \in Items
               PROVE  \/ /\ labels[k] \cap {"in-progress", "blocked"} \subseteq labels'[k]
                         /\ Missing(k)' \subseteq Missing(k)
                      \/ (\A s \in Slots : job[s].on # k) /\ Missing(k)' = {}
    OBVIOUS
  <2>1. Flipping(k)' <=> Flipping(k)
    BY <1>1 DEF Flipping
  <2>2. CASE k # i
    <3>1. Missing(k)' = Missing(k)
      BY <1>4, <2>1, <2>2 DEF Missing, Firm
    <3> QED
      BY <1>4, <2>2, <3>1
  <2>3. CASE k = i /\ labels[i] \subseteq labels'[i]
                   /\ \A l \in wanted'[i] : l \in wanted[i] \/ l \in labels'[i] \ labels[i]
    <3>1. "queued" \in labels'[i] \ labels[i] => ~Flipping(i)
      BY DEF Flipping, IInv, SessionShape
    <3>2. \A l \in wanted'[i] : l \in wanted[i] \/ Firm(i, l)'
      BY <2>1, <2>3, <3>1 DEF Firm
    <3> QED
      BY <2>1, <2>3, <3>2, MissingShrinks
  <2>4. CASE k = i /\ (\A s \in Slots : job[s].on # i)
                   /\ wanted'[i] \subseteq labels'[i] \cap Triggers
    BY <2>4, LabelSets DEF Missing, Firm
  <2> QED
    BY <1>4, <2>2, <2>3, <2>4
<1>11. OneJobPerIdentity' /\ Ownership' /\ Accounted'
  BY <1>1, <1>10, JobsRest
<1> QED
  BY <1>5, <1>6, <1>8, <1>9, <1>11 DEF IInv

-----------------------------------------------------------------------------
(* The steps of a session.                                                  *)

\* A session changes labels and what it knows itself; jobs go on.
SessionFrame ==
  /\ total' = total /\ open' = open /\ implemented' = implemented /\ draft' = draft
  /\ log' = log /\ aged' = aged /\ unreadable' = unreadable /\ crashes' = crashes
  /\ reviewed' = reviewed /\ wanted' = wanted
Rests == job' = job /\ muddled' = muddled

LEMMA SessionTypes ==
  ASSUME IInv, SessionFrame, Rests, labels' \in [Items -> SUBSET Labels],
         session' \in Sessions, seen' \in [Items -> {Unread} \cup SUBSET Labels],
         troubles' \in 0..MaxTroubles, edited' \subseteq Items
  PROVE  TypeOK' /\ JobShape'
<1>1. TypeOK'
  BY DEF IInv, TypeOK, SessionFrame, Rests
<1>2. JobShape'
  BY DEF IInv, JobShape, SessionFrame, Rests
<1> QED
  BY <1>1, <1>2

LEMMA FreshListing ==
  ASSUME Listing
  PROVE  /\ seen' \in [Items -> {Unread} \cup SUBSET Labels] /\ edited' \subseteq Items
         /\ \A i \in Items : seen'[i] = Unread /\ seen'[i] \cap Triggers = {}
<1>1. Unread \cap Triggers = {}
  BY DEF Unread, Triggers
<1>2. seen' = [i \in Items |-> Unread] /\ edited' = {}
  BY DEF Listing
<1>3. \A i \in Items : seen'[i] = Unread /\ seen'[i] \cap Triggers = {}
  BY <1>1, <1>2
<1>4. seen' \in [Items -> {Unread} \cup SUBSET Labels]
  BY <1>2
<1> QED
  BY <1>2, <1>3, <1>4

LEMMA NoTroubles ==
  ASSUME IInv, troubles' = troubles
  PROVE  troubles' \in 0..MaxTroubles
BY DEF IInv, TypeOK

LEMMA StartSessionStep ==
  ASSUME IInv, StartSession
  PROVE  IInv'
<1>1. /\ SessionFrame /\ Rests /\ labels' = labels /\ troubles' = troubles /\ Listing
      /\ session.at = "off" /\ session' = [Off EXCEPT !.at = "first"]
  BY DEF StartSession, Session, SessionFrame, Rests, records, jobs
<1>2. /\ session' \in Sessions /\ session'.at = "first" /\ session'.first
      /\ session'.now = {} /\ session'.step = 0
  <2>1. session' \in Sessions
    BY <1>1, OffSession, Zenon DEF Sessions
  <2> QED
    BY <1>1, <2>1 DEF Off
<1>3. labels' \in [Items -> SUBSET Labels]
  BY <1>1 DEF IInv, TypeOK
<1>4. TypeOK' /\ JobShape'
  BY <1>1, <1>2, <1>3, SessionTypes, FreshListing, NoTroubles
<1>5. SessionShape'
  BY <1>1, <1>2 DEF IInv, SessionShape, Rests
<1>6. Listings'
  BY <1>2, <1>1, FreshListing DEF Listings
<1>7. \A k \in Items : Missing(k)' = Missing(k)
  BY <1>1, <1>2 DEF Missing, Firm, Flipping, SessionFrame
<1>8. OneJobPerIdentity' /\ Ownership' /\ Accounted'
  BY <1>1, <1>7, JobsRest DEF Rests, SessionFrame
<1> QED
  BY <1>4, <1>5, <1>6, <1>8 DEF IInv

LEMMA ReadItemStep ==
  ASSUME IInv, ReadItem
  PROVE  IInv'
<1>1. /\ SessionFrame /\ Rests /\ labels' = labels /\ troubles' = troubles
      /\ session' = session /\ edited' = edited /\ session.at \in {"first", "list"}
  BY DEF ReadItem, Session, SessionFrame, Rests, records, jobs
<1>2. PICK i \in Items : seen[i] = Unread /\ seen' = [seen EXCEPT ![i] = labels[i]]
  BY DEF ReadItem
<1>3. /\ labels \in [Items -> SUBSET Labels] /\ seen \in [Items -> {Unread} \cup SUBSET Labels]
      /\ session \in Sessions /\ edited \subseteq Items
  BY DEF IInv, TypeOK
<1>4. TypeOK' /\ JobShape'
  BY <1>1, <1>2, <1>3, SessionTypes, NoTroubles
<1>5. SessionShape'
  BY <1>1 DEF IInv, SessionShape, Rests, SessionFrame
<1>6. Listings'
  BY <1>1, <1>2, <1>3 DEF IInv, Listings, Rests
<1>7. \A k \in Items : Missing(k)' = Missing(k)
  BY <1>1 DEF Missing, Firm, Flipping, SessionFrame
<1>8. OneJobPerIdentity' /\ Ownership' /\ Accounted'
  BY <1>1, <1>7, JobsRest DEF Rests, SessionFrame
<1> QED
  BY <1>4, <1>5, <1>6, <1>8 DEF IInv

LEMMA FirstListedStep ==
  ASSUME IInv, FirstListed
  PROVE  IInv'
<1>1. /\ SessionFrame /\ Rests /\ labels' = labels /\ seen' = seen /\ edited' = edited
      /\ session.at = "first" /\ troubles' \in 0..MaxTroubles
  BY Faults DEF FirstListed, Session, SessionFrame, Rests, records, jobs, IInv
<1>2. PICK todo \in SUBSET Items :
        /\ \A i \in todo : log[i].running # "none"
        /\ \/ session' = [session EXCEPT !.at = "recover", !.todo = todo]
           \/ session' = Off
  <2>1. \A i : Interrupted(i) => log[i].running # "none"
    BY DEF Interrupted
  <2> QED
    <3> DEFINE found == IF unreadable THEN {} ELSE {i \in Items : Interrupted(i)}
    <3>1. found \in SUBSET Items /\ \A i \in found : log[i].running # "none"
      BY <2>1
    <3>2. session' = [session EXCEPT !.at = "recover", !.todo = found] \/ session' = Off
      BY Zenon DEF FirstListed
    <3> HIDE DEF found
    <3> QED
      BY <3>1, <3>2, Zenon
<1>3. /\ labels \in [Items -> SUBSET Labels] /\ seen \in [Items -> {Unread} \cup SUBSET Labels]
      /\ session \in Sessions /\ edited \subseteq Items
      /\ session.first /\ session.now = {} /\ session.step = 0 /\ Busy(job) = {}
  BY <1>1 DEF IInv, TypeOK, SessionShape
<1>4. /\ session' \in Sessions
      /\ \/ /\ session'.at = "recover" /\ session'.todo = todo /\ session'.first
            /\ session'.now = {} /\ session'.step = 0
         \/ session'.at = "off"
  <2>1. CASE session' = [session EXCEPT !.at = "recover", !.todo = todo]
    <3>1. session' \in Sessions
      BY <1>3, <2>1, Zenon DEF Sessions
    <3> QED
      BY <1>3, <2>1, <3>1 DEF Sessions
  <2> QED
    BY <1>2, <2>1, OffSession
<1>5. TypeOK' /\ JobShape'
  BY <1>1, <1>3, <1>4, SessionTypes
<1>6. SessionShape'
  BY <1>1, <1>2, <1>3, <1>4 DEF SessionShape, Rests, SessionFrame
<1>7. Listings'
  BY <1>1, <1>4 DEF IInv, Listings
<1>8. \A k \in Items : Missing(k)' = Missing(k)
  BY <1>1, <1>4 DEF Missing, Firm, Flipping, SessionFrame
<1>9. OneJobPerIdentity' /\ Ownership' /\ Accounted'
  BY <1>1, <1>8, JobsRest DEF Rests, SessionFrame
<1> QED
  BY <1>5, <1>6, <1>7, <1>9 DEF IInv

\* Before in-progress goes, the trigger of the record is back: nothing is missing.
LEMMA RepairStep ==
  ASSUME IInv, Repair
  PROVE  IInv'
<1>1. /\ SessionFrame /\ Rests /\ seen' = seen /\ edited' = edited
      /\ session.at = "recover" /\ troubles' \in 0..MaxTroubles
  BY Faults DEF Repair, Session, SessionFrame, Rests, records, jobs, IInv
<1>2. /\ TypeOK /\ labels \in [Items -> SUBSET Labels]
      /\ seen \in [Items -> {Unread} \cup SUBSET Labels]
      /\ session \in Sessions /\ edited \subseteq Items
      /\ session.first /\ Busy(job) = {} /\ session.step \in 0..2
      /\ (session.now = {} <=> session.step = 0) /\ session.now \subseteq session.todo
      /\ \A k \in session.todo : k \in Items /\ log[k].running \in Ops
      /\ \A k \in Items : seen[k] \cap Triggers \subseteq labels[k]
      /\ session.step = 1 => \A k \in session.now : Trigger(log[k].running) \in labels[k]
  BY <1>1 DEF IInv, TypeOK, SessionShape, Listings, Sessions
<1>3. PICK i \in session.todo :
        /\ session.now # {} => i \in session.now
        /\ RepairSteps(i) \/ labels' = labels
        /\ (RepairSteps(i) /\ RepairContinues(i)) \/ session' = Off
  BY <1>2 DEF Repair
<1>4. i \in Items /\ log[i].running \in Ops /\ Trigger(log[i].running) \in Triggers
  BY <1>2, LabelSets
<1>5. \/ session.step = 0 /\ Restored(i)
      \/ /\ session.step = 1 /\ labels' = [labels EXCEPT ![i] = @ \ {"in-progress"}]
         /\ Trigger(log[i].running) \in labels[i]
      \/ labels' = labels /\ (session.step = 2 \/ session' = Off)
  BY <1>2, <1>3 DEF RepairSteps, RepairOrder, Take
<1>6. /\ labels' \in [Items -> SUBSET Labels]
      /\ \A k \in Items : labels[k] \ {"in-progress"} \subseteq labels'[k]
      /\ \A k \in Items : k # i => labels'[k] = labels[k]
      /\ session.step # 1 => labels[i] \subseteq labels'[i]
      /\ session.step \in {0, 1} =>
           Trigger(log[i].running) \in labels'[i] \/ session' = Off
  <2>1. CASE session.step = 0 /\ Restored(i)
    <3>1. CASE Trigger(log[i].running) \in seen[i] /\ labels' = labels
      BY <1>2, <1>4, <3>1
    <3>2. CASE labels' = [labels EXCEPT ![i] = @ \cup {Trigger(log[i].running)}]
      BY <1>2, <1>4, <2>1, <3>2, LabelSets
    <3> QED
      BY <2>1, <3>1, <3>2 DEF Restored, Put
  <2>2. CASE /\ session.step = 1 /\ labels' = [labels EXCEPT ![i] = @ \ {"in-progress"}]
             /\ Trigger(log[i].running) \in labels[i]
    <3>1. Trigger(log[i].running) # "in-progress"
      BY <1>4, LabelSets
    <3> QED
      BY <1>2, <1>4, <2>2, <3>1
  <2>3. CASE labels' = labels /\ (session.step = 2 \/ session' = Off)
    BY <1>2, <2>3
  <2> QED
    BY <1>5, <2>1, <2>2, <2>3
<1>7. /\ session' \in Sessions
      /\ \/ /\ session'.at = "recover" /\ session'.first /\ session.step < 2
            /\ session'.step = session.step + 1 /\ session'.now = {i}
            /\ session'.todo = session.todo
         \/ /\ session'.at = "recover" /\ session'.first /\ session.step = 2
            /\ session'.step = 0 /\ session'.now = {} /\ session'.todo \subseteq session.todo
         \/ session' = Off
  <2>1. CASE session' = Off
    BY <2>1, OffSession
  <2>2. CASE session.step < 2 /\ session' = [session EXCEPT !.step = @ + 1, !.now = {i}]
    <3>1. session.step + 1 \in 0..3 /\ {i} \subseteq Items
      BY <1>2, <1>4, <2>2
    <3>2. session' = [session EXCEPT !.step = session.step + 1, !.now = {i}]
      BY <1>2, <2>2 DEF Sessions
    <3>3. session' \in Sessions
      BY <1>2, <3>1, <3>2, Zenon DEF Sessions
    <3> QED
      BY <1>1, <1>2, <2>2, <3>2, <3>3 DEF Sessions
  <2>3. CASE /\ session.step = 2
             /\ session' = [session EXCEPT !.step = 0, !.now = {}, !.todo = @ \ {i},
                                           !.repaired = @ \cup {i}]
    <3>1. /\ session.todo \ {i} \subseteq Items /\ session.repaired \cup {i} \subseteq Items
          /\ 0 \in 0..3
      BY <1>2, <1>4 DEF Sessions
    <3>2. session' = [session EXCEPT !.step = 0, !.now = {}, !.todo = session.todo \ {i},
                                     !.repaired = session.repaired \cup {i}]
      BY <1>2, <2>3 DEF Sessions
    <3>3. session' \in Sessions
      BY <1>2, <3>1, <3>2, Zenon DEF Sessions
    <3> QED
      BY <1>1, <1>2, <2>3, <3>2, <3>3 DEF Sessions
  <2> QED
    BY <1>2, <1>3, <2>1, <2>2, <2>3 DEF RepairContinues
<1>8. TypeOK' /\ JobShape'
  BY <1>1, <1>2, <1>6, <1>7, SessionTypes
<1>9. SessionShape'
  <2>1. Busy(job)' = {} /\ log' = log
    BY <1>1, <1>2 DEF Rests, SessionFrame
  <2>2. \A k \in session.todo : log[k].running # "none"
    BY <1>2, LabelSets
  <2> QED
    BY <1>2, <1>3, <1>7, <2>1, <2>2, OffSession DEF SessionShape
<1>10. Listings'
  <2>1. \A k \in Items : seen'[k] \cap Triggers \subseteq labels'[k]
    BY <1>1, <1>2, <1>6, LabelSets
  <2>2. session'.at = "recover" /\ session'.step = 1 =>
          \A k \in session'.now : Trigger(log'[k].running) \in labels'[k]
    BY <1>1, <1>2, <1>6, <1>7, OffSession DEF SessionFrame
  <2> QED
    BY <1>7, <2>1, <2>2, OffSession DEF Listings
<1>11. \A k \in Items \ muddled :
         \/ /\ labels[k] \cap {"in-progress", "blocked"} \subseteq labels'[k]
            /\ Missing(k)' \subseteq Missing(k)
         \/ /\ \A s \in Slots : job[s].on # k \/ job[s].at = "free"
            /\ Missing(k)' = {}
  <2>1. ~(session'.at = "scan") /\ wanted' = wanted
    BY <1>1, <1>7, OffSession DEF SessionFrame
  <2>2. \A k \in Items : labels[k] \subseteq labels'[k] => Missing(k)' \subseteq Missing(k)
    <3> SUFFICES ASSUME NEW k \in Items, labels[k] \subseteq labels'[k]
                 PROVE  Missing(k)' \subseteq Missing(k)
      OBVIOUS
    <3>1. ~Flipping(k)'
      BY <2>1 DEF Flipping
    <3>2. \A l \in wanted'[k] : l \in wanted[k]
      BY <2>1
    <3> QED
      BY <3>1, <3>2, MissingShrinks
  <2>3. ASSUME session.step = 1, i \notin muddled
        PROVE  Missing(i)' = {}
    <3>1. Trigger(log[i].running) \in labels[i] /\ log[i].running # "none"
      BY <1>2, <1>3, <1>4, <2>3, LabelSets
    <3>2. \A s \in Slots : ~Engaged(s)
      BY <1>2 DEF Busy, Engaged
    <3>3. Missing(i) # {} => Missing(i) \subseteq Serves(log[i].running)
      BY <1>4, <2>3, <3>1, <3>2 DEF IInv, Accounted
    <3>4. Missing(i) = {}
      BY <1>4, <3>1, <3>3, OwnIsSeen
    <3>5. "in-progress" \notin wanted[i]
      BY <1>2, <1>4, LabelSets DEF TypeOK
    <3>6. ~Flipping(i) /\ ~Flipping(i)'
      BY <1>1, <2>1 DEF Flipping
    <3> QED
      BY <1>4, <1>6, <2>1, <3>4, <3>5, <3>6 DEF Missing, Firm
  <2>4. \A s \in Slots : job[s].at = "free"
    BY <1>2 DEF Busy
  <2> QED
    BY <1>6, <2>2, <2>3, <2>4
<1>12. OneJobPerIdentity' /\ Ownership' /\ Accounted'
  BY <1>1, <1>11, JobsRest DEF Rests, SessionFrame
<1> QED
  BY <1>8, <1>9, <1>10, <1>12 DEF IInv

LEMMA WakeStep ==
  ASSUME IInv, Wake
  PROVE  IInv'
<1>1. /\ SessionFrame /\ Rests /\ labels' = labels /\ seen' = seen /\ edited' = edited
      /\ session.at = "wait" /\ troubles' = troubles
      /\ session' = [session EXCEPT !.at = "promote", !.first = FALSE, !.woken = FALSE,
                                    !.poll = FALSE]
  BY DEF Wake, Session, SessionFrame, Rests, records, jobs
<1>2. /\ labels \in [Items -> SUBSET Labels] /\ seen \in [Items -> {Unread} \cup SUBSET Labels]
      /\ session \in Sessions /\ edited \subseteq Items /\ session.repaired = {}
  BY <1>1 DEF IInv, TypeOK, SessionShape
<1>3. /\ session' \in Sessions /\ session'.at = "promote" /\ ~session'.first
      /\ session'.repaired = {}
  <2>1. session' \in Sessions
    BY <1>1, <1>2, Zenon DEF Sessions
  <2> QED
    BY <1>1, <1>2, <2>1 DEF Sessions
<1>4. TypeOK' /\ JobShape'
  BY <1>1, <1>2, <1>3, SessionTypes, NoTroubles
<1>5. SessionShape' /\ Listings'
  BY <1>3 DEF SessionShape, Listings
<1>6. \A k \in Items : Missing(k)' = Missing(k)
  BY <1>1, <1>3 DEF Missing, Firm, Flipping, SessionFrame
<1>7. OneJobPerIdentity' /\ Ownership' /\ Accounted'
  BY <1>1, <1>6, JobsRest DEF Rests, SessionFrame
<1> QED
  BY <1>4, <1>5, <1>7 DEF IInv

\* Where a scan of the queue stands.
InScan ==
  session.at = "scan" =>
    /\ session.todo \subseteq Issues /\ session.now \subseteq session.todo
    /\ session.now = {} => session.step = 0
    /\ \A i, k \in session.now : i = k
    /\ \A i \in session.now : session.step \in {0, 1} => "queued" \in labels[i]

LEMMA ScanFrame ==
  ASSUME IInv, session.at \in {"promote", "scan"}, SessionFrame, Rests,
         session' \in Sessions, session'.at \in {"scan", "list"}, session'.first = session.first,
         session'.repaired = session.repaired, troubles' \in 0..MaxTroubles,
         labels' \in [Items -> SUBSET Labels],
         Listing \/ (seen' = seen /\ edited' = edited /\ session'.at = "scan"), InScan',
         \A k \in Items : /\ labels[k] \cap {"in-progress", "blocked"} \subseteq labels'[k]
                          /\ Missing(k)' \subseteq Missing(k)
  PROVE  IInv'
<1>1. seen' \in [Items -> {Unread} \cup SUBSET Labels] /\ edited' \subseteq Items
  BY FreshListing DEF IInv, TypeOK
<1>2. TypeOK' /\ JobShape'
  BY <1>1, SessionTypes
<1>3. SessionShape'
  BY DEF IInv, SessionShape, InScan
<1>4. Listings'
  BY FreshListing DEF Listings
<1>5. OneJobPerIdentity' /\ Ownership' /\ Accounted'
  BY JobsRest DEF Rests, SessionFrame
<1> QED
  BY <1>2, <1>3, <1>4, <1>5 DEF IInv

LEMMA ToListSession ==
  ASSUME IInv, NEW failed \in BOOLEAN, ToList(failed)
  PROVE  /\ session' \in Sessions /\ session'.at = "list" /\ session'.first = session.first
         /\ session'.repaired = session.repaired /\ Listing
<1>1. /\ session' = [session EXCEPT !.at = "list", !.raced = FALSE, !.failed = failed,
                                    !.todo = {}, !.now = {}, !.step = 0]
      /\ Listing
  BY DEF ToList
<1>2. session \in Sessions /\ 0 \in 0..3 /\ {} \in SUBSET Items
  BY DEF IInv, TypeOK
<1>3. session' \in Sessions
  BY <1>1, <1>2, Zenon DEF Sessions
<1> QED
  BY <1>1, <1>2, <1>3 DEF Sessions

LEMMA ScanningSession ==
  ASSUME IInv, NEW todo, todo \subseteq Issues, Scanning(todo)
  PROVE  /\ session' \in Sessions /\ session'.first = session.first
         /\ session'.repaired = session.repaired /\ InScan'
         /\ \/ session'.at = "list" /\ Listing
            \/ /\ session'.at = "scan" /\ session'.now = {}
               /\ seen' = seen /\ edited' = edited
<1>1. CASE todo = {}
  BY <1>1, ToListSession DEF Scanning, InScan
<1>2. CASE todo # {}
  <2>1. /\ session' = [session EXCEPT !.at = "scan", !.todo = todo, !.now = {}, !.step = 0]
        /\ seen' = seen /\ edited' = edited
    BY <1>2 DEF Scanning
  <2>2. session \in Sessions /\ 0 \in 0..3 /\ {} \in SUBSET Items /\ todo \in SUBSET Items
    BY DEF IInv, TypeOK, Items
  <2>3. session' \in Sessions
    BY <2>1, <2>2, Zenon DEF Sessions
  <2>4. /\ session'.at = "scan" /\ session'.now = {} /\ session'.todo = todo /\ session'.step = 0
        /\ session'.first = session.first /\ session'.repaired = session.repaired
    BY <2>1, <2>2, <2>3 DEF Sessions
  <2> QED
    BY <2>1, <2>3, <2>4 DEF InScan
<1> QED
  BY <1>1, <1>2

LEMMA SameMissing ==
  ASSUME NEW k \in Items, labels' = labels, wanted' = wanted, Flipping(k)' => Flipping(k)
  PROVE  /\ labels[k] \cap {"in-progress", "blocked"} \subseteq labels'[k]
         /\ Missing(k)' \subseteq Missing(k)
BY DEF Missing, Firm

LEMMA ScanQueueStep ==
  ASSUME IInv, ScanQueue
  PROVE  IInv'
<1>1. /\ SessionFrame /\ Rests /\ labels' = labels /\ session.at = "promote"
      /\ troubles' \in 0..MaxTroubles
  BY Faults DEF ScanQueue, Session, SessionFrame, Rests, records, jobs, IInv
<1>2. /\ session' \in Sessions /\ session'.first = session.first
      /\ session'.repaired = session.repaired /\ InScan'
      /\ \/ session'.at = "list" /\ Listing
         \/ /\ session'.at = "scan" /\ session'.now = {}
            /\ seen' = seen /\ edited' = edited
  <2>1. CASE ToList(TRUE)
    BY <2>1, ToListSession DEF InScan
  <2>2. CASE Scanning({i \in Issues : "queued" \in labels[i]})
    <3>1. {i \in Issues : "queued" \in labels[i]} \subseteq Issues
      OBVIOUS
    <3> QED
      BY <2>2, <3>1, ScanningSession, Zenon
  <2> QED
    BY <2>1, <2>2 DEF ScanQueue
<1>3. \A k \in Items : /\ labels[k] \cap {"in-progress", "blocked"} \subseteq labels'[k]
                       /\ Missing(k)' \subseteq Missing(k)
  BY <1>1, <1>2, SameMissing DEF Flipping, SessionFrame
<1>4. labels' \in [Items -> SUBSET Labels]
  BY <1>1 DEF IInv, TypeOK
<1> QED
  BY <1>1, <1>2, <1>3, <1>4, ScanFrame

LEMMA ReadQueuedStep ==
  ASSUME IInv, ReadQueued
  PROVE  IInv'
<1>1. /\ SessionFrame /\ Rests /\ labels' = labels /\ session.at = "scan" /\ session.now = {}
      /\ troubles' \in 0..MaxTroubles
  BY Faults DEF ReadQueued, Session, SessionFrame, Rests, records, jobs, IInv
<1>2. /\ session \in Sessions /\ session.todo \subseteq Issues /\ session.step = 0
  BY <1>1 DEF IInv, TypeOK, SessionShape
<1>3. /\ session' \in Sessions /\ session'.first = session.first
      /\ session'.repaired = session.repaired /\ InScan'
      /\ \/ session'.at = "list" /\ Listing
         \/ /\ session'.at = "scan" /\ (session'.now = {} \/ session'.step = 0)
            /\ seen' = seen /\ edited' = edited
  <2>1. CASE ToList(TRUE)
    BY <2>1, ToListSession DEF InScan
  <2>2. CASE \E i \in session.todo : Scanning(session.todo \ {i})
    <3>1. PICK i \in session.todo : Scanning(session.todo \ {i})
      BY <2>2
    <3>2. session.todo \ {i} \subseteq Issues
      BY <1>2
    <3> QED
      BY <3>1, <3>2, ScanningSession, Zenon
  <2>3. CASE \E i \in session.todo : /\ Promotable(labels[i])
                                     /\ session' = [session EXCEPT !.now = {i}]
                                     /\ UNCHANGED <<seen, edited>>
    <3>1. PICK i \in session.todo : /\ Promotable(labels[i])
                                    /\ session' = [session EXCEPT !.now = {i}]
                                    /\ UNCHANGED <<seen, edited>>
      BY <2>3
    <3>2. {i} \in SUBSET Items /\ "queued" \in labels[i]
      BY <1>2, <3>1 DEF Items, Promotable
    <3>3. session' \in Sessions
      BY <1>2, <3>1, <3>2, Zenon DEF Sessions
    <3>4. /\ session'.at = "scan" /\ session'.first = session.first
          /\ session'.repaired = session.repaired /\ session'.now = {i}
          /\ session'.todo = session.todo /\ session'.step = 0
      BY <1>1, <1>2, <3>1, <3>3 DEF Sessions
    <3> QED
      BY <1>1, <1>2, <3>1, <3>2, <3>3, <3>4 DEF InScan
  <2> QED
    BY <2>1, <2>2, <2>3 DEF ReadQueued
<1>4. \A k \in Items : /\ labels[k] \cap {"in-progress", "blocked"} \subseteq labels'[k]
                       /\ Missing(k)' \subseteq Missing(k)
  BY <1>1, <1>3, SameMissing DEF Flipping, SessionFrame
<1>5. labels' \in [Items -> SUBSET Labels]
  BY <1>1 DEF IInv, TypeOK
<1> QED
  BY <1>1, <1>3, <1>4, <1>5, ScanFrame

\* The trigger is on the Issue before queued goes: what was asked for by the one is
\* then asked for by the other.
LEMMA PromoteStep ==
  ASSUME IInv, Promote
  PROVE  IInv'
<1>1. /\ SessionFrame /\ Rests /\ session.at = "scan"
      /\ troubles' \in 0..MaxTroubles
  BY Faults DEF Promote, Session, SessionFrame, Rests, records, jobs, IInv, PutLost
<1>2. /\ session \in Sessions /\ session.todo \subseteq Issues /\ session.now \subseteq session.todo
      /\ \A i, k \in session.now : i = k
      /\ \A i \in session.now : session.step \in {0, 1} => "queued" \in labels[i]
      /\ labels \in [Items -> SUBSET Labels] /\ session.step \in 0..3
  BY <1>1 DEF IInv, TypeOK, SessionShape, Sessions
<1>3. PICK i \in session.now :
        \/ /\ session.step < 2 /\ PromotionSteps(i)
           /\ session' = [session EXCEPT !.step = @ + 1] /\ UNCHANGED <<seen, edited>>
        \/ session.step = 2 /\ PromotionSteps(i) /\ Scanning(session.todo \ {i})
        \/ /\ session.step < 3 /\ (PromotionSteps(i) \/ UNCHANGED labels)
           /\ session' = [session EXCEPT !.step = 3] /\ UNCHANGED <<seen, edited>>
        \/ /\ session.step = 3 /\ (Put(i, "blocked") \/ UNCHANGED labels) /\ ToList(TRUE)
  BY <1>1 DEF Promote, PutLost
<1>4. i \in Items /\ i \in Issues /\ i \in session.todo
      /\ {"implement", "blocked"} \subseteq Labels /\ "queued" \notin {"in-progress", "blocked"}
  BY <1>2, LabelSets DEF Items, Asking, Triggers
<1>5. /\ PromotionSteps(i) /\ session.step = 0 => labels' = [labels EXCEPT ![i] = @ \cup {"implement"}]
      /\ PromotionSteps(i) /\ session.step = 1 => labels' = [labels EXCEPT ![i] = @ \ {"queued"}]
      /\ PromotionSteps(i) /\ session.step = 2 => labels' = labels
  BY <1>2 DEF PromotionSteps, PromotionOrder, Put, Take
<1>6. \/ labels' = labels
      \/ session.step = 0 /\ labels' = [labels EXCEPT ![i] = @ \cup {"implement"}]
      \/ session.step = 1 /\ labels' = [labels EXCEPT ![i] = @ \ {"queued"}]
      \/ session.step = 3 /\ labels' = [labels EXCEPT ![i] = @ \cup {"blocked"}]
  <2>1. session.step < 3 => session.step \in {0, 1, 2}
    BY <1>2
  <2>2. CASE session.step < 3 /\ PromotionSteps(i)
    BY <1>5, <2>1, <2>2
  <2>3. CASE session.step = 3 /\ Put(i, "blocked")
    BY <2>3 DEF Put
  <2>4. session.step < 2 => session.step < 3
    BY <1>2
  <2>5. session.step = 2 => session.step < 3
    OBVIOUS
  <2> QED
    BY <1>3, <1>5, <2>2, <2>3, <2>4, <2>5
<1>7. /\ labels' \in [Items -> SUBSET Labels]
      /\ \A k \in Items : labels[k] \ {"queued"} \subseteq labels'[k]
      /\ \A k \in Items : k # i => labels'[k] = labels[k]
      /\ session.step # 1 => labels[i] \subseteq labels'[i]
  BY <1>2, <1>4, <1>6
<1>8. /\ session' \in Sessions /\ session'.first = session.first
      /\ session'.repaired = session.repaired /\ session'.at \in {"scan", "list"}
      /\ InScan'
      /\ Listing \/ (seen' = seen /\ edited' = edited /\ session'.at = "scan")
      /\ \/ session.step = 0 /\ PromotionSteps(i) /\ session'.now = session.now
         \/ session'.step # 1 \/ session'.at # "scan" \/ session'.now = {}
  <2>1. CASE /\ session.step < 2 /\ PromotionSteps(i)
             /\ session' = [session EXCEPT !.step = @ + 1] /\ UNCHANGED <<seen, edited>>
    <3>1. session.step + 1 \in 0..3 /\ session.step \in {0, 1}
      BY <1>2, <2>1
    <3>2. session' = [session EXCEPT !.step = session.step + 1]
      BY <1>2, <2>1 DEF Sessions
    <3>3. session' \in Sessions
      BY <1>2, <3>1, <3>2, Zenon DEF Sessions
    <3>4. /\ session'.at = "scan" /\ session'.first = session.first
          /\ session'.repaired = session.repaired /\ session'.now = session.now
          /\ session'.todo = session.todo /\ session'.step = session.step + 1
      BY <1>1, <1>2, <3>2, <3>3 DEF Sessions
    <3>5. \A k \in session.now : session.step = 0 => "queued" \in labels'[k]
      BY <1>2, <1>7
    <3>6. InScan'
      BY <1>2, <1>3, <3>1, <3>4, <3>5 DEF InScan
    <3> QED
      BY <2>1, <3>1, <3>3, <3>4, <3>6
  <2>2. CASE session.step = 2 /\ Scanning(session.todo \ {i})
    <3>1. session.todo \ {i} \subseteq Issues
      BY <1>2
    <3> QED
      BY <2>2, <3>1, ScanningSession
  <2>3. CASE session' = [session EXCEPT !.step = 3] /\ UNCHANGED <<seen, edited>>
    <3>1. 3 \in 0..3
      OBVIOUS
    <3>2. session' \in Sessions
      BY <1>2, <2>3, <3>1, Zenon DEF Sessions
    <3>3. /\ session'.at = "scan" /\ session'.first = session.first
          /\ session'.repaired = session.repaired /\ session'.now = session.now
          /\ session'.todo = session.todo /\ session'.step = 3
      BY <1>1, <1>2, <2>3, <3>2 DEF Sessions
    <3>4. InScan'
      BY <1>2, <1>3, <3>3 DEF InScan
    <3> QED
      BY <2>3, <3>2, <3>3, <3>4
  <2>4. CASE ToList(TRUE)
    BY <2>4, ToListSession DEF InScan
  <2> QED
    BY <1>3, <2>1, <2>2, <2>3, <2>4
<1>9. \A k \in Items : /\ labels[k] \cap {"in-progress", "blocked"} \subseteq labels'[k]
                       /\ Missing(k)' \subseteq Missing(k)
  <2> SUFFICES ASSUME NEW k \in Items
               PROVE  Missing(k)' \subseteq Missing(k)
    BY <1>4, <1>7
  <2>1. wanted' = wanted
    BY <1>1 DEF SessionFrame
  <2>2. Flipping(k)' => k = i /\ session.step = 0 /\ PromotionSteps(i)
    BY <1>2, <1>3, <1>8 DEF Flipping
  <2>3. CASE k # i \/ (session.step # 1 /\ ~Flipping(k)') \/ (labels' = labels /\ ~Flipping(k)')
    <3>1. labels[k] \subseteq labels'[k] /\ ~Flipping(k)'
      BY <1>7, <2>2, <2>3
    <3> QED
      BY <2>1, <3>1, MissingShrinks
  <2>4. CASE k = i /\ session.step = 0 /\ PromotionSteps(i)
    <3>1. "implement" \in labels'[i] /\ labels[i] \subseteq labels'[i]
      BY <1>2, <1>4, <1>5, <2>4
    <3> QED
      BY <2>1, <2>4, <3>1 DEF Missing, Firm
  <2>5. CASE k = i /\ session.step = 1 /\ labels' = [labels EXCEPT ![i] = @ \ {"queued"}]
    <3>1. labels'[i] = labels[i] \ {"queued"} /\ Flipping(i)
      BY <1>1, <1>2, <1>3, <1>4, <2>5 DEF Flipping
    <3> QED
      BY <2>1, <2>5, <3>1 DEF Missing, Firm
  <2> QED
    BY <1>6, <2>2, <2>3, <2>4, <2>5
<1> QED
  BY <1>1, <1>7, <1>8, <1>9, ScanFrame

-----------------------------------------------------------------------------
(* New jobs.                                                                *)

LEMMA Distinct ==
  ASSUME NEW op1 \in Ops, NEW op2 \in Ops,
         Priority(op1) <= Priority(op2), Priority(op2) <= Priority(op1),
         NEW i, Identity(i, op1) = Identity(i, op2)
  PROVE  op1 = op2
BY DEF Priority, Identity, Ops, IssueOps, PullRequestOps

LEMMA OneItem ==
  ASSUME NEW op1, NEW op2, NEW i, NEW k, Identity(i, op1) = Identity(k, op2)
  PROVE  i = k
BY DEF Identity

\* What is selected: an operation of its Work Item, which no job has, and the only
\* one of its identity.
LEMMA SelectedCommands ==
  ASSUME NEW c \in Frontier
  PROVE  /\ c[1] \in Items /\ c[2] \in Ops /\ Selected(c[1], c[2]) /\ c = <<c[1], c[2]>>
         /\ c[2] \in IssueOps <=> c[1] \in Issues
         /\ \A d \in Frontier : Identity(c[1], c[2]) = Identity(d[1], d[2]) => c = d
<1>1. ASSUME NEW d \in Frontier
      PROVE  d[1] \in Items /\ d[2] \in Ops /\ Selected(d[1], d[2]) /\ d = <<d[1], d[2]>>
  BY <1>1 DEF Frontier
<1>2. c[2] \in IssueOps <=> c[1] \in Issues
  <2>1. c[2] \in Commands(c[1], seen[c[1]]) /\ c[2] # "unknown" /\ c[1] \in Items
    BY <1>1 DEF Selected, Eligible
  <2>2. c[2] \in Routed(c[1], seen[c[1]])
    BY <2>1 DEF Commands
  <2>3. \A op : ~(op \in IssueOps /\ op \in PullRequestOps)
    BY DEF IssueOps, PullRequestOps
  <2>4. c[1] \in PullRequests <=> c[1] \notin Issues
    BY <2>1, ItemsAssumption DEF Items
  <2>5. CASE c[1] \in PullRequests
    BY <2>2, <2>3, <2>4, <2>5 DEF Routed
  <2>6. CASE c[1] \notin PullRequests
    <3>1. c[2] \in {"split-spec", "implement-spec", "implement-issue"}
      BY <2>2, <2>6 DEF Routed
    <3> QED
      BY <2>4, <2>6, <3>1 DEF IssueOps
  <2> QED
    BY <2>5, <2>6
<1>3. ASSUME NEW d \in Frontier, Identity(c[1], c[2]) = Identity(d[1], d[2])
      PROVE  c = d
  <2>1. c[1] = d[1]
    BY <1>3, OneItem
  <2>2. Priority(c[2]) <= Priority(d[2]) /\ Priority(d[2]) <= Priority(c[2])
    BY <1>1, <2>1 DEF Selected
  <2>3. c[2] = d[2]
    BY <1>1, <1>3, <2>1, <2>2, Distinct
  <2> QED
    BY <1>1, <2>1, <2>3
<1> QED
  BY <1>1, <1>2, <1>3

\* A fill gives free slots new jobs, of identities that no slot has.
Filled(f) ==
  /\ DOMAIN f \subseteq Slots \ Busy(job)
  /\ job' \in [Slots -> Jobs]
  /\ \A s \in Slots \ DOMAIN f : job'[s] = job[s]
  /\ \A s \in DOMAIN f :
       /\ job'[s].at = "read" /\ ~job'[s].settled /\ job'[s].result = "none"
       /\ job'[s].on = f[s][1] /\ job'[s].op = f[s][2] /\ f[s] \in Frontier
       /\ \A t \in DOMAIN f : f[s] = f[t] => s = t
  /\ muddled' = muddled \cup Shared(job')

LEMMA FillJobs ==
  ASSUME IInv, Fill
  PROVE  \E f : Filled(f)
<1>0. PICK used \in SUBSET (Slots \ Busy(job)) : \E f \in [used -> Frontier] :
        /\ Fills(f)
        /\ job' = [s \in Slots |-> IF s \in used
                                   THEN [Free EXCEPT !.at = "read", !.on = f[s][1], !.op = f[s][2]]
                                   ELSE job[s]]
        /\ muddled' = muddled \cup Shared(job')
  BY Zenon DEF Fill
<1>1. PICK f \in [used -> Frontier] :
        /\ Fills(f)
        /\ job' = [s \in Slots |-> IF s \in used
                                   THEN [Free EXCEPT !.at = "read", !.on = f[s][1], !.op = f[s][2]]
                                   ELSE job[s]]
        /\ muddled' = muddled \cup Shared(job')
  BY <1>0, Zenon
<1>2. DOMAIN f = used /\ used \subseteq Slots \ Busy(job)
      /\ \A s \in used : f[s] \in Frontier /\ \A t \in used : f[s] = f[t] => s = t
  BY <1>1 DEF Fills
<1>3. ASSUME NEW s \in used
      PROVE  /\ job'[s] \in Jobs
             /\ job'[s].at = "read" /\ ~job'[s].settled /\ job'[s].result = "none"
             /\ job'[s].on = f[s][1] /\ job'[s].op = f[s][2]
  <2>1. f[s][1] \in Items /\ f[s][2] \in Ops /\ s \in Slots
    BY <1>2, SelectedCommands
  <2>2. job'[s] = [Free EXCEPT !.at = "read", !.on = f[s][1], !.op = f[s][2]]
    BY <1>1, <2>1
  <2>3. job'[s] \in Jobs
    BY <2>1, <2>2 DEF Free, Jobs
  <2> QED
    BY <2>2, <2>3 DEF Free
<1>4. \A s \in Slots \ used : job'[s] = job[s]
  BY <1>1
<1>5. job' \in [Slots -> Jobs]
  <2>1. \A s \in Slots : job'[s] \in Jobs
    BY <1>2, <1>3, <1>4 DEF IInv, TypeOK
  <2> QED
    BY <1>1, <2>1
<1> QED
  BY <1>1, <1>2, <1>3, <1>4, <1>5 DEF Filled

LEMMA FillKeeps ==
  ASSUME IInv, NEW f, Filled(f), labels' = labels, log' = log, wanted' = wanted, open' = open,
         session'.at # "scan", session.at # "scan"
  PROVE  /\ \A s \in Busy(job') : /\ job'[s].on \in Items /\ job'[s].op \in Ops
                                  /\ job'[s].op \in IssueOps <=> job'[s].on \in Issues
         /\ job' \in [Slots -> Jobs] /\ muddled' \subseteq Items
         /\ Busy(job) \subseteq Busy(job')
         /\ OneJobPerIdentity' /\ JobShape' /\ Ownership' /\ Accounted'
<1>1. /\ DOMAIN f \subseteq Slots \ Busy(job)
      /\ \A s \in Slots \ DOMAIN f : job'[s] = job[s]
      /\ \A s \in DOMAIN f :
           /\ s \in Slots /\ job[s].at = "free"
           /\ job'[s].at = "read" /\ ~job'[s].settled /\ job'[s].result = "none"
           /\ job'[s].on = f[s][1] /\ job'[s].op = f[s][2] /\ f[s] \in Frontier
           /\ \A t \in DOMAIN f : f[s] = f[t] => s = t
      /\ muddled' = muddled \cup Shared(job') /\ job' \in [Slots -> Jobs]
  BY DEF Filled, Busy
<1>2. \A s \in Busy(job') : s \in DOMAIN f \/ (s \in Busy(job) /\ job'[s] = job[s])
  BY <1>1 DEF Busy
<1>3. \A s \in Busy(job') : /\ job'[s].on \in Items /\ job'[s].op \in Ops
                            /\ job'[s].op \in IssueOps <=> job'[s].on \in Issues
  <2> SUFFICES ASSUME NEW s \in Busy(job')
               PROVE  /\ job'[s].on \in Items /\ job'[s].op \in Ops
                      /\ job'[s].op \in IssueOps <=> job'[s].on \in Issues
    OBVIOUS
  <2>1. CASE s \in DOMAIN f
    BY <1>1, <2>1, SelectedCommands
  <2>2. CASE s \in Busy(job) /\ job'[s] = job[s]
    BY <2>2, Zenon DEF IInv, TypeOK
  <2> QED
    BY <1>2, <2>1, <2>2
<1>4. Busy(job) \subseteq Busy(job')
  BY <1>1 DEF Busy
<1>5. ASSUME NEW s \in Busy(job'), NEW t \in Busy(job'),
             Identity(job'[s].on, job'[s].op) = Identity(job'[t].on, job'[t].op)
      PROVE  s = t
  <2>1. ASSUME NEW u \in DOMAIN f
        PROVE  Identity(job'[u].on, job'[u].op) \notin Running
    BY <1>1, <2>1, SelectedCommands DEF Selected, InFlight
  <2>2. ASSUME NEW u \in Busy(job), job'[u] = job[u]
        PROVE  Identity(job'[u].on, job'[u].op) \in Running
    BY <2>2 DEF Running
  <2>3. CASE s \in DOMAIN f /\ t \in DOMAIN f
    <3>1. f[s] = f[t]
      BY <1>1, <1>5, <2>3, SelectedCommands
    <3> QED
      BY <1>1, <2>3, <3>1
  <2>4. CASE s \in Busy(job) /\ job'[s] = job[s] /\ t \in Busy(job) /\ job'[t] = job[t]
    BY <1>5, <2>4 DEF IInv, OneJobPerIdentity
  <2> QED
    BY <1>2, <1>5, <2>1, <2>2, <2>3, <2>4
<1>6. OneJobPerIdentity'
  BY <1>5 DEF OneJobPerIdentity
<1>7. JobShape'
  <2> SUFFICES ASSUME NEW s \in Slots
               PROVE  /\ job'[s].at \in {"log", "work", "close", "continue", "complete", "release"}
                           => job'[s].settled
                      /\ job'[s].at \in {"block", "blockAgain"} /\ ~job'[s].settled =>
                           job'[s].result = "failed"
                      /\ job'[s].at \in {"read", "claim", "acquire", "untrigger", "settle"} =>
                           ~job'[s].settled
                      /\ job'[s].at \in {"read", "claim"} => job'[s].result = "none"
                      /\ job'[s].at \in {"close", "continue"} => job'[s].op = "implement-spec"
                      /\ job'[s].at = "close" => open'[job'[s].on] > 0
    BY DEF JobShape
  <2>1. CASE s \in DOMAIN f
    BY <1>1, <2>1
  <2>2. CASE s \notin DOMAIN f
    BY <1>1, <2>2 DEF IInv, JobShape
  <2> QED
    BY <2>1, <2>2
<1>8. /\ \A s \in Slots : (Engaged(s)' <=> Engaged(s)) /\ (Owes(s)' <=> Owes(s))
      /\ \A s \in Slots : Engaged(s) => s \notin DOMAIN f /\ job'[s] = job[s]
  <2> SUFFICES ASSUME NEW s \in Slots
               PROVE  /\ (Engaged(s)' <=> Engaged(s)) /\ (Owes(s)' <=> Owes(s))
                      /\ Engaged(s) => s \notin DOMAIN f /\ job'[s] = job[s]
    OBVIOUS
  <2>1. CASE s \in DOMAIN f
    BY <1>1, <2>1 DEF Engaged, Owes
  <2>2. CASE s \notin DOMAIN f
    BY <1>1, <2>2 DEF Engaged, Owes, Dangling
  <2> QED
    BY <2>1, <2>2
<1>9. /\ muddled' \subseteq Items /\ muddled \subseteq muddled'
      /\ \A s, t \in Slots : s # t /\ job'[s].on = job'[t].on /\ Active(s)' /\ Active(t)' =>
           job'[s].on \in muddled'
  <2>1. Shared(job') \subseteq Items /\ muddled \subseteq Items
    BY DEF Shared, IInv, TypeOK
  <2>2. ASSUME NEW s \in Slots, NEW t \in Slots, s # t, job'[s].on = job'[t].on,
               Active(s)', Active(t)'
        PROVE  job'[s].on \in Shared(job')
    <3>1. job'[s].on \in Items
      BY <1>3, <2>2 DEF Busy, Active
    <3>2. {job'[s].at, job'[t].at} \cap {"free", "done"} = {}
      BY <2>2 DEF Active
    <3> QED
      BY <2>2, <3>1, <3>2 DEF Shared
  <2> QED
    BY <1>1, <2>1, <2>2
<1>10. Ownership'
  <2> SUFFICES ASSUME NEW s \in Slots, job'[s].on \notin muddled'
               PROVE  /\ job'[s].at \in {"work", "close", "continue", "complete"} =>
                           log'[job'[s].on].running = job'[s].op
                      /\ Engaged(s)' /\ job'[s].at # "claim" => "in-progress" \in labels'[job'[s].on]
                      /\ \A t \in Slots : job'[t].on = job'[s].on =>
                           \/ s = t
                           \/ ~(Active(s)' /\ Active(t)') /\ ~(Engaged(s)' /\ Engaged(t)')
    BY DEF Ownership
  <2>1. job'[s].at \in {"work", "close", "continue", "complete"} =>
          log'[job'[s].on].running = job'[s].op
    BY <1>1, <1>9 DEF IInv, Ownership
  <2>2. Engaged(s)' /\ job'[s].at # "claim" => "in-progress" \in labels'[job'[s].on]
    BY <1>8, <1>9 DEF IInv, Ownership
  <2>3. ASSUME NEW t \in Slots, job'[t].on = job'[s].on, s # t
        PROVE  ~(Active(s)' /\ Active(t)') /\ ~(Engaged(s)' /\ Engaged(t)')
    BY <1>8, <1>9, <2>3 DEF IInv, Ownership
  <2> QED
    BY <2>1, <2>2, <2>3
<1>11. \A k \in Items : Missing(k)' = Missing(k)
  BY DEF Missing, Firm, Flipping
<1>12. Accounted'
  <2>1. ASSUME NEW k \in Items \ muddled', NEW s \in Slots, Engaged(s)', job'[s].on = k
        PROVE  Missing(k)' \subseteq IF Owes(s)' THEN Serves(job'[s].op) ELSE {}
    <3>1. Engaged(s) /\ k \notin muddled /\ job'[s] = job[s]
      BY <1>8, <1>9, <2>1
    <3> QED
      BY <1>8, <1>11, <2>1, <3>1 DEF IInv, Accounted
  <2>2. ASSUME NEW k \in Items \ muddled', \A s \in Slots : Engaged(s)' => job'[s].on # k,
               Missing(k)' # {}
        PROVE  /\ labels'[k] \cap {"in-progress", "blocked"} # {}
               /\ log'[k].running = "none" \/ Missing(k)' \subseteq Serves(log'[k].running)
    <3>1. k \notin muddled /\ Missing(k)' = Missing(k)
      BY <1>9, <1>11
    <3>2. \A s \in Slots : Engaged(s) => job[s].on # k
      BY <1>8, <2>2
    <3> QED
      BY <2>2, <3>1, <3>2 DEF IInv, Accounted
  <2> QED
    BY <2>1, <2>2 DEF Accounted
<1> QED
  BY <1>1, <1>3, <1>4, <1>6, <1>7, <1>9, <1>10, <1>12

\* Where the loop goes after a fill.
LEMMA LoopGoesOn ==
  ASSUME IInv, NEW clean, Loop(clean), session.at \in {"recover", "list"},
         Busy(job') \subseteq Slots
  PROVE  /\ session' \in Sessions /\ Listing
         /\ \/ session' = Off /\ ~session.first /\ clean /\ Busy(job') = {}
            \/ session'.at = "wait" /\ session'.repaired = {}
            \/ session'.at = "promote" /\ session'.repaired = {} /\ ~session'.first
<1>1. session \in Sessions /\ Armed \in BOOLEAN /\ {} \in SUBSET Items
  BY DEF IInv, TypeOK, Armed
<1>2. CASE session' = Waiting(session)
  <2>1. session' = [session EXCEPT !.at = "wait", !.poll = Armed, !.repaired = {},
                                   !.failed = FALSE, !.raced = FALSE]
    BY <1>2 DEF Waiting
  <2>2. session' \in Sessions
    BY <1>1, <2>1, Zenon DEF Sessions
  <2> QED
    BY <1>1, <2>1, <2>2 DEF Sessions, Loop
<1>3. CASE session' = [Off EXCEPT !.at = "promote", !.first = FALSE]
  <2>1. session' \in Sessions
    BY <1>3, OffSession, Zenon DEF Sessions
  <2> QED
    BY <1>3, <2>1 DEF Off, Loop
<1>4. CASE session' = Off /\ ~session.first /\ clean /\ Busy(job') = {}
  BY <1>4, OffSession DEF Loop
<1> QED
  BY <1>2, <1>3, <1>4 DEF Loop

\* The end of a round: the jobs are as they were, or some slots have new ones.
LEMMA RoundStep ==
  ASSUME IInv, session.at \in {"recover", "list"}, SessionFrame, labels' = labels,
         troubles' \in 0..MaxTroubles, Rests \/ Fill, NEW clean, Loop(clean)
  PROVE  IInv'
<1>1. /\ \A s \in Busy(job') : /\ job'[s].on \in Items /\ job'[s].op \in Ops
                               /\ job'[s].op \in IssueOps <=> job'[s].on \in Issues
      /\ job' \in [Slots -> Jobs] /\ muddled' \subseteq Items
  <2>1. CASE Rests
    BY <2>1 DEF Rests, IInv, TypeOK
  <2>2. CASE Fill
    <3>1. PICK f : Filled(f)
      BY <2>2, FillJobs
    <3>2. session'.at # "scan" /\ session.at # "scan"
      BY OffSession, LoopGoesOn DEF Busy
    <3> QED
      BY <3>1, <3>2, FillKeeps DEF SessionFrame
  <2> QED
    BY <2>1, <2>2
<1>2. /\ session' \in Sessions /\ Listing
      /\ \/ session' = Off /\ Busy(job') = {}
         \/ session'.at = "wait" /\ session'.repaired = {}
         \/ session'.at = "promote" /\ session'.repaired = {} /\ ~session'.first
  BY LoopGoesOn DEF Busy
<1>3. session'.at \in {"off", "wait", "promote"} /\ session.at # "scan"
  BY <1>2, OffSession
<1>4. OneJobPerIdentity' /\ JobShape' /\ Ownership' /\ Accounted'
  <2>1. CASE Rests
    <3>1. \A k \in Items : Missing(k)' = Missing(k)
      BY <1>3 DEF Missing, Firm, Flipping, SessionFrame
    <3>2. OneJobPerIdentity' /\ Ownership' /\ Accounted'
      BY <2>1, <3>1, JobsRest DEF Rests, SessionFrame
    <3>3. JobShape'
      BY <2>1 DEF IInv, JobShape, Rests, SessionFrame
    <3> QED
      BY <3>2, <3>3
  <2>2. CASE Fill
    <3>1. PICK f : Filled(f)
      BY <2>2, FillJobs
    <3> QED
      BY <1>3, <3>1, FillKeeps DEF SessionFrame
  <2> QED
    BY <2>1, <2>2
<1>5. TypeOK'
  BY <1>1, <1>2, FreshListing DEF IInv, TypeOK, SessionFrame
<1>6. SessionShape' /\ Listings'
  BY <1>2, <1>3, OffSession DEF SessionShape, Listings
<1> QED
  BY <1>4, <1>5, <1>6 DEF IInv

LEMMA FirstFillStep ==
  ASSUME IInv, FirstFill
  PROVE  IInv'
<1>1. /\ SessionFrame /\ labels' = labels /\ troubles' = troubles /\ session.at = "recover"
      /\ Fill /\ Loop(FALSE)
  BY DEF FirstFill, Session, SessionFrame, records
<1> QED
  BY <1>1, NoTroubles, RoundStep

LEMMA RefillStep ==
  ASSUME IInv, Refill
  PROVE  IInv'
<1>1. /\ SessionFrame /\ labels' = labels /\ troubles' = troubles /\ session.at = "list"
  BY DEF Refill, Session, SessionFrame, records
<1>2. CASE Rests /\ Loop(FALSE)
  BY <1>1, <1>2, NoTroubles, RoundStep
<1>3. CASE Fill /\ Loop(~session.failed /\ Frontier = {})
  BY <1>1, <1>3, NoTroubles, RoundStep
<1> QED
  BY <1>2, <1>3 DEF Refill, Rests, jobs

LEMMA ListingFailsStep ==
  ASSUME IInv, ListingFails
  PROVE  IInv'
<1>1. /\ SessionFrame /\ labels' = labels /\ session.at = "list" /\ Rests /\ Loop(FALSE)
      /\ troubles' \in 0..MaxTroubles
  BY Faults DEF ListingFails, Session, SessionFrame, records, Rests, jobs, IInv
<1> QED
  BY <1>1, RoundStep

LEMMA SessionStepKeeps ==
  ASSUME IInv, SessionStep
  PROVE  IInv'
BY StartSessionStep, ReadItemStep, FirstListedStep, RepairStep, FirstFillStep, WakeStep,
   ScanQueueStep, ReadQueuedStep, PromoteStep, RefillStep, ListingFailsStep
   DEF SessionStep

-----------------------------------------------------------------------------
(* The theorems.                                                            *)

LEMMA Begins ==
  ASSUME Init
  PROVE  IInv
<1>1. PICK start \in Starts : labels = start[1] /\ total = start[2]
  BY DEF Init
<1>2. labels \in [Items -> SUBSET Labels] /\ total \in [Issues -> 0..Children] /\ open = total
  BY <1>1, ItemsAssumption DEF Init
<1>3. /\ job = [s \in Slots |-> Free] /\ Free \in Jobs /\ Free.at = "free" /\ Free.result = "none"
      /\ session = Off
  BY DEF Init, Free, Jobs
<1>4. \A s \in Slots : job[s].at = "free" /\ job[s].result = "none"
  BY <1>3
<1>5. TypeOK
  <2>1. log \in [Items -> [running : Ops \cup {"none"}, older : BOOLEAN]]
    BY DEF Init, NoRecord
  <2>2. seen \in [Items -> {Unread} \cup SUBSET Labels]
    BY DEF Init
  <2>3. \A i \in Issues : open[i] <= total[i]
    BY <1>2, BoundsAssumption
  <2>4. wanted \in [Items -> SUBSET Asking]
    BY <1>2 DEF Init
  <2>5. troubles \in 0..MaxTroubles /\ crashes \in 0..MaxCrashes
    BY BoundsAssumption DEF Init
  <2>6. job \in [Slots -> Jobs] /\ Busy(job) = {}
    BY <1>3, <1>4 DEF Busy
  <2> QED
    BY <1>2, <1>3, <2>1, <2>2, <2>3, <2>4, <2>5, <2>6, OffSession DEF Init, TypeOK
<1>6. OneJobPerIdentity /\ JobShape
  BY <1>4 DEF OneJobPerIdentity, Busy, JobShape
<1>7. SessionShape /\ Listings
  BY <1>3, <1>4, OffSession DEF SessionShape, Listings, Busy
<1>8. Ownership
  BY <1>4 DEF Ownership, Engaged, Active, Dangling
<1>9. Accounted
  <2>1. \A i \in Items : Missing(i) = {}
    BY <1>2, <1>3, OffSession DEF Init, Missing, Firm, Flipping
  <2> QED
    BY <1>4, <2>1 DEF Accounted, Engaged, Dangling
<1> QED
  BY <1>5, <1>6, <1>7, <1>8, <1>9 DEF IInv

LEMMA NextKeeps ==
  ASSUME IInv, [Next]_vars
  PROVE  IInv'
<1>1. CASE UNCHANGED vars
  <2>1. /\ labels' = labels /\ total' = total /\ open' = open /\ implemented' = implemented
        /\ draft' = draft /\ log' = log /\ aged' = aged /\ unreadable' = unreadable
        /\ session' = session /\ seen' = seen /\ job' = job /\ muddled' = muddled
        /\ troubles' = troubles /\ crashes' = crashes /\ wanted' = wanted /\ edited' = edited
        /\ reviewed' = reviewed
    BY <1>1 DEF vars, github, records, jobs, bounds
  <2>2. TypeOK' /\ JobShape' /\ SessionShape' /\ Listings'
    BY <2>1 DEF IInv, TypeOK, JobShape, SessionShape, Listings
  <2>3. \A k \in Items : Missing(k)' = Missing(k)
    BY <2>1 DEF Missing, Firm, Flipping
  <2>4. OneJobPerIdentity' /\ Ownership' /\ Accounted'
    BY <2>1, <2>3, JobsRest
  <2> QED
    BY <2>2, <2>4 DEF IInv
<1> QED
  BY <1>1, SessionStepKeeps, JobStepKeeps, CrashStep, AgeStep, EditStep DEF Next

LEMMA InvariantHolds == Spec => []IInv
BY Begins, NextKeeps, PTL DEF Spec

\* What is missing anywhere is behind a label that stops the Work Item.
LEMMA NothingIsForgotten ==
  ASSUME IInv
  PROVE  NothingForgotten
<1> SUFFICES ASSUME NEW i \in Items \ muddled, labels[i] \cap {"in-progress", "blocked"} = {}
             PROVE  \A l \in wanted[i] : l \in labels[i]
                                         \/ (l = "queued" /\ "implement" \in labels[i])
  BY DEF NothingForgotten, Shows
<1>1. Missing(i) = {}
  <2>1. CASE \E s \in Slots : Engaged(s) /\ job[s].on = i
    <3>1. PICK s \in Slots : Engaged(s) /\ job[s].on = i
      BY <2>1
    <3>2. job[s].at = "claim"
      BY <3>1 DEF IInv, Ownership
    <3> QED
      BY <3>1, <3>2 DEF IInv, Accounted, Owes
  <2>2. CASE \A s \in Slots : Engaged(s) => job[s].on # i
    BY <2>2 DEF IInv, Accounted
  <2> QED
    BY <2>1, <2>2
<1> QED
  BY <1>1 DEF Missing, Firm

\* Slots, labels and records fit together, however many calls fail and however often
\* the Dispatcher dies: no identity has two jobs, and a command that was asked for
\* and whose job has not ended shows on its Work Item (dispatchAutomationCommands,
\* TargetOperationCommandRunner.run, the recovery of interrupted automation).
THEOREM ConsistentHolds == Spec => []Consistent
<1>1. IInv => Consistent
  BY NothingIsForgotten DEF IInv, Consistent
<1> QED
  BY <1>1, InvariantHolds, PTL

\* An empty frontier of a fresh listing: nothing is eligible.
LEMMA EmptyFrontier ==
  ASSUME Frontier = {}, session.repaired = {}, Busy(job) = {}, NEW i \in Items,
         NEW op \in Commands(i, seen[i])
  PROVE  ~Eligible(op, seen[i])
<1> SUFFICES ASSUME Eligible(op, seen[i])
             PROVE  FALSE
  OBVIOUS
<1> DEFINE E == {o \in Commands(i, seen[i]) : Eligible(o, seen[i])}
<1>1. E \subseteq Ops
  BY DEF Eligible, Commands, Routed, Ops, IssueOps, PullRequestOps
<1>2. PICK o \in E : \A other \in E : Priority(o) <= Priority(other)
  <2>1. CASE "update-branch" \in E
    BY <1>1, <2>1 DEF Priority, Ops, IssueOps, PullRequestOps
  <2>2. CASE "update-branch" \notin E /\ "implement" \in E
    BY <1>1, <2>2 DEF Priority, Ops, IssueOps, PullRequestOps
  <2>3. CASE "update-branch" \notin E /\ "implement" \notin E /\ "review" \in E
    BY <1>1, <2>3 DEF Priority, Ops, IssueOps, PullRequestOps
  <2>4. CASE E \cap PullRequestOps = {} /\ E \cap {"implement-issue", "implement-spec"} # {}
    BY <1>1, <2>4 DEF Priority, Ops, IssueOps, PullRequestOps
  <2>5. CASE E \subseteq {"split-spec"}
    BY <1>1, <2>5 DEF Priority
  <2> QED
    BY <1>1, <2>1, <2>2, <2>3, <2>4, <2>5 DEF Ops, IssueOps, PullRequestOps
<1>3. Selected(i, o)
  BY <1>2 DEF Selected, InFlight, Running
<1>4. <<i, o>> \in Frontier
  BY <1>1, <1>3 DEF Frontier
<1> QED
  BY <1>4

DrainsClean ==
  session.at = "list" /\ session'.at = "off" /\ crashes' = crashes =>
    /\ Busy(job) = {}
    /\ \A i \in Items \ edited : \A op \in Commands(i, labels[i]) : ~Eligible(op, labels[i])

LEMMA CleanDrain ==
  ASSUME IInv, [Next]_vars
  PROVE  DrainsClean
<1> SUFFICES ASSUME session.at = "list", session'.at = "off", crashes' = crashes
             PROVE  /\ Busy(job) = {}
                    /\ \A i \in Items \ edited : \A op \in Commands(i, labels[i]) :
                         ~Eligible(op, labels[i])
  BY DEF DrainsClean
<1>1. session' # session
  OBVIOUS
<1>2. ~Crash
  BY DEF Crash, IInv, TypeOK
<1>3. ASSUME NEW s \in Slots, JobStep(s)
      PROVE  FALSE
  <2>1. CASE Done(s)
    <3>1. session' = [session EXCEPT !.woken = Wakes, !.raced = (session.at = "list")]
      BY <2>1 DEF Done
    <3>2. session \in Sessions
      BY DEF IInv, TypeOK
    <3> QED
      BY <3>1, <3>2 DEF Sessions
  <2>2. CASE session' = session
    BY <2>2
  <2> QED
    BY <1>3, <2>1, <2>2 DEF JobStep, ReadAvailable, Claim, Acquire, RemoveTrigger, Settle, LogStart,
       RunImplementation, RunFeedback, RunReview, RunBranchUpdate, RunSpecSplit,
       RunSpecImplementation, CloseChild, Continue, LogEnd, Block, Release, Untouched, Working
<1>4. ~Age /\ ~Edit /\ ~(UNCHANGED vars)
  BY DEF Age, Edit, vars
<1>5. Refill \/ ListingFails
  BY <1>1, <1>2, <1>3, <1>4 DEF Next, SessionStep, StartSession, ReadItem, FirstListed, Repair,
     FirstFill, Wake, ScanQueue, ReadQueued, Promote, Session
<1>6. ~session.first /\ session.repaired = {}
  BY DEF IInv, SessionShape
<1>7. ~Loop(FALSE)
  <2>1. Loop(FALSE) => session' = Waiting(session)
    BY <1>6 DEF Loop
  <2>2. Waiting(session).at = "wait"
    BY DEF Waiting, IInv, TypeOK, Sessions
  <2> QED
    BY <2>1, <2>2
<1>8. /\ ~session.raced /\ Fill /\ Listed /\ Loop(~session.failed /\ Frontier = {})
      /\ Frontier = {} /\ Busy(job') = {}
  <2>1. /\ ~session.raced /\ Fill /\ Listed /\ Loop(~session.failed /\ Frontier = {})
    BY <1>5, <1>7 DEF Refill, ListingFails, Raced
  <2>2. Waiting(session).at = "wait"
    BY DEF Waiting, IInv, TypeOK, Sessions
  <2> QED
    BY <1>6, <2>1, <2>2 DEF Loop
<1>9. Busy(job) = {}
  <2>1. PICK f : Filled(f)
    BY <1>8, FillJobs
  <2>2. Busy(job) \subseteq Busy(job')
    BY <2>1 DEF Filled, Busy
  <2> QED
    BY <1>8, <2>2
<1>10. \A i \in Items \ edited : seen[i] = labels[i]
  BY <1>8, <1>9 DEF IInv, Listings, Listed
<1> QED
  BY <1>6, <1>8, <1>9, <1>10, EmptyFrontier

\* A session drains only where nothing was eligible, unless people changed the Work
\* Item while it was listed: a listing that a completion made stale, or that failed,
\* proves nothing (the refill loop of dispatchAutomationCommands).
THEOREM DrainIsCleanHolds == Spec => DrainIsClean
<1>1. IInv /\ [Next]_vars => [DrainsClean]_vars
  BY CleanDrain
<1>2. DrainIsClean <=> [][DrainsClean]_vars
  BY PTL DEF DrainIsClean, DrainsClean
<1> QED
  BY <1>1, <1>2, InvariantHolds, PTL DEF Spec
=============================================================================
