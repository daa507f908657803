------------------------ MODULE SearchSnapshotProofs ------------------------
(***************************************************************************)
(* Theorems about SearchSnapshot, for every number of notes, barriers,     *)
(* changes and faults: its type invariant, that a ready snapshot is the    *)
(* Vault, that publications never go back, and that a barrier succeeds     *)
(* only with its successor.                                                *)
(***************************************************************************)
EXTENDS SearchSnapshot, TLAPS

Seen(n) == IF parsed[n] = content[n] THEN content[n] ELSE 0

\* after unload nothing rebuilds and no quiet window runs
Dropped == ~loaded => rebuilds = <<>> /\ ~timer

\* only a note that exists is parsed
ParsedExists == \A n \in Notes : parsed[n] = 0 \/ Exists(parsed[n])

\* only the first rebuild has read anything
OneReads == \A i \in DOMAIN rebuilds : i # 1 =>
  rebuilds[i].bytes = Unread /\ rebuilds[i].semantic = Unread

\* what a fresh rebuild has read is still so, but for notes whose event is under way
FreshReads == \A i \in DOMAIN rebuilds : rebuilds[i].fresh =>
  \A n \in Notes \ notice :
    /\ rebuilds[i].bytes[n] \in {None, content[n]}
    /\ rebuilds[i].semantic[n] \in {None, Seen(n)}

\* the contents of a note in the snapshot, in a rebuild and in the Vault follow
\* each other; metadata is only read for a note whose bytes were read
ReadsFollow == \A n \in Notes :
  /\ current[n].content <= content[n]
  /\ \A i \in DOMAIN rebuilds : rebuilds[i].bytes[n] # None =>
       current[n].content <= rebuilds[i].bytes[n] /\ rebuilds[i].bytes[n] <= content[n]
  /\ \A i \in DOMAIN rebuilds :
       rebuilds[i].semantic[n] # None => rebuilds[i].bytes[n] # None

\* a snapshot that is ready was published after every barrier began
ReadyIsSuccessor == readiness = "ready" => outdated = {}

IInv ==
  /\ TypeOK
  /\ Dropped
  /\ ParsedExists
  /\ OneReads
  /\ FreshReads
  /\ ReadsFollow
  /\ ReadyIsCurrent
  /\ ReadyIsSuccessor

-----------------------------------------------------------------------------
LEMMA NewRebuildType ==
  ASSUME NEW owner \in {"load", "direct", "refresh"}
  PROVE  /\ NewRebuild(owner) \in Rebuilds
         /\ NewRebuild(owner).bytes = Unread /\ NewRebuild(owner).semantic = Unread
         /\ NewRebuild(owner).owner = owner
PROOF BY DEF NewRebuild, Rebuilds, Reads, Unread

\* A new rebuild at the end of the queue disturbs no rebuild before it.
LEMMA Appended ==
  ASSUME NEW q \in Seq(Rebuilds), NEW r \in Rebuilds
  PROVE  /\ Append(q, r) \in Seq(Rebuilds)
         /\ DOMAIN Append(q, r) = DOMAIN q \cup {Len(q) + 1}
         /\ Len(q) + 1 \notin DOMAIN q
         /\ \A i \in DOMAIN q : Append(q, r)[i] = q[i]
         /\ Append(q, r)[Len(q) + 1] = r
PROOF OBVIOUS

\* Taking the running rebuild out of the queue leaves its tail.
LEMMA Popped ==
  ASSUME NEW q \in Seq(Rebuilds), 1 \in DOMAIN q,
         NEW o, o = SubSeq(q, 1, 1 - 1) \o SubSeq(q, 1 + 1, Len(q))
  PROVE  /\ o \in Seq(Rebuilds)
         /\ Len(o) = Len(q) - 1
         /\ \A i \in DOMAIN o : i + 1 \in DOMAIN q /\ o[i] = q[i + 1]
PROOF
<1>1. Len(q) \in Nat /\ DOMAIN q = 1..Len(q) /\ Len(q) >= 1
  OBVIOUS
<1>2. SubSeq(q, 1, 1 - 1) = <<>>
  BY <1>1
<1>3. SubSeq(q, 2, Len(q)) \in Seq(Rebuilds) /\ Len(SubSeq(q, 2, Len(q))) = Len(q) - 1
      /\ \A i \in 1..(Len(q) - 1) : SubSeq(q, 2, Len(q))[i] = q[i + 1]
  BY <1>1
<1> QED BY <1>1, <1>2, <1>3

-----------------------------------------------------------------------------
(* Events: every rebuild asked for so far becomes stale *)

Staled == [i \in DOMAIN rebuilds |-> [rebuilds[i] EXCEPT !.fresh = FALSE]]

LEMMA StaledSame ==
  ASSUME rebuilds \in Seq(Rebuilds)
  PROVE  /\ Staled \in Seq(Rebuilds)
         /\ DOMAIN Staled = DOMAIN rebuilds
         /\ \A i \in DOMAIN rebuilds :
              /\ Staled[i].owner = rebuilds[i].owner
              /\ Staled[i].bytes = rebuilds[i].bytes
              /\ Staled[i].semantic = rebuilds[i].semantic
              /\ ~Staled[i].fresh
PROOF
<1>1. Len(rebuilds) \in Nat /\ DOMAIN rebuilds = 1..Len(rebuilds)
  OBVIOUS
<1>2. \A i \in DOMAIN rebuilds : rebuilds[i] \in Rebuilds
  OBVIOUS
<1>3. \A i \in DOMAIN rebuilds : [rebuilds[i] EXCEPT !.fresh = FALSE] \in Rebuilds
  BY <1>2 DEF Rebuilds
<1>4. Staled \in Seq(Rebuilds)
  BY <1>1, <1>3 DEF Staled
<1> QED BY <1>2, <1>4 DEF Staled, Rebuilds

-----------------------------------------------------------------------------
(* The end of a rebuild *)

LEMMA Subscribed ==
  ASSUME NEW queue \in Seq(Refreshes), NEW left, NEW joining \in SUBSET Barriers
  PROVE  /\ Subscribe(queue, left, joining) \in Seq(Refreshes)
         /\ Len(Subscribe(queue, left, joining)) = Len(queue)
PROOF
<1>1. Len(queue) \in Nat /\ DOMAIN queue = 1..Len(queue)
  OBVIOUS
<1>2. \A i \in DOMAIN queue : queue[i].waiters \subseteq Barriers /\ queue[i].idle \subseteq Barriers
  <2>1. \A i \in DOMAIN queue : queue[i] \in Refreshes
    OBVIOUS
  <2> QED BY <2>1 DEF Refreshes
<1>3. \A i \in DOMAIN queue :
        [waiters |-> queue[i].waiters \ left,
         idle |-> (queue[i].idle \ left) \cup (IF i = Len(queue) THEN joining ELSE {})]
          \in Refreshes
  BY <1>2 DEF Refreshes
<1> QED BY <1>1, <1>3 DEF Subscribe

Readinesses == {"building", "ready", "unavailable"}
Snapshots == [Notes -> [content: Contents, semantic: Contents]]
Stages == {"none"} \cup Active \cup Ended

LEMMA JudgedStage ==
  ASSUME NEW b, NEW ready, NEW snapshot, NEW expired
  PROVE  /\ Judged(b, ready, snapshot, expired) \in {"ok", "failed", "signal"}
         /\ Judged(b, ready, snapshot, expired) = "ok" => Matches(b, ready, snapshot)
PROOF BY DEF Judged

LEMMA ResumedStage ==
  ASSUME NEW s, NEW armed, NEW queue
  PROVE  Resumed(s, armed, queue) \in {"quiet", "final", "idle"}
PROOF BY DEF Resumed

\* What Settle does to the queue of rebuilds, to #builds and to the barriers.
LEMMA Settled ==
  ASSUME TypeOK, NEW i \in DOMAIN rebuilds, Running(i),
         NEW ready, NEW snapshot, NEW succeeded,
         Settle(i, ready, snapshot, succeeded)
  PROVE  /\ rebuilds' \in Seq(Rebuilds)
         /\ \A k \in DOMAIN rebuilds' :
              \/ k + 1 \in DOMAIN rebuilds /\ rebuilds'[k] = rebuilds[k + 1]
              \/ /\ rebuilds[1].owner = "refresh" /\ chain' # <<>>
                 /\ rebuilds'[k] = NewRebuild("refresh") /\ k = Len(rebuilds')
         /\ \A k \in DOMAIN rebuilds : k # 1 =>
              k - 1 \in DOMAIN rebuilds' /\ rebuilds'[k - 1] = rebuilds[k]
         /\ rebuilds[1].owner = "refresh" /\ chain' # <<>> =>
              /\ Len(rebuilds') \in DOMAIN rebuilds'
              /\ rebuilds'[Len(rebuilds')] = NewRebuild("refresh")
         /\ chain' \in Seq(Refreshes)
         /\ rebuilds[1].owner # "refresh" => (chain' = <<>> <=> chain = <<>>)
         /\ readiness' \in {"building", ready}
         /\ current' = snapshot
         /\ stage' \in [Barriers -> Stages]
         /\ \A b \in Barriers : stage[b] # "ok" /\ stage'[b] = "ok" =>
              Matches(b, readiness', snapshot)
PROOF
<1> DEFINE others == SubSeq(rebuilds, 1, i - 1) \o SubSeq(rebuilds, i + 1, Len(rebuilds))
           refresh == rebuilds[i].owner = "refresh"
           done == IF refresh THEN Head(chain) ELSE NoRefresh
           queue == IF refresh THEN Tail(chain) ELSE chain
           follow == refresh /\ queue # <<>>
           left == done.waiters \cup done.idle
           thrown == IF succeeded THEN {} ELSE done.waiters
           next(b) == IF b \in thrown THEN "idle" ELSE Resumed(stage[b], timer, queue)
<1>1. i = 1 /\ rebuilds \in Seq(Rebuilds) /\ chain \in Seq(Refreshes)
      /\ stage \in [Barriers -> Stages]
  BY DEF Running, TypeOK, Stages
<1>2. /\ rebuilds' = IF follow THEN Append(others, NewRebuild("refresh")) ELSE others
      /\ readiness' = IF others # <<>> \/ follow THEN "building" ELSE ready
      /\ current' = snapshot
      /\ chain' = Subscribe(queue, left, {b \in left : next(b) = "final"})
      /\ stage' = [b \in Barriers |->
                    IF b \notin left THEN stage[b]
                    ELSE IF next(b) = "idle" THEN Judged(b, readiness', snapshot, late[b])
                    ELSE next(b)]
  BY DEF Settle
<1>3. /\ others \in Seq(Rebuilds)
      /\ Len(others) = Len(rebuilds) - 1
      /\ \A k \in DOMAIN others : k + 1 \in DOMAIN rebuilds /\ others[k] = rebuilds[k + 1]
  <2>1. others = SubSeq(rebuilds, 1, 1 - 1) \o SubSeq(rebuilds, 1 + 1, Len(rebuilds))
    BY <1>1
  <2> HIDE DEF others
  <2> QED BY <1>1, <2>1, Popped
<1>4. refresh => chain # <<>>
  BY DEF TypeOK
<1>5. queue \in Seq(Refreshes) /\ left \subseteq Barriers
  <2>1. CASE refresh
    <3>1. Head(chain) \in Refreshes /\ Tail(chain) \in Seq(Refreshes)
      BY <1>1, <1>4, <2>1
    <3> QED BY <2>1, <3>1 DEF Refreshes
  <2>2. CASE ~refresh
    BY <1>1, <2>2 DEF NoRefresh
  <2> QED BY <2>1, <2>2
<1> HIDE DEF others, queue, left, next, refresh
<1>6. chain' \in Seq(Refreshes) /\ (chain' = <<>> <=> queue = <<>>)
  <2>1. {b \in left : next(b) = "final"} \in SUBSET Barriers
    BY <1>5
  <2>2. chain' \in Seq(Refreshes) /\ Len(chain') = Len(queue)
    BY <1>2, <1>5, <2>1, Subscribed
  <2> QED BY <1>5, <2>2
<1>7. DOMAIN others = 1..Len(others) /\ Len(others) \in Nat
      /\ DOMAIN rebuilds = 1..Len(rebuilds) /\ Len(rebuilds) \in Nat
  BY <1>1, <1>3
<1>8. CASE follow
  <2>1. rebuilds' = Append(others, NewRebuild("refresh")) /\ refresh /\ queue # <<>>
    BY <1>2, <1>8
  <2>2. NewRebuild("refresh") \in Rebuilds
    BY NewRebuildType
  <2>3. /\ rebuilds' \in Seq(Rebuilds)
        /\ DOMAIN rebuilds' = DOMAIN others \cup {Len(others) + 1}
        /\ \A k \in DOMAIN others : rebuilds'[k] = others[k]
        /\ rebuilds'[Len(others) + 1] = NewRebuild("refresh")
    BY <1>3, <2>1, <2>2, Appended
  <2>4. Len(rebuilds') = Len(others) + 1
    BY <1>3, <2>1, <2>2
  <2>5. rebuilds[1].owner = "refresh" /\ chain' # <<>>
    BY <1>1, <1>6, <2>1 DEF refresh
  <2>6. \A k \in DOMAIN rebuilds : k # 1 =>
          k - 1 \in DOMAIN rebuilds' /\ rebuilds'[k - 1] = rebuilds[k]
    BY <1>3, <1>7, <2>3
  <2>7. \A k \in DOMAIN rebuilds' :
              \/ k + 1 \in DOMAIN rebuilds /\ rebuilds'[k] = rebuilds[k + 1]
              \/ rebuilds'[k] = NewRebuild("refresh") /\ k = Len(rebuilds')
    BY <1>3, <2>3, <2>4
  <2> HIDE DEF follow
  <2>8. readiness' \in {"building", ready} /\ current' = snapshot
    BY <1>2
  <2>9. stage' \in [Barriers -> Stages]
        /\ \A b \in Barriers : stage[b] # "ok" /\ stage'[b] = "ok" =>
              Matches(b, readiness', snapshot)
    BY <1>1, <1>2, JudgedStage, ResumedStage DEF next, Stages, Active, Waiting, Ended
  <2> QED BY <1>6, <2>3, <2>4, <2>5, <2>6, <2>7, <2>8, <2>9
<1>9. CASE ~follow
  <2>1. rebuilds' = others /\ (refresh => queue = <<>>)
    BY <1>2, <1>9
  <2>2. rebuilds[1].owner = "refresh" => chain' = <<>>
    BY <1>1, <1>6, <2>1 DEF refresh
  <2>3. rebuilds[1].owner # "refresh" => (chain' = <<>> <=> chain = <<>>)
    BY <1>1, <1>6 DEF refresh, queue
  <2>4. \A k \in DOMAIN rebuilds : k # 1 =>
          k - 1 \in DOMAIN rebuilds' /\ rebuilds'[k - 1] = rebuilds[k]
    BY <1>3, <1>7, <2>1
  <2> HIDE DEF follow
  <2>5. readiness' \in {"building", ready} /\ current' = snapshot
    BY <1>2
  <2>6. stage' \in [Barriers -> Stages]
        /\ \A b \in Barriers : stage[b] # "ok" /\ stage'[b] = "ok" =>
              Matches(b, readiness', snapshot)
    BY <1>1, <1>2, JudgedStage, ResumedStage DEF next, Stages, Active, Waiting, Ended
  <2> QED BY <1>3, <1>6, <2>1, <2>2, <2>3, <2>4, <2>5, <2>6
<1> QED BY <1>8, <1>9

-----------------------------------------------------------------------------
(* Types *)

OneRefresh ==
  /\ \A i, j \in DOMAIN rebuilds :
       rebuilds[i].owner = "refresh" /\ rebuilds[j].owner = "refresh" => i = j
  /\ (chain # <<>>) <=> \E i \in DOMAIN rebuilds : rebuilds[i].owner = "refresh"

LEMMA RefreshTypes ==
  ASSUME TypeOK, Refresh
  PROVE  /\ rebuilds' \in Seq(Rebuilds) /\ OneRefresh'
         /\ readiness' \in Readinesses /\ timer' \in BOOLEAN
         /\ stage' \in [Barriers -> Stages]
PROOF
<1>1. /\ rebuilds \in Seq(Rebuilds) /\ OneRefresh /\ readiness \in Readinesses
      /\ timer \in BOOLEAN /\ stage \in [Barriers -> Stages]
  BY DEF TypeOK, OneRefresh, Readinesses, Stages
<1>2. stage' \in [Barriers -> Stages] /\ chain' = chain
  BY <1>1 DEF Refresh, Stages, Active, Waiting, Ended
<1>3. CASE loaded
  <2>1. rebuilds' = Staled /\ readiness' = "building" /\ timer' = TRUE
    BY <1>3 DEF Refresh, Schedule, Staled
  <2>2. rebuilds' \in Seq(Rebuilds) /\ OneRefresh'
    BY <1>1, <1>2, <2>1, StaledSame DEF OneRefresh
  <2> QED BY <1>2, <2>1, <2>2 DEF Readinesses
<1>4. CASE ~loaded
  BY <1>1, <1>2, <1>4 DEF Refresh, OneRefresh
<1> QED BY <1>3, <1>4

LEMMA AppendTypes ==
  ASSUME TypeOK, NEW owner \in {"direct", "refresh"},
         rebuilds' = Append(rebuilds, NewRebuild(owner)),
         owner = "refresh" => chain = <<>> /\ chain' # <<>>,
         owner # "refresh" => chain' = chain
  PROVE  rebuilds' \in Seq(Rebuilds) /\ OneRefresh'
PROOF
<1>1. rebuilds \in Seq(Rebuilds) /\ OneRefresh
  BY DEF TypeOK, OneRefresh
<1>2. NewRebuild(owner) \in Rebuilds /\ NewRebuild(owner).owner = owner
  BY NewRebuildType
<1>3. /\ rebuilds' \in Seq(Rebuilds)
      /\ DOMAIN rebuilds' = DOMAIN rebuilds \cup {Len(rebuilds) + 1}
      /\ Len(rebuilds) + 1 \notin DOMAIN rebuilds
      /\ \A i \in DOMAIN rebuilds : rebuilds'[i] = rebuilds[i]
      /\ rebuilds'[Len(rebuilds) + 1].owner = owner
  BY <1>1, <1>2, Appended
<1> HIDE DEF NewRebuild
<1> QED BY <1>1, <1>3 DEF OneRefresh

\* A read fills in one field of the running rebuild.
LEMMA ReadTypes ==
  ASSUME TypeOK, NEW i \in DOMAIN rebuilds, NEW r \in Rebuilds,
         r.owner = rebuilds[i].owner,
         rebuilds' = [rebuilds EXCEPT ![i] = r], chain' = chain
  PROVE  rebuilds' \in Seq(Rebuilds) /\ OneRefresh'
PROOF
<1>1. rebuilds \in Seq(Rebuilds) /\ OneRefresh
  BY DEF TypeOK, OneRefresh
<1>2. rebuilds' \in Seq(Rebuilds) /\ DOMAIN rebuilds' = DOMAIN rebuilds
  BY <1>1
<1>3. \A k \in DOMAIN rebuilds : rebuilds'[k].owner = rebuilds[k].owner
  BY <1>1
<1> QED BY <1>1, <1>2, <1>3 DEF OneRefresh

LEMMA SettleTypes ==
  ASSUME TypeOK, NEW i \in DOMAIN rebuilds, Running(i),
         NEW ready \in Readinesses, NEW snapshot \in Snapshots, NEW succeeded,
         Settle(i, ready, snapshot, succeeded)
  PROVE  /\ rebuilds' \in Seq(Rebuilds) /\ OneRefresh' /\ chain' \in Seq(Refreshes)
         /\ readiness' \in Readinesses /\ current' \in Snapshots
         /\ stage' \in [Barriers -> Stages]
PROOF
<1>1. rebuilds \in Seq(Rebuilds) /\ OneRefresh /\ i = 1
  BY DEF TypeOK, OneRefresh, Running
<1>2. /\ rebuilds' \in Seq(Rebuilds)
      /\ \A k \in DOMAIN rebuilds' :
           \/ k + 1 \in DOMAIN rebuilds /\ rebuilds'[k] = rebuilds[k + 1]
           \/ /\ rebuilds[1].owner = "refresh" /\ chain' # <<>>
              /\ rebuilds'[k] = NewRebuild("refresh") /\ k = Len(rebuilds')
      /\ \A k \in DOMAIN rebuilds : k # 1 =>
           k - 1 \in DOMAIN rebuilds' /\ rebuilds'[k - 1] = rebuilds[k]
      /\ rebuilds[1].owner = "refresh" /\ chain' # <<>> =>
           /\ Len(rebuilds') \in DOMAIN rebuilds'
           /\ rebuilds'[Len(rebuilds')] = NewRebuild("refresh")
      /\ chain' \in Seq(Refreshes)
      /\ rebuilds[1].owner # "refresh" => (chain' = <<>> <=> chain = <<>>)
      /\ readiness' \in {"building", ready} /\ current' = snapshot
      /\ stage' \in [Barriers -> Stages]
  BY Settled
<1>3. NewRebuild("refresh").owner = "refresh"
  BY NewRebuildType
<1>4. DOMAIN rebuilds = 1..Len(rebuilds) /\ Len(rebuilds) \in Nat
      /\ DOMAIN rebuilds' = 1..Len(rebuilds') /\ Len(rebuilds') \in Nat
  BY <1>1, <1>2
<1> HIDE DEF NewRebuild
<1>5. OneRefresh'
  <2>1. CASE rebuilds[1].owner = "refresh"
    <3>1. \A k \in DOMAIN rebuilds : k # 1 => rebuilds[k].owner # "refresh"
      BY <1>1, <2>1 DEF OneRefresh
    <3>2. \A k \in DOMAIN rebuilds' : rebuilds'[k].owner = "refresh" =>
            k = Len(rebuilds') /\ chain' # <<>>
      BY <1>2, <1>4, <3>1
    <3> QED BY <1>2, <1>3, <2>1, <3>2 DEF OneRefresh
  <2>2. CASE rebuilds[1].owner # "refresh"
    <3>1. \A k \in DOMAIN rebuilds' : k + 1 \in DOMAIN rebuilds /\ rebuilds'[k] = rebuilds[k + 1]
      BY <1>2, <2>2
    <3>2. \A k, l \in DOMAIN rebuilds' :
            rebuilds'[k].owner = "refresh" /\ rebuilds'[l].owner = "refresh" => k = l
      BY <1>1, <1>4, <3>1 DEF OneRefresh
    <3>3. (\E k \in DOMAIN rebuilds' : rebuilds'[k].owner = "refresh") <=>
          (\E k \in DOMAIN rebuilds : rebuilds[k].owner = "refresh")
      BY <1>2, <1>4, <2>2, <3>1
    <3> QED BY <1>1, <1>2, <2>2, <3>2, <3>3 DEF OneRefresh
  <2> QED BY <2>1, <2>2
<1> QED BY <1>2, <1>5 DEF Readinesses

LEMMA SnapshotOfRebuild ==
  ASSUME TypeOK, NEW i \in DOMAIN rebuilds, OneReads, ReadsFollow,
         \A n \in Notes : rebuilds[i].semantic[n] # None
  PROVE  /\ \A n \in Notes : rebuilds[i].bytes[n] \in Contents
         /\ [n \in Notes |-> [content |-> rebuilds[i].bytes[n],
                              semantic |-> rebuilds[i].semantic[n]]] \in Snapshots
PROOF
<1>1. rebuilds[i] \in Rebuilds
  BY DEF TypeOK
<1>2. rebuilds[i].bytes \in Reads /\ rebuilds[i].semantic \in Reads
  BY <1>1 DEF Rebuilds
<1>3. \A n \in Notes : rebuilds[i].bytes[n] # None
  BY DEF ReadsFollow
<1>4. \A n \in Notes : rebuilds[i].bytes[n] \in Contents /\ rebuilds[i].semantic[n] \in Contents
  BY <1>2, <1>3 DEF Reads
<1> QED BY <1>4 DEF Snapshots

\* the invariants that type correctness of a publication rests on are part of IInv
LEMMA TypeStep ==
  ASSUME IInv, [Next]_vars
  PROVE  TypeOK'
PROOF
<1>1. TypeOK /\ OneReads /\ ReadsFollow
  BY DEF IInv
<1>2. /\ content \in [Notes -> Contents] /\ notice \subseteq Notes
      /\ parsed \in [Notes -> Contents] /\ extras \in 0..MaxExtras
      /\ loaded \in BOOLEAN /\ timer \in BOOLEAN /\ readiness \in Readinesses
      /\ current \in Snapshots /\ rebuilds \in Seq(Rebuilds) /\ chain \in Seq(Refreshes)
      /\ stage \in [Barriers -> Stages]
      /\ target \in [Barriers -> {None} \cup Targets]
      /\ late \in [Barriers -> BOOLEAN] /\ outdated \subseteq Barriers /\ OneRefresh
  BY <1>1 DEF TypeOK, Readinesses, Snapshots, Stages, OneRefresh
<1>3. MaxContent \in Nat /\ MaxExtras \in Nat
  BY BoundsAssumption
<1> DEFINE Goal ==
      /\ content' \in [Notes -> Contents] /\ notice' \subseteq Notes
      /\ parsed' \in [Notes -> Contents] /\ extras' \in 0..MaxExtras
      /\ loaded' \in BOOLEAN /\ timer' \in BOOLEAN /\ readiness' \in Readinesses
      /\ current' \in Snapshots /\ rebuilds' \in Seq(Rebuilds) /\ chain' \in Seq(Refreshes)
      /\ stage' \in [Barriers -> Stages]
      /\ target' \in [Barriers -> {None} \cup Targets]
      /\ late' \in [Barriers -> BOOLEAN] /\ outdated' \subseteq Barriers /\ OneRefresh'
<1>4. SUFFICES Goal
  BY DEF TypeOK, Readinesses, Snapshots, Stages, OneRefresh
<1>5. ASSUME NEW n \in Notes, Change(n) PROVE Goal
  <2>1. content' \in [Notes -> Contents]
    BY <1>2, <1>3, <1>5 DEF Change, Contents
  <2>2. notice' \subseteq Notes
    BY <1>2, <1>5 DEF Change
  <2> QED BY <1>2, <1>5, <2>1, <2>2 DEF Change, manager, OneRefresh
<1>6. ASSUME Refresh PROVE
        /\ rebuilds' \in Seq(Rebuilds) /\ OneRefresh' /\ readiness' \in Readinesses
        /\ timer' \in BOOLEAN /\ stage' \in [Barriers -> Stages]
        /\ UNCHANGED <<loaded, current, chain, late, target, outdated>>
  BY <1>1, <1>6, RefreshTypes DEF Refresh
<1>7. ASSUME NEW n \in Notes, Deliver(n) PROVE Goal
  <2>1. parsed' \in [Notes -> Contents]
    BY <1>2, <1>3, <1>7 DEF Deliver, Contents
  <2> QED BY <1>2, <1>6, <1>7, <2>1 DEF Deliver
<1>8. ASSUME NEW n \in Notes, Parse(n) PROVE Goal
  <2>1. parsed' \in [Notes -> Contents]
    BY <1>2, <1>8 DEF Parse
  <2> QED BY <1>2, <1>6, <1>8, <2>1 DEF Parse
<1>9. CASE Resolved
  <2>1. extras' \in 0..MaxExtras
    BY <1>2, <1>3, <1>9 DEF Resolved
  <2> QED BY <1>2, <1>6, <1>9, <2>1 DEF Resolved
<1>10. CASE RebuildDirectly
  <2>1. extras' \in 0..MaxExtras
    BY <1>2, <1>3, <1>10 DEF RebuildDirectly
  <2>2. rebuilds' \in Seq(Rebuilds) /\ OneRefresh'
    BY <1>1, <1>10, AppendTypes DEF RebuildDirectly
  <2> QED BY <1>2, <1>10, <2>1, <2>2 DEF RebuildDirectly, host, Readinesses
<1>11. ASSUME NEW i \in DOMAIN rebuilds, List(i) PROVE Goal
  <2> DEFINE absent == {n \in Notes : ~Exists(content[n])}
             r == [rebuilds[i] EXCEPT
                     !.paths = Notes \ absent,
                     !.bytes = [n \in Notes |-> IF n \in absent THEN content[n] ELSE None],
                     !.semantic = [n \in Notes |-> IF n \in absent THEN 0 ELSE None]]
  <2>1. rebuilds[i] \in Rebuilds
    BY <1>2
  <2>2. 0 \in Contents
    BY <1>3 DEF Contents
  <2>3. r \in Rebuilds /\ r.owner = rebuilds[i].owner
    BY <1>2, <2>1, <2>2 DEF Rebuilds, Reads
  <2>4. rebuilds' = [rebuilds EXCEPT ![i] = r]
    BY <1>11 DEF List
  <2> HIDE DEF r
  <2>5. rebuilds' \in Seq(Rebuilds) /\ OneRefresh'
    BY <1>1, <1>11, <2>3, <2>4, ReadTypes DEF List
  <2> QED BY <1>2, <1>11, <2>5 DEF List, host
<1>12. ASSUME NEW i \in DOMAIN rebuilds, NEW n \in Notes, ReadBytes(i, n) PROVE Goal
  <2> DEFINE r == [rebuilds[i] EXCEPT !.bytes[n] = content[n]]
  <2>1. rebuilds[i] \in Rebuilds
    BY <1>2
  <2>2. r \in Rebuilds /\ r.owner = rebuilds[i].owner
    BY <1>2, <2>1 DEF Rebuilds, Reads
  <2>3. rebuilds' = [rebuilds EXCEPT ![i] = r]
    BY <1>12 DEF ReadBytes
  <2> HIDE DEF r
  <2>4. rebuilds' \in Seq(Rebuilds) /\ OneRefresh'
    BY <1>1, <1>12, <2>2, <2>3, ReadTypes DEF ReadBytes
  <2> QED BY <1>2, <1>12, <2>4 DEF ReadBytes, host
<1>13. ASSUME NEW i \in DOMAIN rebuilds, NEW n \in Notes, ReadSemantic(i, n) PROVE Goal
  <2> DEFINE r == [rebuilds[i] EXCEPT
                     !.semantic[n] = IF parsed[n] = content[n] THEN content[n] ELSE 0]
  <2>1. rebuilds[i] \in Rebuilds
    BY <1>2
  <2>2. 0 \in Contents
    BY <1>3 DEF Contents
  <2>3. r \in Rebuilds /\ r.owner = rebuilds[i].owner
    BY <1>2, <2>1, <2>2 DEF Rebuilds, Reads
  <2>4. rebuilds' = [rebuilds EXCEPT ![i] = r]
    BY <1>13 DEF ReadSemantic
  <2> HIDE DEF r
  <2>5. rebuilds' \in Seq(Rebuilds) /\ OneRefresh'
    BY <1>1, <1>13, <2>3, <2>4, ReadTypes DEF ReadSemantic
  <2> QED BY <1>2, <1>13, <2>5 DEF ReadSemantic, host
<1>14. ASSUME NEW i \in DOMAIN rebuilds, Publish(i) PROVE Goal
  <2> DEFINE read == [n \in Notes |-> [content |-> rebuilds[i].bytes[n],
                                       semantic |-> rebuilds[i].semantic[n]]]
             ready == IF Fresh(i) THEN "ready" ELSE readiness
             snapshot == IF Fresh(i) THEN read ELSE current
  <2>1. read \in Snapshots
    BY <1>1, <1>14, SnapshotOfRebuild DEF Publish
  <2>2. ready \in Readinesses /\ snapshot \in Snapshots
    BY <1>2, <2>1 DEF Readinesses
  <2>3. Settle(i, ready, snapshot, TRUE) /\ Running(i)
    BY <1>14 DEF Publish
  <2> HIDE DEF read, ready, snapshot
  <2>4. /\ rebuilds' \in Seq(Rebuilds) /\ OneRefresh' /\ chain' \in Seq(Refreshes)
        /\ readiness' \in Readinesses /\ current' \in Snapshots
        /\ stage' \in [Barriers -> Stages]
    BY <1>1, <2>2, <2>3, SettleTypes
  <2> QED BY <1>2, <1>14, <2>4 DEF Publish, host
<1>15. ASSUME NEW i \in DOMAIN rebuilds, RebuildFails(i) PROVE Goal
  <2> DEFINE ready == IF Fresh(i) THEN "unavailable" ELSE readiness
  <2>1. ready \in Readinesses
    BY <1>2 DEF Readinesses
  <2>2. Settle(i, ready, current, FALSE) /\ Running(i)
    BY <1>15 DEF RebuildFails
  <2> HIDE DEF ready
  <2>3. /\ rebuilds' \in Seq(Rebuilds) /\ OneRefresh' /\ chain' \in Seq(Refreshes)
        /\ readiness' \in Readinesses /\ current' \in Snapshots
        /\ stage' \in [Barriers -> Stages]
    BY <1>1, <1>2, <2>1, <2>2, SettleTypes
  <2>4. extras' \in 0..MaxExtras
    BY <1>2, <1>3, <1>15 DEF RebuildFails
  <2> QED BY <1>2, <1>15, <2>3, <2>4 DEF RebuildFails, host
<1>16. CASE QuietWindowEnds
  <2>1. [waiters |-> Caught, idle |-> {}] \in Refreshes
    BY DEF Caught, Refreshes
  <2>2. chain' \in Seq(Refreshes) /\ chain' # <<>>
    BY <1>2, <1>16, <2>1 DEF QuietWindowEnds
  <2>3. rebuilds' \in Seq(Rebuilds) /\ OneRefresh' /\ readiness' \in Readinesses
    <3>1. CASE chain = <<>>
      BY <1>1, <1>16, <2>2, <3>1, AppendTypes DEF QuietWindowEnds, BuildsSettled, Readinesses
    <3>2. CASE chain # <<>>
      BY <1>2, <1>16, <2>2, <3>2 DEF QuietWindowEnds, BuildsSettled, OneRefresh
    <3> QED BY <3>1, <3>2
  <2> QED BY <1>2, <1>16, <2>2, <2>3 DEF QuietWindowEnds, host
<1>17. ASSUME NEW b \in Barriers, Begin(b) PROVE Goal
  <2>1. rebuilds' = Staled /\ chain' = chain /\ readiness' = "building" /\ timer' = TRUE
    BY <1>17 DEF Begin, Schedule, Staled
  <2>2. rebuilds' \in Seq(Rebuilds) /\ OneRefresh'
    BY <1>2, <2>1, StaledSame DEF OneRefresh
  <2>3. stage' \in [Barriers -> Stages] /\ outdated' \subseteq Barriers
    BY <1>2, <1>17 DEF Begin, Stages, Active, Waiting
  <2>4. target' \in [Barriers -> {None} \cup Targets]
    <3>1. CASE target' = target
      BY <1>2, <3>1
    <3>2. ASSUME NEW n \in Notes, NEW changed \in BOOLEAN, NEW e,
                 e = [note |-> n, content |-> content[n], changed |-> changed],
                 target' = [target EXCEPT ![b] = e]
          PROVE  target' \in [Barriers -> {None} \cup Targets]
      <4>1. e \in Targets
        BY <1>2, <3>2 DEF Targets
      <4> QED BY <1>2, <3>2, <4>1
    <3> QED BY <1>17, <3>1, <3>2 DEF Begin
  <2> QED BY <1>2, <1>17, <2>1, <2>2, <2>3, <2>4 DEF Begin, host, Readinesses
<1>18. ASSUME NEW b \in Barriers, DeadlinePasses(b) PROVE Goal
  <2> DEFINE entered == IF stage[b] = "signal" THEN Entered(timer, chain) ELSE stage[b]
             joins == IF stage[b] = "signal" /\ entered = "loop" THEN {b} ELSE {}
             judged == Judged(b, readiness, current, TRUE)
  <2>0. /\ stage' = [stage EXCEPT ![b] = IF entered = "idle" THEN judged ELSE entered]
        /\ chain' = Subscribe(chain, {}, joins)
    BY <1>18 DEF DeadlinePasses
  <2>1. stage' \in [Barriers -> Stages]
    <3>1. entered \in Stages \cup {"idle"}
      BY <1>2 DEF Entered, Stages, Active, Waiting
    <3>2. judged \in Stages
      BY JudgedStage DEF Stages, Active, Ended
    <3> HIDE DEF entered, judged
    <3> QED BY <1>2, <2>0, <3>1, <3>2
  <2>2. chain' \in Seq(Refreshes) /\ (chain' = <<>> <=> chain = <<>>)
    <3>1. joins \in SUBSET Barriers
      OBVIOUS
    <3> HIDE DEF joins
    <3>2. chain' \in Seq(Refreshes) /\ Len(chain') = Len(chain)
      BY <1>2, <2>0, <3>1, Subscribed
    <3> QED BY <1>2, <3>2
  <2>3. late' \in [Barriers -> BOOLEAN]
    BY <1>2, <1>18 DEF DeadlinePasses
  <2> QED BY <1>2, <1>18, <2>1, <2>2, <2>3 DEF DeadlinePasses, host, manager, OneRefresh
<1>19. CASE Unload
  <2>1. rebuilds' \in Seq(Rebuilds) /\ OneRefresh' /\ chain' \in Seq(Refreshes)
    BY <1>19 DEF Unload, OneRefresh
  <2>2. stage' \in [Barriers -> Stages]
    BY <1>2, <1>19 DEF Unload, Stages, Ended
  <2> QED BY <1>2, <1>19, <2>1, <2>2 DEF Unload, host, Readinesses
<1>20. CASE UNCHANGED vars
  BY <1>2, <1>20 DEF vars, host, manager, OneRefresh
<1> HIDE DEF Goal
<1> QED BY <1>5, <1>7, <1>8, <1>9, <1>10, <1>11, <1>12, <1>13, <1>14, <1>15, <1>16,
           <1>17, <1>18, <1>19, <1>20 DEF Next, Deliveries, Rebuild, Deadlines

-----------------------------------------------------------------------------
(* A ready snapshot is the Vault *)

LEMMA DroppedStep ==
  ASSUME IInv, [Next]_vars
  PROVE  Dropped'
PROOF
<1>1. Dropped /\ rebuilds \in Seq(Rebuilds)
  BY DEF IInv, TypeOK
<1>2. ASSUME Refresh PROVE Dropped'
  <2>1. CASE loaded
    BY <1>2, <2>1 DEF Refresh, Dropped
  <2>2. CASE ~loaded
    BY <1>1, <1>2, <2>2 DEF Refresh, Dropped
  <2> QED BY <2>1, <2>2
<1>3. ASSUME NEW i \in DOMAIN rebuilds PROVE loaded
  BY <1>1, <1>3 DEF Dropped
<1>4. CASE Unload
  BY <1>4 DEF Unload, Dropped
<1>5. CASE UNCHANGED vars
  BY <1>1, <1>5 DEF vars, manager, Dropped
<1>6. ASSUME NEW n \in Notes, Change(n) PROVE Dropped'
  BY <1>1, <1>6 DEF Change, manager, Dropped
<1>7. CASE Rebuild
  <2>1. loaded' = loaded /\ loaded
    BY <1>3, <1>7 DEF Rebuild, List, ReadBytes, ReadSemantic, Publish, RebuildFails
  <2> QED BY <2>1 DEF Dropped
<1>8. CASE QuietWindowEnds
  <2>1. loaded' = loaded /\ loaded
    BY <1>1, <1>8 DEF QuietWindowEnds, Dropped
  <2> QED BY <2>1 DEF Dropped
<1>9. CASE RebuildDirectly
  BY <1>9 DEF RebuildDirectly, Dropped
<1>10. ASSUME NEW b \in Barriers, Begin(b) PROVE Dropped'
  BY <1>10 DEF Begin, Dropped
<1>11. ASSUME NEW b \in Barriers, DeadlinePasses(b) PROVE Dropped'
  BY <1>1, <1>11 DEF DeadlinePasses, manager, Dropped
<1> QED BY <1>2, <1>4, <1>5, <1>6, <1>7, <1>8, <1>9, <1>10, <1>11
        DEF Next, Deliveries, Deadlines, Deliver, Parse, Resolved

LEMMA ParsedStep ==
  ASSUME IInv, [Next]_vars
  PROVE  ParsedExists'
PROOF
<1>1. ParsedExists /\ parsed \in [Notes -> Contents]
  BY DEF IInv, TypeOK
<1>2. ASSUME NEW n \in Notes, Deliver(n) PROVE ParsedExists'
  BY <1>1, <1>2 DEF Deliver, ParsedExists
<1>3. ASSUME NEW n \in Notes, Parse(n) PROVE ParsedExists'
  BY <1>1, <1>3 DEF Parse, ParsedExists
<1>4. CASE UNCHANGED parsed
  BY <1>1, <1>4 DEF ParsedExists
<1> QED BY <1>2, <1>3, <1>4
        DEF Next, vars, host, Deliveries, Rebuild, Deadlines, Change, Resolved,
            RebuildDirectly, List, ReadBytes, ReadSemantic, Publish, RebuildFails,
            QuietWindowEnds, Begin, DeadlinePasses, Unload

\* the part of the invariant that is about what rebuilds read and publish
Reading ==
  OneReads /\ FreshReads /\ ReadsFollow /\ ReadyIsCurrent /\ ReadyIsSuccessor

\* An event or a barrier makes every rebuild stale and the snapshot not ready.
LEMMA StaledReading ==
  ASSUME IInv, rebuilds' = Staled, readiness' = "building",
         current' = current, content' = content
  PROVE  Reading'
PROOF
<1>1. rebuilds \in Seq(Rebuilds) /\ OneReads /\ ReadsFollow
  BY DEF IInv, TypeOK
<1>2. /\ DOMAIN rebuilds' = DOMAIN rebuilds
      /\ \A i \in DOMAIN rebuilds :
           /\ rebuilds'[i].bytes = rebuilds[i].bytes
           /\ rebuilds'[i].semantic = rebuilds[i].semantic
           /\ ~rebuilds'[i].fresh
  BY <1>1, StaledSame
<1>3. OneReads'
  BY <1>1, <1>2 DEF OneReads, Unread
<1>4. FreshReads'
  BY <1>2 DEF FreshReads
<1>5. ReadsFollow'
  BY <1>1, <1>2 DEF ReadsFollow
<1>6. ReadyIsCurrent' /\ ReadyIsSuccessor'
  BY DEF ReadyIsCurrent, ReadyIsSuccessor
<1> QED BY <1>3, <1>4, <1>5, <1>6 DEF Reading

\* A rebuild that was only asked for has read nothing.
LEMMA AppendReading ==
  ASSUME IInv, NEW owner \in {"direct", "refresh"},
         rebuilds' = Append(rebuilds, NewRebuild(owner)), readiness' = "building",
         UNCHANGED <<host, current>>
  PROVE  Reading'
PROOF
<1>1. rebuilds \in Seq(Rebuilds) /\ OneReads /\ FreshReads /\ ReadsFollow
  BY DEF IInv, TypeOK
<1>2. /\ DOMAIN rebuilds' = DOMAIN rebuilds \cup {Len(rebuilds) + 1}
      /\ \A i \in DOMAIN rebuilds : rebuilds'[i] = rebuilds[i]
      /\ rebuilds'[Len(rebuilds) + 1].bytes = Unread
      /\ rebuilds'[Len(rebuilds) + 1].semantic = Unread
  BY <1>1, NewRebuildType, Appended
<1>3. \A n \in Notes : Unread[n] = None
  BY DEF Unread
<1> HIDE DEF NewRebuild
<1>4. content' = content /\ notice' = notice /\ parsed' = parsed /\ current' = current
  BY DEF host
<1>5. OneReads'
  BY <1>1, <1>2 DEF OneReads, Unread
<1>6. FreshReads'
  BY <1>1, <1>2, <1>3, <1>4 DEF FreshReads, Seen
<1>7. ReadsFollow'
  BY <1>1, <1>2, <1>3, <1>4 DEF ReadsFollow
<1>8. ReadyIsCurrent' /\ ReadyIsSuccessor'
  BY DEF ReadyIsCurrent, ReadyIsSuccessor
<1> QED BY <1>5, <1>6, <1>7, <1>8 DEF Reading

\* A read takes what is in the Vault now.
LEMMA ReadReading ==
  ASSUME IInv, 1 \in DOMAIN rebuilds, NEW r,
         rebuilds' = [rebuilds EXCEPT ![1] = r],
         r.fresh = rebuilds[1].fresh,
         \A n \in Notes :
           /\ r.bytes[n] \in {None, content[n], rebuilds[1].bytes[n]}
           /\ r.semantic[n] \in {None, Seen(n), rebuilds[1].semantic[n]}
           /\ r.semantic[n] # None => r.bytes[n] # None,
         UNCHANGED <<host, current, loaded, readiness, outdated>>
  PROVE  Reading'
PROOF
<1>1. /\ rebuilds \in Seq(Rebuilds) /\ OneReads /\ FreshReads /\ ReadsFollow
      /\ ReadyIsCurrent /\ ReadyIsSuccessor
      /\ content \in [Notes -> Contents] /\ MaxContent \in Nat
      /\ None \notin Nat
  BY BoundsAssumption, NoneAssumption DEF IInv, TypeOK
<1>2. /\ DOMAIN rebuilds' = DOMAIN rebuilds /\ rebuilds'[1] = r
      /\ \A i \in DOMAIN rebuilds : i # 1 => rebuilds'[i] = rebuilds[i]
  BY <1>1
<1>3. content' = content /\ notice' = notice /\ parsed' = parsed
  BY DEF host
<1>4. OneReads'
  BY <1>1, <1>2 DEF OneReads, Unread
<1>5. FreshReads'
  <2>1. ASSUME rebuilds[1].fresh, NEW n \in Notes \ notice
        PROVE  r.bytes[n] \in {None, content[n]} /\ r.semantic[n] \in {None, Seen(n)}
    BY <1>1, <2>1 DEF FreshReads
  <2> QED BY <1>1, <1>2, <1>3, <2>1 DEF FreshReads, Seen
<1>6. ReadsFollow'
  <2>1. \A n \in Notes : content[n] <= content[n]
    BY <1>1 DEF Contents
  <2> QED BY <1>1, <1>2, <1>3, <2>1 DEF ReadsFollow
<1>7. ReadyIsCurrent'
  BY <1>1, <1>3 DEF ReadyIsCurrent
<1>8. ReadyIsSuccessor'
  BY <1>1 DEF ReadyIsSuccessor
<1> QED BY <1>4, <1>5, <1>6, <1>7, <1>8 DEF Reading

\* After a rebuild has ended no other has read anything yet.
LEMMA SettleReading ==
  ASSUME IInv, NEW i \in DOMAIN rebuilds, Running(i),
         NEW ready, NEW snapshot, NEW succeeded,
         Settle(i, ready, snapshot, succeeded), UNCHANGED host,
         \A n \in Notes : snapshot[n].content <= content[n]
  PROVE  /\ OneReads' /\ FreshReads' /\ ReadsFollow'
         /\ current' = snapshot /\ readiness' \in {"building", ready}
         /\ \A b \in Barriers : stage[b] # "ok" /\ stage'[b] = "ok" =>
              Matches(b, readiness', snapshot)
PROOF
<1>1. TypeOK /\ rebuilds \in Seq(Rebuilds) /\ OneReads
  BY DEF IInv, TypeOK
<1>2. /\ rebuilds' \in Seq(Rebuilds)
      /\ \A k \in DOMAIN rebuilds' :
           \/ k + 1 \in DOMAIN rebuilds /\ rebuilds'[k] = rebuilds[k + 1]
           \/ rebuilds'[k] = NewRebuild("refresh")
      /\ current' = snapshot /\ readiness' \in {"building", ready}
      /\ \A b \in Barriers : stage[b] # "ok" /\ stage'[b] = "ok" =>
           Matches(b, readiness', snapshot)
  BY <1>1, Settled
<1>3. DOMAIN rebuilds' = 1..Len(rebuilds') /\ Len(rebuilds') \in Nat
  BY <1>2
<1>4. NewRebuild("refresh").bytes = Unread /\ NewRebuild("refresh").semantic = Unread
  BY NewRebuildType
<1> HIDE DEF NewRebuild
<1>5. \A k \in DOMAIN rebuilds' : rebuilds'[k].bytes = Unread /\ rebuilds'[k].semantic = Unread
  BY <1>1, <1>2, <1>3, <1>4 DEF OneReads
<1>6. \A n \in Notes : Unread[n] = None
  BY DEF Unread
<1>7. content' = content /\ notice' = notice
  BY DEF host
<1>8. OneReads'
  BY <1>5 DEF OneReads, Unread
<1>9. FreshReads'
  BY <1>5, <1>6 DEF FreshReads
<1>10. ReadsFollow'
  BY <1>2, <1>5, <1>6, <1>7 DEF ReadsFollow
<1> QED BY <1>2, <1>8, <1>9, <1>10

LEMMA PublishReading ==
  ASSUME IInv, NEW i \in DOMAIN rebuilds, Publish(i)
  PROVE  /\ Reading'
         /\ \A n \in Notes : current[n].content <= current'[n].content
         /\ \A b \in Barriers : stage[b] # "ok" /\ stage'[b] = "ok" =>
              Matches(b, readiness', current')
PROOF
<1> DEFINE read == [n \in Notes |-> [content |-> rebuilds[i].bytes[n],
                                     semantic |-> rebuilds[i].semantic[n]]]
           ready == IF Fresh(i) THEN "ready" ELSE readiness
           snapshot == IF Fresh(i) THEN read ELSE current
<1>1. /\ TypeOK /\ OneReads /\ FreshReads /\ ReadsFollow /\ ReadyIsCurrent /\ ReadyIsSuccessor
      /\ current \in Snapshots /\ content \in [Notes -> Contents]
      /\ MaxContent \in Nat /\ None \notin Nat
  BY BoundsAssumption, NoneAssumption DEF IInv, TypeOK, Snapshots
<1>2. /\ \A n \in Notes : rebuilds[i].semantic[n] # None
      /\ Settle(i, ready, snapshot, TRUE) /\ Running(i)
      /\ outdated' = IF Fresh(i) THEN {} ELSE outdated
      /\ UNCHANGED <<host, loaded>>
  BY DEF Publish
<1>3. \A n \in Notes : rebuilds[i].bytes[n] # None /\ rebuilds[i].bytes[n] \in Contents
  BY <1>1, <1>2, SnapshotOfRebuild DEF ReadsFollow
<1>4. \A n \in Notes : /\ read[n].content = rebuilds[i].bytes[n]
                       /\ read[n].semantic = rebuilds[i].semantic[n]
  OBVIOUS
<1>5. \A n \in Notes : current[n].content <= snapshot[n].content
                       /\ snapshot[n].content <= content[n]
  <2>1. CASE Fresh(i)
    <3>1. snapshot = read
      BY <2>1
    <3> HIDE DEF read, snapshot
    <3> QED BY <1>1, <1>3, <1>4, <3>1 DEF ReadsFollow
  <2>2. CASE ~Fresh(i)
    <3>1. \A n \in Notes : current[n].content \in Nat
      BY <1>1 DEF Snapshots, Contents
    <3>2. \A n \in Notes : current[n].content <= content[n]
      BY <1>1 DEF ReadsFollow
    <3>3. \A n \in Notes : current[n].content <= current[n].content
      <4>1. \A k \in Nat : k <= k
        OBVIOUS
      <4> QED BY <3>1, <4>1
    <3>4. snapshot = current
      BY <2>2
    <3> HIDE DEF snapshot
    <3> QED BY <3>2, <3>3, <3>4
  <2> QED BY <2>1, <2>2
<1>6. Fresh(i) => \A n \in Notes \ notice :
        snapshot[n].content = content[n] /\ snapshot[n].semantic = Seen(n)
  BY <1>1, <1>2, <1>3, <1>4 DEF FreshReads, Fresh
<1>7. ready = "ready" => Fresh(i) \/ (readiness = "ready" /\ snapshot = current)
  OBVIOUS
<1>8. ~Fresh(i) => ready = readiness
  OBVIOUS
<1> HIDE DEF read, ready, snapshot
<1>9. /\ OneReads' /\ FreshReads' /\ ReadsFollow'
      /\ current' = snapshot /\ readiness' \in {"building", ready}
      /\ \A b \in Barriers : stage[b] # "ok" /\ stage'[b] = "ok" =>
              Matches(b, readiness', snapshot)
  BY <1>2, <1>5, SettleReading
<1>10. content' = content /\ notice' = notice /\ parsed' = parsed /\ loaded' = loaded
  BY <1>2 DEF host
<1>11. ReadyIsCurrent'
  <2>1. ASSUME loaded', readiness' = "ready"
        PROVE \A n \in Notes \ notice : /\ snapshot[n].content = content[n]
                                        /\ snapshot[n].semantic = Seen(n)
    <3>1. CASE Fresh(i)
      BY <1>6, <3>1
    <3>2. CASE ~Fresh(i)
      BY <1>1, <1>7, <1>8, <1>9, <1>10, <2>1, <3>2 DEF ReadyIsCurrent, Seen
    <3> QED BY <3>1, <3>2
  <2> QED BY <1>9, <1>10, <2>1 DEF ReadyIsCurrent, Seen
<1>12. ReadyIsSuccessor'
  BY <1>1, <1>2, <1>7, <1>9 DEF ReadyIsSuccessor
<1> QED BY <1>5, <1>9, <1>11, <1>12 DEF Reading

LEMMA FailedReading ==
  ASSUME IInv, NEW i \in DOMAIN rebuilds, RebuildFails(i)
  PROVE  /\ Reading' /\ current' = current
         /\ \A b \in Barriers : stage[b] # "ok" /\ stage'[b] = "ok" =>
              Matches(b, readiness', current')
PROOF
<1> DEFINE ready == IF Fresh(i) THEN "unavailable" ELSE readiness
<1>1. TypeOK /\ ReadsFollow /\ ReadyIsCurrent /\ ReadyIsSuccessor
  BY DEF IInv
<1>2. /\ Settle(i, ready, current, FALSE) /\ Running(i)
      /\ UNCHANGED <<host, loaded, outdated>>
  BY DEF RebuildFails
<1>3. ready = "ready" => readiness = "ready"
  OBVIOUS
<1> HIDE DEF ready
<1>4. /\ OneReads' /\ FreshReads' /\ ReadsFollow'
      /\ current' = current /\ readiness' \in {"building", ready}
      /\ \A b \in Barriers : stage[b] # "ok" /\ stage'[b] = "ok" =>
              Matches(b, readiness', current)
  BY <1>1, <1>2, SettleReading DEF ReadsFollow
<1>5. readiness' = "ready" => readiness = "ready"
  BY <1>3, <1>4
<1>6. content' = content /\ notice' = notice /\ parsed' = parsed /\ loaded' = loaded
      /\ outdated' = outdated
  BY <1>2 DEF host
<1>7. ReadyIsCurrent' /\ ReadyIsSuccessor'
  BY <1>1, <1>4, <1>5, <1>6 DEF ReadyIsCurrent, ReadyIsSuccessor
<1> QED BY <1>4, <1>7 DEF Reading

LEMMA ReadingStep ==
  ASSUME IInv, [Next]_vars
  PROVE  Reading'
PROOF
<1>1. /\ TypeOK /\ Dropped /\ ParsedExists /\ OneReads /\ FreshReads /\ ReadsFollow
      /\ ReadyIsCurrent /\ ReadyIsSuccessor
      /\ content \in [Notes -> Contents] /\ parsed \in [Notes -> Contents]
      /\ rebuilds \in Seq(Rebuilds) /\ current \in Snapshots
      /\ MaxContent \in Nat /\ None \notin Nat
  BY BoundsAssumption, NoneAssumption DEF IInv, TypeOK, Snapshots
<1>2. ASSUME NEW n \in Notes, Change(n) PROVE Reading'
  <2>1. /\ UNCHANGED <<parsed, loaded, readiness, current, rebuilds, outdated>>
        /\ notice' = notice \cup {n}
        /\ \A m \in Notes : content[m] <= content'[m] /\ (m # n => content'[m] = content[m])
    BY <1>1, <1>2 DEF Change, manager, Contents
  <2>2. OneReads' /\ FreshReads' /\ ReadyIsCurrent' /\ ReadyIsSuccessor'
    BY <1>1, <2>1 DEF OneReads, FreshReads, ReadyIsCurrent, ReadyIsSuccessor, Seen, Unread
  <2>3. ReadsFollow'
    <3>1. ASSUME NEW m \in Notes
          PROVE  /\ current[m].content <= content'[m]
                 /\ \A i \in DOMAIN rebuilds : rebuilds[i].bytes[m] # None =>
                      rebuilds[i].bytes[m] <= content'[m]
      <4>1. current[m].content \in Nat /\ content[m] \in Nat /\ content'[m] \in Nat
        BY <1>1, <1>2 DEF Snapshots, Contents, Change
      <4>2. \A i \in DOMAIN rebuilds : rebuilds[i].bytes[m] # None => rebuilds[i].bytes[m] \in Nat
        <5>1. \A i \in DOMAIN rebuilds : rebuilds[i] \in Rebuilds
          BY <1>1
        <5> QED BY <5>1 DEF Rebuilds, Reads, Contents
      <4> QED BY <1>1, <2>1, <4>1, <4>2 DEF ReadsFollow
    <3> QED BY <1>1, <2>1, <3>1 DEF ReadsFollow
  <2> QED BY <2>2, <2>3 DEF Reading
<1>3. ASSUME Refresh, content' = content PROVE Reading'
  <2>1. CASE loaded
    BY <1>3, <2>1, StaledReading DEF Refresh, Schedule, Staled
  <2>2. CASE ~loaded
    <3>1. rebuilds = <<>> /\ rebuilds' = rebuilds /\ ~loaded' /\ current' = current
          /\ readiness' = readiness /\ outdated' = outdated
      BY <1>1, <1>3, <2>2 DEF Refresh, Dropped
    <3>2. OneReads' /\ FreshReads'
      BY <3>1 DEF OneReads, FreshReads
    <3>3. ReadsFollow' /\ ReadyIsCurrent' /\ ReadyIsSuccessor'
      BY <1>1, <1>3, <3>1 DEF ReadsFollow, ReadyIsCurrent, ReadyIsSuccessor
    <3> QED BY <3>2, <3>3 DEF Reading
  <2> QED BY <2>1, <2>2
<1>4. CASE RebuildDirectly
  BY <1>4, AppendReading DEF RebuildDirectly
<1>5. ASSUME NEW i \in DOMAIN rebuilds, List(i) PROVE Reading'
  <2> DEFINE absent == {n \in Notes : ~Exists(content[n])}
             r == [rebuilds[i] EXCEPT
                     !.paths = Notes \ absent,
                     !.bytes = [n \in Notes |-> IF n \in absent THEN content[n] ELSE None],
                     !.semantic = [n \in Notes |-> IF n \in absent THEN 0 ELSE None]]
  <2>1. rebuilds[i] \in Rebuilds /\ i = 1
    BY <1>1, <1>5 DEF List, Running
  <2>2. /\ r.fresh = rebuilds[i].fresh
        /\ r.bytes = [n \in Notes |-> IF n \in absent THEN content[n] ELSE None]
        /\ r.semantic = [n \in Notes |-> IF n \in absent THEN 0 ELSE None]
    BY <2>1 DEF Rebuilds
  <2>3. \A n \in absent : Seen(n) = 0
    BY <1>1 DEF ParsedExists, Seen
  <2>4. \A n \in Notes : content[n] # None
    BY <1>1 DEF Contents
  <2>5. rebuilds' = [rebuilds EXCEPT ![1] = r]
        /\ UNCHANGED <<host, current, loaded, readiness, outdated>>
    BY <1>5, <2>1 DEF List
  <2> HIDE DEF r
  <2>6. \A n \in Notes : /\ r.bytes[n] \in {None, content[n], rebuilds[1].bytes[n]}
                         /\ r.semantic[n] \in {None, Seen(n), rebuilds[1].semantic[n]}
                         /\ r.semantic[n] # None => r.bytes[n] # None
    BY <2>2, <2>3, <2>4
  <2> QED BY <2>1, <2>2, <2>5, <2>6, ReadReading
<1>6. ASSUME NEW i \in DOMAIN rebuilds, NEW n \in Notes, ReadBytes(i, n) PROVE Reading'
  <2> DEFINE r == [rebuilds[i] EXCEPT !.bytes[n] = content[n]]
  <2>1. rebuilds[i] \in Rebuilds /\ i = 1
    BY <1>1, <1>6 DEF ReadBytes, Running
  <2>2. /\ r.fresh = rebuilds[i].fresh /\ r.semantic = rebuilds[i].semantic
        /\ r.bytes = [rebuilds[i].bytes EXCEPT ![n] = content[n]]
        /\ rebuilds[i].bytes \in Reads
    BY <2>1 DEF Rebuilds
  <2>3. \A m \in Notes : content[m] # None
    BY <1>1 DEF Contents
  <2>4. rebuilds' = [rebuilds EXCEPT ![1] = r]
        /\ UNCHANGED <<host, current, loaded, readiness, outdated>>
    BY <1>6, <2>1 DEF ReadBytes
  <2> HIDE DEF r
  <2>5. \A m \in Notes : /\ r.bytes[m] \in {None, content[m], rebuilds[1].bytes[m]}
                         /\ r.semantic[m] \in {None, Seen(m), rebuilds[1].semantic[m]}
                         /\ r.semantic[m] # None => r.bytes[m] # None
    BY <1>1, <2>1, <2>2, <2>3 DEF ReadsFollow, Reads
  <2> QED BY <2>1, <2>2, <2>4, <2>5, ReadReading
<1>7. ASSUME NEW i \in DOMAIN rebuilds, NEW n \in Notes, ReadSemantic(i, n) PROVE Reading'
  <2> DEFINE r == [rebuilds[i] EXCEPT !.semantic[n] =
                     IF parsed[n] = content[n] THEN content[n] ELSE 0]
  <2>1. rebuilds[i] \in Rebuilds /\ i = 1
    BY <1>1, <1>7 DEF ReadSemantic, Running
  <2>2. /\ r.fresh = rebuilds[i].fresh /\ r.bytes = rebuilds[i].bytes
        /\ r.semantic = [rebuilds[i].semantic EXCEPT ![n] = Seen(n)]
        /\ rebuilds[i].semantic \in Reads
    BY <2>1 DEF Rebuilds, Seen
  <2>3. rebuilds[1].bytes[n] # None
    BY <1>7, <2>1 DEF ReadSemantic
  <2>4. rebuilds' = [rebuilds EXCEPT ![1] = r]
        /\ UNCHANGED <<host, current, loaded, readiness, outdated>>
    BY <1>7, <2>1 DEF ReadSemantic
  <2> HIDE DEF r
  <2>5. \A m \in Notes : /\ r.bytes[m] \in {None, content[m], rebuilds[1].bytes[m]}
                         /\ r.semantic[m] \in {None, Seen(m), rebuilds[1].semantic[m]}
                         /\ r.semantic[m] # None => r.bytes[m] # None
    BY <1>1, <2>1, <2>2, <2>3 DEF ReadsFollow, Reads
  <2> QED BY <2>1, <2>2, <2>4, <2>5, ReadReading
<1>8. ASSUME NEW i \in DOMAIN rebuilds, Publish(i) PROVE Reading'
  BY <1>8, PublishReading
<1>9. ASSUME NEW i \in DOMAIN rebuilds, RebuildFails(i) PROVE Reading'
  BY <1>9, FailedReading
<1>10. ASSUME UNCHANGED <<host, loaded, manager, outdated>> PROVE Reading'
  BY <1>1, <1>10 DEF host, manager, Reading, OneReads, FreshReads, ReadsFollow,
                     ReadyIsCurrent, ReadyIsSuccessor, Seen, Unread
<1>11. CASE QuietWindowEnds
  <2>1. CASE BuildsSettled
    BY <1>11, <2>1, AppendReading DEF QuietWindowEnds
  <2>2. CASE ~BuildsSettled
    BY <1>10, <1>11, <2>2 DEF QuietWindowEnds, manager
  <2> QED BY <2>1, <2>2
<1>12. ASSUME NEW b \in Barriers, Begin(b) PROVE Reading'
  BY <1>12, StaledReading DEF Begin, Schedule, Staled, host
<1>13. ASSUME NEW b \in Barriers, DeadlinePasses(b) PROVE Reading'
  BY <1>10, <1>13 DEF DeadlinePasses
<1>14. CASE Unload
  <2>1. rebuilds' = <<>> /\ readiness' = "unavailable" /\ content' = content
        /\ current' = current
    BY <1>14 DEF Unload, host
  <2>2. OneReads' /\ FreshReads'
    BY <2>1 DEF OneReads, FreshReads
  <2>3. ReadsFollow' /\ ReadyIsCurrent' /\ ReadyIsSuccessor'
    BY <1>1, <2>1 DEF ReadsFollow, ReadyIsCurrent, ReadyIsSuccessor
  <2> QED BY <2>2, <2>3 DEF Reading
<1>15. CASE UNCHANGED vars
  BY <1>10, <1>15 DEF vars
<1> QED BY <1>2, <1>3, <1>4, <1>5, <1>6, <1>7, <1>8, <1>9, <1>11, <1>12, <1>13, <1>14,
           <1>15 DEF Next, Deliveries, Rebuild, Deadlines, Deliver, Parse, Resolved

-----------------------------------------------------------------------------
(* The invariant, and what it implies *)

LEMMA InitIInv ==
  ASSUME Init
  PROVE  IInv
PROOF
<1>1. MaxContent \in Nat \ {0} /\ MaxExtras \in Nat /\ None \notin Nat
  BY BoundsAssumption, NoneAssumption
<1>2. 0 \in Contents /\ 1 \in Contents
  BY <1>1 DEF Contents
<1>3. /\ NewRebuild("load") \in Rebuilds /\ NewRebuild("load").owner = "load"
      /\ NewRebuild("load").bytes = Unread /\ NewRebuild("load").semantic = Unread
  BY NewRebuildType
<1>4. \A n \in Notes : Unread[n] = None
  BY DEF Unread
<1> HIDE DEF NewRebuild
<1>5. /\ rebuilds = <<NewRebuild("load")>> /\ rebuilds \in Seq(Rebuilds)
      /\ DOMAIN rebuilds = {1} /\ rebuilds[1] = NewRebuild("load")
  BY <1>3 DEF Init
<1>6. TypeOK
  <2>1. chain = <<>> /\ chain \in Seq(Refreshes)
        /\ \A i \in DOMAIN rebuilds : rebuilds[i].owner # "refresh"
    BY <1>3, <1>5 DEF Init
  <2>2. content \in [Notes -> Contents] /\ parsed \in [Notes -> Contents]
    BY <1>2 DEF Init
  <2>3. current \in [Notes -> [content: Contents, semantic: Contents]]
    BY <1>2 DEF Init
  <2>4. extras \in 0..MaxExtras
    BY <1>1 DEF Init
  <2>5. {loaded, timer} \subseteq BOOLEAN
        /\ readiness \in {"building", "ready", "unavailable"}
        /\ notice \subseteq Notes /\ outdated \subseteq Barriers
    BY DEF Init
  <2>6. /\ stage \in [Barriers -> {"none"} \cup Active \cup Ended]
        /\ target \in [Barriers -> {None} \cup Targets]
        /\ late \in [Barriers -> BOOLEAN]
    BY DEF Init, Active, Waiting, Ended
  <2>7. /\ \A i, j \in DOMAIN rebuilds :
             rebuilds[i].owner = "refresh" /\ rebuilds[j].owner = "refresh" => i = j
        /\ (chain # <<>>) <=> \E i \in DOMAIN rebuilds : rebuilds[i].owner = "refresh"
    BY <2>1
  <2> QED BY <1>5, <2>1, <2>2, <2>3, <2>4, <2>5, <2>6, <2>7 DEF TypeOK
<1>7. Dropped /\ ParsedExists
  BY DEF Init, Dropped, ParsedExists
<1>8. OneReads
  BY <1>5 DEF OneReads
<1>9. \A i \in DOMAIN rebuilds, n \in Notes :
        rebuilds[i].bytes[n] = None /\ rebuilds[i].semantic[n] = None
  BY <1>3, <1>4, <1>5
<1>10. FreshReads /\ ReadsFollow
  <2>1. \A n \in Notes : current[n].content = 0 /\ content[n] = 1
    BY DEF Init
  <2>2. \A n \in Notes : current[n].content <= content[n]
    <3>1. \A k, l : k = 0 /\ l = 1 => k <= l
      OBVIOUS
    <3> QED BY <2>1, <3>1
  <2>3. FreshReads
    BY <1>9 DEF FreshReads
  <2> QED BY <1>9, <2>2, <2>3 DEF ReadsFollow
<1>11. ReadyIsCurrent /\ ReadyIsSuccessor
  BY DEF Init, ReadyIsCurrent, ReadyIsSuccessor
<1> QED BY <1>6, <1>7, <1>8, <1>10, <1>11 DEF IInv

LEMMA NextIInv ==
  ASSUME IInv, [Next]_vars
  PROVE  IInv'
PROOF BY TypeStep, DroppedStep, ParsedStep, ReadingStep DEF IInv, Reading

LEMMA Inductive == Spec => []IInv
PROOF
<1>1. Init => IInv
  BY InitIInv
<1>2. IInv /\ [Next]_vars => IInv'
  BY NextIInv
<1> QED BY <1>1, <1>2, PTL DEF Spec

\* Type correctness, and that one refresh at a time is being rebuilt.
THEOREM TypeCorrect == Spec => []TypeOK
PROOF
<1>1. IInv => TypeOK
  BY DEF IInv
<1> QED BY <1>1, Inductive, PTL

\* A ready snapshot shows the Vault, but for notes whose event is under way,
\* although its rebuild reads one file after another while they change.
THEOREM ReadyIsCurrentHolds == Spec => []ReadyIsCurrent
PROOF
<1>1. IInv => ReadyIsCurrent
  BY DEF IInv
<1> QED BY <1>1, Inductive, PTL

\* What a step does to the snapshot: only a publication changes it, and a read
\* is never older than the last one, because rebuilds run one at a time.
LEMMA ForwardStep ==
  ASSUME IInv, [Next]_vars
  PROVE  \A n \in Notes : current'[n].content >= current[n].content
PROOF
<1>1. \A n \in Notes : current[n].content \in Nat /\ current'[n].content \in Nat
  <2>1. MaxContent \in Nat
    BY BoundsAssumption
  <2>2. TypeOK /\ TypeOK'
    BY TypeStep DEF IInv
  <2> QED BY <2>1, <2>2 DEF TypeOK, Contents
<1>2. CASE current' = current
  <2>1. \A k \in Nat : k >= k
    OBVIOUS
  <2> QED BY <1>1, <1>2, <2>1
<1>3. ASSUME NEW i \in DOMAIN rebuilds, Publish(i)
      PROVE  \A n \in Notes : current'[n].content >= current[n].content
  <2>1. \A n \in Notes : current[n].content <= current'[n].content
    BY <1>3, PublishReading
  <2>2. \A k, l \in Nat : k <= l => l >= k
    OBVIOUS
  <2> QED BY <1>1, <2>1, <2>2
<1>4. ASSUME NEW i \in DOMAIN rebuilds, RebuildFails(i) PROVE current' = current
  BY <1>4, FailedReading
<1> QED BY <1>2, <1>3, <1>4
        DEF Next, vars, manager, Deliveries, Rebuild, Deadlines, Change, Deliver, Parse,
            Resolved, Refresh, RebuildDirectly, List, ReadBytes, ReadSemantic,
            QuietWindowEnds, Begin, DeadlinePasses, Unload

LEMMA SuccessStep ==
  ASSUME IInv, [Next]_vars, NEW b \in Barriers, stage[b] # "ok", stage'[b] = "ok"
  PROVE  b \notin outdated' /\ (target[b] # None => ShownBy(target[b], current'))
PROOF
<1>1. TypeOK /\ ReadyIsSuccessor /\ stage \in [Barriers -> Stages]
  BY DEF IInv, TypeOK, Stages
<1>2. ReadyIsSuccessor'
  BY NextIInv DEF IInv
<1>3. ASSUME Matches(b, readiness', current')
      PROVE  b \notin outdated' /\ (target[b] # None => ShownBy(target[b], current'))
  BY <1>2, <1>3 DEF Matches, ReadyIsSuccessor
<1>4. ASSUME NEW i \in DOMAIN rebuilds, Publish(i) PROVE Matches(b, readiness', current')
  BY <1>4, PublishReading
<1>5. ASSUME NEW i \in DOMAIN rebuilds, RebuildFails(i) PROVE Matches(b, readiness', current')
  BY <1>5, FailedReading
<1>6. ASSUME NEW c \in Barriers, DeadlinePasses(c) PROVE Matches(b, readiness', current')
  <2> DEFINE entered == IF stage[c] = "signal" THEN Entered(timer, chain) ELSE stage[c]
             judged == Judged(c, readiness, current, TRUE)
  <2>1. /\ stage' = [stage EXCEPT ![c] = IF entered = "idle" THEN judged ELSE entered]
        /\ stage[c] \in Active /\ readiness' = readiness /\ current' = current
    BY <1>6 DEF DeadlinePasses, manager
  <2>2. entered # "ok"
    BY <2>1 DEF Entered, Active, Waiting
  <2>3. judged = "ok" => Matches(c, readiness, current)
    BY JudgedStage
  <2> HIDE DEF entered, judged
  <2> QED BY <1>1, <2>1, <2>2, <2>3
<1>7. ASSUME NEW c \in Barriers, Begin(c) PROVE FALSE
  BY <1>1, <1>7 DEF Begin
<1>8. ASSUME Refresh PROVE FALSE
  BY <1>1, <1>8 DEF Refresh
<1>9. CASE Unload
  BY <1>1, <1>9 DEF Unload
<1>10. CASE UNCHANGED stage
  BY <1>10
<1> QED BY <1>3, <1>4, <1>5, <1>6, <1>7, <1>8, <1>9, <1>10
        DEF Next, vars, Deliveries, Rebuild, Deadlines, Change, Deliver, Parse, Resolved,
            RebuildDirectly, List, ReadBytes, ReadSemantic, QuietWindowEnds

\* Publications never show an older content than the one before, and a barrier
\* succeeds only with a snapshot published after it began that shows its target,
\* whether a refresh, the deadline or a failure woke it.
THEOREM SnapshotsAreSuccessorsHolds == Spec => SnapshotsAreSuccessors
PROOF
<1>1. IInv /\ [Next]_vars => [Forward /\ Succeeds]_vars
  <2> SUFFICES ASSUME IInv, [Next]_vars PROVE Forward /\ Succeeds
    OBVIOUS
  <2>1. Forward
    BY ForwardStep DEF Forward
  <2>2. Succeeds
    BY SuccessStep DEF Succeeds
  <2> QED BY <2>1, <2>2
<1> QED BY <1>1, Inductive, PTL DEF Spec, SnapshotsAreSuccessors
=============================================================================
