-------------------------- MODULE AtomicChangeSets --------------------------
(***************************************************************************)
(* What the Change Set service promises its clients: the vault, seen once  *)
(* unfinished work is resolved, and the fate of every Change Set.  A       *)
(* Change Set takes effect on its whole footprint in one step or not at    *)
(* all, except when its result is unproven.  Third parties write at will.  *)
(***************************************************************************)
CONSTANTS ChangeSets, Paths, Footprint, Original, ThirdParty

VARIABLES
  content,   \* what each path holds when unfinished work is taken back
  fate       \* "none", "pending", or the proof state that is decided

Init ==
  /\ content = [p \in Paths |-> Original]
  /\ fate = [c \in ChangeSets |-> "none"]

Decide(c, from, to) == fate[c] = from /\ fate' = [fate EXCEPT ![c] = to]

\* The paths in S take the bytes of c.
Install(c, S) == content' = [p \in Paths |-> IF p \in S THEN c ELSE content[p]]

Accept(c) == Decide(c, "none", "pending") /\ UNCHANGED content
Refuse(c) == Decide(c, "none", "intent_not_applied") /\ UNCHANGED content
GiveUp(c) == Decide(c, "pending", "intent_not_applied") /\ UNCHANGED content

\* All of the footprint, but for what a third party wrote over it since.
Apply(c) ==
  /\ Decide(c, "pending", "intent_applied")
  /\ \E S \in SUBSET Footprint[c] :
       /\ Install(c, S)
       /\ \A p \in Footprint[c] \ S : content[p] \in ThirdParty

Unprove(c) ==
  /\ Decide(c, "pending", "result_unproven")
  /\ \E S \in SUBSET Footprint[c] : Install(c, S)

WriteThirdParty(p) ==
  /\ \E v \in ThirdParty : content' = [content EXCEPT ![p] = v]
  /\ UNCHANGED fate

Next ==
  \/ \E c \in ChangeSets :
       Accept(c) \/ Refuse(c) \/ GiveUp(c) \/ Apply(c) \/ Unprove(c)
  \/ \E p \in Paths : WriteThirdParty(p)

Spec == Init /\ [][Next]_<<content, fate>>
=============================================================================
