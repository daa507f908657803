---------------------------- MODULE FrameRegister ----------------------------
(***************************************************************************)
(* What a Recovery Journal promises its one client: a durable register     *)
(* that holds the last frame written.  Writes are served one at a time in  *)
(* the order of the requests; each takes effect in one instant, before it  *)
(* is acknowledged, or not at all; a crash forgets the requests and, where *)
(* the device may lose power, whatever was not yet acknowledged.  Only the *)
(* very first write may damage the register, and the damage is permanent.  *)
(***************************************************************************)
EXTENDS Sequences

CONSTANTS
  Frames,     \* what may be written
  Nothing,    \* the register before the first write
  Damaged,    \* a register that reports itself corrupt
  PowerLoss   \* whether a crash may lose what was not acknowledged

VARIABLES
  requests,   \* the writes waiting, the one being served first
  serving,    \* whether the first request is being served
  value,      \* what a read returns
  durable,    \* what survives a power loss
  acked       \* the frame last acknowledged

vars == <<requests, serving, value, durable, acked>>

Init ==
  /\ requests = <<>> /\ serving = FALSE
  /\ value = Nothing /\ durable = Nothing /\ acked = Nothing

Request(f) ==
  /\ requests' = Append(requests, f)
  /\ UNCHANGED <<serving, value, durable, acked>>

Begin ==
  /\ requests # <<>> /\ ~serving /\ value # Damaged
  /\ serving' = TRUE
  /\ UNCHANGED <<requests, value, durable, acked>>

Damage ==
  /\ serving /\ value = Nothing
  /\ value' = Damaged
  /\ UNCHANGED <<requests, serving, durable, acked>>

TakeEffect ==
  /\ serving
  /\ value' = Head(requests)
  /\ UNCHANGED <<requests, serving, durable, acked>>

Acknowledge ==
  /\ serving /\ value = Head(requests)
  /\ requests' = Tail(requests) /\ serving' = FALSE
  /\ durable' = value /\ acked' = value
  /\ UNCHANGED value

Fail ==
  /\ requests # <<>>
  /\ requests' = Tail(requests) /\ serving' = FALSE
  /\ UNCHANGED <<value, durable, acked>>

Crash ==
  /\ requests' = <<>> /\ serving' = FALSE
  /\ \/ value' = value
     \/ PowerLoss /\ value' = durable
     \/ PowerLoss /\ durable = Nothing /\ value' = Damaged
  /\ durable' = IF PowerLoss THEN value' ELSE durable
  /\ UNCHANGED acked

Next ==
  \/ \E f \in Frames : Request(f)
  \/ Begin \/ Damage \/ TakeEffect \/ Acknowledge \/ Fail \/ Crash

Spec == Init /\ [][Next]_vars
=============================================================================
