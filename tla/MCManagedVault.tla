--------------------------- MODULE MCManagedVault ---------------------------
(***************************************************************************)
(* One Managed Vault, for TLC: the Change Sets its service executes, the   *)
(* health it reports, the identity it keeps and the sessions it serves.    *)
(* The three models beside the service share no state with it, so one run  *)
(* takes them one at a time: subject says which, and the others stay where *)
(* they begin.                                                             *)
(***************************************************************************)
EXTENDS MCServiceAtomicity

CONSTANTS
  MaxSubmitted, MaxControls, MaxHealthFaults, MaxRestarts,
  MaxHealthEvents,  \* control calls, faults and restarts in one history
  Vaults, Ports, MaxIds, MaxTasks, MaxLoads, MaxWriteFaults, MaxCopies,
  Requests

ASSUME VaultAssumption ==
  /\ {MaxSubmitted, MaxControls, MaxHealthFaults, MaxRestarts, MaxHealthEvents} \subseteq Nat
  /\ {MaxIds, MaxTasks, MaxLoads, MaxWriteFaults, MaxCopies} \subseteq Nat
  /\ Vaults # {} /\ Ports # {} /\ Ports \subseteq Nat /\ MaxIds # 0

VARIABLES
  subject,
  edition, registry, frames, unproven, current, writer, told, readiness, call, controls,
  healthFaults, restarts,
  recovery, mirror, loaded, settings, pending, bridge, tasks, listeners, truth, strained, lost,
  nextId, loads, writeFaults, copies,
  listening, shutdown, active, at, header, session, server, sessions, held

Health == INSTANCE BridgeHealth WITH
  host <- edition, journal <- frames, blocked <- unproven, lease <- writer, health <- told,
  control <- call, faults <- healthFaults, MaxFaults <- MaxHealthFaults
Identity == INSTANCE ManagedVaultRuntime WITH
  Dirs <- Vaults, up <- loaded, faults <- writeFaults, MaxFaults <- MaxWriteFaults
Sessions == INSTANCE BridgeSessions

ASSUME NoneAssumption == None \notin Identity!Copy \cup Identity!Listener

healthVars == <<edition, registry, frames, unproven, current, writer, told, readiness, call,
  controls, healthFaults, restarts>>
identityVars == <<recovery, mirror, loaded, settings, pending, bridge, tasks, listeners, truth,
  strained, lost, nextId, loads, writeFaults, copies>>
sessionVars == <<listening, shutdown, active, at, header, session, server, sessions, held>>
allVars == <<subject, vars, faulty, healthVars, identityVars, sessionVars>>

VaultInit ==
  /\ subject \in {"service", "health", "identity", "sessions"}
  /\ Init /\ Health!Init /\ Identity!Init /\ Sessions!Init
  /\ faulty \in IF subject = "service" THEN BOOLEAN ELSE {FALSE}
  /\ subject # "health" => edition = Health!Full /\ readiness = "ready"
  /\ subject # "identity" => nextId = 1

VaultNext ==
  /\ UNCHANGED subject
  /\ \/ subject = "service" /\ AnyNext /\ UNCHANGED <<healthVars, identityVars, sessionVars>>
     \/ /\ subject = "health" /\ Health!Next
        /\ controls' + healthFaults' + restarts' <= MaxHealthEvents
        /\ UNCHANGED <<vars, faulty, identityVars, sessionVars>>
     \/ /\ subject = "identity" /\ Identity!Next
        /\ UNCHANGED <<vars, faulty, healthVars, sessionVars>>
     \/ /\ subject = "sessions" /\ Sessions!Next
        /\ UNCHANGED <<vars, faulty, healthVars, identityVars>>

VaultSpec == VaultInit /\ [][VaultNext]_allVars

\* Health tells the gate, the pause, the action and the outcome that are true,
\* and the bundles made of it hold together.
HealthIsTrue == subject = "health" => Health!HealthIsTrue

\* A vault serves the identity it would serve again, no other vault has it, and
\* a stopped Bridge has closed whatever it opened.
IdentityIsKept == subject = "identity" => Identity!IdentityIsKept
SessionsEndWithStop == subject = "sessions" => Sessions!SessionsEndWithStop
=============================================================================
