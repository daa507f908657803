--------------------------- MODULE BridgeSessions ---------------------------
(***************************************************************************)
(* The MCP sessions of a Bridge listener: handleRequest and stop() of      *)
(* bridge-instance.ts.  A request is suspended at every await (the         *)
(* authenticator, its body, the connection of a new server, the transport) *)
(* and stop() may run in between; it closes the sessions it finds and then *)
(* waits for the connections that are left.                                *)
(*                                                                         *)
(* A session is named by the request that created it.  The transport of    *)
(* the MCP SDK is external: handling an initialize gives the session its   *)
(* id, and closing a server closes its transport.                          *)
(***************************************************************************)
EXTENDS Naturals

CONSTANTS
  Requests,  \* the requests that arrive
  None

VARIABLES
  listening, \* httpServer is set
  shutdown,  \* stop(): "none", "sessions", "listener", "stopped"
  active,    \* stop()'s activeSessions: not closed yet, then those that would not close
  at,        \* where each request is
  header,    \* its mcp-session-id
  session,   \* the session it found, or None
  server,    \* the MCP server it created: "none", "open" or "closed"
  sessions,  \* the registered sessions
  held       \* the sessions that hold continuations or discovery state

vars == <<listening, shutdown, active, at, header, session, server, sessions, held>>

Stages == {"new", "policy", "authenticating", "body", "connecting", "creating", "handling",
           "answered", "rejected", "failed"}
Finished == {"answered", "rejected", "failed"}

TypeOK ==
  /\ listening \in BOOLEAN /\ shutdown \in {"none", "sessions", "listener", "stopped"}
  /\ at \in [Requests -> Stages]
  /\ header \in [Requests -> Requests \cup {None}]
  /\ session \in [Requests -> Requests \cup {None}]
  /\ server \in [Requests -> {"none", "open", "closed"}]
  /\ active \subseteq Requests /\ sessions \subseteq Requests /\ held \subseteq Requests

Init ==
  /\ listening = TRUE /\ shutdown = "none" /\ active = {}
  /\ at = [r \in Requests |-> "new"]
  /\ header = [r \in Requests |-> None] /\ session = [r \in Requests |-> None]
  /\ server = [r \in Requests |-> "none"]
  /\ sessions = {} /\ held = {}

Goto(r, stage) == at' = [at EXCEPT ![r] = stage]
Close(servers) ==
  server' = [r \in Requests |-> IF r \in servers THEN "closed" ELSE server[r]]
\* releaseSession: the sessions that are registered give back what they hold.
ReleaseSession(ids) ==
  /\ sessions' = sessions \ ids
  /\ held' = held \ (ids \cap sessions)

\* A client sends a request, with the id of a session that it was answered with.
\* The listener takes connections until stop() has closed the sessions, and the
\* connections it has bring requests until they have ended.
Arrive(r) ==
  /\ at[r] = "new" /\ shutdown # "stopped" /\ Goto(r, "policy")
  /\ \E id \in {None} \cup {q \in Requests :
                              at[q] \in {"creating", "answered"} /\ server[q] # "none"} :
       header' = [header EXCEPT ![r] = id]
  /\ UNCHANGED <<listening, shutdown, active, session, server, sessions, held>>

\* The path, the policy and the authenticator.
Admit(r) ==
  /\ at[r] = "policy" /\ \E stage \in {"authenticating", "rejected"} : Goto(r, stage)
  /\ UNCHANGED <<listening, shutdown, active, header, session, server, sessions, held>>

\* After the authenticator: a stopped Bridge answers 503; the session is looked
\* up now, before the body is read.
Authenticated(r) ==
  /\ at[r] = "authenticating"
  /\ IF listening
     THEN /\ Goto(r, "body")
          /\ session' = [session EXCEPT ![r] = IF header[r] \in sessions THEN header[r] ELSE None]
     ELSE Goto(r, "rejected") /\ UNCHANGED session
  /\ UNCHANGED <<listening, shutdown, active, header, server, sessions, held>>

\* The body is read or is not JSON.  An initialize has no session id; an id that
\* is not registered is an invalid session.
BodyRead(r) ==
  /\ at[r] = "body"
  /\ \/ Goto(r, "rejected") /\ UNCHANGED server
     \/ /\ session[r] # None /\ Goto(r, "handling") /\ UNCHANGED server
     \/ /\ session[r] = None /\ header[r] = None
        /\ Goto(r, "connecting") /\ server' = [server EXCEPT ![r] = "open"]
  /\ UNCHANGED <<listening, shutdown, active, header, session, sessions, held>>

\* After server.connect: on a stopped Bridge the new server is closed again.
Connected(r) ==
  /\ at[r] = "connecting"
  /\ IF listening THEN Goto(r, "creating") /\ UNCHANGED server
     ELSE Goto(r, "rejected") /\ Close({r})
  /\ UNCHANGED <<listening, shutdown, active, header, session, sessions, held>>

\* After the transport has handled it: the session is registered, unless the
\* Bridge was stopped meanwhile or the transport refused it and gave no id.
RegistersAnyway(r) == server[r] = "open"
Registers(r) == listening
SessionCreated(r) ==
  /\ at[r] = "creating"
  /\ \/ /\ Registers(r)
        /\ Goto(r, "answered") /\ sessions' = sessions \cup {r} /\ UNCHANGED server
     \/ ~Registers(r) /\ Goto(r, "rejected") /\ Close({r}) /\ UNCHANGED sessions
     \/ Registers(r) /\ Goto(r, "failed") /\ UNCHANGED <<server, sessions>>
  /\ UNCHANGED <<listening, shutdown, active, header, session, held>>

\* Whatever is awaited may throw: the caller answers 500, and closes nothing.
Throws(r) ==
  /\ at[r] \in {"authenticating", "connecting", "creating", "handling"} /\ Goto(r, "failed")
  /\ UNCHANGED <<listening, shutdown, active, header, session, server, sessions, held>>

\* A request of a session reaches its transport: a tool that leaves state for
\* the client behind, or the client's DELETE, which closes the transport.
SessionHandles(r) ==
  LET id == session[r] IN
  /\ at[r] = "handling" /\ Goto(r, "answered")
  /\ \/ UNCHANGED <<server, sessions, held>>
     \/ held' = held \cup {id} /\ UNCHANGED <<server, sessions>>
     \/ Close({id}) /\ ReleaseSession({id})
  /\ UNCHANGED <<listening, shutdown, active, header, session>>

\* stop(): the sessions are released at once, and their servers closed.
Stop ==
  /\ listening /\ shutdown = "none"
  /\ listening' = FALSE /\ shutdown' = "sessions" /\ active' = sessions
  /\ ReleaseSession(sessions)
  /\ UNCHANGED <<at, header, session, server>>
\* Every closing is waited for, and one that is rejected holds up no other.
SessionsClosed ==
  /\ shutdown = "sessions" /\ shutdown' = "listener"
  /\ active' \in SUBSET active /\ Close(active \ active')
  /\ UNCHANGED <<listening, at, header, session, sessions, held>>
\* server.close: the connections that are left have ended.
ListenerClosed ==
  /\ shutdown = "listener" /\ shutdown' = "stopped"
  /\ \A r \in Requests : at[r] \in Finished \cup {"new"}
  /\ UNCHANGED <<listening, active, at, header, session, server, sessions, held>>

Next ==
  \/ \E r \in Requests :
       \/ Arrive(r) \/ Admit(r) \/ Authenticated(r) \/ BodyRead(r)
       \/ Connected(r) \/ SessionCreated(r) \/ SessionHandles(r) \/ Throws(r)
  \/ Stop \/ SessionsClosed \/ ListenerClosed

Spec == Init /\ [][Next]_vars

-----------------------------------------------------------------------------
\* Wherever stop() met the requests, a stopped Bridge has no session and no
\* server that was connected and is still open, but one whose initialize the
\* transport refused and one that would not close, which stop() reports.
StoppedIsClosed ==
  shutdown = "stopped" =>
    /\ sessions = {}
    /\ \A r \in Requests : server[r] = "open" => at[r] = "failed" \/ r \in active

\* A session that is registered has its server: no client is left with an id
\* that leads to a closed one.
RegisteredIsOpen == \A r \in sessions : server[r] = "open"

SessionsEndWithStop == TypeOK /\ StoppedIsClosed /\ RegisteredIsOpen

\* What mvp.md says of teardown and the code does not keep: a call that found its
\* session before its body was read still runs when the session is gone, and what
\* it leaves behind is not given back.
ReleasedHoldsNothing == \A r \in held : r \in sessions
=============================================================================
