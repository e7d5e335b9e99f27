----------------------------- MODULE HttpServer -----------------------------
(***************************************************************************)
(* httpServerResource (bootstrap/src/http.ts): a node:http server as a     *)
(* resource that is stopped by letting its connections drain.  Node itself *)
(* is external: a connection carries one request at a time, and is kept    *)
(* alive after the response unless that said `Connection: close`.  A       *)
(* definition marked "Faulty" is a plausible mistake in the next one.      *)
(***************************************************************************)

CONSTANTS Connections  \* bound: the connections clients open

VARIABLES
  server,      \* "new", "listening", "stopping", "stopped", or "failed" to start
  connection,  \* "none", "fresh", "busy" with a request, "idle" after one, "closed"
  headersSent, \* of the response a busy connection waits for
  willClose,   \* did they say `Connection: close`, or will they?
  sweepDue,    \* is a setImmediate of closeIdleConnections to run?
  aborted      \* the signal stop is given: the shutdown's deadline has passed

serverVars == << server, connection, headersSent, willClose, sweepDue, aborted >>

ServerInit ==
  /\ server = "new"
  /\ connection = [c \in Connections |-> "none"]
  /\ headersSent = [c \in Connections |-> FALSE]
  /\ willClose = [c \in Connections |-> FALSE]
  /\ sweepDue = FALSE
  /\ aborted = FALSE

IsOpen(c) == connection[c] \in {"fresh", "busy", "idle"}

\* listen ends in one event or the other.
Listens ==
  /\ server = "new"
  /\ server' \in {"listening", "failed"}
  /\ UNCHANGED << connection, headersSent, willClose, sweepDue, aborted >>

Accepts(c) ==
  /\ server = "listening"
  /\ connection[c] = "none"
  /\ connection' = [connection EXCEPT ![c] = "fresh"]
  /\ UNCHANGED << server, headersSent, willClose, sweepDue, aborted >>

\* The prepended listener, before any handler can send headers.
RequestArrives(c) ==
  /\ connection[c] \in {"fresh", "idle"}
  /\ connection' = [connection EXCEPT ![c] = "busy"]
  /\ headersSent' = [headersSent EXCEPT ![c] = FALSE]
  /\ willClose' = [willClose EXCEPT ![c] = (server = "stopping")]
  /\ UNCHANGED << server, sweepDue, aborted >>

SendsHeaders(c) ==
  /\ connection[c] = "busy" /\ ~headersSent[c]
  /\ headersSent' = [headersSent EXCEPT ![c] = TRUE]
  /\ UNCHANGED << server, connection, willClose, sweepDue, aborted >>

\* Faulty: only stop itself closes idle connections.
SweepOnlyOnStop == sweepDue

\* After a response's `close`.
SweepAfterClose == sweepDue \/ server = "stopping"

ResponseEnds(c) ==
  /\ connection[c] = "busy"
  /\ connection' = [connection EXCEPT ![c] = IF willClose[c] THEN "closed" ELSE "idle"]
  /\ sweepDue' = SweepAfterClose
  /\ UNCHANGED << server, headersSent, willClose, aborted >>

ClientLeaves(c) ==
  /\ IsOpen(c)
  /\ connection' = [connection EXCEPT ![c] = "closed"]
  /\ sweepDue' = IF connection[c] = "busy" THEN SweepAfterClose ELSE sweepDue
  /\ UNCHANGED << server, headersSent, willClose, aborted >>

\* closeAllConnections, or closeIdleConnections: whether that takes a
\* connection that has not sent a request yet depends on Node.
CloseAll == connection' = [c \in Connections |-> IF IsOpen(c) THEN "closed" ELSE connection[c]]
CloseIdle ==
  \E idle \in {{"idle"}, {"idle", "fresh"}} :
    connection' = [c \in Connections |-> IF connection[c] \in idle THEN "closed" ELSE connection[c]]

Sweep ==
  /\ sweepDue
  /\ sweepDue' = FALSE
  /\ CloseIdle
  /\ UNCHANGED << server, headersSent, willClose, aborted >>

Closing(c) == willClose[c] \/ (connection[c] = "busy" /\ ~headersSent[c])

StopServer ==
  /\ server = "listening"
  /\ server' = "stopping"
  /\ willClose' = [c \in Connections |-> Closing(c)]
  /\ IF aborted THEN CloseAll ELSE CloseIdle
  /\ UNCHANGED << headersSent, sweepDue, aborted >>

Aborts ==
  /\ ~aborted
  /\ aborted' = TRUE
  /\ IF server = "stopping" THEN CloseAll ELSE UNCHANGED connection
  /\ UNCHANGED << server, headersSent, willClose, sweepDue >>

\* The callback of close runs once every connection is closed.
StopsServer ==
  /\ server = "stopping"
  /\ \A c \in Connections : ~IsOpen(c)
  /\ server' = "stopped"
  /\ UNCHANGED << connection, headersSent, willClose, sweepDue, aborted >>

ServerNext ==
  \/ Listens \/ Sweep \/ StopServer \/ Aborts \/ StopsServer
  \/ \E c \in Connections :
       Accepts(c) \/ RequestArrives(c) \/ SendsHeaders(c) \/ ResponseEnds(c) \/ ClientLeaves(c)

\* Handlers answer, and the event loop runs.
ServerFairness ==
  /\ WF_serverVars(Sweep) /\ WF_serverVars(StopsServer)
  /\ \A c \in Connections : WF_serverVars(ResponseEnds(c))

(* http.ts:36: "the clients of requests in flight are told the connection   *)
(* will not be reused [...] and their sockets are closed as soon as they go *)
(* idle".  Once stop is called, no connection stays busy or idle for good,  *)
(* with no help from the deadline, whatever had been sent before and        *)
(* whatever else arrives meanwhile; and if none is open that has never sent *)
(* a request, stop is over.                                                 *)
ServerDrains ==
  server = "stopping" ~>
    server = "stopped" \/ \E c \in Connections : connection[c] = "fresh"
=============================================================================
