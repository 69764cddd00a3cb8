------------------------------- MODULE Server -------------------------------
(***************************************************************************)
(* Listening, serving and graceful shutdown                                *)
(* (internal/platform/httpserver/server.go).                               *)
(*                                                                         *)
(* Serve runs net/http's accept loop in a goroutine and waits for its end  *)
(* or for ctx to be done; then it drains the open requests for at most     *)
(* shutdownTimeout and closes what is left.  Process has the handlers, and *)
(* the program around Run.                                                 *)
(***************************************************************************)
EXTENDS Naturals

CONSTANTS MaxConns   (* bounds the connections; each has one request        *)

ASSUME ConnAssumption == MaxConns \in Nat

(* Connections are numbered as they are accepted.                          *)
Conns == 1 .. MaxConns

VARIABLES
  listener,    (* "none" yet, "open", "closed", "failed" by its own error   *)
  signalled,   (* ctx is done                                               *)
  conn,        (* each connection: none, open, answered or cut              *)
  pc,          (* where Run is                                              *)
  serveErrors, (* the channel: empty, or the error of the accept loop       *)
  shutdownErr, (* Shutdown ran into its deadline                            *)
  result       (* what Run returns                                          *)

serverVars == <<listener, signalled, conn, pc, serveErrors, shutdownErr, result>>

ServerInit ==
  /\ listener = "none" /\ signalled = FALSE
  /\ conn = [c \in Conns |-> "none"]
  /\ pc = "listen"
  /\ serveErrors = "empty" /\ shutdownErr = FALSE /\ result = "none"

Open == {c \in Conns : conn[c] = "open"}
Cut == [c \in Conns |-> IF c \in Open THEN "cut" ELSE conn[c]]

-----------------------------------------------------------------------------
(* The outside world and net/http.                                         *)

Accept(c) ==
  /\ listener = "open" /\ conn[c] = "none" /\ \A d \in Conns : d < c => conn[d] # "none"
  /\ conn' = [conn EXCEPT ![c] = "open"]
  /\ UNCHANGED <<listener, signalled, pc, serveErrors, shutdownErr, result>>

Respond(c) ==
  /\ conn[c] = "open"
  /\ conn' = [conn EXCEPT ![c] = "answered"]
  /\ UNCHANGED <<listener, signalled, pc, serveErrors, shutdownErr, result>>

Signal ==
  /\ ~signalled /\ signalled' = TRUE
  /\ UNCHANGED <<listener, conn, pc, serveErrors, shutdownErr, result>>

ListenerFails ==
  /\ listener = "open" /\ listener' = "failed"
  /\ UNCHANGED <<signalled, conn, pc, serveErrors, shutdownErr, result>>

(* The accept loop ends and sends its error; the channel has room for it.  *)
(* Once Shutdown has been called any error may be reported as its own.     *)
AcceptLoopEnds ==
  /\ listener \in {"closed", "failed"} /\ serveErrors = "empty"
  /\ \/ listener = "failed" /\ serveErrors' = "error"
     \/ pc # "select" /\ serveErrors' = "ErrServerClosed"
  /\ UNCHANGED <<listener, signalled, conn, pc, shutdownErr, result>>

-----------------------------------------------------------------------------
(* Run: the address may be taken.                                          *)
Listen ==
  /\ pc = "listen"
  /\ \/ listener' = "open" /\ pc' = "select" /\ UNCHANGED result
     \/ result' = "error" /\ pc' = "returned" /\ UNCHANGED listener
  /\ UNCHANGED <<signalled, conn, serveErrors, shutdownErr>>

(* Serve: the accept loop ended by itself.                                 *)
SelectServeErrors ==
  /\ pc = "select" /\ serveErrors # "empty"
  /\ result' = IF serveErrors = "ErrServerClosed" THEN "nil" ELSE "error"
  /\ pc' = "returned"
  /\ UNCHANGED <<listener, signalled, conn, serveErrors, shutdownErr>>

(* Mutant of SelectDone: Close in place of Shutdown.                       *)
SelectDoneClose ==
  /\ pc = "select" /\ signalled
  /\ listener' = IF listener = "open" THEN "closed" ELSE listener
  /\ conn' = Cut
  /\ pc' = "join"
  /\ UNCHANGED <<signalled, serveErrors, shutdownErr, result>>

(* ctx.Done: Shutdown closes the listener first.                           *)
SelectDone ==
  /\ pc = "select" /\ signalled
  /\ listener' = IF listener = "open" THEN "closed" ELSE listener
  /\ pc' = "shutdown"
  /\ UNCHANGED <<signalled, conn, serveErrors, shutdownErr, result>>

ShutdownDrained ==
  /\ pc = "shutdown" /\ Open = {}
  /\ pc' = "join"
  /\ UNCHANGED <<listener, signalled, conn, serveErrors, shutdownErr, result>>

(* shutdownTimeout is over.                                                *)
ShutdownDeadline ==
  /\ pc = "shutdown" /\ Open # {}
  /\ shutdownErr' = TRUE
  /\ pc' = "close"
  /\ UNCHANGED <<listener, signalled, conn, serveErrors, result>>

Close ==
  /\ pc = "close"
  /\ conn' = Cut
  /\ pc' = "join"
  /\ UNCHANGED <<listener, signalled, serveErrors, shutdownErr, result>>

(* Wait for the accept loop; errors.Join of the two.                       *)
Join ==
  /\ pc = "join" /\ serveErrors # "empty"
  /\ result' = IF shutdownErr \/ serveErrors = "error" THEN "error" ELSE "nil"
  /\ pc' = "returned"
  /\ UNCHANGED <<listener, signalled, conn, serveErrors, shutdownErr>>

Run ==
  Listen \/ SelectServeErrors \/ SelectDone \/ ShutdownDrained \/ ShutdownDeadline \/ Close \/ Join
=============================================================================
