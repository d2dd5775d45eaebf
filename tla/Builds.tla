------------------------------- MODULE Builds -------------------------------
(***************************************************************************)
(* How handlers and jobs run, for the modules of the routes that keep      *)
(* their rows in one of two backends (app.mjs: REPOSITORY_BACKEND).        *)
(*                                                                         *)
(* A process is <<operation, row, number>>: a request, a job of app.mjs or *)
(* a worker that a route starts with setImmediate.  cast is the set of the *)
(* processes of the behaviour, chosen at the start from Casts, so that one *)
(* model holds every operation and yet only a few of them race.            *)
(*                                                                         *)
(* Over Postgres every statement is a step of its own and other processes  *)
(* run between any two.  In the memory build a repository call resolves in *)
(* a microtask, so a process keeps the thread until it is done or awaits   *)
(* the outside world ("io": an upload, a fetch).  Only the workers of one  *)
(* poll, which are started without await, interleave there as well.        *)
(***************************************************************************)
EXTENDS Naturals, FiniteSets

CONSTANTS
  Backends,     \* the backends to start with, of {"memory", "postgres"}
  Casts,        \* the sets of processes to start with
  MaxRestarts,  \* bound on the restarts of the server
  Nothing       \* what a process holds before it has read a row

ASSUME BuildsAssumption ==
  /\ Backends \subseteq {"memory", "postgres"}
  /\ MaxRestarts \in Nat
  /\ Nothing \notin Nat
  /\ \A c \in Casts : IsFiniteSet(c) /\ \A p \in c : p = <<p[1], p[2], p[3]>>

VARIABLES
  build,     \* the backend
  cast,      \* the processes
  pc,        \* where each process is
  copy,      \* the row or the list it has read
  restarts   \* restarts so far

procVars == <<build, cast, pc, copy, restarts>>

Op(p)  == p[1]
Row(p) == p[2]

Outside == {"asleep", "start", "io", "done"}

(* Workers that a route starts with setImmediate. *)
Immediate == {"dsr-worker", "export-worker"}

At_Awaits(p, op, l) == Op(p) = op /\ pc[p] = l

(* p may take its next step from l. *)
At(p, op, l) ==
  /\ Op(p) = op
  /\ pc[p] = l
  /\ \/ build = "postgres"
     \/ \A q \in cast \ {p} : pc[q] \in Outside \/ {Op(p), Op(q)} \subseteq Immediate

(* In the memory build no timer runs before the workers that a route has   *)
(* started with setImmediate (number 1) have reached their first wait.     *)
Timers == build = "postgres" \/ \A q \in cast : pc[q] = "start" => Op(q) \notin Immediate \/ q[3] # 1

Go(p, l, c) ==
  /\ pc'   = [pc EXCEPT ![p] = l]
  /\ copy' = [copy EXCEPT ![p] = c]
  /\ UNCHANGED <<build, cast, restarts>>

Return(p) == Go(p, "done", Nothing)

(* p ends and the processes in qs start (setImmediate, a call without      *)
(* await); a poller starts over at its next tick.                          *)
Spawn(p, l, qs) ==
  /\ pc'   = [q \in cast |->
                IF q = p THEN l
                ELSE IF q \in qs /\ pc[q] \in {"asleep", "done"} THEN "start"
                ELSE pc[q]]
  /\ copy' = [copy EXCEPT ![p] = Nothing]
  /\ UNCHANGED <<build, cast, restarts>>

(* Workers sleep until something starts them. *)
ProcInit(Workers) ==
  /\ build \in Backends
  /\ cast \in Casts
  /\ pc = [p \in cast |-> IF Op(p) \in Workers THEN "asleep" ELSE "start"]
  /\ copy = [p \in cast |-> Nothing]
  /\ restarts = 0

(* The server restarts over Postgres: its requests and workers are gone,   *)
(* its timers start anew.  (The memory build loses its rows as well: there *)
(* is nothing left to ask about.)                                          *)
Restart(Pollers, Workers) ==
  /\ build = "postgres" /\ restarts < MaxRestarts
  /\ pc' = [p \in cast |->
              IF Op(p) \in Pollers THEN "start"
              ELSE IF Op(p) \in Workers THEN "asleep"
              ELSE IF pc[p] = "start" THEN "start" ELSE "done"]
  /\ copy' = [p \in cast |-> Nothing]
  /\ restarts' = restarts + 1
  /\ UNCHANGED <<build, cast>>
=============================================================================
