-------------------------- MODULE DeviceTapRoutes --------------------------
(***************************************************************************)
(* The kiosk side of tap delivery: the local queue of the device           *)
(* (packages/runtime queue-store.mjs), and the requests by which it hands  *)
(* taps over, POST /interactions/tap with one tap and POST /device/sync    *)
(* with the replayable part of the queue.                                  *)
(*                                                                         *)
(* A kiosk client is a request in flight.  With several of them the model  *)
(* has a retry overlapping a request the device has given up on.           *)
(***************************************************************************)
EXTENDS TapIngest

CONSTANTS
  Requests,  \* the requests in flight, a subset of Clients
  Batches    \* item lists, in ascending queue_sequence_number

ASSUME RequestAssumption ==
  /\ Requests \subseteq Clients
  /\ Batches \subseteq Seq(Keys) \ {<<>>}

VARIABLES
  queue,  \* sync_status of each tap in the local queue
  links   \* taps whose interaction a short link has been issued for

deviceVars == <<queue, links>>

Statuses == {"none", "queued", "failed_retryable", "synced"}

DeviceInit ==
  /\ queue = [k \in Keys |-> "none"]
  /\ links = {}

Replayable(k) == queue[k] \in {"queued", "failed_retryable"}
Items(b)      == {b[i] : i \in DOMAIN b}

-----------------------------------------------------------------------------
(* appendQueueItem: a tap is written to the queue before anything else. *)
Capture(k) ==
  /\ queue[k] = "none"
  /\ queue' = [queue EXCEPT ![k] = "queued"]
  /\ UNCHANGED <<ingestVars, links>>

(* POST /interactions/tap sends one tap, POST /device/sync all of          *)
(* getReplayableQueueItems.                                                *)
Post(c) ==
  /\ pc[c] = "idle"
  /\ \E b \in Batches :
       /\ \A k \in Items(b) : Replayable(k)
       /\ Len(b) = 1 \/ \A k \in Keys : Replayable(k) => k \in Items(b)
       /\ req'  = [req  EXCEPT ![c] = b]
       /\ upto' = [upto EXCEPT ![c] = Len(b)]
  /\ pos' = [pos EXCEPT ![c] = 1]
  /\ Return(c, "resolve", "none")
  /\ UNCHANGED <<storeVars, assignment, seen, aborted, faults, deviceVars>>

(* After ingestTapEvent the route issues a short link to the interaction   *)
(* in a statement of its own, then takes the next item of the batch.  The  *)
(* assignment is not read again.                                           *)
IssueLink(c) ==
  /\ pc[c] = "ingested"
  /\ links' = links \cup {Key(c)}
  /\ IF pos[c] < upto[c]
       THEN Goto(c, "find") /\ pos' = [pos EXCEPT ![c] = @ + 1]
       ELSE Goto(c, "done") /\ UNCHANGED pos
  /\ UNCHANGED <<storeVars, assignment, req, upto, seen, aborted, reply, faults, queue>>

(* An item that throws ends the whole request. *)
FailRequest(c) ==
  /\ pc[c] = "failed"
  /\ Goto(c, "done")
  /\ UNCHANGED <<storeVars, assignment, req, pos, upto, seen, aborted, reply, faults, deviceVars>>

(* The device learns the outcome: markQueueItemSynced on success,          *)
(* markQueueItemRetryable on an error or when no answer arrives.           *)
Mark(b, status)   == [k \in Keys |-> IF k \in Items(b) THEN status ELSE queue[k]]
Outcome_Always(c) == "synced"
Outcome_Created(c) == IF reply[c] = "created" THEN "synced" ELSE "failed_retryable"
Outcome(c)        == IF reply[c] \in {"created", "duplicate_existing"} THEN "synced"
                                                                       ELSE "failed_retryable"

Answer(c) ==
  /\ pc[c] = "done"
  /\ queue' = Mark(req[c], Outcome(c))
  /\ Leave(c)
  /\ UNCHANGED <<storeVars, assignment, faults, links>>

LoseAnswer(c) ==
  /\ pc[c] = "done"
  /\ Fault
  /\ queue' = Mark(req[c], "failed_retryable")
  /\ Leave(c)
  /\ UNCHANGED <<storeVars, assignment, links>>

(* The server dies under the request, and the device times out. *)
DropRequest(c) ==
  /\ Crash(c)
  /\ queue' = Mark(req[c], "failed_retryable")
  /\ UNCHANGED links

RequestStep(c) ==
  \/ Post(c) \/ IssueLink(c) \/ FailRequest(c) \/ Answer(c)
  \/ IngestStep(c) /\ UNCHANGED deviceVars

RequestFault(c) == LoseAnswer(c) \/ DropRequest(c)
=============================================================================
