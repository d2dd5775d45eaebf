----------------------------- MODULE IotTapSync -----------------------------
(***************************************************************************)
(* runPagedIotSync (iot/sync-support.mjs) on the taps stream.  A run reads *)
(* the checkpoint of the stream once, then pages through the feed of the   *)
(* IoT platform from its cursor, ingesting every item, and upserts the     *)
(* checkpoint after each page and after a failure.  Runs are started by    *)
(* hand and by script and nothing keeps two of them from overlapping: both *)
(* write the one checkpoint row from what they read at their start.        *)
(*                                                                         *)
(* A cursor is the index of an item in Feed.  The feed may repeat a tap.   *)
(***************************************************************************)
EXTENDS TapIngest

CONSTANTS
  Runs,       \* overlapping runs, a subset of Clients
  Feed,       \* the taps of the stream, in cursor order
  PageLimit,  \* items per page
  CountLimit  \* failure counts saturate here (a bound of the model)

ASSUME FeedAssumption ==
  /\ Runs \subseteq Clients
  /\ Feed \in Seq(Keys)
  /\ PageLimit \in Nat \ {0}
  /\ CountLimit \in Nat

VARIABLES
  checkpoint,  \* the row of iot_sync_checkpoints
  snapshot,    \* the checkpoint each run read at its start
  pageStart,   \* pageStartCursor of each run
  more,        \* next_cursor of its page is set
  published    \* how much of Feed the IoT platform has published

runVars == <<snapshot, pageStart, more>>
iotVars == <<checkpoint, runVars, published>>

Cursors == 0 .. Len(Feed)

(* last_cursor, and metadata.consecutive_failure_count. *)
Checkpoints == [cursor : Cursors, failures : 0 .. CountLimit]

NoCheckpoint == [cursor |-> 0, failures |-> 0]

IotInit ==
  /\ checkpoint = NoCheckpoint
  /\ snapshot   = [r \in Runs |-> NoCheckpoint]
  /\ pageStart  = [r \in Runs |-> 0]
  /\ more       = [r \in Runs |-> FALSE]
  /\ published  = 0

EndRun(r) ==
  /\ Leave(r)
  /\ snapshot'  = [snapshot  EXCEPT ![r] = NoCheckpoint]
  /\ pageStart' = [pageStart EXCEPT ![r] = 0]
  /\ more'      = [more      EXCEPT ![r] = FALSE]

Bump(n)       == IF n < CountLimit THEN n + 1 ELSE n
Smaller(m, n) == IF m < n THEN m ELSE n

-----------------------------------------------------------------------------
Publish ==
  /\ published < Len(Feed)
  /\ published' = published + 1
  /\ UNCHANGED <<ingestVars, checkpoint, runVars>>

StartRun(r) ==
  /\ pc[r] = "idle"
  /\ snapshot'  = [snapshot  EXCEPT ![r] = checkpoint]
  /\ pageStart' = [pageStart EXCEPT ![r] = checkpoint.cursor]
  /\ req'       = [req EXCEPT ![r] = Feed]
  /\ pos'       = [pos EXCEPT ![r] = checkpoint.cursor + 1]
  /\ Return(r, "list", "none")
  /\ UNCHANGED <<storeVars, assignment, upto, seen, aborted, faults, checkpoint, more, published>>

(* adapter.listTapEvents: the page after the cursor; next_cursor tells     *)
(* whether anything follows it.                                            *)
PageEnd(r) == Smaller(pageStart[r] + PageLimit, published)

ListPage(r) ==
  /\ pc[r] = "list"
  /\ upto' = [upto EXCEPT ![r] = PageEnd(r)]
  /\ more' = [more EXCEPT ![r] = PageEnd(r) < published]
  /\ Goto(r, IF pageStart[r] < PageEnd(r) THEN "resolve" ELSE "save")
  /\ UNCHANGED <<storeVars, assignment, req, pos, seen, aborted, reply, faults>>
  /\ UNCHANGED <<checkpoint, snapshot, pageStart, published>>

FetchError(r) ==
  /\ pc[r] = "list"
  /\ Fault
  /\ Return(r, "failed", "none")
  /\ UNCHANGED <<storeVars, assignment, req, pos, upto, seen, aborted, iotVars>>

(* lastCursor = item.cursor, which is pos[r] - 1 from here on. *)
NextItem(r) ==
  /\ pc[r] = "ingested"
  /\ pos' = [pos EXCEPT ![r] = @ + 1]
  /\ Goto(r, IF pos[r] < upto[r] THEN "resolve" ELSE "save")
  /\ UNCHANGED <<storeVars, assignment, req, upto, seen, aborted, reply, faults, iotVars>>

(* persistIotCheckpoint. *)
SavedCheckpoint_Stale(r)  == [cursor |-> snapshot[r].cursor, failures |-> 0]
SavedCheckpoint_Next(r)   == [cursor |-> pos[r], failures |-> 0]
SavedCheckpoint_Shared(r) == [cursor |-> published, failures |-> 0]
SavedCheckpoint(r)        == [cursor |-> pos[r] - 1, failures |-> 0]

SavePage(r) ==
  /\ pc[r] = "save"
  /\ checkpoint' = SavedCheckpoint(r)
  /\ IF more[r] THEN /\ Goto(r, "list")
                     /\ pageStart' = [pageStart EXCEPT ![r] = pos[r] - 1]
                     /\ UNCHANGED <<req, pos, upto, seen, aborted, reply, snapshot, more>>
                ELSE EndRun(r)
  /\ UNCHANGED <<storeVars, assignment, faults, published>>

(* persistSyncFailure: the cursor is pinned to the start of the page, and  *)
(* the count goes up from what the run read at its start.                  *)
FailedCheckpoint_Skip(r)   == [cursor   |-> Smaller(pos[r], Len(Feed)),
                               failures |-> Bump(snapshot[r].failures)]
FailedCheckpoint_Forget(r) == [cursor   |-> pageStart[r],
                               failures |-> Smaller(1, CountLimit)]
FailedCheckpoint(r)        == [cursor   |-> pageStart[r],
                               failures |-> Bump(snapshot[r].failures)]

SaveFailure(r) ==
  /\ pc[r] = "failed"
  /\ checkpoint' = FailedCheckpoint(r)
  /\ EndRun(r)
  /\ UNCHANGED <<storeVars, assignment, faults, published>>

KillRun(r) == Crash(r) /\ EndRun(r) /\ UNCHANGED <<checkpoint, published>>

RunStep(r) ==
  \/ StartRun(r) \/ ListPage(r) \/ NextItem(r) \/ SavePage(r) \/ SaveFailure(r)
  \/ IngestStep(r) /\ UNCHANGED iotVars

RunFault(r) == FetchError(r) \/ KillRun(r)
=============================================================================
