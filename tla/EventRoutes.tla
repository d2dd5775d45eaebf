---------------------------- MODULE EventRoutes ----------------------------
(***************************************************************************)
(* The lifecycle of an event: draft, published, live, closed, archived.    *)
(*                                                                         *)
(* Every route reads the row, checks the status on what it has read, and   *)
(* writes the whole row back.  Two of them work in a transaction, which at *)
(* READ COMMITTED does not keep the row they have read from changing.      *)
(***************************************************************************)
EXTENDS Builds

CONSTANT MaxVersion   \* bound on the versions of the official report

ASSUME VersionAssumption == MaxVersion \in Nat \ {0}

VARIABLES
  event,      \* the row of events
  official    \* official_event_report snapshots, by report_snapshot_version

eventVars == <<event, official>>

EventStatuses == <<"draft", "published", "live", "closed", "archived">>
RetentionStates == {"active", "expiring_soon", "expired_pending_purge", "purging",
                    "purged", "purge_failed"}

Event == [status: {EventStatuses[i] : i \in 1 .. 5}, version: 1 .. MaxVersion,
          retention: RetentionStates]

(* The event is as far as the first of the cast's routes wants it. *)
EventInit ==
  /\ event = [version |-> 1, retention |-> "active",
              status |-> IF \E p \in cast : Op(p) = "publish" THEN "draft"
                         ELSE IF \E p \in cast : Op(p) = "close" THEN "live" ELSE "closed"]
  /\ official = [v \in 1 .. MaxVersion |-> 0]

(* events.update: over Postgres the UPDATE has no column for the retention *)
(* status.                                                                 *)
WriteEvent(row) ==
  event' = IF build = "memory" THEN row ELSE [row EXCEPT !.retention = event.retention]

EventOps == {"patch", "publish", "go-live", "close", "archive", "freeze"}

AskedFrom_Reopen(op) ==
  CASE op = "patch"   -> {"draft", "published"}
    [] op = "publish" -> {"draft"}
    [] op = "go-live" -> {"published", "closed"}
    [] op = "close"   -> {"live"}
    [] op = "archive" -> {"closed"}
    [] op = "freeze"  -> {EventStatuses[i] : i \in 1 .. 5}

(* The status each route asks of the row it has read. *)
AskedFrom(op) ==
  CASE op = "patch"   -> {"draft", "published"}
    [] op = "publish" -> {"draft"}
    [] op = "go-live" -> {"published"}
    [] op = "close"   -> {"live"}
    [] op = "archive" -> {"closed"}
    [] op = "freeze"  -> {EventStatuses[i] : i \in 1 .. 5}

ReadEvent(p) ==
  /\ \E op \in EventOps : At(p, op, "start") /\ event.status \in AskedFrom(op)
  /\ Go(p, "write", event)
  /\ UNCHANGED eventVars

(* The status is another one, or the checklist is not complete. *)
RefuseEvent(p) ==
  /\ \E op \in EventOps \ {"freeze"} : At(p, op, "start")
  /\ Return(p)
  /\ UNCHANGED eventVars

(* events-patch changes names, places and dates. *)
PatchEvent(p) ==
  /\ At(p, "patch", "write")
  /\ WriteEvent(copy[p])
  /\ Return(p)
  /\ UNCHANGED official

(* events-publish and organizer-event-publish. *)
PublishEvent(p) ==
  /\ At(p, "publish", "write")
  /\ WriteEvent([copy[p] EXCEPT !.status = "published"])
  /\ Return(p)
  /\ UNCHANGED official

GoLive(p) ==
  /\ At(p, "go-live", "write")
  /\ WriteEvent([copy[p] EXCEPT !.status = "live"])
  /\ Return(p)
  /\ UNCHANGED official

CloseEvent(p) ==
  /\ At(p, "close", "write")
  /\ WriteEvent([copy[p] EXCEPT !.status = "closed"])
  /\ Return(p)
  /\ UNCHANGED official

ArchiveEvent(p) ==
  /\ At(p, "archive", "write")
  /\ WriteEvent([copy[p] EXCEPT !.status = "archived"])
  /\ Return(p)
  /\ UNCHANGED official

FreezeReport_SameVersion(p) ==
  /\ At(p, "freeze", "write")
  /\ copy[p].version < MaxVersion
  /\ LET next == copy[p].version + 1
     IN  /\ official' = [official EXCEPT ![next] = @ + 1]
         /\ WriteEvent([copy[p] EXCEPT !.status = "closed"])
  /\ Return(p)

(* organizer-report-freeze-trigger: the next version of the official       *)
(* report, and the event is closed whatever it was.                        *)
FreezeReport(p) ==
  /\ At(p, "freeze", "write")
  /\ copy[p].version < MaxVersion
  /\ LET next == copy[p].version + 1
     IN  /\ official' = [official EXCEPT ![next] = @ + 1]
         /\ WriteEvent([copy[p] EXCEPT !.status = "closed", !.version = next])
  /\ Return(p)

EventStep(p) ==
  \/ ReadEvent(p) \/ RefuseEvent(p) \/ PatchEvent(p) \/ PublishEvent(p)
  \/ GoLive(p) \/ CloseEvent(p) \/ ArchiveEvent(p) \/ FreezeReport(p)
=============================================================================
