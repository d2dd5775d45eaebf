----------------------------- MODULE Retention -----------------------------
(***************************************************************************)
(* The end of an event's personal data: the daily countdown and purge      *)
(* (jobs/retention-purge.mjs), the force-purge route that runs the purge   *)
(* at once, and the organizer's own retention run (runRetentionLifecycle). *)
(*                                                                         *)
(* The jobs list all events first and write the listed rows back; the      *)
(* purge skips an event that is "purging", "purged" or "purge_failed", and *)
(* an interaction that is "anonymized", which is also what a declined      *)
(* consent leaves.                                                         *)
(***************************************************************************)
EXTENDS LeadRecords, EventRoutes, EventExports

VARIABLES
  age,      \* how far the event is from the end of its retention
  forced    \* force-purge has answered "Purge initiated"

retentionVars == <<age, forced>>

RetentionInit ==
  /\ age = "recent"
  /\ forced = FALSE

(* Fourteen days before the end of the retention, and the end. *)
Ageing ==
  /\ age # "over" /\ \E p \in cast : Op(p) \in {"purge", "countdown"}
  /\ age' = IF age = "recent" THEN "ending" ELSE "over"
  /\ UNCHANGED <<forced, leadVars, eventVars, exportVars, procVars>>

(* The daily jobs end a round and wait for the next; the purge that        *)
(* force-purge has called just ends.                                       *)
EndRound(p) == IF p[3] = 1 THEN Spawn(p, "start", {}) ELSE Return(p)

(* Both jobs list the events first. *)
ListEvent(p) ==
  /\ At(p, "purge", "start") \/ At(p, "countdown", "start")
  /\ Go(p, "listed", [event |-> event, rows |-> <<>>, todo |-> {}])
  /\ UNCHANGED <<leadVars, eventVars, exportVars, retentionVars>>

Marked_Counted(row) ==
  row.retention \in {"expired_pending_purge", "purged", "purge_failed", "purging"}
Marked(row) == row.retention \in {"purged", "purge_failed", "purging"}

(* The purge passes over an event that is marked or that is not due ...    *)
SkipEvent(p) ==
  /\ \/ At(p, "purge", "listed") /\ (Marked(copy[p].event) \/ age # "over")
     \/ /\ At(p, "countdown", "listed")
        /\ \/ copy[p].event.retention \notin {"active", "expiring_soon"}
           \/ age = "recent"
           \/ age = "ending" /\ copy[p].event.retention # "active"
  /\ EndRound(p)
  /\ UNCHANGED <<leadVars, eventVars, exportVars, retentionVars>>

(* ... marks the others, lists the interactions ...                        *)
MarkPurging(p) ==
  /\ At(p, "purge", "listed") /\ ~Marked(copy[p].event) /\ age = "over"
  /\ WriteEvent([copy[p].event EXCEPT !.retention = "purging"])
  /\ Go(p, "collect", copy[p])
  /\ UNCHANGED <<leadVars, official, exportVars, retentionVars>>

ListRows(p) ==
  /\ At(p, "purge", "collect")
  /\ Go(p, "rows", [copy[p] EXCEPT !.rows = Listing(Stored),
                                   !.todo = {l \in Stored : leads[l].status # "anonymized"}])
  /\ UNCHANGED <<leadVars, eventVars, exportVars, retentionVars>>

(* ... writes them back one by one, unless they are anonymised already ... *)
PurgeRow(p) ==
  /\ At(p, "purge", "rows")
  /\ EraseNext(p)
  /\ UNCHANGED <<eventVars, exportVars, retentionVars>>

(* ... then blanks the profiles of the attendees on the list, whatever     *)
(* other event they are in, and marks the event.                           *)
FinishPurge(p) ==
  /\ At(p, "purge", "rows") /\ copy[p].todo = {}
  /\ profiles' = [a \in Attendees |->
                    IF a \in Linked(copy[p].rows) THEN "nulled" ELSE profiles[a]]
  /\ WriteEvent([copy[p].event EXCEPT !.retention = "purged"])
  /\ EndRound(p)
  /\ UNCHANGED <<leads, official, exportVars, retentionVars>>

(* A statement fails half way, which can only happen over Postgres. *)
FailPurge(p) ==
  /\ At(p, "purge", "rows") /\ build = "postgres"
  /\ WriteEvent([copy[p].event EXCEPT !.retention = "purge_failed"])
  /\ EndRound(p)
  /\ UNCHANGED <<leadVars, official, exportVars, retentionVars>>

(* runRetentionExpiryCountdownOnce. *)
CountDown(p) ==
  /\ At(p, "countdown", "listed")
  /\ copy[p].event.retention \in {"active", "expiring_soon"}
  /\ \/ /\ age = "over"
        /\ WriteEvent([copy[p].event EXCEPT !.retention = "expired_pending_purge"])
     \/ /\ age = "ending" /\ copy[p].event.retention = "active"
        /\ WriteEvent([copy[p].event EXCEPT !.retention = "expiring_soon"])
  /\ EndRound(p)
  /\ UNCHANGED <<leadVars, official, exportVars, retentionVars>>

(* admin-event-force-purge reads the event, ...                            *)
ReadToForce(p) ==
  /\ At(p, "force-purge", "start")
  /\ Go(p, "write", event)
  /\ UNCHANGED <<leadVars, eventVars, exportVars, retentionVars>>

(* ... marks it as being purged and runs the job that passes over events   *)
(* that are being purged.                                                  *)
ForcePurge(p) ==
  /\ At(p, "force-purge", "write")
  /\ WriteEvent([copy[p] EXCEPT !.retention = "purging"])
  /\ forced' = TRUE
  /\ Spawn(p, "done", {<<"purge", "event", 2>>})
  /\ UNCHANGED <<leadVars, official, exportVars, age>>

(* organizer-retention-run reads the event before its transaction; it      *)
(* wants an event that is over, and a retention that is, unless forced.    *)
ReadToRetire(p) ==
  /\ At(p, "retention-run", "start")
  /\ IF event.status \in {"closed", "archived"}
     THEN Go(p, "collect", [event |-> event, rows |-> <<>>, expiring |-> {}]) ELSE Return(p)
  /\ UNCHANGED <<leadVars, eventVars, exportVars, retentionVars>>

CollectTargets(p) ==
  /\ At(p, "retention-run", "collect")
  /\ Go(p, "commit", [copy[p] EXCEPT !.rows = Listing(Stored), !.expiring = Expiring])
  /\ UNCHANGED <<leadVars, eventVars, exportVars, retentionVars>>

Retire(p) ==
  /\ At(p, "retention-run", "commit")
  /\ leads' = [l \in Leads |-> IF l \in DOMAIN copy[p].rows
                               THEN Anonymized(copy[p].rows[l], FALSE) ELSE leads[l]]
  /\ profiles' = [a \in Attendees |->
                    IF a \in Linked(copy[p].rows) \ Shared THEN "nulled" ELSE profiles[a]]
  /\ exports' = [x \in Exports |-> IF x \in copy[p].expiring
                                   THEN [exports[x] EXCEPT !.status = "expired"] ELSE exports[x]]
  /\ IF copy[p].event.status = "archived" THEN UNCHANGED event
     ELSE WriteEvent([copy[p].event EXCEPT !.status = "archived"])
  /\ Return(p)
  /\ UNCHANGED <<official, made, served, retentionVars>>

RetentionStep(p) ==
  \/ ListEvent(p) \/ SkipEvent(p) \/ MarkPurging(p) \/ ListRows(p) \/ PurgeRow(p)
  \/ FinishPurge(p) \/ FailPurge(p) \/ CountDown(p) \/ ReadToForce(p) \/ ForcePurge(p)
  \/ ReadToRetire(p) \/ CollectTargets(p) \/ Retire(p)
=============================================================================
