---------------------------- MODULE FieldReports ----------------------------
(***************************************************************************)
(* What comes in from the field: the heartbeats of devices, which they     *)
(* send themselves or the IoT platform brings, and incidents, which the    *)
(* platform brings and organizers work on.                                 *)
(*                                                                         *)
(* The sync delivers an item again after a failure and when two runs       *)
(* overlap; a lookup by the cursor of the source keeps it from being       *)
(* stored twice, and over Postgres a unique index.  The pages of a sync    *)
(* and its checkpoint are the matter of IotTapSync.                        *)
(***************************************************************************)
EXTENDS Builds, Sequences

CONSTANT Reports   \* cursors of the items of the platform

VARIABLES
  incidents,   \* device_incidents: cursor, status, and what was written into metadata
  beats        \* device_heartbeats: the cursor of each, or Nothing

fieldVars == <<incidents, beats>>

FieldInit == incidents = <<>> /\ beats = <<>>

(* A note carries its author; the runbook says who has updated it last.    *)
Incident(cursor, status) ==
  [cursor |-> cursor, status |-> status, notes |-> {}, history |-> <<>>, runbook |-> Nothing]

StoredIncident_Open(cursor) ==
  \E i \in DOMAIN incidents : incidents[i].cursor = cursor /\ incidents[i].status # "resolved"

StoredIncident(cursor) == \E i \in DOMAIN incidents : incidents[i].cursor = cursor
StoredBeat(cursor)     == \E i \in DOMAIN beats : beats[i] = cursor

HasReport(p) == IF Op(p) = "incident-sync" THEN StoredIncident(Row(p)) ELSE StoredBeat(Row(p))

Syncs == {"incident-sync", "beat-sync"}

(* A sync fetches a page ...                                               *)
FetchReport(p) ==
  /\ \E op \in Syncs : At(p, op, "start") /\ Go(p, "io", Nothing)
  /\ UNCHANGED fieldVars

(* ... and looks whether it has the item already; if not, the item must    *)
(* come from where the device is assigned now.                             *)
FindReport(p) ==
  /\ \E op \in Syncs : At(p, op, "io")
  /\ IF HasReport(p) THEN Return(p)
     ELSE \E assigned \in BOOLEAN : IF assigned THEN Go(p, "create", Nothing) ELSE Return(p)
  /\ UNCHANGED fieldVars

(* The unique index makes the second of two runs fail.                     *)
StoreReport(p) ==
  /\ \E op \in Syncs : At(p, op, "create")
  /\ IF build = "postgres" /\ HasReport(p) THEN UNCHANGED fieldVars
     ELSE IF Op(p) = "incident-sync"
     THEN /\ \E status \in {"open", "resolved"} : incidents' = Append(incidents, Incident(Row(p), status))
          /\ UNCHANGED beats
     ELSE beats' = Append(beats, Row(p)) /\ UNCHANGED incidents
  /\ Return(p)

(* device-heartbeat. *)
Beat(p) ==
  /\ At(p, "beat", "start")
  /\ beats' = Append(beats, Nothing)
  /\ Return(p)
  /\ UNCHANGED incidents

(* appendIncidentMetadataEntry: the entries there are and a new one.       *)
Noted(row, author) == [row EXCEPT !.notes = @ \cup {author}]

MovedTo(row, status, author) ==
  Noted([row EXCEPT !.status = status, !.history = Append(@, <<row.status, status>>)], author)

(* organizer-incident-annotation, -state and -runbook.                     *)
Worked(p, row) ==
  CASE Op(p) = "annotate" -> Noted(row, p)
    [] Op(p) = "escalate" -> MovedTo(row, "escalated", p)
    [] Op(p) = "resolve"  -> MovedTo(row, "resolved", p)
    [] Op(p) = "runbook"  -> Noted([row EXCEPT !.runbook = p], p)

(* Over Postgres the status of an incident is open or resolved, and the    *)
(* CHECK refuses the UPDATE of one that is escalated.                      *)
Rejected(row) == build = "postgres" /\ row.status = "escalated"

Organizing == {"annotate", "escalate", "resolve", "runbook"}

ReadIncident(p) ==
  /\ \E op \in Organizing : At(p, op, "start")
  /\ IF Row(p) \in DOMAIN incidents THEN Go(p, "write", Worked(p, incidents[Row(p)])) ELSE Return(p)
  /\ UNCHANGED fieldVars

WriteIncident(p) ==
  /\ \E op \in Organizing : At(p, op, "write")
  /\ incidents' = IF Rejected(copy[p]) THEN incidents ELSE [incidents EXCEPT ![Row(p)] = copy[p]]
  /\ Return(p)
  /\ UNCHANGED beats

FieldStep(p) ==
  \/ FetchReport(p) \/ FindReport(p) \/ StoreReport(p) \/ Beat(p)
  \/ ReadIncident(p) \/ WriteIncident(p)
=============================================================================
