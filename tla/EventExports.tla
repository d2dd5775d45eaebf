---------------------------- MODULE EventExports ----------------------------
(***************************************************************************)
(* Exports of an event: lead lists that the organizer approves, and the    *)
(* full export, whose file a worker uploads and which is handed out once.  *)
(*                                                                         *)
(* Two checks of the full export are made on a list read before: "one at a *)
(* time" looks for a row that is still "requested", and the download looks *)
(* at download_used.  The poller starts a worker for every full export     *)
(* that is still "requested", like the route; nobody claims one.           *)
(***************************************************************************)
EXTENDS Builds, Sequences

CONSTANTS
  Exports,   \* rows of export_requests
  FullOnes   \* those of them that are full event exports

(* The row of a process here is an export; one is made by one process.     *)
ASSUME ExportsAssumption ==
  /\ FullOnes \subseteq Exports
  /\ \A c \in Casts :
       /\ \A p \in c :
            /\ Op(p) = "request" => Row(p) \in Exports \ FullOnes
            /\ Op(p) \in {"full-export", "export-worker"} => Row(p) \in FullOnes
            /\ Op(p) \in {"approve", "reject-export", "download"} => Row(p) \in Exports
       /\ \A p, q \in c : Op(p) = "full-export" /\ Op(q) = "full-export" /\ Row(p) = Row(q)
                            => p = q

VARIABLES
  exports,   \* export_requests: status, export file, download_used
  made,      \* full exports in the order of created_at
  served     \* how often the file of each export was handed out

exportVars == <<exports, made, served>>

Export == [status: {"absent", "requested", "generated", "rejected", "expired",
                    "processing", "completed", "failed"},
           file: BOOLEAN, used: BOOLEAN]

ExportInit ==
  /\ exports = [x \in Exports |->
                  [file |-> FALSE, used |-> FALSE,
                   status |-> IF \E p \in cast : Row(p) = x /\ Op(p) \in {"request", "full-export"}
                              THEN "absent" ELSE "requested"]]
  /\ made = <<>>
  /\ served = [x \in Exports |-> 0]

(* exportRequests.update: over Postgres there is no column for the export  *)
(* file and the download, and the CHECK of the status refuses two values.  *)
Accepts(status) == build = "memory" \/ status \notin {"processing", "failed"}

WriteExport(x, row) ==
  exports' = [exports EXCEPT ![x] =
                IF build = "memory" THEN row
                ELSE [row EXCEPT !.file = exports[x].file, !.used = exports[x].used]]

(* exports-request: the event's policy may ask for an approval. *)
RequestExport(p) ==
  /\ At(p, "request", "start")
  /\ \E status \in {"requested", "generated"} :
       exports' = [exports EXCEPT ![Row(p)].status = status]
  /\ Return(p)
  /\ UNCHANGED <<made, served>>

(* exports-approve and exports-reject read the row in their transaction    *)
(* and do not ask for its status.                                          *)
ReadToDecide(p) ==
  /\ At(p, "approve", "start") \/ At(p, "reject-export", "start")
  /\ exports[Row(p)].status # "absent"
  /\ Go(p, "write", exports[Row(p)])
  /\ UNCHANGED exportVars

Decide(p) ==
  /\ \/ /\ At(p, "approve", "write")
        /\ WriteExport(Row(p), [copy[p] EXCEPT !.status = "generated"])
     \/ /\ At(p, "reject-export", "write")
        /\ WriteExport(Row(p), [copy[p] EXCEPT !.status = "rejected"])
  /\ Return(p)
  /\ UNCHANGED <<made, served>>

(* exports-download builds the payload of a generated export. *)
DownloadExport(p) ==
  /\ At(p, "download", "start")
  /\ IF exports[Row(p)].status = "generated"
     THEN served' = [served EXCEPT ![Row(p)] = @ + 1] ELSE UNCHANGED served
  /\ Return(p)
  /\ UNCHANGED <<exports, made>>

(* full-export-create lists the exports of the event ...                   *)
LookForRequested(p) ==
  /\ At(p, "full-export", "start")
  /\ IF \E x \in FullOnes : exports[x].status = "requested"
     THEN Return(p) ELSE Go(p, "insert", Nothing)
  /\ UNCHANGED exportVars

(* ... and inserts its own, then starts the worker.                        *)
SubmitExport(p) ==
  /\ At(p, "full-export", "insert")
  /\ exports' = [exports EXCEPT ![Row(p)].status = "requested"]
  /\ made' = Append(made, Row(p))
  /\ Spawn(p, "done", {<<"export-worker", Row(p), 1>>})
  /\ UNCHANGED served

PollExports(p) ==
  /\ At(p, "export-poll", "start") /\ Timers
  /\ \E x \in FullOnes : exports[x].status = "requested"
  /\ Spawn(p, "start", {<<"export-worker", x, 2>> :
                          x \in {y \in FullOnes : exports[y].status = "requested"}})
  /\ UNCHANGED exportVars

(* processFullExportJob: the status is not asked for.  An UPDATE that the  *)
(* CHECK refuses ends the worker.                                          *)
FindExport(p) ==
  /\ At(p, "export-worker", "start")
  /\ Go(p, "mark", exports[Row(p)])
  /\ UNCHANGED exportVars

MarkProcessing(p) ==
  /\ At(p, "export-worker", "mark")
  /\ IF Accepts("processing")
     THEN /\ WriteExport(Row(p), [copy[p] EXCEPT !.status = "processing"])
          /\ Go(p, "io", copy[p])
     ELSE Return(p) /\ UNCHANGED exports
  /\ UNCHANGED <<made, served>>

FinishFullExport_Uncaught(p) ==
  /\ At(p, "export-worker", "io")
  /\ \/ WriteExport(Row(p), [copy[p] EXCEPT !.status = "completed", !.file = TRUE, !.used = FALSE])
     \/ UNCHANGED exports
  /\ Return(p)
  /\ UNCHANGED <<made, served>>

FinishFullExport(p) ==
  /\ At(p, "export-worker", "io")
  /\ \/ WriteExport(Row(p), [copy[p] EXCEPT !.status = "completed", !.file = TRUE, !.used = FALSE])
     \/ WriteExport(Row(p), [copy[p] EXCEPT !.status = "failed"])
  /\ Return(p)
  /\ UNCHANGED <<made, served>>

(* full-export-download takes the latest completed export. *)
Latest(x) ==
  /\ exports[x].status = "completed"
  /\ \E i \in DOMAIN made :
       made[i] = x /\ \A j \in DOMAIN made : j > i => exports[made[j]].status # "completed"

ReadFullExport(p) ==
  /\ At(p, "full-download", "start")
  /\ \/ \E x \in FullOnes : /\ Latest(x) /\ ~exports[x].used
                            /\ Go(p, "write", [id |-> x, row |-> exports[x]])
     \/ (\A x \in FullOnes : Latest(x) => exports[x].used) /\ Return(p)
  /\ UNCHANGED exportVars

ServeFullExport(p) ==
  /\ At(p, "full-download", "write")
  /\ WriteExport(copy[p].id, [copy[p].row EXCEPT !.used = TRUE])
  /\ served' = [served EXCEPT ![copy[p].id] = @ + 1]
  /\ Return(p)
  /\ UNCHANGED made

(* What a retention run expires: lead lists and full exports alike. *)
Expiring == {x \in Exports : exports[x].status \in {"requested", "generated"}}

ExportStep(p) ==
  \/ RequestExport(p) \/ ReadToDecide(p) \/ Decide(p) \/ DownloadExport(p)
  \/ LookForRequested(p) \/ SubmitExport(p) \/ PollExports(p)
  \/ FindExport(p) \/ MarkProcessing(p) \/ FinishFullExport(p)
  \/ ReadFullExport(p) \/ ServeFullExport(p)
=============================================================================
