-------------------------- MODULE SubjectRequests --------------------------
(***************************************************************************)
(* Data-subject requests: two generations of routes over one table.        *)
(*                                                                         *)
(* The older ones (post-event-lifecycle.mjs) take "access" and "delete"    *)
(* and leave the work to the organizer, who completes a request.  The      *)
(* newer ones take "export" and "delete", and a worker carries them out:   *)
(* the route starts it, and a poller starts it for every request that is   *)
(* still "requested", whichever route made it.  Nobody claims a request.   *)
(***************************************************************************)
EXTENDS LeadRecords

CONSTANTS
  Requests,   \* rows of data_subject_requests
  Subject     \* the attendee each one is about

(* The row of a process here is a request; one is made by one process.     *)
ASSUME RequestsAssumption ==
  /\ Subject \in [Requests -> Attendees]
  /\ "none" \notin Leads
  /\ \A c \in Casts :
       /\ \A p \in c :
            Op(p) \in {"privacy-dsr", "session-dsr", "dsr-worker", "reject", "dsr-download", "complete"}
              => Row(p) \in Requests
       /\ \A p, q \in c : {Op(p), Op(q)} \subseteq {"privacy-dsr", "session-dsr"} /\ Row(p) = Row(q)
                            => p = q

VARIABLES
  requests,   \* data_subject_requests: type, interaction_id, status, file, download_used
  handed      \* how often the file of each request was handed out

requestVars == <<requests, handed>>

NoLead == "none"     \* interaction_id is null

Request == [type: {"export", "delete", "access"}, about: Leads \cup {NoLead},
            status: {"absent", "requested", "processing", "completed", "rejected", "failed"},
            file: BOOLEAN, used: BOOLEAN]

Creators == {"privacy-dsr", "session-dsr"}
CreatedLater(d) == \E p \in cast : Op(p) \in Creators /\ Row(p) = d
(* The others are there from the start if a process of the cast meets them. *)
Present(d) == ~CreatedLater(d) /\ \E p \in cast : Row(p) = d \/ Op(p) = "dsr-poll"

RequestInit ==
  /\ \E types \in [Requests -> {"export", "delete", "access"}] :
       /\ \A d \in Requests : types[d] # "access" => CreatedLater(d) \/ Present(d)
       /\ requests = [d \in Requests |->
                        [type |-> types[d], about |-> NoLead, file |-> FALSE, used |-> FALSE,
                         status |-> IF Present(d) THEN "requested" ELSE "absent"]]
  /\ handed = [d \in Requests |-> 0]

(* dataSubjectRequests.update: over Postgres the UPDATE has no column for  *)
(* the export file and the download.                                       *)
WriteRequest(d, row) ==
  requests' = [requests EXCEPT ![d] =
                 IF build = "memory" THEN row
                 ELSE [row EXCEPT !.file = requests[d].file, !.used = requests[d].used]]

Worker(d, n) == <<"dsr-worker", d, n>>

(* privacy-dsr-create looks for an active request of the same kind ...     *)
LookForActive(p) ==
  /\ At(p, "privacy-dsr", "start")
  /\ \E d \in Requests :
       /\ Subject[d] = Subject[Row(p)]
       /\ requests[d].type = requests[Row(p)].type
       /\ requests[d].status \in {"requested", "processing"}
  /\ Return(p)
  /\ UNCHANGED requestVars

FindNoActive(p) ==
  /\ At(p, "privacy-dsr", "start")
  /\ requests[Row(p)].type # "access"
  /\ \A d \in Requests :
       ~ /\ Subject[d] = Subject[Row(p)]
         /\ requests[d].type = requests[Row(p)].type
         /\ requests[d].status \in {"requested", "processing"}
  /\ Go(p, "insert", Nothing)
  /\ UNCHANGED requestVars

(* ... and inserts its own, then starts the worker.                        *)
SubmitRequest(p) ==
  /\ At(p, "privacy-dsr", "insert")
  /\ requests' = [requests EXCEPT ![Row(p)].status = "requested"]
  /\ Spawn(p, "done", {Worker(Row(p), 1)})
  /\ UNCHANGED handed

(* createDataSubjectRequest, from an attendee's session, which names its   *)
(* interaction, or from the organizer, who names an attendee, or an        *)
(* interaction, or both: then nobody asks whether they belong together.    *)
CreateSessionRequest(p) ==
  /\ At(p, "session-dsr", "start")
  /\ requests[Row(p)].type # "export"
  /\ \E l \in Stored \cup {NoLead} :
       requests' = [requests EXCEPT ![Row(p)].status = "requested", ![Row(p)].about = l]
  /\ Return(p)
  /\ UNCHANGED handed

(* The poller starts a worker for every request that is still "requested". *)
PollRequests(p) ==
  /\ At(p, "dsr-poll", "start") /\ Timers
  /\ \E d \in Requests : requests[d].status = "requested"
  /\ Spawn(p, "start", {Worker(d, 2) : d \in {e \in Requests : requests[e].status = "requested"}})
  /\ UNCHANGED requestVars

(* processDSRJob: whatever the status has become, the row that was found   *)
(* is written back as "processing".                                        *)
FindRequest(p) ==
  /\ At(p, "dsr-worker", "start")
  /\ Go(p, "mark", [dsr |-> requests[Row(p)], rows |-> <<>>, todo |-> {}])
  /\ UNCHANGED requestVars

(* "access" is neither of the two types that the worker knows.             *)
StartProcessing(p) ==
  /\ At(p, "dsr-worker", "mark")
  /\ WriteRequest(Row(p), [copy[p].dsr EXCEPT !.status = "processing"])
  /\ CASE copy[p].dsr.type = "export" -> Go(p, "io", copy[p])
       [] copy[p].dsr.type = "delete" -> Go(p, "delete", copy[p])
       [] OTHER                       -> Return(p)
  /\ UNCHANGED handed

(* A request that is done is written back; then come the mail and the      *)
(* webhooks, whose statements can fail as well over Postgres.              *)
Settle(p, row) ==
  /\ WriteRequest(Row(p), row)
  /\ IF build = "memory" THEN Return(p) ELSE Go(p, "report", copy[p])
  /\ UNCHANGED handed

Exported(row) == [row EXCEPT !.status = "completed", !.file = TRUE, !.used = FALSE]

FinishExport_Uncaught(p) ==
  /\ At(p, "dsr-worker", "io") /\ copy[p].dsr.type = "export"
  /\ \/ Settle(p, Exported(copy[p].dsr))
     \/ Return(p) /\ UNCHANGED requestVars

(* The package is uploaded, or the upload fails.                           *)
FinishExport(p) ==
  /\ At(p, "dsr-worker", "io") /\ copy[p].dsr.type = "export"
  /\ \/ Settle(p, Exported(copy[p].dsr))
     \/ /\ WriteRequest(Row(p), [copy[p].dsr EXCEPT !.status = "failed"])
        /\ Return(p)
        /\ UNCHANGED handed

(* The profile is blanked and the attendee's interactions are listed ...   *)
SubjectRows(d) == {l \in Leads : leads[l].who = Subject[d]}
Collect(p, S)  == Go(p, "rows", [copy[p] EXCEPT !.rows = Listing(S), !.todo = S])

BlankProfile(p) ==
  /\ At(p, "dsr-worker", "delete")
  /\ profiles' = [profiles EXCEPT ![Subject[Row(p)]] = "[deleted]"]
  /\ Collect(p, SubjectRows(Row(p)))
  /\ UNCHANGED <<leads, requestVars>>

(* ... and anonymised one by one, each from the listed row.                *)
AnonymizeRow(p) == At(p, "dsr-worker", "rows") /\ EraseNext(p) /\ UNCHANGED requestVars

AskCrm_Early(p) ==
  /\ At(p, "dsr-worker", "rows")
  /\ Go(p, "io", copy[p])
  /\ UNCHANGED requestVars

AskCrm(p) ==
  /\ At(p, "dsr-worker", "rows") /\ copy[p].todo = {}
  /\ Go(p, "io", copy[p])
  /\ UNCHANGED requestVars

(* The CRM has been asked to delete its records, with success or not.      *)
FinishDelete(p) ==
  /\ At(p, "dsr-worker", "io") /\ copy[p].dsr.type = "delete"
  /\ Settle(p, [copy[p].dsr EXCEPT !.status = "completed"])

Confirm(p) ==
  /\ At(p, "dsr-worker", "report")
  /\ Return(p)
  /\ UNCHANGED requestVars

(* A statement fails half way, which can only happen over Postgres: the    *)
(* request that was found is written back as "failed".                     *)
FailRequest(p) ==
  /\ \E l \in {"delete", "rows", "io", "report"} : At(p, "dsr-worker", l)
  /\ build = "postgres"
  /\ WriteRequest(Row(p), [copy[p].dsr EXCEPT !.status = "failed"])
  /\ Return(p)
  /\ UNCHANGED handed

(* event-privacy-request-reject, for a request that was "requested" when   *)
(* it was read.                                                            *)
ReadToReject(p) ==
  /\ At(p, "reject", "start")
  /\ IF requests[Row(p)].status = "requested"
     THEN Go(p, "write", requests[Row(p)]) ELSE Return(p)
  /\ UNCHANGED requestVars

Reject(p) ==
  /\ At(p, "reject", "write")
  /\ WriteRequest(Row(p), [copy[p] EXCEPT !.status = "rejected"])
  /\ Return(p)
  /\ UNCHANGED handed

(* privacy-dsr-download, for a file that was not used when it was read.    *)
ReadToDownload(p) ==
  /\ At(p, "dsr-download", "start")
  /\ IF /\ requests[Row(p)].type = "export"
        /\ requests[Row(p)].status = "completed"
        /\ ~requests[Row(p)].used
     THEN Go(p, "write", requests[Row(p)]) ELSE Return(p)
  /\ UNCHANGED requestVars

HandOut_Again(p) ==
  /\ At(p, "dsr-download", "write")
  /\ UNCHANGED requests
  /\ handed' = [handed EXCEPT ![Row(p)] = @ + 1]
  /\ Return(p)

HandOut(p) ==
  /\ At(p, "dsr-download", "write")
  /\ WriteRequest(Row(p), [copy[p] EXCEPT !.used = TRUE])
  /\ handed' = [handed EXCEPT ![Row(p)] = @ + 1]
  /\ Return(p)

(* organizer-dsr-complete reads the request before its transaction.        *)
ReadToComplete(p) ==
  /\ At(p, "complete", "start")
  /\ requests[Row(p)].status # "absent"
  /\ IF requests[Row(p)].status = "completed"
     THEN Return(p)
     ELSE Go(p, "collect", [dsr |-> requests[Row(p)], rows |-> <<>>, todo |-> {}])
  /\ UNCHANGED requestVars

(* anonymizeSubjectInEvent, for every type but "access": the interactions  *)
(* of the subject and the one that the request names, whosever it is and   *)
(* whether or not it still has an attendee.  There must be one.            *)
Selected_Named(d, row) == IF row.about = NoLead THEN SubjectRows(d)
                          ELSE {l \in Stored : l = row.about}
Selected(d, row)       == SubjectRows(d) \cup {l \in Stored : l = row.about}

CollectSubject(p) ==
  /\ At(p, "complete", "collect")
  /\ LET S == Selected(Row(p), copy[p].dsr)
     IN  IF copy[p].dsr.type # "access" /\ S = {} THEN Return(p) ELSE Collect(p, S)
  /\ UNCHANGED requestVars

(* They are anonymised, and the profiles nulled of the attendees that they *)
(* had when they were read, unless those are in another event.             *)
Complete(p) ==
  /\ At(p, "complete", "rows")
  /\ WriteRequest(Row(p), [copy[p].dsr EXCEPT !.status = "completed"])
  /\ IF copy[p].dsr.type = "access"
     THEN UNCHANGED leadVars
     ELSE /\ leads' = [l \in Leads |->
                         IF l \in copy[p].todo THEN Anonymized(copy[p].rows[l], FALSE)
                         ELSE leads[l]]
          /\ profiles' = [a \in Attendees |->
                            IF a \in Linked(copy[p].rows) \ Shared THEN "nulled" ELSE profiles[a]]
  /\ Return(p)
  /\ UNCHANGED handed

RequestStep(p) ==
  \/ /\ \/ LookForActive(p) \/ FindNoActive(p) \/ SubmitRequest(p)
        \/ CreateSessionRequest(p) \/ PollRequests(p) \/ FindRequest(p)
        \/ StartProcessing(p) \/ FinishExport(p) \/ FinishDelete(p)
        \/ ReadToReject(p) \/ Reject(p) \/ ReadToDownload(p) \/ HandOut(p)
        \/ ReadToComplete(p) \/ CollectSubject(p)
        \/ AskCrm(p) \/ Confirm(p) \/ FailRequest(p)
     /\ UNCHANGED leadVars
  \/ BlankProfile(p) \/ AnonymizeRow(p) \/ Complete(p)
=============================================================================
