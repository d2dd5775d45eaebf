---------------------------- MODULE EventPrivacy ----------------------------
(***************************************************************************)
(* The personal data of one event, with everything that runs over it: the  *)
(* consent routes, the data-subject requests, the exports, the lifecycle   *)
(* of the event, the retention jobs and the offboarding of its tenant.     *)
(***************************************************************************)
EXTENDS SubjectRequests, Retention, Offboarding

vars == <<procVars, leadVars, requestVars, exportVars, eventVars, retentionVars,
          offboardingVars>>

Workers == {"dsr-worker", "export-worker", "offboard-worker"}
Pollers == {"dsr-poll", "export-poll", "purge", "countdown"}

Init ==
  /\ ProcInit(Workers)
  /\ LeadInit
  /\ RequestInit
  /\ ExportInit
  /\ EventInit
  /\ RetentionInit
  /\ OffboardingInit

Step(p) ==
  \/ /\ LeadStep(p)
     /\ UNCHANGED <<requestVars, exportVars, eventVars, retentionVars, offboardingVars>>
  \/ /\ RequestStep(p)
     /\ UNCHANGED <<exportVars, eventVars, retentionVars, offboardingVars>>
  \/ /\ ExportStep(p)
     /\ UNCHANGED <<leadVars, requestVars, eventVars, retentionVars, offboardingVars>>
  \/ /\ EventStep(p)
     /\ UNCHANGED <<leadVars, requestVars, exportVars, retentionVars, offboardingVars>>
  \/ /\ RetentionStep(p)
     /\ UNCHANGED <<requestVars, offboardingVars>>
  \/ /\ OffboardingStep(p)
     /\ UNCHANGED <<requestVars, exportVars, retentionVars>>

Clock ==
  \/ Ageing /\ UNCHANGED <<requestVars, offboardingVars>>
  \/ (RingAlarm \/ PassDays) /\ UNCHANGED <<requestVars, exportVars, retentionVars>>

Restarted ==
  /\ Restart(Pollers, Workers)
  /\ UNCHANGED <<leadVars, requestVars, exportVars, eventVars, retentionVars, offboardingVars>>

Next == Clock \/ Restarted \/ \E p \in cast : Step(p)

(* What has started is carried on, the jobs come round again and time      *)
(* passes; nobody has to send a request.  The daily jobs keep the thread   *)
(* from each other again and again: the event loop serves them in turn.    *)
Runs(p) == p \in cast /\ (pc[p] # "start" \/ Op(p) \in Workers \cup Pollers) /\ Step(p)
Daily   == {p \in UNION Casts : Op(p) \in {"purge", "countdown"}}

Fairness == /\ WF_vars(Clock)
            /\ \A p \in UNION Casts \ Daily : WF_vars(Runs(p))
            /\ \A p \in Daily : SF_vars(Runs(p))

Spec == Init /\ [][Next]_vars /\ Fairness
-----------------------------------------------------------------------------
PrivacyTypeOk ==
  /\ build \in Backends /\ cast \in Casts /\ restarts \in 0 .. MaxRestarts
  /\ leads \in [Leads -> Lead] /\ profiles \in [Attendees -> ProfileStates]
  /\ requests \in [Requests -> Request] /\ handed \in [Requests -> Nat]
  /\ exports \in [Exports -> Export] /\ served \in [Exports -> Nat]
  /\ event \in Event /\ official \in [1 .. MaxVersion -> Nat]
  /\ age \in {"recent", "ending", "over"} /\ forced \in BOOLEAN
  /\ jobs \in [Jobs -> Job] /\ day \in 0 .. LastDay

(* An erasure is final: an interaction that was anonymised without its     *)
(* attendee (by a request, a purge, a retention run or the offboarding)    *)
(* never carries that attendee again; only a new consent gives it one.     *)
(* Over Postgres this needs that no route writes a copy of an interaction  *)
(* back.                                                                   *)
LeadWriters == {"capture", "revoke", "classify"}
Untangled   == build = "memory" \/ \A p \in cast : Op(p) \notin LeadWriters

ErasedStaysErased ==
  [][Untangled => \A l \in Leads :
       leads[l].status = "anonymized" /\ leads[l].who = Nobody
         => leads'[l].who \in {Nobody, Newcomer}]_vars

(* Who reports an erasure has done it: when a delete request is completed, *)
(* no interaction names its subject and the profile is gone of a subject   *)
(* of this event alone; when the event is "purged" or the tenant           *)
(* "deleted", every interaction is anonymised and no such profile is left. *)
(* Taps and consents that come later are new data, and so is what a        *)
(* consent that is taken back in part makes active again.                  *)
(*                                                                         *)
(* The organizer's completion finds the profiles by the attendees that the *)
(* selected interactions still have.  A request that names an interaction  *)
(* can therefore be completed without reaching the profile of its subject: *)
(* over Postgres when a purge has anonymised the interaction and not yet,  *)
(* or never, blanked the profile, and anywhere when the organizer names a  *)
(* subject who has no interaction of the event.                            *)
NoNewData == Untangled /\ \A p \in cast : Op(p) \notin {"tap", "capture", "revoke"}
Tidy      == build = "memory" \/ \A p \in cast : Op(p) # "purge"
Within(d, row) == row.about = NoLead \/ (Tidy /\ \E l \in Leads : Owner[l] = Subject[d])

NothingLeftBehind ==
  NoNewData =>
    /\ \A d \in Requests :
         requests[d].type = "delete" /\ requests[d].status = "completed"
           => /\ SubjectRows(d) = {}
              /\ Within(d, requests[d]) /\ Subject[d] \notin Shared
                   => profiles[Subject[d]] # "kept"
    /\ event.retention = "purged" \/ tenant = "deleted"
         => /\ \A l \in Stored : leads[l].status = "anonymized"
            /\ \A l \in Leads : Owner[l] \notin Shared => profiles[Owner[l]] # "kept"

(* In the memory build the file of a data-subject request and of a full    *)
(* export is handed out once, however many workers wrote it and however    *)
(* many downloads ask for it; unless the organizer completes the request   *)
(* that the worker is about to complete, or approves the export as if it   *)
(* were a lead list.                                                       *)
Doing(op, r) == \E p \in cast : Op(p) = op /\ Row(p) = r

OneTimeLinks ==
  build = "memory" => /\ \A d \in Requests : ~Doing("complete", d) => handed[d] <= 1
                      /\ \A x \in FullOnes : ~Doing("approve", x) => served[x] <= 1

(* In the memory build an event never goes back to an earlier status, but  *)
(* that the next version of its report closes it again, ...                *)
Rank(status) == CHOOSE i \in 1 .. 5 : EventStatuses[i] = status

LifecycleForward ==
  [][build = "memory" =>
       \/ Rank(event.status) <= Rank(event'.status)
       \/ event'.status = "closed" /\ event'.version = event.version + 1]_vars

(* ... and each version of the report is made once.                        *)
OneReportPerVersion == build = "memory" => \A v \in 1 .. MaxVersion : official[v] <= 1

(* A request that a worker can carry out is settled, unless the server     *)
(* restarts: nothing takes up again what was being processed.              *)
RequestsSettle ==
  \A d \in Requests :
    requests[d].status = "requested" /\ requests[d].type # "access" /\ Worker(d, 2) \in cast
      ~> requests[d].status \in {"completed", "failed", "rejected"} \/ restarts > 0

(* In the memory build so is a full export.                                *)
ExportsSettle ==
  \A x \in FullOnes :
    exports[x].status = "requested" /\ <<"export-worker", x, 2>> \in cast /\ build = "memory"
      ~> exports[x].status \in {"completed", "failed"}

(* In the memory build an event whose retention is over is purged by the   *)
(* daily job, unless somebody asked for that at once.                      *)
PurgeHappens ==
  age = "over" /\ build = "memory" ~> event.retention = "purged" \/ forced

(* A tenant keeps its data to the end of the grace period ...              *)
GraceKept ==
  [][\A p \in cast : DeleteData(p) /\ Job0(p).path = "grace_period_delete"
       => day >= Job0(p).due]_vars

(* ... if Node can count it, and nobody approves a second time, which      *)
(* starts another worker.                                                  *)
OneApprover(j) ==
  \A p, q \in cast :
    /\ Op(p) = "approve-offboard" /\ Row(p) = j /\ p[3] # jobs[j].by
    /\ Op(q) = "approve-offboard" /\ Row(q) = j /\ q[3] # jobs[j].by
    => p = q

ShortGraceKept ==
  [][\A p \in cast : DeleteData(p) /\ Job0(p).grace * 86400 <= 2147483 /\ OneApprover(Row(p))
       /\ Job0(p).path = "grace_period_delete" => day >= Job0(p).due]_vars
=============================================================================
