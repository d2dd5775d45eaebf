---------------------------- MODULE Offboarding ----------------------------
(***************************************************************************)
(* A tenant leaves: one platform admin initiates, another approves, and    *)
(* the approval starts a worker, which waits for an export that nothing    *)
(* makes, or sets a timer for the end of a grace period, or erases the     *)
(* tenant's data and uploads a certificate of it.                          *)
(*                                                                         *)
(* A timer of Node counts its milliseconds in 31 bits; a longer wait is    *)
(* taken as one millisecond.  Over Postgres the role of the requests may   *)
(* insert an offboarding job and never update one or a tenant.             *)
(***************************************************************************)
EXTENDS LeadRecords, EventRoutes

CONSTANTS
  Jobs,       \* rows of tenant_offboarding_jobs
  GraceDays,  \* grace_period_days, the numbers to try, at most 999 (see Never)
  LastDay     \* bound on the days that pass

(* The row of a process here is a job; one is made by one admin, of two.   *)
ASSUME OffboardingAssumption ==
  /\ GraceDays \subseteq 0 .. 999 /\ LastDay \in Nat
  /\ \A c \in Casts :
       /\ \A p \in c :
            /\ Op(p) \in {"offboard", "approve-offboard", "offboard-worker"} => Row(p) \in Jobs
            /\ Op(p) = "offboard" => p[3] \in 1 .. 2
       /\ \A p, q \in c : Op(p) = "offboard" /\ Op(q) = "offboard" /\ Row(p) = Row(q) => p = q

VARIABLES
  jobs,     \* tenant_offboarding_jobs
  tenant,   \* offboarding_status of the tenant
  alarm,    \* the day for which a timer of each job is set
  day       \* days since the start

offboardingVars == <<jobs, tenant, alarm, day>>

Never == LastDay + 1000
Paths == {"export_then_delete", "immediate_delete", "grace_period_delete"}

Job == [path: Paths, grace: GraceDays \cup {0}, by: 0 .. 2, due: Nat,
        status: {"absent", "awaiting_approval", "export_in_progress", "deletion_in_progress",
                 "awaiting_grace_period", "completed", "failed"}]

OffboardingInit ==
  /\ jobs = [j \in Jobs |-> [path |-> "immediate_delete", grace |-> 0, by |-> 0,
                             due |-> Never, status |-> "absent"]]
  /\ tenant = "active"
  /\ alarm = [j \in Jobs |-> Never]
  /\ day = 0

Offboarder(j, n) == <<"offboard-worker", j, n>>

TimerDays_Hours(days) == days \div 24

(* The milliseconds of the wait, in seconds, against 2^31 - 1. *)
TimerDays(days) == IF days * 86400 > 2147483 THEN 0 ELSE days

(* tenant-offboard-initiate, by the admin p[3]: the job, then the tenant,  *)
(* which the role of the requests may not update over Postgres.            *)
Initiate(p) ==
  /\ At(p, "offboard", "start")
  /\ \E path \in Paths, grace \in GraceDays :
       jobs' = [jobs EXCEPT ![Row(p)] =
                  [path |-> path, by |-> p[3], due |-> Never, status |-> "awaiting_approval",
                   grace |-> IF path = "grace_period_delete" THEN grace ELSE 0]]
  /\ tenant' = IF build = "memory" THEN "offboarding_initiated" ELSE tenant
  /\ Return(p)
  /\ UNCHANGED <<alarm, day, leadVars, eventVars>>

(* tenant-offboard-approve, by an admin who did not initiate; the status   *)
(* of the job is not asked for.  Over Postgres the UPDATE is refused.      *)
Approve(p) ==
  /\ At(p, "approve-offboard", "start")
  /\ jobs[Row(p)].status # "absent"
  /\ IF jobs[Row(p)].by = p[3] \/ build = "postgres"
     THEN Return(p) /\ UNCHANGED jobs
     ELSE /\ jobs' = [jobs EXCEPT ![Row(p)].status =
                        IF jobs[Row(p)].path = "immediate_delete" THEN "deletion_in_progress"
                        ELSE "export_in_progress"]
          /\ Spawn(p, "done", {Offboarder(Row(p), p[3])})
  /\ UNCHANGED <<tenant, alarm, day, leadVars, eventVars>>

Job0(p) == jobs[Row(p)]

(* processTenantOffboarding, up to its first wait.  No export is ever      *)
(* made for the job: it goes back to where it waited for an approval.      *)
AwaitExport(p) ==
  /\ At(p, "offboard-worker", "start") /\ Job0(p).path = "export_then_delete"
  /\ jobs' = [jobs EXCEPT ![Row(p)].status = "awaiting_approval"]
  /\ Return(p)
  /\ UNCHANGED <<tenant, alarm, day, leadVars, eventVars>>

(* The day of the deletion is set, and a timer that runs this worker.      *)
ScheduleDeletion(p) ==
  /\ At(p, "offboard-worker", "start")
  /\ Job0(p).path = "grace_period_delete" /\ Job0(p).due = Never
  /\ jobs' = [jobs EXCEPT ![Row(p)].status = "awaiting_grace_period",
                          ![Row(p)].due = day + Job0(p).grace]
  /\ alarm' = [alarm EXCEPT ![Row(p)] = day + TimerDays(Job0(p).grace)]
  /\ Return(p)
  /\ UNCHANGED <<tenant, day, leadVars, eventVars>>

(* The interactions that are not "anonymized" are, the profiles of all of  *)
(* their attendees are blanked, and the certificate is uploaded.           *)
DeleteData(p) ==
  /\ At(p, "offboard-worker", "start")
  /\ \/ Job0(p).path = "immediate_delete"
     \/ Job0(p).path = "grace_period_delete" /\ Job0(p).due # Never
  /\ jobs' = [jobs EXCEPT ![Row(p)].status = "deletion_in_progress"]
  /\ leads' = [l \in Leads |->
                 IF l \in Stored /\ leads[l].status # "anonymized"
                 THEN Anonymized(leads[l], leads[l].release) ELSE leads[l]]
  /\ profiles' = [a \in Attendees |->
                    IF a \in Linked(Listing(Stored)) THEN "nulled" ELSE profiles[a]]
  /\ WriteEvent([event EXCEPT !.retention = "purged"])
  /\ Go(p, "io", Job0(p))
  /\ UNCHANGED <<tenant, alarm, day, official>>

IssueCertificate(p) ==
  /\ At(p, "offboard-worker", "io")
  /\ jobs' = [jobs EXCEPT ![Row(p)] = [copy[p] EXCEPT !.status = "completed"]]
  /\ tenant' = "deleted"
  /\ Return(p)
  /\ UNCHANGED <<alarm, day, leadVars, eventVars>>

FailCertificate(p) ==
  /\ At(p, "offboard-worker", "io")
  /\ jobs' = [jobs EXCEPT ![Row(p)] = [copy[p] EXCEPT !.status = "failed"]]
  /\ Return(p)
  /\ UNCHANGED <<tenant, alarm, day, leadVars, eventVars>>

OffboardingStep(p) ==
  \/ Initiate(p) \/ Approve(p) \/ AwaitExport(p) \/ ScheduleDeletion(p)
  \/ DeleteData(p) \/ IssueCertificate(p) \/ FailCertificate(p)

(* A timer runs out and starts the worker of its job. *)
RingAlarm ==
  \E j \in Jobs :
    /\ alarm[j] <= day
    /\ alarm' = [alarm EXCEPT ![j] = Never]
    /\ Offboarder(j, 3) \in cast
    /\ pc[Offboarder(j, 3)] \in {"asleep", "done"}
    /\ pc' = [pc EXCEPT ![Offboarder(j, 3)] = "start"]
    /\ UNCHANGED <<build, cast, copy, restarts, jobs, tenant, day, leadVars, eventVars>>

(* Days pass until the next one on which a timer or a deletion is due.     *)
PassDays ==
  /\ \E d \in {alarm[j] : j \in Jobs} \cup {jobs[j].due : j \in Jobs} :
       day < d /\ d <= LastDay /\ day' = d
  /\ UNCHANGED <<jobs, tenant, alarm, leadVars, eventVars, procVars>>
=============================================================================
