--------------------------- MODULE IotOperations ---------------------------
(***************************************************************************)
(* The operations of the IoT integration of one event: a run certifies the *)
(* contract, syncs the streams and the devices, refreshes the health and   *)
(* compares the environments, one step after the other; what fails is      *)
(* noted and the run goes on.  The alert router then opens and resolves    *)
(* the alerts of the event.  A parity check may be asked for by itself.    *)
(*                                                                         *)
(* What a stream brings is the matter of IotTapSync; here a sync succeeds, *)
(* fails, or fails on an assignment.  A process is an operator who starts  *)
(* one run after the other, as many as its row says; every answer of the   *)
(* IoT platform and of a webhook is "io".                                  *)
(***************************************************************************)
EXTENDS Builds, Sequences

CONSTANTS
  Streams,    \* the streams, in the order in which a run syncs them
  Repeated    \* repeatedFailureThreshold

ASSUME IotAssumption ==
  /\ Streams \in Seq(STRING) /\ Repeated \in Nat \ {0}
  /\ Nothing # "webhook"
  /\ \A i \in DOMAIN Streams : Streams[i] \notin {"certify", "devices", "health", "parity"}

VARIABLES
  runs,      \* iot_integration_runs: the status of each, in order
  cert,      \* iot_certification_statuses: the row, or Nothing
  points,    \* iot_sync_checkpoints: the row of each stream, or Nothing
  device,    \* iot_device_status_snapshots: how the devices of the event look
  health,    \* iot_integration_health_statuses: overall_status, or Nothing
  parity,    \* iot_environment_parity_statuses: status, or Nothing
  alerts     \* iot_alert_events: code and status of each, in order

iotVars == <<runs, cert, points, device, health, parity, alerts>>
iotSyncs == <<cert, points, device>>

Stages == <<"certify">> \o Streams \o <<"devices", "health", "parity">>
Stage(p) == Stages[copy[p].at]
IsStream(s) == s \in {Streams[i] : i \in DOMAIN Streams}

RunStatuses == {"running", "completed", "completed_with_warnings", "failed"}
Levels == <<"healthy", "warning", "critical", "failed">>
Codes  == {"IOT_RUN_FAILED", "IOT_HEALTH_CRITICAL", "IOT_PARITY_FAILED"}

IotInit ==
  /\ runs = <<>> /\ alerts = <<>>
  /\ cert = Nothing /\ health = Nothing /\ parity = Nothing
  /\ points = [s \in {Streams[i] : i \in DOMAIN Streams} |-> Nothing]
  /\ device = "unseen"

Failures(row) == IF row = Nothing THEN 0 ELSE row.failures
OneMore(n)    == IF n < Repeated THEN n + 1 ELSE n

(* persistCertificationStatus: a failed check keeps the pack of the last.  *)
(* (Its count of failures says nothing: a failed check is reported before  *)
(* the count is looked at, and any other sets it to zero.)                 *)
Certified(row, result) ==
  [ok   |-> result # "error",
   pack |-> IF result = "error" THEN row = Nothing \/ row.pack ELSE result = "ok"]

(* persistIotCheckpoint and persistSyncFailure: a success does not clear   *)
(* the count of assignment mismatches.                                     *)
Checkpoint(row, result) ==
  LET mismatches == IF row = Nothing THEN 0 ELSE row.mismatches
      fresh      == row # Nothing /\ row.fresh
  IN  CASE result = "ok" -> [fresh |-> TRUE, failures |-> 0, mismatches |-> mismatches]
        [] result = "error" -> [fresh |-> fresh, failures |-> OneMore(Failures(row)), mismatches |-> 0]
        [] result = "mismatch" -> [fresh |-> fresh, failures |-> OneMore(Failures(row)),
                                   mismatches |-> OneMore(mismatches)]

(* The warnings of a health check, by what they are about. *)
OfCertification ==
  IF cert = Nothing THEN {"critical"}
  ELSE {w \in {"failed"} : ~cert.ok \/ ~cert.pack}

OfStream(row) ==
  IF row = Nothing THEN {"critical"}
  ELSE {w \in {"warning"} : ~row.fresh}
         \cup {w \in {"critical"} : row.failures >= Repeated \/ row.mismatches >= Repeated}

OfDevices == CASE device = "mismatched" -> {"critical"}
               [] device = "unseen" -> {"warning"}
               [] OTHER -> {}

(* deriveOverallStatus: the worst of them. *)
Worst(warnings) ==
  Levels[CHOOSE i \in 1 .. 4 : /\ Levels[i] \in warnings \cup {"healthy"}
                               /\ \A j \in 1 .. 4 : Levels[j] \in warnings => j <= i]

OverallStatus == Worst(OfCertification \cup OfDevices
                         \cup UNION {OfStream(points[s]) : s \in DOMAIN points})

(* A stage starts with a read of its row, or with a question.              *)
Entry(i) == IF Stages[i] = "certify" THEN "io" ELSE "open"

StartRun(p) ==
  /\ At(p, "iot-run", "start") /\ Len(runs) < Row(p)
  /\ runs' = Append(runs, "running")
  /\ Go(p, "io", [run |-> Len(runs) + 1, at |-> 1, failed |-> FALSE, row |-> Nothing,
                  result |-> Nothing, health |-> Nothing, parity |-> Nothing])
  /\ UNCHANGED <<iotSyncs, health, parity, alerts>>

(* The route of a parity check runs that stage alone.                      *)
StartParity(p) ==
  /\ At(p, "iot-parity", "start")
  /\ Go(p, "open", [run |-> 0, at |-> Len(Stages), failed |-> FALSE, row |-> Nothing,
                    result |-> Nothing, health |-> Nothing, parity |-> Nothing])
  /\ UNCHANGED iotVars

(* Each stage reads what it needs before it asks; the certification after. *)
OpenStage(p) ==
  /\ \E op \in {"iot-run", "iot-parity"} : At(p, op, "open")
  /\ LET s == Stage(p)
     IN  Go(p, IF s \in {"certify", "health"} THEN "save" ELSE "io",
            [copy[p] EXCEPT !.row = CASE s \in {"certify", "parity"} -> cert
                                      [] s = "health" -> OverallStatus
                                      [] IsStream(s) -> points[s]
                                      [] OTHER -> Nothing])
  /\ UNCHANGED iotVars

(* What the platform may answer.  (Devices in poor shape warn like those   *)
(* never seen.)                                                            *)
Answers(s) == CASE s = "certify"  -> {"ok", "pack", "error"}
                [] s = "devices"  -> {"matched", "mismatched"}
                [] s = "parity"   -> {"ok", "error"}
                [] OTHER          -> {"ok", "error", "mismatch"}

AskPlatform(p) ==
  /\ \E op \in {"iot-run", "iot-parity"} : At(p, op, "io")
  /\ copy[p].result = Nothing
  /\ \E answer \in Answers(Stage(p)) :
       Go(p, IF Stage(p) = "certify" THEN "open" ELSE "save", [copy[p] EXCEPT !.result = answer])
  /\ UNCHANGED iotVars

(* runStep catches what a stage throws; without a contract the run skips   *)
(* to the health.                                                          *)
NextStage(s, c) == IF s = "certify" /\ c.result = "error" THEN Len(Stages) - 1 ELSE c.at + 1

Thrown(s, c) == (s = "certify" \/ IsStream(s)) /\ c.result \in {"error", "mismatch"}

AfterStage_Uncaught(p, c) ==
  IF Thrown(Stage(p), copy[p]) THEN Return(p)
  ELSE IF c.at = Len(Stages) THEN Go(p, "finish", c)
  ELSE LET i == NextStage(Stage(p), c)
       IN  Go(p, Entry(i), [c EXCEPT !.at = i, !.result = Nothing, !.row = Nothing])

AfterStage(p, c) ==
  IF c.at = Len(Stages) THEN Go(p, "finish", c)
  ELSE LET i == NextStage(Stage(p), c)
       IN  Go(p, Entry(i), [c EXCEPT !.at = i, !.result = Nothing, !.row = Nothing])

Parity(c) == IF c.row # Nothing /\ c.row.ok /\ c.result = "ok" THEN "passed" ELSE "failed"

SaveStage(p) ==
  /\ \E op \in {"iot-run", "iot-parity"} : At(p, op, "save")
  /\ LET s == Stage(p)
         c == copy[p]
     IN  /\ cert'   = IF s = "certify" THEN Certified(c.row, c.result) ELSE cert
         /\ points' = IF IsStream(s) THEN [points EXCEPT ![s] = Checkpoint(c.row, c.result)]
                      ELSE points
         /\ device' = IF s = "devices" THEN c.result ELSE device
         /\ health' = IF s = "health" THEN c.row ELSE health
         /\ parity' = IF s = "parity" THEN Parity(c) ELSE parity
         /\ AfterStage(p, [c EXCEPT !.failed = @ \/ Thrown(s, c),
                                    !.health = IF s = "health" THEN c.row ELSE @,
                                    !.parity = IF s = "parity" THEN Parity(c) ELSE @])
  /\ UNCHANGED <<runs, alerts>>

FinalStatus_Health(c) == CASE c.failed \/ c.parity = "failed" -> "failed" [] OTHER -> c.health

FinalStatus(c) == CASE c.failed \/ c.parity = "failed" -> "failed"
                    [] OTHER -> IF c.health = "healthy" THEN "completed" ELSE "completed_with_warnings"

(* buildAlerts. *)
Raised(c) ==
  {code \in Codes :
     CASE code = "IOT_RUN_FAILED"      -> c.run # 0 /\ FinalStatus(c) = "failed"
       [] code = "IOT_HEALTH_CRITICAL" -> c.health \in {"critical", "failed"}
       [] code = "IOT_PARITY_FAILED"   -> c.parity = "failed"}

FinishRun(p) ==
  /\ \E op \in {"iot-run", "iot-parity"} : At(p, op, "finish")
  /\ runs' = [i \in DOMAIN runs |-> IF i = copy[p].run THEN FinalStatus(copy[p]) ELSE runs[i]]
  /\ Go(p, "route", [todo |-> Raised(copy[p]), alert |-> Nothing])
  /\ UNCHANGED <<iotSyncs, health, parity, alerts>>

(* routeForEventState first resolves what is no longer the case, ...       *)
ToResolve_Raised(raised) == raised

ToResolve(raised) == Codes \ raised

ResolveAlerts(p) ==
  /\ \E op \in {"iot-run", "iot-parity"} : At(p, op, "route")
  /\ alerts' = [i \in DOMAIN alerts |->
                  IF alerts[i].code \in ToResolve(copy[p].todo)
                  THEN [alerts[i] EXCEPT !.open = FALSE] ELSE alerts[i]]
  /\ Go(p, "raise", copy[p])
  /\ UNCHANGED <<runs, iotSyncs, health, parity>>

(* ... then stores, delivers and stores again alert after alert.           *)
RaiseAlert(p) ==
  /\ \E op \in {"iot-run", "iot-parity"} : At(p, op, "raise")
  /\ \/ /\ copy[p].todo = {}
        /\ Go(p, IF Op(p) = "iot-run" THEN "start" ELSE "done", Nothing)
        /\ UNCHANGED alerts
     \/ \E code \in copy[p].todo :
          /\ alerts' = Append(alerts, [code |-> code, open |-> TRUE])
          /\ Go(p, "io", [todo |-> copy[p].todo \ {code}, alert |-> Len(alerts) + 1,
                          result |-> "webhook"])
  /\ UNCHANGED <<runs, iotSyncs, health, parity>>

(* In the memory build upsert has returned the row itself, which shows     *)
(* what happened meanwhile; Postgres a copy, which is open.                *)
DeliverAlert(p) ==
  /\ \E op \in {"iot-run", "iot-parity"} :
       \/ /\ At(p, op, "io") /\ copy[p].result = "webhook"
          /\ Go(p, "note", [todo |-> copy[p].todo, alert |-> copy[p].alert])
          /\ UNCHANGED alerts
       \/ /\ At(p, op, "note")
          /\ alerts' = [alerts EXCEPT ![copy[p].alert].open = @ \/ build = "postgres"]
          /\ Go(p, "raise", [copy[p] EXCEPT !.alert = Nothing])
  /\ UNCHANGED <<runs, iotSyncs, health, parity>>

(* Between the runs time passes: what was synced is stale, or the contract *)
(* has moved on.                                                           *)
GoStale(s) ==
  /\ \A p \in cast : pc[p] \in {"start", "done"}
  /\ points[s] # Nothing /\ points[s].fresh
  /\ points' = [points EXCEPT ![s].fresh = FALSE]
  /\ UNCHANGED <<procVars, runs, cert, device, health, parity, alerts>>

IotStep(p) ==
  \/ StartRun(p) \/ StartParity(p) \/ OpenStage(p) \/ AskPlatform(p) \/ SaveStage(p) \/ FinishRun(p)
  \/ ResolveAlerts(p) \/ RaiseAlert(p) \/ DeliverAlert(p)
=============================================================================
