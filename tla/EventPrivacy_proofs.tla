------------------------ MODULE EventPrivacy_proofs ------------------------
(***************************************************************************)
(* Theorems about EventPrivacy for every value of its constants.           *)
(***************************************************************************)
EXTENDS EventPrivacy, Builds_proofs

-----------------------------------------------------------------------------
(* The operations of each component: a process belongs to one.  (LeadOps   *)
(* and EventOps are the ones of their modules.)                            *)
RequestOps   == {"privacy-dsr", "session-dsr", "dsr-poll", "dsr-worker", "reject",
                 "dsr-download", "complete"}
ExportOps    == {"request", "approve", "reject-export", "download", "full-export",
                 "export-poll", "export-worker", "full-download"}
RetentionOps == {"purge", "countdown", "force-purge", "retention-run"}
JobOps       == {"offboard", "approve-offboard", "offboard-worker"}

Kept(q) == pc'[q] = pc[q] /\ copy'[q] = copy[q]

Woken(q) == pc[q] \in {"asleep", "done"} /\ pc'[q] = "start" /\ copy'[q] = copy[q]

(* p takes a step, which starts no process but of these operations.        *)
Moves(p, ops) ==
  /\ At(p, Op(p), pc[p])
  /\ ProcOk' /\ Thread' /\ build' = build /\ cast' = cast /\ restarts' = restarts
  /\ \A q \in cast \ {p} : Kept(q) \/ (Op(q) \in ops /\ Woken(q))

LEMMA Going ==
  ASSUME NEW p \in cast, ProcOk, Thread, At(p, Op(p), pc[p]), NEW l, NEW c, Go(p, l, c)
  PROVE  Moves(p, {}) /\ pc'[p] = l /\ copy'[p] = c
<1>1. Acts(p)
  BY DEF Acts
<1>2. QED
  BY <1>1, GoFacts, ThreadKept DEF Moves, Kept

LEMMA Starting ==
  ASSUME NEW p \in cast, ProcOk, Thread, At(p, Op(p), pc[p]), NEW l \in {"start", "done"},
         NEW qs, Spawn(p, l, qs), NEW ops, \A q \in qs : Op(q) \in ops
  PROVE  /\ Moves(p, ops) /\ pc'[p] = l /\ copy'[p] = Nothing
         /\ \A q \in cast \ {p} : Kept(q) \/ (q \in qs /\ Woken(q))
<1>1. Spawns(p)
  BY DEF Spawns, Outside
<1>2. /\ pc'[p] = l /\ copy'[p] = Nothing
      /\ \A q \in cast \ {p} : Kept(q) \/ (q \in qs /\ Woken(q))
  BY SpawnFacts DEF Kept, Woken
<1>3. QED
  BY <1>1, <1>2, SpawnFacts, ThreadKept DEF Moves


(* What a step of each component is to the processes.                      *)
LEMMA LeadMoves ==
  ASSUME NEW p \in cast, ProcOk, Thread, LeadStep(p)
  PROVE  Op(p) \in LeadOps /\ Moves(p, {})
BY AtFacts, Going DEF LeadOps, LeadStep, Tap, ReadLead, Capture, Revoke, Classify, Return

(* The ends of a worker of requests.                                       *)
LEMMA SettleMoves ==
  ASSUME NEW p \in cast, ProcOk, Thread, At(p, Op(p), pc[p]), NEW row, Settle(p, row)
  PROVE  /\ Moves(p, {}) /\ handed' = handed /\ WriteRequest(Row(p), row)
         /\ pc'[p] = "done" \/ (build # "memory" /\ pc'[p] = "report" /\ copy'[p] = copy[p])
<1>1. CASE build = "memory"
  <2>1. Return(p)
    BY <1>1 DEF Settle
  <2>2. QED
    BY <2>1, Going DEF Settle, Return
<1>2. CASE build # "memory"
  <2>1. Go(p, "report", copy[p])
    BY <1>2 DEF Settle
  <2>2. QED
    BY <1>2, <2>1, Going DEF Settle
<1>3. QED
  BY <1>1, <1>2

LEMMA FinishMoves ==
  ASSUME NEW p \in cast, ProcOk, Thread, FinishExport(p) \/ FinishDelete(p)
  PROVE  /\ Op(p) = "dsr-worker" /\ pc[p] = "io" /\ Moves(p, {}) /\ handed' = handed
         /\ pc'[p] = "done" \/ (build # "memory" /\ pc'[p] = "report" /\ copy'[p] = copy[p])
         /\ \/ FinishExport(p) /\ WriteRequest(Row(p), Exported(copy[p].dsr))
            \/ FinishExport(p) /\ WriteRequest(Row(p), [copy[p].dsr EXCEPT !.status = "failed"])
            \/ FinishDelete(p) /\ WriteRequest(Row(p), [copy[p].dsr EXCEPT !.status = "completed"])
         /\ FinishExport(p) => copy[p].dsr.type = "export"
         /\ FinishDelete(p) => copy[p].dsr.type = "delete"
<1>1. Op(p) = "dsr-worker" /\ pc[p] = "io" /\ At(p, Op(p), pc[p])
  BY AtFacts DEF FinishExport, FinishDelete
<1>2. CASE FinishExport(p)
  <2>1. CASE Settle(p, Exported(copy[p].dsr))
    BY <1>1, <1>2, <2>1, SettleMoves DEF FinishExport, FinishDelete
  <2>2. CASE ~Settle(p, Exported(copy[p].dsr))
    BY <1>1, <1>2, <2>2, Going DEF FinishExport, FinishDelete, Return
  <2>3. QED
    BY <2>1, <2>2
<1>3. CASE FinishDelete(p)
  <2>1. Settle(p, [copy[p].dsr EXCEPT !.status = "completed"])
    BY <1>3 DEF FinishDelete
  <2>2. QED
    BY <1>1, <1>3, <2>1, SettleMoves DEF FinishExport, FinishDelete
<1>4. QED
  BY <1>2, <1>3

LEMMA EndMoves ==
  ASSUME NEW p \in cast, ProcOk, Thread, Confirm(p) \/ FailRequest(p)
  PROVE  /\ Op(p) = "dsr-worker" /\ pc[p] \in {"delete", "rows", "io", "report"}
         /\ Moves(p, {}) /\ pc'[p] = "done" /\ handed' = handed
         /\ \/ requests' = requests
            \/ /\ build = "postgres"
               /\ WriteRequest(Row(p), [copy[p].dsr EXCEPT !.status = "failed"])
BY AtFacts, Going DEF Confirm, FailRequest, Return, requestVars

LEMMA RequestMoves ==
  ASSUME NEW p \in cast, ProcOk, Thread, RequestStep(p)
  PROVE  Op(p) \in RequestOps /\ Moves(p, {"dsr-worker"})
<1> DEFINE Goal == Op(p) \in RequestOps /\ Moves(p, {"dsr-worker"})
<1>0. Moves(p, {}) => Moves(p, {"dsr-worker"})
  BY DEF Moves
<1> USE AtFacts, Going, <1>0 DEF RequestOps, Return
<1>1. CASE LookForActive(p) \/ FindNoActive(p) \/ CreateSessionRequest(p) \/ FindRequest(p)
  BY <1>1 DEF LookForActive, FindNoActive, CreateSessionRequest, FindRequest
<1>2. CASE SubmitRequest(p)
  <2>1. Op(Worker(Row(p), 1)) = "dsr-worker"
    BY DEF Worker, Op
  <2>2. QED
    BY <1>2, <2>1, Starting DEF SubmitRequest
<1>3. CASE PollRequests(p)
  <2>1. \A q \in {Worker(d, 2) : d \in {e \in Requests : requests[e].status = "requested"}} :
          Op(q) = "dsr-worker"
    BY DEF Worker, Op
  <2>2. QED
    BY <1>3, <2>1, Starting DEF PollRequests
<1>4. CASE StartProcessing(p)
  <2>1. \E l, c : Go(p, l, c)
    <3>1. CASE copy[p].dsr.type = "export"
      BY <1>4, <3>1 DEF StartProcessing
    <3>2. CASE copy[p].dsr.type = "delete"
      BY <1>4, <3>2 DEF StartProcessing
    <3>3. CASE copy[p].dsr.type \notin {"export", "delete"}
      BY <1>4, <3>3 DEF StartProcessing
    <3>4. QED
      BY <3>1, <3>2, <3>3
  <2>2. QED
    BY <1>4, <2>1 DEF StartProcessing
<1>5. CASE ReadToReject(p) \/ Reject(p)
  BY <1>5 DEF ReadToReject, Reject
<1>6. CASE ReadToDownload(p) \/ HandOut(p) \/ ReadToComplete(p) \/ CollectSubject(p) \/ AskCrm(p)
  BY <1>6 DEF ReadToDownload, HandOut, ReadToComplete, CollectSubject, Collect, AskCrm
<1>7. CASE BlankProfile(p) \/ AnonymizeRow(p) \/ Complete(p)
  BY <1>7 DEF BlankProfile, Collect, AnonymizeRow, EraseNext, Complete
<1>8. CASE FinishExport(p) \/ FinishDelete(p) \/ Confirm(p) \/ FailRequest(p)
  BY <1>8, FinishMoves, EndMoves
<1>9. QED
  BY <1>1, <1>2, <1>3, <1>4, <1>5, <1>6, <1>7, <1>8 DEF RequestStep

LEMMA ExportMoves ==
  ASSUME NEW p \in cast, ProcOk, Thread, ExportStep(p)
  PROVE  Op(p) \in ExportOps /\ Moves(p, {"export-worker"})
<1>0. Moves(p, {}) => Moves(p, {"export-worker"})
  BY DEF Moves
<1> USE AtFacts, Going, <1>0 DEF ExportOps, Return
<1>1. CASE RequestExport(p) \/ ReadToDecide(p) \/ Decide(p) \/ DownloadExport(p)
  BY <1>1 DEF RequestExport, ReadToDecide, Decide, DownloadExport
<1>2. CASE SubmitExport(p)
  <2>1. Op(<<"export-worker", Row(p), 1>>) = "export-worker"
    BY DEF Op
  <2>2. QED
    BY <1>2, <2>1, Starting DEF SubmitExport
<1>3. CASE PollExports(p)
  <2>1. \A q \in {<<"export-worker", x, 2>> :
                     x \in {y \in FullOnes : exports[y].status = "requested"}} :
          Op(q) = "export-worker"
    BY DEF Op
  <2>2. QED
    BY <1>3, <2>1, Starting DEF PollExports
<1>4. CASE LookForRequested(p) \/ FindExport(p) \/ MarkProcessing(p) \/ FinishFullExport(p)
  BY <1>4 DEF LookForRequested, FindExport, MarkProcessing, FinishFullExport
<1>5. CASE ReadFullExport(p)
  <2>1. At(p, "full-download", "start")
    BY <1>5 DEF ReadFullExport
  <2>2. Op(p) = "full-download" /\ At(p, Op(p), pc[p])
    BY <2>1
  <2>3. CASE Return(p)
    <3>1. Go(p, "done", Nothing)
      BY <2>3
    <3>2. QED
      BY <2>2, <3>1
  <2>4. CASE \E x \in FullOnes : Go(p, "write", [id |-> x, row |-> exports[x]])
    <3>1. PICK x \in FullOnes : Go(p, "write", [id |-> x, row |-> exports[x]])
      BY <2>4
    <3> DEFINE c == [id |-> x, row |-> exports[x]]
    <3>2. Go(p, "write", c)
      BY <3>1
    <3> HIDE DEF c
    <3>3. Moves(p, {})
      BY <2>2, <3>2
    <3>4. QED
      BY <2>2, <3>3
  <2>5. (\E x \in FullOnes : Go(p, "write", [id |-> x, row |-> exports[x]])) \/ Return(p)
    BY ONLY <1>5 DEF ReadFullExport
  <2>6. QED
    BY <2>3, <2>4, <2>5
<1>6. CASE ServeFullExport(p)
  BY <1>6 DEF ServeFullExport
<1>7. QED
  BY <1>1, <1>2, <1>3, <1>4, <1>5, <1>6 DEF ExportStep

LEMMA EventMoves ==
  ASSUME NEW p \in cast, ProcOk, Thread, EventStep(p)
  PROVE  Op(p) \in EventOps /\ Moves(p, {})
BY AtFacts, Going DEF EventOps, EventStep, ReadEvent, RefuseEvent, PatchEvent, PublishEvent,
   GoLive, CloseEvent, ArchiveEvent, FreezeReport, Return

LEMMA RoundMoves ==
  ASSUME NEW p \in cast, ProcOk, Thread, At(p, Op(p), pc[p]), EndRound(p)
  PROVE  Moves(p, {}) /\ pc'[p] \in {"start", "done"} /\ copy'[p] = Nothing
BY Going, Starting DEF EndRound, Return

LEMMA RetentionMoves ==
  ASSUME NEW p \in cast, ProcOk, Thread, RetentionStep(p)
  PROVE  Op(p) \in RetentionOps /\ Moves(p, {"purge"})
<1>0. Moves(p, {}) => Moves(p, {"purge"})
  BY DEF Moves
<1> USE AtFacts, Going, <1>0 DEF RetentionOps, Return
<1>1. CASE ListEvent(p) \/ MarkPurging(p) \/ ListRows(p) \/ PurgeRow(p)
  BY <1>1 DEF ListEvent, MarkPurging, ListRows, PurgeRow, EraseNext
<1>2. CASE SkipEvent(p) \/ FinishPurge(p) \/ FailPurge(p) \/ CountDown(p)
  BY <1>2, RoundMoves DEF SkipEvent, FinishPurge, FailPurge, CountDown
<1>3. CASE ForcePurge(p)
  <2>1. Op(<<"purge", "event", 2>>) = "purge"
    BY DEF Op
  <2>2. QED
    BY <1>3, <2>1, Starting DEF ForcePurge
<1>4. CASE ReadToForce(p) \/ ReadToRetire(p) \/ CollectTargets(p) \/ Retire(p)
  BY <1>4 DEF ReadToForce, ReadToRetire, CollectTargets, Retire
<1>5. QED
  BY <1>1, <1>2, <1>3, <1>4 DEF RetentionStep

LEMMA JobMoves ==
  ASSUME NEW p \in cast, ProcOk, Thread, OffboardingStep(p)
  PROVE  Op(p) \in JobOps /\ Moves(p, {"offboard-worker"})
<1>0. Moves(p, {}) => Moves(p, {"offboard-worker"})
  BY DEF Moves
<1> USE AtFacts, Going, <1>0 DEF JobOps, Return
<1>1. CASE Initiate(p)
  BY <1>1 DEF Initiate
<1>2. CASE Approve(p)
  <2>1. Op(Offboarder(Row(p), p[3])) = "offboard-worker"
    BY DEF Offboarder, Op
  <2>2. QED
    BY <1>2, <2>1, Starting DEF Approve
<1>3. CASE AwaitExport(p) \/ ScheduleDeletion(p) \/ DeleteData(p)
  BY <1>3 DEF AwaitExport, ScheduleDeletion, DeleteData
<1>4. CASE IssueCertificate(p) \/ FailCertificate(p)
  BY <1>4 DEF IssueCertificate, FailCertificate
<1>5. QED
  BY <1>1, <1>2, <1>3, <1>4 DEF OffboardingStep


-----------------------------------------------------------------------------
(* The types.  PrivacyTypeOk is not inductive: what a process writes is a  *)
(* copy that it took of a row, or of a list of interactions.               *)
Work(c, about) ==
  /\ DOMAIN c = {about, "rows", "todo"}
  /\ DOMAIN c.rows \subseteq Leads /\ c.todo \subseteq DOMAIN c.rows
  /\ \A l \in DOMAIN c.rows : c.rows[l] \in Lead

Run(c) ==
  /\ DOMAIN c = {"event", "rows", "expiring"} /\ c.event \in Event
  /\ DOMAIN c.rows \subseteq Leads /\ \A l \in DOMAIN c.rows : c.rows[l] \in Lead

Fits(p) ==
  /\ Op(p) \in LeadWriters /\ pc[p] = "write" => copy[p] \in Lead
  /\ Op(p) \in {"dsr-worker", "complete"} /\ pc[p] \notin {"asleep", "start", "done"}
       => Work(copy[p], "dsr") /\ copy[p].dsr \in Request
  /\ Op(p) \in {"reject", "dsr-download"} /\ pc[p] = "write" => copy[p] \in Request
  /\ Op(p) \in {"approve", "reject-export"} /\ pc[p] = "write" => copy[p] \in Export
  /\ Op(p) = "export-worker" /\ pc[p] \in {"mark", "io"} => copy[p] \in Export
  /\ Op(p) = "full-download" /\ pc[p] = "write" => copy[p].id \in FullOnes /\ copy[p].row \in Export
  /\ Op(p) \in EventOps \cup {"force-purge"} /\ pc[p] = "write" => copy[p] \in Event
  /\ Op(p) \in {"purge", "countdown"} /\ pc[p] \notin {"asleep", "start", "done"}
       => Work(copy[p], "event") /\ copy[p].event \in Event
  /\ Op(p) = "retention-run" /\ pc[p] \notin {"asleep", "start", "done"} => Run(copy[p])
  /\ Op(p) = "offboard-worker" /\ pc[p] = "io" => copy[p] \in Job

LeadTypes      == leads \in [Leads -> Lead] /\ profiles \in [Attendees -> ProfileStates]
RequestTypes   == requests \in [Requests -> Request] /\ handed \in [Requests -> Nat]
ExportTypes    == exports \in [Exports -> Export] /\ served \in [Exports -> Nat]
EventTypes     == event \in Event /\ official \in [1 .. MaxVersion -> Nat]
RetentionTypes == age \in {"recent", "ending", "over"} /\ forced \in BOOLEAN
JobTypes       == jobs \in [Jobs -> Job] /\ day \in 0 .. LastDay /\ alarm \in [Jobs -> Nat]

RowTypes == /\ LeadTypes /\ RequestTypes /\ ExportTypes /\ EventTypes /\ RetentionTypes
            /\ JobTypes

TypeInv == ProcOk /\ Thread /\ RowTypes /\ \A p \in cast : Fits(p)

LEMMA TypesOk == TypeInv => PrivacyTypeOk
BY DEF TypeInv, ProcOk, RowTypes, LeadTypes, RequestTypes, ExportTypes, EventTypes,
   RetentionTypes, JobTypes, PrivacyTypeOk

(* Where a process that does not move, or has just been started, fits.     *)
LEMMA FitsStill ==
  ASSUME NEW q, Fits(q), Kept(q)
  PROVE  Fits(q)'
BY DEF Fits, Kept, Work, Run, Op

LEMMA FitsOutside ==
  ASSUME NEW q, pc'[q] \in {"asleep", "start", "done"}
  PROVE  Fits(q)'
BY DEF Fits, LeadWriters, EventOps

(* What remains to be shown of the step of one process.                    *)
LEMMA TypeOne ==
  ASSUME TypeInv, NEW p \in cast, NEW ops, Moves(p, ops), RowTypes', Fits(p)'
  PROVE  TypeInv'
<1>1. ASSUME NEW q \in cast PROVE Fits(q)'
  <2>1. q = p \/ Kept(q) \/ pc'[q] = "start"
    BY DEF Moves, Woken
  <2>2. QED
    BY <2>1, FitsStill, FitsOutside DEF TypeInv
<1>2. QED
  BY <1>1 DEF Moves, TypeInv

LEMMA CastRows ==
  ASSUME ProcOk, NEW p \in cast
  PROVE  /\ Op(p) \in LeadOps => Row(p) \in Leads
         /\ Op(p) \in RequestOps \ {"dsr-poll"} => Row(p) \in Requests
         /\ Op(p) \in {"request", "approve", "reject-export", "download"} => Row(p) \in Exports
         /\ Op(p) \in {"full-export", "export-worker"} => Row(p) \in FullOnes
         /\ Op(p) \in JobOps => Row(p) \in Jobs
         /\ Op(p) = "offboard" => p[3] \in 1 .. 2
BY LeadsAssumption, RequestsAssumption, ExportsAssumption, OffboardingAssumption
DEF ProcOk, LeadOps, RequestOps, JobOps

LEMMA StatusSet == {EventStatuses[i] : i \in 1 .. 5} = {"draft", "published", "live", "closed", "archived"}
<1>1. 1 .. 5 = {1, 2, 3, 4, 5}
  OBVIOUS
<1>2. QED
  BY <1>1 DEF EventStatuses

LEMMA AnonymizedFacts ==
  ASSUME NEW row \in Lead, NEW release \in BOOLEAN
  PROVE  /\ Anonymized(row, release) \in Lead
         /\ Anonymized(row, release).who = Nobody
         /\ Anonymized(row, release).status = "anonymized"
         /\ Anonymized(row, release).release = release
BY DEF Anonymized, Lead

LEMMA TypeInit == Init => TypeInv
<1> SUFFICES ASSUME Init PROVE TypeInv
  OBVIOUS
<1>1. ProcOk /\ Thread /\ \A p \in cast : pc[p] \in {"asleep", "start", "done"}
  BY ProcStart DEF Init
<1>2. \A p \in cast : Fits(p)
  BY <1>1 DEF Fits, LeadWriters, EventOps
<1>3. LeadTypes
  BY LeadsAssumption DEF Init, LeadInit, LeadTypes, Lead, Consented, Untapped, Nobody, ProfileStates
<1>4. RequestTypes
  BY DEF Init, RequestInit, RequestTypes, Request
<1>5. ExportTypes
  BY DEF Init, ExportInit, ExportTypes, Export
<1>6. EventTypes
  <2>1. /\ event.version = 1 /\ event.retention = "active"
        /\ event.status \in {"draft", "live", "closed"}
        /\ event = [version |-> event.version, retention |-> event.retention, status |-> event.status]
    BY DEF Init, EventInit
  <2>2. event.version \in 1 .. MaxVersion /\ event.retention \in RetentionStates
    BY <2>1, VersionAssumption DEF RetentionStates
  <2>3. event.status \in {EventStatuses[i] : i \in 1 .. 5}
    BY <2>1, StatusSet
  <2>4. event \in Event
    BY <2>1, <2>2, <2>3 DEF Event
  <2>5. official \in [1 .. MaxVersion -> Nat]
    BY DEF Init, EventInit
  <2>6. QED
    BY <2>4, <2>5 DEF EventTypes
<1>7. RetentionTypes
  BY DEF Init, RetentionInit, RetentionTypes
<1>8. JobTypes
  BY OffboardingAssumption DEF Init, OffboardingInit, JobTypes, Job, Paths, Never
<1>9. QED
  BY <1>1, <1>2, <1>3, <1>4, <1>5, <1>6, <1>7, <1>8 DEF TypeInv, RowTypes


LEMMA LeadTypeStep ==
  ASSUME TypeInv, NEW p \in cast, LeadStep(p)
  PROVE  LeadTypes' /\ Fits(p)'
<1> USE CastRows DEF TypeInv, RowTypes, LeadTypes, LeadOps
<1>0. Fits(p) /\ ProcOk /\ Thread
  OBVIOUS
<1>1. CASE ReadLead(p)
  <2>1. /\ Op(p) \in LeadWriters /\ pc'[p] = "write" /\ copy'[p] = leads[Row(p)]
        /\ UNCHANGED leadVars
    BY <1>0, <1>1, AtFacts, Going DEF ReadLead, LeadWriters
  <2>2. Row(p) \in Leads
    BY <2>1 DEF LeadWriters
  <2>3. copy'[p] \in Lead
    BY <2>1, <2>2
  <2>4. QED
    BY <2>1, <2>3 DEF Fits, LeadWriters, leadVars, EventOps
<1>2. CASE Tap(p) \/ Capture(p) \/ Revoke(p) \/ Classify(p)
  <2>1. pc'[p] = "done" /\ Row(p) \in Leads
    BY <1>0, <1>2, AtFacts, Going DEF Tap, Capture, Revoke, Classify, Return
  <2>2. CASE Tap(p)
    <3>1. Owner[Row(p)] \in Attendees
      BY <2>1, LeadsAssumption
    <3>2. QED
      BY <2>1, <2>2, <3>1, FitsOutside DEF Tap, Lead
  <2>3. CASE Capture(p)
    <3>1. copy[p] \in Lead
      BY <1>0, <2>3, AtFacts DEF Capture, Fits, LeadWriters
    <3> DEFINE who == IF copy[p].who = Nobody THEN Newcomer ELSE copy[p].who
    <3>2. who \in Attendees \cup {Nobody, Newcomer}
      BY <3>1 DEF Lead
    <3>3. PICK allowed, form \in BOOLEAN :
            /\ leads' = [leads EXCEPT ![Row(p)] =
                           [who |-> who,
                            status |-> IF allowed THEN "active" ELSE "anonymized",
                            consent |-> IF allowed THEN "allowed" ELSE "declined",
                            release |-> allowed]]
            /\ profiles' = IF form /\ who \in Attendees
                           THEN [profiles EXCEPT ![who] = "kept"] ELSE profiles
      BY <2>3 DEF Capture
    <3> HIDE DEF who
    <3>4. leads' \in [Leads -> Lead]
      BY <3>2, <3>3 DEF Lead
    <3>5. profiles' \in [Attendees -> ProfileStates]
      BY <3>3 DEF ProfileStates
    <3>6. QED
      BY <2>1, <3>4, <3>5, FitsOutside
  <2>4. CASE Revoke(p)
    <3>1. copy[p] \in Lead
      BY <1>0, <2>4, AtFacts DEF Revoke, Fits, LeadWriters
    <3>2. leads[Row(p)].release \in BOOLEAN
      BY <2>1 DEF Lead
    <3>3. PICK all \in BOOLEAN :
            leads' = [leads EXCEPT ![Row(p)] =
                       [who |-> copy[p].who,
                        status |-> IF leads[Row(p)].release /\ ~all THEN "active" ELSE "anonymized",
                        consent |-> IF leads[Row(p)].release /\ ~all THEN "allowed" ELSE "declined",
                        release |-> leads[Row(p)].release /\ ~all]]
      BY <2>4 DEF Revoke
    <3>4. QED
      BY <2>1, <2>4, <3>1, <3>2, <3>3, FitsOutside DEF Lead, Revoke
  <2>5. CASE Classify(p)
    <3>1. copy[p] \in Lead
      BY <1>0, <2>5, AtFacts DEF Classify, Fits, LeadWriters
    <3>2. leads[Row(p)].release \in BOOLEAN
      BY <2>1 DEF Lead
    <3>3. QED
      BY <2>1, <2>5, <3>1, <3>2, FitsOutside DEF Classify, Lead
  <2>6. QED
    BY <1>2, <2>2, <2>3, <2>4, <2>5
<1>3. QED
  BY <1>1, <1>2 DEF LeadStep


(* A job writes one of its listed interactions back, anonymised.           *)
LEMMA EraseFacts ==
  ASSUME NEW p \in cast, ProcOk, LeadTypes, NEW about \in {"dsr", "event"}, Work(copy[p], about),
         EraseNext(p)
  PROVE  /\ LeadTypes' /\ profiles' = profiles
         /\ pc'[p] = pc[p] /\ Work(copy[p], about)'
         /\ about = "dsr" => copy'[p].dsr = copy[p].dsr
         /\ about = "event" => copy'[p].event = copy[p].event
         /\ copy'[p].rows = copy[p].rows
         /\ \E l \in Leads : /\ l \in copy[p].todo /\ copy'[p].todo = copy[p].todo \ {l}
                             /\ leads' = [leads EXCEPT ![l] = Anonymized(copy[p].rows[l], leads[l].release)]
<1>1. PICK l \in copy[p].todo :
        /\ leads' = [leads EXCEPT ![l] = Anonymized(copy[p].rows[l], leads[l].release)]
        /\ Go(p, pc[p], [copy[p] EXCEPT !.todo = @ \ {l}])
  BY DEF EraseNext
<1>2. l \in Leads /\ copy[p].rows[l] \in Lead /\ leads[l].release \in BOOLEAN
  BY <1>1 DEF Work, LeadTypes, Lead
<1>3. Anonymized(copy[p].rows[l], leads[l].release) \in Lead
  BY <1>2, AnonymizedFacts
<1>4. LeadTypes' /\ profiles' = profiles
  BY <1>1, <1>2, <1>3 DEF LeadTypes, EraseNext
<1>5. pc'[p] = pc[p] /\ copy'[p] = [copy[p] EXCEPT !.todo = @ \ {l}]
  BY <1>1, GoFacts
<1>6. /\ DOMAIN copy'[p] = DOMAIN copy[p] /\ copy'[p].rows = copy[p].rows
      /\ copy'[p].todo = copy[p].todo \ {l}
      /\ about = "dsr" => copy'[p].dsr = copy[p].dsr
      /\ about = "event" => copy'[p].event = copy[p].event
  BY <1>5 DEF Work
<1>7. Work(copy[p], about)'
  BY <1>6 DEF Work
<1>8. QED
  BY <1>1, <1>2, <1>4, <1>5, <1>6, <1>7

LEMMA ListingFacts ==
  ASSUME LeadTypes, NEW S \in SUBSET Leads
  PROVE  /\ DOMAIN Listing(S) = S
         /\ \A l \in S : Listing(S)[l] = leads[l] /\ Listing(S)[l] \in Lead
BY DEF LeadTypes, Listing

LEMMA CollectFacts ==
  ASSUME NEW p \in cast, ProcOk, LeadTypes, Work(copy[p], "dsr"), NEW S \in SUBSET Leads,
         Collect(p, S)
  PROVE  /\ pc'[p] = "rows" /\ Work(copy[p], "dsr")' /\ copy'[p].dsr = copy[p].dsr
         /\ copy'[p].rows = Listing(S) /\ copy'[p].todo = S
<1> DEFINE L == Listing(S)
<1>1. pc'[p] = "rows" /\ copy'[p] = [copy[p] EXCEPT !.rows = L, !.todo = S]
  BY GoFacts DEF Collect
<1>2. DOMAIN L = S /\ \A l \in S : L[l] \in Lead
  BY ListingFacts
<1> HIDE DEF L
<1>3. /\ DOMAIN copy'[p] = DOMAIN copy[p] /\ copy'[p].rows = L /\ copy'[p].todo = S
      /\ copy'[p].dsr = copy[p].dsr
  BY <1>1 DEF Work
<1>4. Work(copy[p], "dsr")'
  BY <1>2, <1>3 DEF Work
<1>5. QED
  BY <1>1, <1>3, <1>4 DEF L

LEMMA SelectedLeads ==
  ASSUME NEW d, NEW row
  PROVE  SubjectRows(d) \in SUBSET Leads /\ Selected(d, row) \in SUBSET Leads
BY DEF SubjectRows, Selected, Stored

(* The interactions that a completion lists, if it does.                   *)
LEMMA CollectSubjectFacts ==
  ASSUME NEW p \in cast, ProcOk, Thread, LeadTypes, CollectSubject(p),
         Op(p) = "complete" /\ pc[p] = "collect" => Work(copy[p], "dsr")
  PROVE  /\ Op(p) = "complete" /\ pc[p] = "collect" /\ requestVars' = requestVars
         /\ \/ pc'[p] = "done"
            \/ /\ pc'[p] = "rows" /\ Work(copy[p], "dsr")' /\ copy'[p].dsr = copy[p].dsr
               /\ copy'[p].rows = Listing(Selected(Row(p), copy[p].dsr))
               /\ copy'[p].todo = Selected(Row(p), copy[p].dsr)
               /\ copy[p].dsr.type # "access" => Selected(Row(p), copy[p].dsr) # {}
<1> DEFINE S == Selected(Row(p), copy[p].dsr)
<1>1. /\ Op(p) = "complete" /\ pc[p] = "collect" /\ requestVars' = requestVars /\ S \in SUBSET Leads
      /\ IF copy[p].dsr.type # "access" /\ S = {} THEN Return(p) ELSE Collect(p, S)
  BY AtFacts, SelectedLeads DEF CollectSubject, requestVars
<1> HIDE DEF S
<1>2. CASE copy[p].dsr.type # "access" /\ S = {}
  BY <1>1, <1>2, Going, AtFacts DEF Return, CollectSubject
<1>3. CASE ~(copy[p].dsr.type # "access" /\ S = {})
  <2>1. Collect(p, S)
    BY <1>1, <1>3
  <2>2. QED
    BY <1>1, <1>3, <2>1, CollectFacts DEF S
<1>4. QED
  BY <1>2, <1>3

LEMMA WriteRequestFacts ==
  ASSUME RequestTypes, NEW d \in Requests, NEW row \in Request, WriteRequest(d, row)
  PROVE  requests' \in [Requests -> Request]
BY DEF RequestTypes, WriteRequest, Request


LEMMA EmptyWork ==
  ASSUME NEW row
  PROVE  /\ Work([dsr |-> row, rows |-> <<>>, todo |-> {}], "dsr")
         /\ Work([event |-> row, rows |-> <<>>, todo |-> {}], "event")
<1>1. DOMAIN <<>> = {}
  OBVIOUS
<1>2. QED
  BY <1>1 DEF Work

LEMMA RequestTypeStep ==
  ASSUME TypeInv, NEW p \in cast, RequestStep(p)
  PROVE  LeadTypes' /\ RequestTypes' /\ Fits(p)'
<1>0. /\ Fits(p) /\ ProcOk /\ Thread /\ LeadTypes /\ RequestTypes
      /\ requests \in [Requests -> Request] /\ handed \in [Requests -> Nat]
  BY DEF TypeInv, RowTypes, RequestTypes
<1>a. Op(p) \in RequestOps /\ (Op(p) # "dsr-poll" => Row(p) \in Requests)
  BY <1>0, RequestMoves, CastRows
<1>b. RequestTypes' <=> requests' \in [Requests -> Request] /\ handed' \in [Requests -> Nat]
  BY DEF RequestTypes
<1>c. UNCHANGED leadVars => LeadTypes'
  BY <1>0 DEF leadVars, LeadTypes
<1>d. ASSUME NEW row \in Request, WriteRequest(Row(p), row), Op(p) # "dsr-poll"
      PROVE  requests' \in [Requests -> Request]
  BY <1>0, <1>a, <1>d, WriteRequestFacts
<1>e. UNCHANGED requestVars => RequestTypes'
  BY <1>0, <1>b DEF requestVars
<1>1. CASE /\ LookForActive(p) \/ SubmitRequest(p) \/ CreateSessionRequest(p) \/ PollRequests(p)
           /\ UNCHANGED leadVars
  <2>1. handed' = handed /\ pc'[p] \in {"start", "done"}
    <3>1. CASE LookForActive(p)
      BY <1>0, <3>1, AtFacts, Going DEF LookForActive, Return, requestVars
    <3>2. CASE SubmitRequest(p)
      BY <1>0, <3>2, SpawnFacts DEF SubmitRequest
    <3>3. CASE CreateSessionRequest(p)
      BY <1>0, <3>3, AtFacts, Going DEF CreateSessionRequest, Return
    <3>4. CASE PollRequests(p)
      BY <1>0, <3>4, SpawnFacts DEF PollRequests, requestVars
    <3>5. QED
      BY <1>1, <3>1, <3>2, <3>3, <3>4
  <2>2. \/ requests' = requests
        \/ requests' = [requests EXCEPT ![Row(p)].status = "requested"] /\ Row(p) \in Requests
        \/ \E l \in Leads \cup {NoLead} :
             /\ requests' = [requests EXCEPT ![Row(p)].status = "requested", ![Row(p)].about = l]
             /\ Row(p) \in Requests
    BY <1>1, <1>a, AtFacts DEF LookForActive, SubmitRequest, CreateSessionRequest, PollRequests, requestVars,
       Stored
  <2>3. requests' \in [Requests -> Request]
    BY <1>0, <2>2 DEF Request
  <2>4. QED
    BY <1>0, <1>1, <1>b, <1>c, <2>1, <2>3, FitsOutside
<1>2. CASE FindNoActive(p) /\ UNCHANGED leadVars
  <2>1. Op(p) = "privacy-dsr"
    BY <1>2, AtFacts DEF FindNoActive
  <2>2. Fits(p)'
    BY <2>1 DEF Fits, LeadWriters, EventOps, Op
  <2>3. QED
    BY <1>2, <1>c, <1>e, <2>2 DEF FindNoActive
<1>3. CASE (FindRequest(p) \/ ReadToComplete(p)) /\ UNCHANGED leadVars
  <2>1. Op(p) \in {"dsr-worker", "complete"} /\ requests[Row(p)] \in Request
    BY <1>0, <1>3, <1>a, AtFacts DEF FindRequest, ReadToComplete
  <2>2. \/ pc'[p] = "done"
        \/ /\ pc'[p] \in {"mark", "collect"}
           /\ copy'[p] = [dsr |-> requests[Row(p)], rows |-> <<>>, todo |-> {}]
    BY <1>0, <1>3, AtFacts, Going DEF FindRequest, ReadToComplete, Return
  <2>3. Fits(p)'
    <3>1. CASE pc'[p] = "done"
      BY <3>1, FitsOutside
    <3>2. CASE copy'[p] = [dsr |-> requests[Row(p)], rows |-> <<>>, todo |-> {}]
      <4> DEFINE row == requests[Row(p)]
      <4>0. row \in Request /\ copy'[p] = [dsr |-> row, rows |-> <<>>, todo |-> {}]
        BY <2>1, <3>2
      <4> HIDE DEF row
      <4>1. Work(copy'[p], "dsr") /\ copy'[p].dsr \in Request
        <5>1. Work([dsr |-> row, rows |-> <<>>, todo |-> {}], "dsr")
          BY EmptyWork
        <5>2. copy'[p].dsr = row
          BY <4>0
        <5>3. QED
          BY <4>0, <5>1, <5>2
      <4>2. Work(copy[p], "dsr")'
        BY <4>1 DEF Work
      <4>3. QED
        BY <2>1, <4>1, <4>2 DEF Fits, LeadWriters, EventOps, Op
    <3>3. QED
      BY <2>2, <3>1, <3>2
  <2>4. QED
    BY <1>3, <1>c, <1>e, <2>3 DEF FindRequest, ReadToComplete
<1>4. CASE StartProcessing(p) /\ UNCHANGED leadVars
  <2>1. Op(p) = "dsr-worker" /\ pc[p] = "mark"
    BY <1>4, AtFacts DEF StartProcessing
  <2>2. Work(copy[p], "dsr") /\ copy[p].dsr \in Request
    BY <1>0, <2>1 DEF Fits
  <2>3. [copy[p].dsr EXCEPT !.status = "processing"] \in Request
    BY <2>2 DEF Request
  <2>4. pc'[p] = "done" \/ copy'[p] = copy[p]
    <3>1. CASE copy[p].dsr.type = "export"
      BY <1>0, <1>4, <2>1, <3>1, AtFacts, Going DEF StartProcessing
    <3>2. CASE copy[p].dsr.type = "delete"
      BY <1>0, <1>4, <2>1, <3>2, AtFacts, Going DEF StartProcessing
    <3>3. CASE copy[p].dsr.type \notin {"export", "delete"}
      BY <1>0, <1>4, <2>1, <3>3, AtFacts, Going DEF StartProcessing, Return
    <3>4. QED
      BY <3>1, <3>2, <3>3
  <2>5. Fits(p)'
    <3>1. CASE pc'[p] = "done"
      BY <3>1, FitsOutside
    <3>2. CASE copy'[p] = copy[p]
      BY <2>1, <2>2, <3>2 DEF Fits, LeadWriters, EventOps, Op, Work
    <3>3. QED
      BY <2>4, <3>1, <3>2
  <2>6. QED
    BY <1>0, <1>4, <1>b, <1>c, <1>d, <2>1, <2>3, <2>5 DEF StartProcessing
<1>5. CASE /\ FinishExport(p) \/ FinishDelete(p) \/ Confirm(p) \/ FailRequest(p)
           /\ UNCHANGED leadVars
  <2>1. /\ Op(p) = "dsr-worker" /\ pc[p] \in {"delete", "rows", "io", "report"} /\ handed' = handed
        /\ pc'[p] = "done" \/ copy'[p] = copy[p]
    BY <1>0, <1>5, FinishMoves, EndMoves
  <2>2. copy[p].dsr \in Request /\ Work(copy[p], "dsr")
    BY <1>0, <2>1 DEF Fits
  <2>3. requests' = requests \/ \E row \in Request : WriteRequest(Row(p), row)
    <3>1. /\ Exported(copy[p].dsr) \in Request
          /\ [copy[p].dsr EXCEPT !.status = "failed"] \in Request
          /\ [copy[p].dsr EXCEPT !.status = "completed"] \in Request
      BY <2>2 DEF Request, Exported
    <3>2. QED
      BY <1>0, <1>5, <3>1, FinishMoves, EndMoves
  <2>4. Fits(p)'
    <3>1. CASE pc'[p] = "done"
      BY <3>1, FitsOutside
    <3>2. CASE copy'[p] = copy[p]
      BY <2>1, <2>2, <3>2 DEF Fits, LeadWriters, EventOps, Op, Work
    <3>3. QED
      BY <2>1, <3>1, <3>2
  <2>5. QED
    BY <1>0, <1>5, <1>b, <1>c, <1>d, <2>1, <2>3, <2>4
<1>6. CASE (ReadToReject(p) \/ ReadToDownload(p)) /\ UNCHANGED leadVars
  <2>1. Op(p) \in {"reject", "dsr-download"} /\ requests[Row(p)] \in Request
    BY <1>0, <1>6, <1>a, AtFacts DEF ReadToReject, ReadToDownload
  <2>2. pc'[p] = "done" \/ copy'[p] = requests[Row(p)]
    BY <1>0, <1>6, AtFacts, Going DEF ReadToReject, ReadToDownload, Return
  <2>3. Fits(p)'
    <3>1. CASE pc'[p] = "done"
      BY <3>1, FitsOutside
    <3>2. CASE copy'[p] = requests[Row(p)]
      BY <2>1, <3>2 DEF Fits, LeadWriters, EventOps, Op
    <3>3. QED
      BY <2>2, <3>1, <3>2
  <2>4. QED
    BY <1>6, <1>c, <1>e, <2>3 DEF ReadToReject, ReadToDownload
<1>7. CASE (Reject(p) \/ HandOut(p)) /\ UNCHANGED leadVars
  <2>1. Op(p) \in {"reject", "dsr-download"} /\ pc[p] = "write" /\ pc'[p] = "done"
    BY <1>0, <1>7, AtFacts, Going DEF Reject, HandOut, Return
  <2>2. copy[p] \in Request
    BY <1>0, <2>1 DEF Fits
  <2>3. PICK row \in Request : WriteRequest(Row(p), row)
    <3>1. [copy[p] EXCEPT !.status = "rejected"] \in Request /\ [copy[p] EXCEPT !.used = TRUE] \in Request
      BY <2>2 DEF Request
    <3>2. QED
      BY <1>7, <3>1 DEF Reject, HandOut
  <2>4. handed' \in [Requests -> Nat]
    BY <1>0, <1>7 DEF Reject, HandOut
  <2>5. QED
    BY <1>0, <1>7, <1>b, <1>c, <1>d, <2>1, <2>3, <2>4, FitsOutside
<1>8. CASE (CollectSubject(p) \/ AskCrm(p)) /\ UNCHANGED leadVars
  <2>1. /\ Op(p) \in {"dsr-worker", "complete"} /\ pc[p] \notin {"asleep", "start", "done"}
        /\ Work(copy[p], "dsr") /\ copy[p].dsr \in Request
    BY <1>0, <1>8, AtFacts DEF CollectSubject, AskCrm, Fits
  <2>2. pc'[p] = "done" \/ (Work(copy[p], "dsr")' /\ copy'[p].dsr = copy[p].dsr)
    <3>1. CASE CollectSubject(p)
      BY <1>0, <2>1, <3>1, CollectSubjectFacts
    <3>2. CASE AskCrm(p)
      BY <1>0, <2>1, <3>2, AtFacts, Going DEF AskCrm, Work
    <3>3. QED
      BY <1>8, <3>1, <3>2
  <2>3. Fits(p)'
    BY <2>1, <2>2, FitsOutside DEF Fits, LeadWriters, EventOps, Op
  <2>4. QED
    BY <1>8, <1>c, <1>e, <2>3 DEF CollectSubject, AskCrm
<1>9. CASE BlankProfile(p)
  <2>1. /\ Op(p) = "dsr-worker" /\ pc[p] = "delete" /\ Row(p) \in Requests
        /\ Work(copy[p], "dsr") /\ copy[p].dsr \in Request
    BY <1>0, <1>9, <1>a, AtFacts DEF BlankProfile, Fits
  <2>2. Work(copy[p], "dsr")' /\ copy'[p].dsr = copy[p].dsr
    BY <1>0, <1>9, <2>1, CollectFacts, SelectedLeads DEF BlankProfile
  <2>3. Fits(p)'
    BY <2>1, <2>2 DEF Fits, LeadWriters, EventOps, Op
  <2>4. LeadTypes'
    BY <1>0, <1>9, <2>1, RequestsAssumption DEF BlankProfile, LeadTypes, ProfileStates
  <2>5. QED
    BY <1>9, <1>e, <2>3, <2>4 DEF BlankProfile, requestVars
<1>10. CASE AnonymizeRow(p)
  <2>1. /\ Op(p) = "dsr-worker" /\ pc[p] = "rows"
        /\ Work(copy[p], "dsr") /\ copy[p].dsr \in Request
    BY <1>0, <1>10, AtFacts DEF AnonymizeRow, Fits
  <2>2. LeadTypes' /\ Work(copy[p], "dsr")' /\ copy'[p].dsr = copy[p].dsr
    BY <1>0, <1>10, <2>1, EraseFacts DEF AnonymizeRow
  <2>3. Fits(p)'
    BY <2>1, <2>2 DEF Fits, LeadWriters, EventOps, Op
  <2>4. QED
    BY <1>10, <1>e, <2>2, <2>3 DEF AnonymizeRow
<1>11. CASE Complete(p)
  <2>1. /\ Op(p) = "complete" /\ pc[p] = "rows" /\ Row(p) \in Requests /\ pc'[p] = "done"
        /\ Work(copy[p], "dsr") /\ copy[p].dsr \in Request
    BY <1>0, <1>11, <1>a, AtFacts, Going DEF Complete, Fits, Return
  <2>2. [copy[p].dsr EXCEPT !.status = "completed"] \in Request
    BY <2>1 DEF Request
  <2>3. LeadTypes'
    <3>1. CASE copy[p].dsr.type = "access"
      BY <1>11, <1>c, <3>1 DEF Complete
    <3>2. CASE copy[p].dsr.type # "access"
      <4>1. \A l \in copy[p].todo : Anonymized(copy[p].rows[l], FALSE) \in Lead
        BY <2>1, AnonymizedFacts DEF Work
      <4>2. leads' \in [Leads -> Lead]
        <5>1. leads' = [l \in Leads |->
                         IF l \in copy[p].todo THEN Anonymized(copy[p].rows[l], FALSE)
                         ELSE leads[l]]
          BY <1>11, <3>2 DEF Complete
        <5>2. copy[p].todo \subseteq Leads
          BY <2>1 DEF Work
        <5>3. QED
          BY <1>0, <4>1, <5>1, <5>2 DEF LeadTypes
      <4>3. profiles' \in [Attendees -> ProfileStates]
        <5>1. profiles' = [a \in Attendees |->
                             IF a \in Linked(copy[p].rows) \ Shared THEN "nulled" ELSE profiles[a]]
          BY <1>11, <3>2 DEF Complete
        <5>2. QED
          BY <1>0, <5>1 DEF LeadTypes, ProfileStates
      <4>4. QED
        BY <4>2, <4>3 DEF LeadTypes
    <3>3. QED
      BY <3>1, <3>2
  <2>4. QED
    BY <1>0, <1>11, <1>b, <1>d, <2>1, <2>2, <2>3, FitsOutside DEF Complete
<1>12. QED
  BY <1>1, <1>2, <1>3, <1>4, <1>5, <1>6, <1>7, <1>8, <1>9, <1>10, <1>11 DEF RequestStep


LEMMA WriteExportFacts ==
  ASSUME ExportTypes, NEW x \in Exports, NEW row \in Export, WriteExport(x, row)
  PROVE  exports' \in [Exports -> Export]
BY DEF ExportTypes, WriteExport, Export

LEMMA ExportTypeStep ==
  ASSUME TypeInv, NEW p \in cast, ExportStep(p)
  PROVE  ExportTypes' /\ Fits(p)'
<1>0. /\ Fits(p) /\ ProcOk /\ Thread /\ ExportTypes
      /\ exports \in [Exports -> Export] /\ served \in [Exports -> Nat]
  BY DEF TypeInv, RowTypes, ExportTypes
<1>a. /\ Op(p) \in ExportOps
      /\ Op(p) \notin {"export-poll", "full-download"} => Row(p) \in Exports
  BY <1>0, ExportMoves, CastRows, ExportsAssumption DEF ExportOps
<1>b. ExportTypes' <=> exports' \in [Exports -> Export] /\ served' \in [Exports -> Nat]
  BY DEF ExportTypes
<1>c. UNCHANGED exportVars => ExportTypes'
  BY <1>0, <1>b DEF exportVars
<1>1. CASE RequestExport(p) \/ SubmitExport(p)
  <2>1. Op(p) \in {"request", "full-export"} /\ served' = served /\ pc'[p] = "done"
    <3>1. CASE RequestExport(p)
      BY <1>0, <3>1, AtFacts, Going DEF RequestExport, Return
    <3>2. CASE SubmitExport(p)
      BY <1>0, <3>2, AtFacts, SpawnFacts DEF SubmitExport
    <3>3. QED
      BY <1>1, <3>1, <3>2
  <2>2. PICK status \in {"requested", "generated"} : exports' = [exports EXCEPT ![Row(p)].status = status]
    BY <1>1 DEF RequestExport, SubmitExport
  <2>3. exports' \in [Exports -> Export]
    BY <1>0, <1>a, <2>1, <2>2 DEF Export
  <2>4. QED
    BY <1>0, <1>b, <2>1, <2>3, FitsOutside
<1>2. CASE ReadToDecide(p) \/ FindExport(p)
  <2>1. Op(p) \in {"approve", "reject-export", "export-worker"} /\ copy'[p] = exports[Row(p)]
    BY <1>0, <1>2, AtFacts, Going DEF ReadToDecide, FindExport
  <2>2. copy'[p] \in Export
    BY <1>0, <1>a, <2>1
  <2>3. Fits(p)'
    BY <2>1, <2>2 DEF Fits, LeadWriters, EventOps, Op
  <2>4. QED
    BY <1>2, <1>c, <2>3 DEF ReadToDecide, FindExport
<1>3. CASE Decide(p)
  <2>1. Op(p) \in {"approve", "reject-export"} /\ pc[p] = "write" /\ pc'[p] = "done"
    BY <1>0, <1>3, AtFacts, Going DEF Decide, Return
  <2>2. [copy[p] EXCEPT !.status = "generated"] \in Export /\ [copy[p] EXCEPT !.status = "rejected"] \in Export
    BY <1>0, <2>1 DEF Fits, Export
  <2>3. exports' \in [Exports -> Export]
    BY <1>0, <1>3, <1>a, <2>1, <2>2, WriteExportFacts DEF Decide
  <2>4. QED
    BY <1>0, <1>3, <1>b, <2>1, <2>3, FitsOutside DEF Decide
<1>4. CASE DownloadExport(p)
  <2>1. pc'[p] = "done"
    BY <1>0, <1>4, AtFacts, Going DEF DownloadExport, Return
  <2>2. served' \in [Exports -> Nat]
    BY <1>0, <1>4 DEF DownloadExport
  <2>3. QED
    BY <1>0, <1>4, <1>b, <2>1, <2>2, FitsOutside DEF DownloadExport
<1>5. CASE LookForRequested(p) \/ PollExports(p)
  <2>1. Op(p) \in {"full-export", "export-poll"}
    BY <1>5, AtFacts DEF LookForRequested, PollExports
  <2>2. Fits(p)'
    BY <2>1 DEF Fits, LeadWriters, EventOps, Op
  <2>3. QED
    BY <1>5, <1>c, <2>2 DEF LookForRequested, PollExports
<1>6. CASE MarkProcessing(p) \/ FinishFullExport(p)
  <2>1. Op(p) = "export-worker" /\ pc[p] \in {"mark", "io"}
    BY <1>6, AtFacts DEF MarkProcessing, FinishFullExport
  <2>2. copy[p] \in Export
    BY <1>0, <2>1 DEF Fits
  <2>3. /\ [copy[p] EXCEPT !.status = "processing"] \in Export
        /\ [copy[p] EXCEPT !.status = "completed", !.file = TRUE, !.used = FALSE] \in Export
        /\ [copy[p] EXCEPT !.status = "failed"] \in Export
    BY <2>2 DEF Export
  <2>4. exports' = exports \/ \E row \in Export : WriteExport(Row(p), row)
    BY <1>6, <2>3 DEF MarkProcessing, FinishFullExport
  <2>5. exports' \in [Exports -> Export]
    BY <1>0, <1>a, <2>1, <2>4, WriteExportFacts
  <2>6. pc'[p] = "done" \/ copy'[p] = copy[p]
    <3>1. CASE MarkProcessing(p)
      BY <1>0, <3>1, AtFacts, Going DEF MarkProcessing, Return
    <3>2. CASE FinishFullExport(p)
      BY <1>0, <3>2, AtFacts, Going DEF FinishFullExport, Return
    <3>3. QED
      BY <1>6, <3>1, <3>2
  <2>7. Fits(p)'
    BY <2>1, <2>2, <2>6, FitsOutside DEF Fits, LeadWriters, EventOps, Op
  <2>8. QED
    BY <1>0, <1>6, <1>b, <2>5, <2>7 DEF MarkProcessing, FinishFullExport
<1>7. CASE ReadFullExport(p)
  <2>1. Op(p) = "full-download"
    BY <1>7, AtFacts DEF ReadFullExport
  <2>2. CASE Return(p)
    <3>1. pc'[p] = "done"
      BY <1>0, <1>7, <2>2, AtFacts, Going DEF ReadFullExport, Return
    <3>2. QED
      BY <1>7, <1>c, <3>1, FitsOutside DEF ReadFullExport
  <2>3. CASE ~Return(p)
    <3>1. PICK x \in FullOnes : Go(p, "write", [id |-> x, row |-> exports[x]])
      BY <1>7, <2>3 DEF ReadFullExport
    <3>2. copy'[p] = [id |-> x, row |-> exports[x]]
      BY <1>0, <3>1, GoFacts
    <3>3. copy'[p].id \in FullOnes /\ copy'[p].row \in Export
      BY <1>0, <3>2, ExportsAssumption
    <3>4. Fits(p)'
      BY <2>1, <3>3 DEF Fits, LeadWriters, EventOps, Op
    <3>5. QED
      BY <1>7, <1>c, <3>4 DEF ReadFullExport
  <2>4. QED
    BY <2>2, <2>3
<1>8. CASE ServeFullExport(p)
  <2>1. Op(p) = "full-download" /\ pc[p] = "write" /\ pc'[p] = "done"
    BY <1>0, <1>8, AtFacts, Going DEF ServeFullExport, Return
  <2>2. copy[p].id \in Exports /\ [copy[p].row EXCEPT !.used = TRUE] \in Export
    BY <1>0, <2>1, ExportsAssumption DEF Fits, Export
  <2>3. exports' \in [Exports -> Export] /\ served' \in [Exports -> Nat]
    BY <1>0, <1>8, <2>2, WriteExportFacts DEF ServeFullExport
  <2>4. QED
    BY <1>b, <2>1, <2>3, FitsOutside
<1>9. QED
  BY <1>1, <1>2, <1>3, <1>4, <1>5, <1>6, <1>7, <1>8 DEF ExportStep

-----------------------------------------------------------------------------
LEMMA WriteEventFacts ==
  ASSUME NEW row \in Event, event \in Event, WriteEvent(row)
  PROVE  /\ event' \in Event
         /\ event'.status = row.status /\ event'.version = row.version
BY DEF WriteEvent, Event

LEMMA EventTypeStep ==
  ASSUME TypeInv, NEW p \in cast, EventStep(p)
  PROVE  EventTypes' /\ Fits(p)'
<1>0. Fits(p) /\ ProcOk /\ Thread /\ event \in Event /\ official \in [1 .. MaxVersion -> Nat]
  BY DEF TypeInv, RowTypes, EventTypes
<1>1. CASE ReadEvent(p)
  <2>1. Op(p) \in EventOps /\ copy'[p] = event /\ UNCHANGED eventVars
    BY <1>0, <1>1, AtFacts, Going DEF ReadEvent
  <2>2. QED
    BY <1>0, <2>1 DEF Fits, LeadWriters, EventOps, Op, EventTypes, eventVars
<1>2. CASE RefuseEvent(p)
  <2>1. pc'[p] = "done" /\ UNCHANGED eventVars
    BY <1>0, <1>2, AtFacts, Going DEF RefuseEvent, Return
  <2>2. QED
    BY <1>0, <2>1, FitsOutside DEF EventTypes, eventVars
<1>3. CASE PatchEvent(p) \/ PublishEvent(p) \/ GoLive(p) \/ CloseEvent(p) \/ ArchiveEvent(p)
  <2>1. Op(p) \in EventOps /\ pc[p] = "write" /\ pc'[p] = "done" /\ UNCHANGED official
    BY <1>0, <1>3, AtFacts, Going DEF PatchEvent, PublishEvent, GoLive, CloseEvent, ArchiveEvent, Return, EventOps
  <2>2. copy[p] \in Event
    BY <1>0, <2>1 DEF Fits
  <2>3. \A s \in {"published", "live", "closed", "archived"} : [copy[p] EXCEPT !.status = s] \in Event
    BY <2>2, StatusSet DEF Event
  <2>4. \E row \in Event : WriteEvent(row)
    BY <1>3, <2>2, <2>3 DEF PatchEvent, PublishEvent, GoLive, CloseEvent, ArchiveEvent
  <2>5. QED
    BY <1>0, <2>1, <2>4, WriteEventFacts, FitsOutside DEF EventTypes
<1>4. CASE FreezeReport(p)
  <2>1. Op(p) = "freeze" /\ pc[p] = "write" /\ pc'[p] = "done"
    BY <1>0, <1>4, AtFacts, Going DEF FreezeReport, Return
  <2>2. copy[p] \in Event
    BY <1>0, <2>1 DEF Fits, EventOps
  <2> DEFINE next == copy[p].version + 1
  <2>3. /\ next \in 1 .. MaxVersion
        /\ official' = [official EXCEPT ![next] = @ + 1]
        /\ WriteEvent([copy[p] EXCEPT !.status = "closed", !.version = next])
    BY <1>4, <2>2, VersionAssumption DEF FreezeReport, Event
  <2> HIDE DEF next
  <2>4. [copy[p] EXCEPT !.status = "closed", !.version = next] \in Event
    BY <2>2, <2>3, StatusSet DEF Event
  <2>5. event' \in Event
    BY <1>0, <2>3, <2>4, WriteEventFacts
  <2>6. official' \in [1 .. MaxVersion -> Nat]
    BY <1>0, <2>3
  <2>7. QED
    BY <2>1, <2>5, <2>6, FitsOutside DEF EventTypes
<1>5. QED
  BY <1>1, <1>2, <1>3, <1>4 DEF EventStep


-----------------------------------------------------------------------------
LEMMA RetentionTypeStep ==
  ASSUME TypeInv, NEW p \in cast, RetentionStep(p)
  PROVE  LeadTypes' /\ EventTypes' /\ ExportTypes' /\ RetentionTypes' /\ Fits(p)'
<1>0. /\ Fits(p) /\ ProcOk /\ Thread /\ LeadTypes /\ EventTypes /\ ExportTypes /\ RetentionTypes
      /\ event \in Event /\ official \in [1 .. MaxVersion -> Nat]
  BY DEF TypeInv, RowTypes, EventTypes
<1>a. UNCHANGED leadVars => LeadTypes'
  BY <1>0 DEF leadVars, LeadTypes
<1>b. UNCHANGED eventVars => EventTypes'
  BY <1>0 DEF eventVars, EventTypes
<1>c. UNCHANGED exportVars => ExportTypes'
  BY <1>0 DEF exportVars, ExportTypes
<1>d. UNCHANGED retentionVars => RetentionTypes'
  BY <1>0 DEF retentionVars, RetentionTypes
<1>e. ASSUME NEW row \in Event, NEW r \in RetentionStates, UNCHANGED official,
             WriteEvent([row EXCEPT !.retention = r])
      PROVE  EventTypes'
  <2>1. [row EXCEPT !.retention = r] \in Event
    BY DEF Event
  <2>2. QED
    BY <1>0, <1>e, <2>1, WriteEventFacts DEF EventTypes
<1>1. CASE ListEvent(p)
  <2>1. /\ Op(p) \in {"purge", "countdown"} /\ pc'[p] = "listed"
        /\ copy'[p] = [event |-> event, rows |-> <<>>, todo |-> {}]
    BY <1>0, <1>1, AtFacts, Going DEF ListEvent
  <2>2. Work([event |-> event, rows |-> <<>>, todo |-> {}], "event")
    BY EmptyWork
  <2>3. Work(copy'[p], "event") /\ copy'[p].event = event
    BY <2>1, <2>2
  <2>4. Work(copy[p], "event")' /\ copy'[p].event = event
    BY <2>3 DEF Work
  <2>5. Fits(p)'
    BY <1>0, <2>1, <2>4 DEF Fits, LeadWriters, EventOps, Op
  <2>6. QED
    BY <1>1, <1>a, <1>b, <1>c, <1>d, <2>5 DEF ListEvent
<1>2. CASE SkipEvent(p)
  <2>1. pc'[p] \in {"start", "done"}
    BY <1>0, <1>2, AtFacts, RoundMoves DEF SkipEvent
  <2>2. QED
    BY <1>2, <1>a, <1>b, <1>c, <1>d, <2>1, FitsOutside DEF SkipEvent
<1>3. CASE MarkPurging(p)
  <2>1. Op(p) = "purge" /\ pc[p] = "listed" /\ pc'[p] = "collect" /\ copy'[p] = copy[p]
    BY <1>0, <1>3, AtFacts, Going DEF MarkPurging
  <2>2. Work(copy[p], "event") /\ copy[p].event \in Event
    BY <1>0, <2>1 DEF Fits
  <2>3. Fits(p)'
    BY <2>1, <2>2 DEF Fits, LeadWriters, EventOps, Op, Work
  <2>4. QED
    BY <1>3, <1>a, <1>c, <1>d, <1>e, <2>2, <2>3 DEF MarkPurging, RetentionStates
<1>4. CASE ListRows(p)
  <2> DEFINE L == Listing(Stored)
             T == {l \in Stored : leads[l].status # "anonymized"}
  <2>1. /\ Op(p) = "purge" /\ pc[p] = "collect" /\ pc'[p] = "rows"
        /\ copy'[p] = [copy[p] EXCEPT !.rows = L, !.todo = T]
    BY <1>0, <1>4, AtFacts, Going DEF ListRows
  <2>2. Work(copy[p], "event") /\ copy[p].event \in Event
    BY <1>0, <2>1 DEF Fits
  <2>3. /\ DOMAIN L \subseteq Leads /\ T \subseteq DOMAIN L
        /\ \A l \in DOMAIN L : L[l] \in Lead
    BY <1>0, ListingFacts DEF Stored
  <2> HIDE DEF L, T
  <2>4. /\ DOMAIN copy'[p] = DOMAIN copy[p] /\ copy'[p].rows = L /\ copy'[p].todo = T
        /\ copy'[p].event = copy[p].event
    BY <2>1, <2>2 DEF Work
  <2>5. Work(copy[p], "event")'
    BY <2>2, <2>3, <2>4 DEF Work
  <2>6. Fits(p)'
    BY <2>1, <2>2, <2>4, <2>5 DEF Fits, LeadWriters, EventOps, Op
  <2>7. QED
    BY <1>4, <1>a, <1>b, <1>c, <1>d, <2>6 DEF ListRows
<1>5. CASE PurgeRow(p)
  <2>1. Op(p) = "purge" /\ pc[p] = "rows"
    BY <1>5, AtFacts DEF PurgeRow
  <2>2. Work(copy[p], "event") /\ copy[p].event \in Event
    BY <1>0, <2>1 DEF Fits
  <2>3. LeadTypes' /\ Work(copy[p], "event")' /\ copy'[p].event = copy[p].event /\ pc'[p] = "rows"
    BY <1>0, <1>5, <2>1, <2>2, EraseFacts DEF PurgeRow
  <2>4. Fits(p)'
    BY <2>1, <2>2, <2>3 DEF Fits, LeadWriters, EventOps, Op
  <2>5. QED
    BY <1>5, <1>b, <1>c, <1>d, <2>3, <2>4 DEF PurgeRow
<1>6. CASE FinishPurge(p) \/ FailPurge(p)
  <2>1. Op(p) = "purge" /\ pc[p] = "rows" /\ pc'[p] \in {"start", "done"}
    BY <1>0, <1>6, AtFacts, RoundMoves DEF FinishPurge, FailPurge
  <2>2. Work(copy[p], "event") /\ copy[p].event \in Event
    BY <1>0, <2>1 DEF Fits
  <2>3. LeadTypes'
    <3>1. CASE FinishPurge(p)
      BY <1>0, <3>1 DEF FinishPurge, LeadTypes, ProfileStates
    <3>2. CASE FailPurge(p)
      BY <1>a, <3>2 DEF FailPurge
    <3>3. QED
      BY <1>6, <3>1, <3>2
  <2>4. EventTypes'
    BY <1>6, <1>e, <2>2 DEF FinishPurge, FailPurge, RetentionStates
  <2>5. QED
    BY <1>6, <1>c, <1>d, <2>1, <2>3, <2>4, FitsOutside DEF FinishPurge, FailPurge
<1>7. CASE CountDown(p)
  <2>1. Op(p) = "countdown" /\ pc[p] = "listed" /\ pc'[p] \in {"start", "done"}
    BY <1>0, <1>7, AtFacts, RoundMoves DEF CountDown
  <2>2. Work(copy[p], "event") /\ copy[p].event \in Event
    BY <1>0, <2>1 DEF Fits
  <2>3. PICK r \in RetentionStates : WriteEvent([copy[p].event EXCEPT !.retention = r])
    BY <1>7 DEF CountDown, RetentionStates
  <2>4. EventTypes'
    BY <1>7, <1>e, <2>2, <2>3 DEF CountDown
  <2>5. QED
    BY <1>7, <1>a, <1>c, <1>d, <2>1, <2>4, FitsOutside DEF CountDown
<1>8. CASE ReadToForce(p)
  <2>1. Op(p) = "force-purge" /\ pc'[p] = "write" /\ copy'[p] = event
    BY <1>0, <1>8, AtFacts, Going DEF ReadToForce
  <2>2. Fits(p)'
    BY <1>0, <1>8, <2>1 DEF Fits, LeadWriters, EventOps, Op
  <2>3. QED
    BY <1>8, <1>a, <1>b, <1>c, <1>d, <2>2 DEF ReadToForce
<1>9. CASE ForcePurge(p)
  <2>1. Op(p) = "force-purge" /\ pc[p] = "write" /\ pc'[p] = "done"
    BY <1>0, <1>9, AtFacts, SpawnFacts DEF ForcePurge
  <2>2. copy[p] \in Event
    BY <1>0, <2>1 DEF Fits
  <2>3. RetentionTypes'
    BY <1>0, <1>9 DEF ForcePurge, RetentionTypes
  <2>4. EventTypes'
    BY <1>9, <1>e, <2>2 DEF ForcePurge, RetentionStates
  <2>5. QED
    BY <1>9, <1>a, <1>c, <2>1, <2>3, <2>4, FitsOutside DEF ForcePurge
<1>10. CASE ReadToRetire(p)
  <2>1. /\ Op(p) = "retention-run"
        /\ \/ pc'[p] = "done"
           \/ copy'[p] = [event |-> event, rows |-> <<>>, expiring |-> {}]
    BY <1>0, <1>10, AtFacts, Going DEF ReadToRetire, Return
  <2>2. CASE copy'[p] = [event |-> event, rows |-> <<>>, expiring |-> {}]
    <3>1. DOMAIN <<>> = {}
      OBVIOUS
    <3>2. Run(copy[p])'
      BY <1>0, <2>2, <1>10, <3>1 DEF Run, ReadToRetire, eventVars, Event, Lead
    <3>3. QED
      BY <2>1, <3>2, <1>10, <1>a, <1>b, <1>c, <1>d DEF Fits, LeadWriters, EventOps, Op, ReadToRetire
  <2>3. QED
    BY <1>10, <1>a, <1>b, <1>c, <1>d, <2>1, <2>2, FitsOutside DEF ReadToRetire
<1>11. CASE CollectTargets(p)
  <2> DEFINE L == Listing(Stored)
             X == Expiring
  <2>1. /\ Op(p) = "retention-run" /\ pc[p] = "collect"
        /\ copy'[p] = [copy[p] EXCEPT !.rows = L, !.expiring = X]
    BY <1>0, <1>11, AtFacts, Going DEF CollectTargets
  <2>2. Run(copy[p])
    BY <1>0, <2>1 DEF Fits
  <2>3. DOMAIN L \subseteq Leads /\ \A l \in DOMAIN L : L[l] \in Lead
    BY <1>0, ListingFacts DEF Stored
  <2> HIDE DEF L, X
  <2>4. DOMAIN copy'[p] = DOMAIN copy[p] /\ copy'[p].rows = L /\ copy'[p].event = copy[p].event
    BY <2>1, <2>2 DEF Run
  <2>5. Run(copy[p])'
    BY <2>2, <2>3, <2>4 DEF Run, Event, Lead
  <2>6. Fits(p)'
    BY <2>1, <2>5 DEF Fits, LeadWriters, EventOps, Op
  <2>7. QED
    BY <1>11, <1>a, <1>b, <1>c, <1>d, <2>6 DEF CollectTargets
<1>12. CASE Retire(p)
  <2>1. Op(p) = "retention-run" /\ pc[p] = "commit" /\ pc'[p] = "done"
    BY <1>0, <1>12, AtFacts, Going DEF Retire, Return
  <2>2. Run(copy[p])
    BY <1>0, <2>1 DEF Fits
  <2>3. LeadTypes'
    <3>1. leads' = [l \in Leads |-> IF l \in DOMAIN copy[p].rows
                                    THEN Anonymized(copy[p].rows[l], FALSE) ELSE leads[l]]
      BY <1>12 DEF Retire
    <3>2. \A l \in DOMAIN copy[p].rows : Anonymized(copy[p].rows[l], FALSE) \in Lead
      BY <2>2, AnonymizedFacts DEF Run
    <3>3. leads' \in [Leads -> Lead]
      BY <1>0, <3>1, <3>2 DEF LeadTypes
    <3>4. profiles' \in [Attendees -> ProfileStates]
      BY <1>0, <1>12 DEF Retire, LeadTypes, ProfileStates
    <3>5. QED
      BY <3>3, <3>4 DEF LeadTypes
  <2>4. ExportTypes'
    <3>1. exports \in [Exports -> Export] /\ served \in [Exports -> Nat] /\ served' = served
      BY <1>0, <1>12 DEF ExportTypes, Retire
    <3>2. exports' = [x \in Exports |-> IF x \in copy[p].expiring
                                        THEN [exports[x] EXCEPT !.status = "expired"] ELSE exports[x]]
      BY <1>12 DEF Retire
    <3>3. \A x \in Exports : [exports[x] EXCEPT !.status = "expired"] \in Export
      BY <3>1 DEF Export
    <3>4. exports' \in [Exports -> Export]
      BY <3>1, <3>2, <3>3
    <3>5. QED
      BY <3>1, <3>4 DEF ExportTypes
  <2>5. EventTypes'
    <3>1. event' = event \/ WriteEvent([copy[p].event EXCEPT !.status = "archived"])
      BY <1>12 DEF Retire
    <3>2. [copy[p].event EXCEPT !.status = "archived"] \in Event
      BY <2>2, StatusSet DEF Run, Event
    <3>3. QED
      BY <1>0, <1>12, <3>1, <3>2, WriteEventFacts DEF EventTypes, Retire
  <2>6. QED
    BY <1>12, <1>d, <2>1, <2>3, <2>4, <2>5, FitsOutside DEF Retire
<1>13. QED
  BY <1>1, <1>2, <1>3, <1>4, <1>5, <1>6, <1>7, <1>8, <1>9, <1>10, <1>11, <1>12 DEF RetentionStep


-----------------------------------------------------------------------------
LEMMA WriteJobFacts ==
  ASSUME NEW j, NEW row \in Job, jobs \in [Jobs -> Job], jobs' = [jobs EXCEPT ![j] = row]
  PROVE  jobs' \in [Jobs -> Job]
OBVIOUS

LEMMA JobTypeStep ==
  ASSUME TypeInv, NEW p \in cast, OffboardingStep(p)
  PROVE  LeadTypes' /\ EventTypes' /\ JobTypes' /\ Fits(p)'
<1>0. /\ Fits(p) /\ ProcOk /\ Thread /\ LeadTypes /\ EventTypes
      /\ event \in Event /\ official \in [1 .. MaxVersion -> Nat]
      /\ jobs \in [Jobs -> Job] /\ day \in 0 .. LastDay /\ alarm \in [Jobs -> Nat]
  BY DEF TypeInv, RowTypes, EventTypes, JobTypes
<1>a. UNCHANGED leadVars => LeadTypes'
  BY <1>0 DEF leadVars, LeadTypes
<1>b. UNCHANGED eventVars => EventTypes'
  BY <1>0 DEF eventVars, EventTypes
<1>c. day' = day /\ jobs' \in [Jobs -> Job] /\ alarm' \in [Jobs -> Nat] => JobTypes'
  BY <1>0 DEF JobTypes
<1>d. Op(p) \in JobOps /\ Row(p) \in Jobs /\ jobs[Row(p)] \in Job
  BY <1>0, JobMoves, CastRows
<1>e. Never \in Nat
  BY OffboardingAssumption DEF Never
<1>1. CASE Initiate(p)
  <2>1. Op(p) = "offboard" /\ pc'[p] = "done" /\ p[3] \in 1 .. 2
    BY <1>0, <1>1, AtFacts, Going, CastRows DEF Initiate, Return
  <2>2. PICK path \in Paths, grace \in GraceDays :
          jobs' = [jobs EXCEPT ![Row(p)] =
                     [path |-> path, by |-> p[3], due |-> Never, status |-> "awaiting_approval",
                      grace |-> IF path = "grace_period_delete" THEN grace ELSE 0]]
    BY <1>1 DEF Initiate
  <2>3. [path |-> path, by |-> p[3], due |-> Never, status |-> "awaiting_approval",
         grace |-> IF path = "grace_period_delete" THEN grace ELSE 0] \in Job
    BY <1>e, <2>1 DEF Job
  <2>4. jobs' \in [Jobs -> Job]
    BY <1>0, <2>2, <2>3, WriteJobFacts
  <2>5. QED
    BY <1>0, <1>1, <1>a, <1>b, <1>c, <2>1, <2>4, FitsOutside DEF Initiate
<1>2. CASE Approve(p)
  <2>1. pc'[p] = "done"
    BY <1>0, <1>2, AtFacts, Going, SpawnFacts DEF Approve, Return
  <2>2. \/ jobs' = jobs
        \/ \E s \in {"deletion_in_progress", "export_in_progress"} :
             jobs' = [jobs EXCEPT ![Row(p)].status = s]
    BY <1>2 DEF Approve
  <2>3. jobs' \in [Jobs -> Job]
    <3>1. \A s \in {"deletion_in_progress", "export_in_progress"} :
            [jobs[Row(p)] EXCEPT !.status = s] \in Job
      BY <1>d DEF Job
    <3>2. \/ jobs' = jobs
          \/ \E row \in Job : jobs' = [jobs EXCEPT ![Row(p)] = row]
      BY <2>2, <3>1
    <3>3. QED
      BY <1>0, <3>2
  <2>4. QED
    BY <1>0, <1>2, <1>a, <1>b, <1>c, <2>1, <2>3, FitsOutside DEF Approve
<1>3. CASE AwaitExport(p)
  <2>1. pc'[p] = "done"
    BY <1>0, <1>3, AtFacts, Going DEF AwaitExport, Return
  <2>2. jobs' \in [Jobs -> Job]
    BY <1>0, <1>3, <1>d DEF AwaitExport, Job
  <2>3. QED
    BY <1>0, <1>3, <1>a, <1>b, <1>c, <2>1, <2>2, FitsOutside DEF AwaitExport
<1>4. CASE ScheduleDeletion(p)
  <2>1. pc'[p] = "done"
    BY <1>0, <1>4, AtFacts, Going DEF ScheduleDeletion, Return
  <2>2. jobs[Row(p)].grace \in Nat /\ day \in Nat
    <3>1. jobs[Row(p)].grace \in GraceDays \cup {0}
      BY <1>d DEF Job
    <3>2. \A n \in GraceDays \cup {0} : n \in Nat
      BY OffboardingAssumption
    <3>3. \A n \in 0 .. LastDay : n \in Nat
      BY OffboardingAssumption
    <3>4. QED
      BY <1>0, <3>1, <3>2, <3>3
  <2>3. day + jobs[Row(p)].grace \in Nat
    BY <2>2
  <2>4. day + TimerDays(jobs[Row(p)].grace) \in Nat
    BY <2>2, <2>3 DEF TimerDays
  <2>5. jobs' \in [Jobs -> Job]
    <3> DEFINE due == day + jobs[Row(p)].grace
    <3>1. jobs' = [jobs EXCEPT ![Row(p)].status = "awaiting_grace_period", ![Row(p)].due = due]
      BY <1>4 DEF ScheduleDeletion, Job0
    <3>2. due \in Nat
      BY <2>3
    <3> HIDE DEF due
    <3>3. QED
      BY <1>0, <1>d, <3>1, <3>2 DEF Job
  <2>6. alarm' \in [Jobs -> Nat]
    BY <1>0, <1>4, <2>4 DEF ScheduleDeletion, Job0
  <2>7. QED
    BY <1>4, <1>a, <1>b, <1>c, <2>1, <2>5, <2>6, FitsOutside DEF ScheduleDeletion
<1>5. CASE DeleteData(p)
  <2>1. Op(p) = "offboard-worker" /\ pc'[p] = "io" /\ copy'[p] = jobs[Row(p)]
    BY <1>0, <1>5, AtFacts, Going DEF DeleteData, Job0
  <2>2. Fits(p)'
    BY <1>d, <2>1 DEF Fits, LeadWriters, EventOps, Op
  <2>3. jobs' \in [Jobs -> Job]
    BY <1>0, <1>5, <1>d DEF DeleteData, Job
  <2>4. LeadTypes'
    <3>1. \A l \in Leads : /\ leads[l] \in Lead /\ leads[l].release \in BOOLEAN
                           /\ Anonymized(leads[l], leads[l].release) \in Lead
      <4>1. \A l \in Leads : leads[l] \in Lead /\ leads[l].release \in BOOLEAN
        BY <1>0 DEF LeadTypes, Lead
      <4>2. QED
        BY <4>1, AnonymizedFacts
    <3>2. leads' \in [Leads -> Lead]
      BY <1>5, <3>1 DEF DeleteData
    <3>3. profiles' \in [Attendees -> ProfileStates]
      BY <1>0, <1>5 DEF DeleteData, LeadTypes, ProfileStates
    <3>4. QED
      BY <3>2, <3>3 DEF LeadTypes
  <2>5. EventTypes'
    <3>1. [event EXCEPT !.retention = "purged"] \in Event
      BY <1>0 DEF Event, RetentionStates
    <3>2. QED
      BY <1>0, <1>5, <3>1, WriteEventFacts DEF DeleteData, EventTypes
  <2>6. QED
    BY <1>0, <1>5, <1>c, <2>2, <2>3, <2>4, <2>5 DEF DeleteData
<1>6. CASE IssueCertificate(p) \/ FailCertificate(p)
  <2>1. Op(p) = "offboard-worker" /\ pc[p] = "io" /\ pc'[p] = "done"
    BY <1>0, <1>6, AtFacts, Going DEF IssueCertificate, FailCertificate, Return
  <2>2. \A s \in {"completed", "failed"} : [copy[p] EXCEPT !.status = s] \in Job
    BY <1>0, <2>1 DEF Fits, Job
  <2>3. \E row \in Job : jobs' = [jobs EXCEPT ![Row(p)] = row]
    BY <1>6, <2>2 DEF IssueCertificate, FailCertificate
  <2>4. jobs' \in [Jobs -> Job]
    BY <1>0, <2>3
  <2>5. QED
    BY <1>0, <1>6, <1>a, <1>b, <1>c, <2>1, <2>4, FitsOutside DEF IssueCertificate, FailCertificate
<1>7. QED
  BY <1>1, <1>2, <1>3, <1>4, <1>5, <1>6 DEF OffboardingStep

(* The clock: days pass, retentions end, a timer starts its worker.        *)
LEMMA AlarmMoves ==
  ASSUME ProcOk, Thread, NEW j \in Jobs, Offboarder(j, 3) \in cast,
         pc[Offboarder(j, 3)] \in {"asleep", "done"},
         pc' = [pc EXCEPT ![Offboarder(j, 3)] = "start"],
         UNCHANGED <<build, cast, copy, restarts>>
  PROVE  /\ ProcOk' /\ Thread'
         /\ \A q \in cast : Kept(q) \/ (q = Offboarder(j, 3) /\ Woken(q))
BY DEF ProcOk, Thread, Kept, Woken, Outside, Together

LEMMA ClockTypeStep ==
  ASSUME TypeInv, Clock
  PROVE  TypeInv'
<1>0. ProcOk /\ Thread /\ RowTypes /\ \A p \in cast : Fits(p)
  BY DEF TypeInv
<1> DEFINE Same == UNCHANGED <<leadVars, requestVars, exportVars, eventVars>>
<1>a. ASSUME UNCHANGED procVars PROVE ProcOk' /\ Thread' /\ \A p \in cast' : Fits(p)'
  <2>1. ProcOk' /\ Thread' /\ cast' = cast /\ \A p \in cast : Kept(p)
    BY <1>0, <1>a DEF procVars, ProcOk, Thread, Kept
  <2>2. QED
    BY <1>0, <2>1, FitsStill
<1>b. ASSUME Same PROVE LeadTypes' /\ RequestTypes' /\ ExportTypes' /\ EventTypes'
  BY <1>0, <1>b DEF leadVars, requestVars, exportVars, eventVars, RowTypes, LeadTypes,
     RequestTypes, ExportTypes, EventTypes
<1>1. CASE Ageing /\ UNCHANGED <<requestVars, offboardingVars>>
  <2>1. UNCHANGED procVars /\ Same
    BY <1>1 DEF Ageing
  <2>2. RetentionTypes' /\ JobTypes'
    BY <1>0, <1>1 DEF Ageing, RowTypes, RetentionTypes, JobTypes, offboardingVars
  <2>3. QED
    BY <1>a, <1>b, <2>1, <2>2 DEF TypeInv, RowTypes
<1>2. CASE PassDays /\ UNCHANGED <<requestVars, exportVars, retentionVars>>
  <2>1. UNCHANGED procVars /\ Same
    BY <1>2 DEF PassDays
  <2>2. RetentionTypes'
    BY <1>0, <1>2 DEF retentionVars, RowTypes, RetentionTypes
  <2>3. JobTypes'
    <3>1. PICK d \in {alarm[j] : j \in Jobs} \cup {jobs[j].due : j \in Jobs} :
             day < d /\ d <= LastDay /\ day' = d
      BY <1>2 DEF PassDays
    <3>2. d \in Nat
      BY <1>0, <3>1 DEF RowTypes, JobTypes, Job
    <3>3. QED
      BY <1>0, <1>2, <3>1, <3>2, OffboardingAssumption DEF PassDays, RowTypes, JobTypes
  <2>4. QED
    BY <1>a, <1>b, <2>1, <2>2, <2>3 DEF TypeInv, RowTypes
<1>3. CASE RingAlarm /\ UNCHANGED <<requestVars, exportVars, retentionVars>>
  <2>1. PICK j \in Jobs :
          /\ alarm' = [alarm EXCEPT ![j] = Never]
          /\ Offboarder(j, 3) \in cast
          /\ pc[Offboarder(j, 3)] \in {"asleep", "done"}
          /\ pc' = [pc EXCEPT ![Offboarder(j, 3)] = "start"]
          /\ UNCHANGED <<build, cast, copy, restarts, jobs, tenant, day, leadVars, eventVars>>
    BY <1>3 DEF RingAlarm
  <2>2. ProcOk' /\ Thread' /\ cast' = cast /\ \A q \in cast : Kept(q) \/ pc'[q] = "start"
    BY <1>0, <2>1, AlarmMoves DEF Woken
  <2>3. \A q \in cast' : Fits(q)'
    BY <1>0, <2>2, FitsStill, FitsOutside
  <2>4. Same
    BY <1>3, <2>1
  <2>5. RetentionTypes' /\ JobTypes'
    BY <1>0, <1>3, <2>1, OffboardingAssumption DEF RowTypes, RetentionTypes, retentionVars, JobTypes, Never
  <2>6. QED
    BY <1>b, <2>2, <2>3, <2>4, <2>5 DEF TypeInv, RowTypes
<1>4. QED
  BY <1>1, <1>2, <1>3 DEF Clock

LEMMA TypeStep == TypeInv /\ [Next]_vars => TypeInv'
<1> SUFFICES ASSUME TypeInv, [Next]_vars PROVE TypeInv'
  OBVIOUS
<1>0. ProcOk /\ Thread /\ RowTypes /\ \A p \in cast : Fits(p)
  BY DEF TypeInv
<1>a. /\ UNCHANGED leadVars => LeadTypes'
      /\ UNCHANGED requestVars => RequestTypes'
      /\ UNCHANGED exportVars => ExportTypes'
      /\ UNCHANGED eventVars => EventTypes'
      /\ UNCHANGED retentionVars => RetentionTypes'
      /\ UNCHANGED offboardingVars => JobTypes'
  BY <1>0 DEF leadVars, requestVars, exportVars, eventVars, retentionVars, offboardingVars,
     RowTypes, LeadTypes, RequestTypes, ExportTypes, EventTypes, RetentionTypes, JobTypes
<1>1. CASE Clock
  BY <1>1, ClockTypeStep
<1>2. CASE Restarted
  <2>1. ProcOk' /\ Thread' /\ cast' = cast /\ \A q \in cast : pc'[q] \in {"asleep", "start", "done"}
    BY <1>0, <1>2, RestartFacts DEF Restarted
  <2>2. QED
    BY <1>2, <1>a, <2>1, FitsOutside DEF Restarted, TypeInv, RowTypes
<1>3. ASSUME NEW p \in cast, Step(p) PROVE TypeInv'
  <2>1. CASE LeadStep(p) /\ UNCHANGED <<requestVars, exportVars, eventVars, retentionVars, offboardingVars>>
    BY <1>0, <1>a, <2>1, LeadTypeStep, LeadMoves, TypeOne DEF RowTypes
  <2>2. CASE RequestStep(p) /\ UNCHANGED <<exportVars, eventVars, retentionVars, offboardingVars>>
    BY <1>0, <1>a, <2>2, RequestTypeStep, RequestMoves, TypeOne DEF RowTypes
  <2>3. CASE ExportStep(p) /\ UNCHANGED <<leadVars, requestVars, eventVars, retentionVars, offboardingVars>>
    BY <1>0, <1>a, <2>3, ExportTypeStep, ExportMoves, TypeOne DEF RowTypes
  <2>4. CASE EventStep(p) /\ UNCHANGED <<leadVars, requestVars, exportVars, retentionVars, offboardingVars>>
    BY <1>0, <1>a, <2>4, EventTypeStep, EventMoves, TypeOne DEF RowTypes
  <2>5. CASE RetentionStep(p) /\ UNCHANGED <<requestVars, offboardingVars>>
    BY <1>0, <1>a, <2>5, RetentionTypeStep, RetentionMoves, TypeOne DEF RowTypes
  <2>6. CASE OffboardingStep(p) /\ UNCHANGED <<requestVars, exportVars, retentionVars>>
    BY <1>0, <1>a, <2>6, JobTypeStep, JobMoves, TypeOne DEF RowTypes
  <2>7. QED
    BY <1>3, <2>1, <2>2, <2>3, <2>4, <2>5, <2>6 DEF Step
<1>4. CASE UNCHANGED vars
  <2>1. UNCHANGED procVars
    BY <1>4 DEF vars
  <2>2. ProcOk' /\ Thread' /\ cast' = cast /\ \A p \in cast : Kept(p)
    BY <1>0, <2>1 DEF procVars, ProcOk, Thread, Kept
  <2>3. QED
    BY <1>0, <1>4, <1>a, <2>2, FitsStill DEF TypeInv, RowTypes, vars
<1>5. QED
  BY <1>1, <1>2, <1>3, <1>4 DEF Next

(* Every row is one of its table, in every state, and what a job or a      *)
(* route writes back later is a row that it has read, of the same table.   *)
THEOREM PrivacyTypes == Spec => []PrivacyTypeOk
<1>1. Spec => []TypeInv
  BY TypeInit, TypeStep, PTL DEF Spec
<1>2. QED
  BY <1>1, TypesOk, PTL


-----------------------------------------------------------------------------
(* The lifecycle in the memory build.  A route or a job that has read the  *)
(* event keeps the thread until it has written it, so the copy it writes   *)
(* back is still the event, apart from the retention.                      *)
Inside == {"insert", "write", "mark", "delete", "listed", "collect", "rows", "commit"}

LEMMA Alone ==
  ASSUME build = "memory", NEW p, At(p, Op(p), pc[p]),
         NEW q \in cast, Op(q) \notin Immediate, pc[q] \in Inside
  PROVE  q = p
BY NobodyElse DEF Together, Inside, Outside

Same(row) == row.status = event.status /\ row.version = event.version

ReadNow(p) ==
  /\ Op(p) \in EventOps /\ pc[p] = "write" => Same(copy[p]) /\ event.status \in AskedFrom(Op(p))
  /\ Op(p) = "force-purge" /\ pc[p] = "write" => Same(copy[p])
  /\ Op(p) \in {"purge", "countdown"} /\ pc[p] \in {"listed", "collect", "rows"}
       => Same(copy[p].event)
  /\ Op(p) = "retention-run" /\ pc[p] \in {"collect", "commit"}
       => Same(copy[p].event) /\ event.status \in {"closed", "archived"}

Counted == \A v \in 1 .. MaxVersion : official[v] <= 1 /\ (v > event.version => official[v] = 0)

ReportInv == build = "memory" => Counted /\ \A p \in cast : ReadNow(p)

(* What a step does to the lifecycle: another status, not an earlier one,  *)
(* or the next version of the report.                                      *)
Onwards == /\ event'.version = event.version /\ official' = official
           /\ Rank(event.status) <= Rank(event'.status)
Frozen  == /\ event.version + 1 \in 1 .. MaxVersion
           /\ event'.version = event.version + 1 /\ event'.status = "closed"
           /\ official' = [official EXCEPT ![event.version + 1] = @ + 1]

LEMMA Ranks ==
  /\ Rank("draft") = 1 /\ Rank("published") = 2 /\ Rank("live") = 3
  /\ Rank("closed") = 4 /\ Rank("archived") = 5
<1>1. 1 .. 5 = {1, 2, 3, 4, 5}
  OBVIOUS
<1>2. /\ EventStatuses[1] = "draft" /\ EventStatuses[2] = "published" /\ EventStatuses[3] = "live"
      /\ EventStatuses[4] = "closed" /\ EventStatuses[5] = "archived"
  BY DEF EventStatuses
<1>3. \A i \in 1 .. 5 : \A j \in 1 .. 5 : EventStatuses[i] = EventStatuses[j] => i = j
  BY <1>1, <1>2
<1>4. ASSUME NEW i \in 1 .. 5 PROVE Rank(EventStatuses[i]) = i
  BY <1>3 DEF Rank
<1>5. 1 \in 1 .. 5 /\ 2 \in 1 .. 5 /\ 3 \in 1 .. 5 /\ 4 \in 1 .. 5 /\ 5 \in 1 .. 5
  OBVIOUS
<1>6. QED
  BY <1>2, <1>4, <1>5

LEMMA SameOnwards ==
  ASSUME event \in Event, Same(event)', official' = official,
         event'.status = event.status, event'.version = event.version
  PROVE  Onwards
BY Ranks, StatusSet DEF Onwards, Event

LEMMA ReadNowOutside ==
  ASSUME NEW q, pc'[q] \notin Inside
  PROVE  ReadNow(q)'
BY DEF ReadNow, Inside, Op, EventOps

(* The actor of a step is the only one that the step can put out of date.  *)
LEMMA ReadNowOne ==
  ASSUME build = "memory", NEW p \in cast, NEW ops, Moves(p, ops), ReadNow(p)',
         NEW q \in cast
  PROVE  ReadNow(q)'
<1>1. CASE q = p
  BY <1>1
<1>2. CASE q # p /\ pc[q] \in Inside /\ Op(q) \notin Immediate
  BY <1>2, Alone DEF Moves
<1>3. CASE q # p /\ (pc[q] \notin Inside \/ Op(q) \in Immediate)
  <2>1. pc'[q] \notin Inside \/ Op(q) \in Immediate
    BY <1>3 DEF Moves, Kept, Woken, Inside
  <2>2. Op(q) \in Immediate => ReadNow(q)'
    BY DEF ReadNow, Immediate, Op, EventOps
  <2>3. QED
    BY <2>1, <2>2, ReadNowOutside
<1>4. QED
  BY <1>1, <1>2, <1>3

LEMMA EventLife ==
  ASSUME TypeInv, ReportInv, build = "memory", NEW p \in cast, EventStep(p)
  PROVE  (Onwards \/ Frozen) /\ ReadNow(p)'
<1>0. Fits(p) /\ ProcOk /\ Thread /\ event \in Event /\ ReadNow(p)
  BY DEF TypeInv, RowTypes, EventTypes, ReportInv
<1>1. CASE ReadEvent(p)
  <2>1. /\ Op(p) \in EventOps /\ event.status \in AskedFrom(Op(p))
        /\ copy'[p] = event /\ UNCHANGED eventVars
    BY <1>0, <1>1, AtFacts, Going DEF ReadEvent
  <2>2. Onwards
    BY <1>0, <2>1, SameOnwards DEF eventVars, Same
  <2>3. ReadNow(p)'
    BY <2>1 DEF ReadNow, EventOps, Op, Same, eventVars, AskedFrom
  <2>4. QED
    BY <2>2, <2>3
<1>2. CASE RefuseEvent(p)
  <2>1. pc'[p] = "done" /\ UNCHANGED eventVars
    BY <1>0, <1>2, AtFacts, Going DEF RefuseEvent, Return
  <2>2. Onwards
    BY <1>0, <2>1, SameOnwards DEF eventVars, Same
  <2>3. QED
    BY <2>1, <2>2, ReadNowOutside DEF Inside
<1>3. CASE PatchEvent(p) \/ PublishEvent(p) \/ GoLive(p) \/ CloseEvent(p) \/ ArchiveEvent(p)
  <2>1. Op(p) \in EventOps /\ pc[p] = "write" /\ pc'[p] = "done" /\ official' = official
    BY <1>0, <1>3, AtFacts, Going DEF PatchEvent, PublishEvent, GoLive, CloseEvent, ArchiveEvent, Return, EventOps
  <2>2. copy[p] \in Event /\ Same(copy[p]) /\ event.status \in AskedFrom(Op(p))
    BY <1>0, <2>1 DEF Fits, ReadNow
  <2>3. event'.version = event.version /\ Rank(event.status) <= Rank(event'.status)
    <3>1. CASE PatchEvent(p)
      <4>1. event' = copy[p]
        BY <1>0, <3>1 DEF PatchEvent, WriteEvent
      <4>2. QED
        BY <1>0, <2>2, <4>1, Ranks, StatusSet DEF Event, Same
    <3>2. CASE PublishEvent(p)
      <4>1. event' = [copy[p] EXCEPT !.status = "published"] /\ Op(p) = "publish"
        BY <1>0, <3>2, AtFacts DEF PublishEvent, WriteEvent
      <4>2. QED
        BY <2>2, <4>1, Ranks DEF Event, Same, AskedFrom
    <3>3. CASE GoLive(p)
      <4>1. event' = [copy[p] EXCEPT !.status = "live"] /\ Op(p) = "go-live"
        BY <1>0, <3>3, AtFacts DEF GoLive, WriteEvent
      <4>2. QED
        BY <2>2, <4>1, Ranks DEF Event, Same, AskedFrom
    <3>4. CASE CloseEvent(p)
      <4>1. event' = [copy[p] EXCEPT !.status = "closed"] /\ Op(p) = "close"
        BY <1>0, <3>4, AtFacts DEF CloseEvent, WriteEvent
      <4>2. QED
        BY <2>2, <4>1, Ranks DEF Event, Same, AskedFrom
    <3>5. CASE ArchiveEvent(p)
      <4>1. event' = [copy[p] EXCEPT !.status = "archived"] /\ Op(p) = "archive"
        BY <1>0, <3>5, AtFacts DEF ArchiveEvent, WriteEvent
      <4>2. QED
        BY <2>2, <4>1, Ranks DEF Event, Same, AskedFrom
    <3>6. QED
      BY <1>3, <3>1, <3>2, <3>3, <3>4, <3>5
  <2>4. QED
    BY <2>1, <2>3, ReadNowOutside DEF Onwards, Inside
<1>4. CASE FreezeReport(p)
  <2>1. Op(p) = "freeze" /\ pc[p] = "write" /\ pc'[p] = "done"
    BY <1>0, <1>4, AtFacts, Going DEF FreezeReport, Return
  <2>2. copy[p] \in Event /\ Same(copy[p])
    BY <1>0, <2>1 DEF Fits, ReadNow, EventOps
  <2>3. /\ event.version \in 1 .. MaxVersion /\ event.version < MaxVersion
        /\ official' = [official EXCEPT ![event.version + 1] = @ + 1]
        /\ event' = [copy[p] EXCEPT !.status = "closed", !.version = event.version + 1]
    BY <1>0, <1>4, <2>2 DEF FreezeReport, WriteEvent, Same, Event
  <2>4. Frozen
    BY <2>2, <2>3, VersionAssumption DEF Frozen, Event
  <2>5. QED
    BY <2>1, <2>4, ReadNowOutside DEF Inside
<1>5. QED
  BY <1>1, <1>2, <1>3, <1>4 DEF EventStep

LEMMA RetentionLife ==
  ASSUME TypeInv, ReportInv, build = "memory", NEW p \in cast, RetentionStep(p)
  PROVE  Onwards /\ ReadNow(p)'
<1>0. Fits(p) /\ ProcOk /\ Thread /\ event \in Event /\ ReadNow(p)
  BY DEF TypeInv, RowTypes, EventTypes, ReportInv
<1>a. UNCHANGED eventVars => Onwards
  BY <1>0, SameOnwards DEF eventVars, Same
<1>b. ASSUME NEW row \in Event, Same(row), NEW r, WriteEvent([row EXCEPT !.retention = r]),
             official' = official
      PROVE  Onwards /\ event'.status = event.status /\ event'.version = event.version
  <2>1. event'.status = event.status /\ event'.version = event.version
    BY <1>b DEF WriteEvent, Event, Same
  <2>2. QED
    BY <1>0, <1>b, <2>1, SameOnwards DEF Same
<1>1. CASE ListEvent(p)
  <2>1. /\ Op(p) \in {"purge", "countdown"} /\ UNCHANGED eventVars
        /\ copy'[p] = [event |-> event, rows |-> <<>>, todo |-> {}]
    BY <1>0, <1>1, AtFacts, Going DEF ListEvent
  <2>2. QED
    BY <1>a, <2>1 DEF ReadNow, EventOps, Op, Same, eventVars
<1>2. CASE SkipEvent(p)
  <2>1. pc'[p] \in {"start", "done"} /\ UNCHANGED eventVars
    BY <1>0, <1>2, AtFacts, RoundMoves DEF SkipEvent
  <2>2. QED
    BY <1>a, <2>1, ReadNowOutside DEF Inside
<1>3. CASE MarkPurging(p)
  <2>1. /\ Op(p) = "purge" /\ pc[p] = "listed" /\ copy'[p] = copy[p]
        /\ copy[p].event \in Event /\ Same(copy[p].event)
    BY <1>0, <1>3, AtFacts, Going DEF MarkPurging, Fits, ReadNow
  <2>2. Onwards /\ event'.status = event.status /\ event'.version = event.version
    BY <1>3, <1>b, <2>1 DEF MarkPurging
  <2>3. QED
    BY <2>1, <2>2 DEF ReadNow, EventOps, Op, Same
<1>4. CASE ListRows(p)
  <2>1. Op(p) = "purge" /\ pc[p] = "collect" /\ UNCHANGED eventVars /\ Work(copy[p], "event")
    BY <1>0, <1>4, AtFacts DEF ListRows, Fits
  <2> DEFINE L == Listing(Stored)
             T == {l \in Stored : leads[l].status # "anonymized"}
  <2>2. copy'[p] = [copy[p] EXCEPT !.rows = L, !.todo = T]
    BY <1>0, <1>4, AtFacts, Going DEF ListRows
  <2> HIDE DEF L, T
  <2>3. copy'[p].event = copy[p].event
    BY <2>1, <2>2 DEF Work
  <2>4. QED
    BY <1>0, <1>a, <2>1, <2>3 DEF ReadNow, EventOps, Op, Same, eventVars
<1>5. CASE PurgeRow(p)
  <2>1. Op(p) = "purge" /\ pc[p] = "rows" /\ UNCHANGED eventVars /\ Work(copy[p], "event")
    BY <1>0, <1>5, AtFacts DEF PurgeRow, Fits
  <2>2. copy'[p].event = copy[p].event
    BY <1>0, <1>5, <2>1, EraseFacts DEF PurgeRow, TypeInv, RowTypes
  <2>3. QED
    BY <1>0, <1>a, <2>1, <2>2 DEF ReadNow, EventOps, Op, Same, eventVars
<1>6. CASE FinishPurge(p) \/ FailPurge(p)
  <2>1. Op(p) = "purge" /\ pc[p] = "rows" /\ pc'[p] \in {"start", "done"}
    BY <1>0, <1>6, AtFacts, RoundMoves DEF FinishPurge, FailPurge
  <2>2. copy[p].event \in Event /\ Same(copy[p].event)
    BY <1>0, <2>1 DEF Fits, ReadNow
  <2>3. Onwards
    BY <1>6, <1>b, <2>2 DEF FinishPurge, FailPurge
  <2>4. QED
    BY <2>1, <2>3, ReadNowOutside DEF Inside
<1>7. CASE CountDown(p)
  <2>1. Op(p) = "countdown" /\ pc[p] = "listed" /\ pc'[p] \in {"start", "done"}
    BY <1>0, <1>7, AtFacts, RoundMoves DEF CountDown
  <2>2. copy[p].event \in Event /\ Same(copy[p].event)
    BY <1>0, <2>1 DEF Fits, ReadNow
  <2>3. \E r : WriteEvent([copy[p].event EXCEPT !.retention = r])
    BY <1>7 DEF CountDown
  <2>4. Onwards
    BY <1>7, <1>b, <2>2, <2>3 DEF CountDown
  <2>5. QED
    BY <2>1, <2>4, ReadNowOutside DEF Inside
<1>8. CASE ReadToForce(p)
  <2>1. Op(p) = "force-purge" /\ copy'[p] = event /\ UNCHANGED eventVars
    BY <1>0, <1>8, AtFacts, Going DEF ReadToForce
  <2>2. QED
    BY <1>a, <2>1 DEF ReadNow, EventOps, Op, Same, eventVars
<1>9. CASE ForcePurge(p)
  <2>1. Op(p) = "force-purge" /\ pc[p] = "write" /\ pc'[p] = "done"
    BY <1>0, <1>9, AtFacts, SpawnFacts DEF ForcePurge
  <2>2. copy[p] \in Event /\ Same(copy[p])
    BY <1>0, <2>1 DEF Fits, ReadNow
  <2>3. Onwards
    BY <1>9, <1>b, <2>2 DEF ForcePurge
  <2>4. QED
    BY <2>1, <2>3, ReadNowOutside DEF Inside
<1>10. CASE ReadToRetire(p)
  <2>1. /\ Op(p) = "retention-run" /\ UNCHANGED eventVars
        /\ \/ pc'[p] = "done"
           \/ /\ event.status \in {"closed", "archived"}
              /\ copy'[p] = [event |-> event, rows |-> <<>>, expiring |-> {}]
    BY <1>0, <1>10, AtFacts, Going DEF ReadToRetire, Return
  <2>2. QED
    BY <1>a, <2>1, ReadNowOutside DEF ReadNow, EventOps, Op, Same, eventVars, Inside
<1>11. CASE CollectTargets(p)
  <2>1. Op(p) = "retention-run" /\ pc[p] = "collect" /\ UNCHANGED eventVars /\ Run(copy[p])
    BY <1>0, <1>11, AtFacts DEF CollectTargets, Fits
  <2> DEFINE L == Listing(Stored)
             X == Expiring
  <2>2. copy'[p] = [copy[p] EXCEPT !.rows = L, !.expiring = X]
    BY <1>0, <1>11, AtFacts, Going DEF CollectTargets
  <2> HIDE DEF L, X
  <2>3. copy'[p].event = copy[p].event
    BY <2>1, <2>2 DEF Run
  <2>4. QED
    BY <1>0, <1>a, <2>1, <2>3 DEF ReadNow, EventOps, Op, Same, eventVars
<1>12. CASE Retire(p)
  <2>1. Op(p) = "retention-run" /\ pc[p] = "commit" /\ pc'[p] = "done" /\ official' = official
    BY <1>0, <1>12, AtFacts, Going DEF Retire, Return
  <2>2. /\ copy[p].event \in Event /\ Same(copy[p].event)
        /\ event.status \in {"closed", "archived"}
    BY <1>0, <2>1 DEF Fits, ReadNow, Run
  <2>3. event' = event \/ event' = [copy[p].event EXCEPT !.status = "archived"]
    BY <1>0, <1>12 DEF Retire, WriteEvent
  <2>4. /\ event'.version = event.version
        /\ event'.status \in {event.status, "archived"}
    BY <2>2, <2>3 DEF Event, Same
  <2>5. Onwards
    BY <2>1, <2>2, <2>4, Ranks DEF Onwards
  <2>6. QED
    BY <2>1, <2>5, ReadNowOutside DEF Inside
<1>13. QED
  BY <1>1, <1>2, <1>3, <1>4, <1>5, <1>6, <1>7, <1>8, <1>9, <1>10, <1>11, <1>12 DEF RetentionStep

LEMMA JobLife ==
  ASSUME TypeInv, NEW p \in cast, OffboardingStep(p)
  PROVE  Onwards
<1>0. event \in Event
  BY DEF TypeInv, RowTypes, EventTypes
<1>1. CASE DeleteData(p)
  <2>1. event'.status = event.status /\ event'.version = event.version /\ official' = official
    BY <1>0, <1>1 DEF DeleteData, WriteEvent, Event
  <2>2. QED
    BY <1>0, <2>1, SameOnwards DEF Same
<1>2. CASE ~DeleteData(p)
  <2>1. UNCHANGED eventVars
    BY <1>2 DEF OffboardingStep, Initiate, Approve, AwaitExport, ScheduleDeletion,
       IssueCertificate, FailCertificate
  <2>2. QED
    BY <1>0, <2>1, SameOnwards DEF eventVars, Same
<1>3. QED
  BY <1>1, <1>2



LEMMA CountedStill ==
  ASSUME Counted, Onwards
  PROVE  Counted'
BY DEF Counted, Onwards

LEMMA CountedNext ==
  ASSUME Counted, Frozen, official \in [1 .. MaxVersion -> Nat], event \in Event
  PROVE  Counted'
<1>1. event.version \in Nat /\ event'.version = event.version + 1
  BY VersionAssumption DEF Frozen, Event
<1>2. official[event.version + 1] = 0
  BY <1>1 DEF Counted, Frozen
<1>3. /\ official'[event.version + 1] = 1
      /\ \A v \in 1 .. MaxVersion : v # event.version + 1 => official'[v] = official[v]
  BY <1>2 DEF Frozen
<1>4. ASSUME NEW v \in 1 .. MaxVersion
      PROVE  official'[v] <= 1 /\ (v > event'.version => official'[v] = 0)
  <2>1. v \in Nat
    BY VersionAssumption
  <2>2. CASE v = event.version + 1
    BY <1>1, <1>3, <2>1, <2>2
  <2>3. CASE v # event.version + 1
    <3>1. v > event'.version => v > event.version
      BY <1>1, <2>1
    <3>2. QED
      BY <1>3, <2>3, <3>1 DEF Counted
  <2>4. QED
    BY <2>2, <2>3
<1>5. QED
  BY <1>4 DEF Counted

(* The statement of both properties for one step of the memory build.      *)
LEMMA LifeStep ==
  ASSUME TypeInv, ReportInv, [Next]_vars, build = "memory"
  PROVE  (Onwards \/ Frozen) /\ ReportInv'
<1>0. /\ ProcOk /\ Thread /\ event \in Event /\ official \in [1 .. MaxVersion -> Nat]
      /\ Counted /\ \A p \in cast : ReadNow(p)
  BY DEF TypeInv, RowTypes, EventTypes, ReportInv
<1>a. UNCHANGED eventVars => Onwards
  BY <1>0, SameOnwards DEF eventVars, Same
<1>b. ASSUME Onwards \/ Frozen, \A q \in cast' : ReadNow(q)'
      PROVE  (Onwards \/ Frozen) /\ ReportInv'
  BY <1>0, <1>b, CountedStill, CountedNext DEF ReportInv
<1>c. ASSUME NEW q \in cast, UNCHANGED eventVars, Kept(q) \/ pc'[q] = "start"
      PROVE  ReadNow(q)'
  <2>1. CASE Kept(q)
    BY <1>0, <1>c, <2>1 DEF ReadNow, Same, eventVars, Kept, Op, EventOps
  <2>2. CASE pc'[q] = "start"
    BY <2>2, ReadNowOutside DEF Inside
  <2>3. QED
    BY <1>c, <2>1, <2>2
<1>1. CASE Clock
  <2>1. UNCHANGED eventVars
    BY <1>1 DEF Clock, Ageing, RingAlarm, PassDays
  <2>2. cast' = cast /\ \A q \in cast : Kept(q) \/ pc'[q] = "start"
    <3>1. CASE UNCHANGED procVars
      BY <3>1 DEF procVars, Kept
    <3>2. CASE RingAlarm
      <4>1. PICK j \in Jobs :
              /\ Offboarder(j, 3) \in cast
              /\ pc[Offboarder(j, 3)] \in {"asleep", "done"}
              /\ pc' = [pc EXCEPT ![Offboarder(j, 3)] = "start"]
              /\ UNCHANGED <<build, cast, copy, restarts, jobs, tenant, day, leadVars, eventVars>>
        BY <3>2 DEF RingAlarm
      <4>2. QED
        BY <1>0, <4>1, AlarmMoves DEF Woken
    <3>3. QED
      BY <1>1, <3>1, <3>2 DEF Clock, Ageing, PassDays
  <2>3. QED
    BY <1>a, <1>b, <1>c, <2>1, <2>2
<1>2. CASE Restarted
  BY <1>0, <1>2, RestartFacts DEF Restarted
<1>3. ASSUME NEW p \in cast, Step(p) PROVE (Onwards \/ Frozen) /\ ReportInv'
  <2>1. PICK ops : Moves(p, ops)
    BY <1>0, <1>3, LeadMoves, RequestMoves, ExportMoves, EventMoves, RetentionMoves, JobMoves DEF Step
  <2>2. (Onwards \/ Frozen) /\ ReadNow(p)'
    <3>1. CASE LeadStep(p) /\ UNCHANGED eventVars
      BY <1>0, <1>a, <3>1, LeadMoves DEF LeadOps, ReadNow, EventOps, Op
    <3>2. CASE RequestStep(p) /\ UNCHANGED eventVars
      BY <1>0, <1>a, <3>2, RequestMoves DEF RequestOps, ReadNow, EventOps, Op
    <3>3. CASE ExportStep(p) /\ UNCHANGED eventVars
      BY <1>0, <1>a, <3>3, ExportMoves DEF ExportOps, ReadNow, EventOps, Op
    <3>4. CASE EventStep(p)
      BY <3>4, EventLife
    <3>5. CASE RetentionStep(p)
      BY <3>5, RetentionLife
    <3>6. CASE OffboardingStep(p)
      BY <1>0, <3>6, JobLife, JobMoves DEF JobOps, ReadNow, EventOps, Op
    <3>7. QED
      BY <1>3, <3>1, <3>2, <3>3, <3>4, <3>5, <3>6 DEF Step
  <2>3. \A q \in cast' : ReadNow(q)'
    BY <2>1, <2>2, ReadNowOne DEF Moves
  <2>4. QED
    BY <1>b, <2>2, <2>3
<1>4. CASE UNCHANGED vars
  <2>1. UNCHANGED eventVars /\ cast' = cast /\ \A q \in cast : Kept(q)
    BY <1>4 DEF vars, procVars, Kept
  <2>2. QED
    BY <1>a, <1>b, <1>c, <2>1
<1>5. QED
  BY <1>1, <1>2, <1>3, <1>4 DEF Next

LEMMA ReportStart == Init => ReportInv
<1> SUFFICES ASSUME Init PROVE ReportInv
  OBVIOUS
<1>1. \A p \in cast : pc[p] \in {"asleep", "start"}
  BY ProcStart DEF Init
<1>2. \A p \in cast : ReadNow(p)
  BY <1>1 DEF ReadNow
<1>3. Counted
  BY DEF Init, EventInit, Counted
<1>4. QED
  BY <1>2, <1>3 DEF ReportInv

LEMMA ReportSteps == TypeInv /\ ReportInv /\ [Next]_vars => ReportInv'
<1> SUFFICES ASSUME TypeInv, ReportInv, [Next]_vars PROVE ReportInv'
  OBVIOUS
<1>1. CASE build = "memory"
  BY <1>1, LifeStep
<1>2. CASE build # "memory"
  <2>1. build' = build
    <3>1. ASSUME NEW p \in cast, Step(p) PROVE build' = build
      BY <3>1, LeadMoves, RequestMoves, ExportMoves, EventMoves, RetentionMoves, JobMoves
      DEF Step, Moves, TypeInv
    <3>2. QED
      BY <3>1 DEF Next, Clock, Ageing, RingAlarm, PassDays, Restarted, Restart, procVars, vars
  <2>2. QED
    BY <1>2, <2>1 DEF ReportInv
<1>3. QED
  BY <1>1, <1>2

(* In the memory build each version of the report is made once: the freeze *)
(* that counts a version up still has the event as it is.                  *)
THEOREM ReportsOnce == Spec => []OneReportPerVersion
<1>1. Init => TypeInv /\ ReportInv
  BY TypeInit, ReportStart
<1>2. TypeInv /\ ReportInv /\ [Next]_vars => (TypeInv /\ ReportInv)'
  BY TypeStep, ReportSteps
<1>3. TypeInv /\ ReportInv => OneReportPerVersion
  BY DEF ReportInv, Counted, OneReportPerVersion
<1>4. QED
  BY <1>1, <1>2, <1>3, PTL DEF Spec

(* ... and no route and no job of it takes the event back to an earlier    *)
(* status, but the freeze that closes it with a new report.                *)
THEOREM NeverBack == Spec => LifecycleForward
<1> DEFINE Forward == build = "memory" =>
                        \/ Rank(event.status) <= Rank(event'.status)
                        \/ event'.status = "closed" /\ event'.version = event.version + 1
<1>1. Init => TypeInv /\ ReportInv
  BY TypeInit, ReportStart
<1>2. TypeInv /\ ReportInv /\ [Next]_vars => (TypeInv /\ ReportInv)'
  BY TypeStep, ReportSteps
<1>3. TypeInv /\ ReportInv /\ [Next]_vars => [Forward]_vars
  BY LifeStep DEF Onwards, Frozen
<1>4. QED
  BY <1>1, <1>2, <1>3, PTL DEF Spec, LifecycleForward


-----------------------------------------------------------------------------
(* The steps that no process takes.                                        *)
LEMMA ClockKeeps ==
  ASSUME TypeInv, Clock
  PROVE  /\ build' = build /\ cast' = cast
         /\ \A q \in cast : Kept(q) \/ (Op(q) = "offboard-worker" /\ q[3] = 3 /\ Woken(q))
         /\ UNCHANGED <<leadVars, requestVars, exportVars, eventVars>>
<1>1. CASE UNCHANGED procVars
  BY <1>1 DEF Clock, Ageing, RingAlarm, PassDays, procVars, Kept
<1>2. CASE RingAlarm /\ UNCHANGED <<requestVars, exportVars, retentionVars>>
  <2>1. PICK j \in Jobs :
          /\ Offboarder(j, 3) \in cast
          /\ pc[Offboarder(j, 3)] \in {"asleep", "done"}
          /\ pc' = [pc EXCEPT ![Offboarder(j, 3)] = "start"]
          /\ UNCHANGED <<build, cast, copy, restarts, jobs, tenant, day, leadVars, eventVars>>
    BY <1>2 DEF RingAlarm
  <2>2. \A q \in cast : Kept(q) \/ (q = Offboarder(j, 3) /\ Woken(q))
    BY <2>1, AlarmMoves DEF TypeInv
  <2>3. Op(Offboarder(j, 3)) = "offboard-worker" /\ Offboarder(j, 3)[3] = 3
    BY DEF Offboarder, Op
  <2>4. QED
    BY <1>2, <2>1, <2>2, <2>3
<1>3. QED
  BY <1>1, <1>2 DEF Clock, Ageing, PassDays

LEMMA StepMoves ==
  ASSUME TypeInv, NEW p \in cast, Step(p)
  PROVE  \E ops : Moves(p, ops)
BY LeadMoves, RequestMoves, ExportMoves, EventMoves, RetentionMoves, JobMoves DEF Step, TypeInv

LEMMA Frame ==
  ASSUME TypeInv, [Next]_vars
  PROVE  build' = build /\ cast' = cast
<1>1. ASSUME NEW p \in cast, Step(p) PROVE build' = build /\ cast' = cast
  BY <1>1, StepMoves DEF Moves
<1>2. QED
  BY <1>1, ClockKeeps DEF Next, Restarted, Restart, procVars, vars

-----------------------------------------------------------------------------
(* The interactions.  A lead is absent until its tap; what a process holds *)
(* of a lead, or lists, was there when it was read, and is still there.  A *)
(* route of the memory build that has read a lead has it as it is.         *)
ListOps   == {"dsr-worker", "complete", "purge", "countdown", "retention-run"}
Listed(p) == Op(p) \in ListOps /\ pc[p] \notin {"asleep", "start", "done"}

LeadKnown(p) ==
  /\ Op(p) = "tap" /\ pc[p] = "start" => leads[Row(p)].status = "absent"
  /\ Op(p) \in LeadWriters /\ pc[p] = "write" =>
       /\ Row(p) \in Stored /\ copy[p].status # "absent"
       /\ build = "memory" => copy[p] = leads[Row(p)]
  /\ Listed(p) => DOMAIN copy[p].rows \subseteq Stored

DataInv == /\ \A l \in Leads : leads[l].status = "absent" => leads[l].who = Nobody
           /\ \A p \in cast : LeadKnown(p)

(* What a step does to one interaction: an erasure, or a write of the one  *)
(* route whose row it is.                                                  *)
Erased(l) == l \in Stored /\ leads'[l].who = Nobody /\ leads'[l].status = "anonymized"

WrittenBy(p, l) ==
  /\ Row(p) = l
  /\ \/ Op(p) = "tap" /\ pc[p] = "start" /\ leads'[l].status = "consent_required"
     \/ /\ Op(p) \in LeadWriters /\ pc[p] = "write" /\ leads'[l].status # "absent"
        /\ \/ leads'[l].who = copy[p].who
           \/ copy[p].who = Nobody /\ leads'[l].who = Newcomer
        /\ Op(p) = "classify" => leads'[l].who = copy[p].who /\ leads'[l].status = copy[p].status

LEMMA StoredLeads == Stored \subseteq Leads /\ \A l \in Leads : l \in Stored <=> leads[l].status # "absent"
BY DEF Stored

LEMMA RouteChanges ==
  ASSUME TypeInv, DataInv, NEW p \in cast, LeadStep(p), NEW l \in Leads
  PROVE  leads'[l] = leads[l] \/ WrittenBy(p, l)
<1>0. /\ Fits(p) /\ ProcOk /\ Thread /\ leads \in [Leads -> Lead] /\ LeadKnown(p)
      /\ Op(p) \in LeadOps /\ Row(p) \in Leads
  BY LeadMoves, CastRows DEF TypeInv, RowTypes, LeadTypes, DataInv
<1>1. CASE Tap(p)
  <2>1. Op(p) = "tap" /\ pc[p] = "start"
    BY <1>1, AtFacts DEF Tap
  <2>2. leads' = [leads EXCEPT ![Row(p)] =
                    [who |-> Owner[Row(p)], status |-> "consent_required",
                     consent |-> "unknown", release |-> FALSE]]
    BY <1>1 DEF Tap
  <2>3. QED
    BY <1>0, <2>1, <2>2 DEF WrittenBy
<1>2. CASE ReadLead(p)
  BY <1>2 DEF ReadLead, leadVars
<1>3. CASE Capture(p)
  <2>1. Op(p) = "capture" /\ pc[p] = "write" /\ copy[p] \in Lead
    BY <1>0, <1>3, AtFacts DEF Capture, Fits, LeadWriters
  <2> DEFINE who == IF copy[p].who = Nobody THEN Newcomer ELSE copy[p].who
  <2>2. PICK allowed \in BOOLEAN :
          leads' = [leads EXCEPT ![Row(p)] =
                      [who |-> who,
                       status |-> IF allowed THEN "active" ELSE "anonymized",
                       consent |-> IF allowed THEN "allowed" ELSE "declined",
                       release |-> allowed]]
    BY <1>3 DEF Capture
  <2>3. who = copy[p].who \/ (copy[p].who = Nobody /\ who = Newcomer)
    OBVIOUS
  <2> HIDE DEF who
  <2>4. QED
    BY <1>0, <2>1, <2>2, <2>3 DEF WrittenBy, LeadWriters
<1>4. CASE Revoke(p)
  <2>1. Op(p) = "revoke" /\ pc[p] = "write"
    BY <1>4, AtFacts DEF Revoke
  <2>2. PICK kept :
          leads' = [leads EXCEPT ![Row(p)] =
                      [who |-> copy[p].who,
                       status |-> IF kept THEN "active" ELSE "anonymized",
                       consent |-> IF kept THEN "allowed" ELSE "declined",
                       release |-> kept]]
    BY <1>4 DEF Revoke
  <2>3. QED
    BY <1>0, <2>1, <2>2 DEF WrittenBy, LeadWriters
<1>5. CASE Classify(p)
  <2>1. Op(p) = "classify" /\ pc[p] = "write" /\ copy[p] \in Lead /\ copy[p].status # "absent"
    BY <1>0, <1>5, AtFacts DEF Classify, Fits, LeadWriters, LeadKnown
  <2>2. leads' = [leads EXCEPT ![Row(p)] = [copy[p] EXCEPT !.release = leads[Row(p)].release]]
    BY <1>5 DEF Classify
  <2>3. [copy[p] EXCEPT !.release = leads[Row(p)].release].who = copy[p].who
        /\ [copy[p] EXCEPT !.release = leads[Row(p)].release].status = copy[p].status
    BY <2>1 DEF Lead
  <2>4. QED
    BY <1>0, <2>1, <2>2, <2>3 DEF WrittenBy, LeadWriters
<1>6. QED
  BY <1>1, <1>2, <1>3, <1>4, <1>5 DEF LeadStep

(* An anonymised copy of a row of the table.                               *)
LEMMA AnonymizedRow ==
  ASSUME NEW row \in Lead, NEW release
  PROVE  Anonymized(row, release).who = Nobody /\ Anonymized(row, release).status = "anonymized"
BY DEF Anonymized, Lead

LEMMA ErasureChanges ==
  ASSUME TypeInv, DataInv, NEW p \in cast, ~LeadStep(p), Step(p), NEW l \in Leads
  PROVE  leads'[l] = leads[l] \/ Erased(l)
<1>0. /\ Fits(p) /\ ProcOk /\ Thread /\ LeadTypes /\ leads \in [Leads -> Lead] /\ LeadKnown(p)
  BY DEF TypeInv, RowTypes, LeadTypes, DataInv
<1>a. ASSUME NEW about \in {"dsr", "event"}, Work(copy[p], about), Listed(p), EraseNext(p)
      PROVE  leads'[l] = leads[l] \/ Erased(l)
  <2>1. PICK m \in Leads : /\ m \in copy[p].todo
                           /\ leads' = [leads EXCEPT ![m] = Anonymized(copy[p].rows[m], leads[m].release)]
    BY <1>0, <1>a, EraseFacts
  <2>2. m \in DOMAIN copy[p].rows /\ copy[p].rows[m] \in Lead /\ m \in Stored
    BY <1>0, <1>a, <2>1 DEF Work, LeadKnown
  <2>3. QED
    BY <1>0, <2>1, <2>2, AnonymizedRow DEF Erased
<1>1. CASE RequestStep(p)
  <2>1. CASE AnonymizeRow(p)
    <3>1. Work(copy[p], "dsr") /\ Listed(p)
      BY <1>0, <2>1, AtFacts DEF AnonymizeRow, Fits, Listed, ListOps
    <3>2. QED
      BY <1>a, <2>1, <3>1 DEF AnonymizeRow
  <2>2. CASE Complete(p) /\ copy[p].dsr.type # "access"
    <3>1. Work(copy[p], "dsr") /\ Listed(p)
      BY <1>0, <2>2, AtFacts DEF Complete, Fits, Listed, ListOps
    <3>2. leads' = [m \in Leads |-> IF m \in copy[p].todo THEN Anonymized(copy[p].rows[m], FALSE)
                                    ELSE leads[m]]
      BY <2>2 DEF Complete
    <3>3. \A m \in copy[p].todo : copy[p].rows[m] \in Lead /\ m \in Stored
      BY <1>0, <3>1 DEF Work, LeadKnown
    <3>4. QED
      BY <1>0, <3>2, <3>3, AnonymizedRow DEF Erased
  <2>3. CASE ~AnonymizeRow(p) /\ ~(Complete(p) /\ copy[p].dsr.type # "access")
    BY <1>1, <2>3 DEF RequestStep, BlankProfile, Complete, leadVars
  <2>4. QED
    BY <2>1, <2>2, <2>3
<1>2. CASE ExportStep(p) /\ UNCHANGED leadVars
  BY <1>2 DEF leadVars
<1>3. CASE EventStep(p) /\ UNCHANGED leadVars
  BY <1>3 DEF leadVars
<1>4. CASE RetentionStep(p)
  <2>1. CASE PurgeRow(p)
    <3>1. Work(copy[p], "event") /\ Listed(p)
      BY <1>0, <2>1, AtFacts DEF PurgeRow, Fits, Listed, ListOps
    <3>2. QED
      BY <1>a, <2>1, <3>1 DEF PurgeRow
  <2>2. CASE Retire(p)
    <3>1. Run(copy[p]) /\ Listed(p)
      BY <1>0, <2>2, AtFacts DEF Retire, Fits, Listed, ListOps
    <3>2. leads' = [m \in Leads |-> IF m \in DOMAIN copy[p].rows
                                    THEN Anonymized(copy[p].rows[m], FALSE) ELSE leads[m]]
      BY <2>2 DEF Retire
    <3>3. \A m \in DOMAIN copy[p].rows : copy[p].rows[m] \in Lead /\ m \in Stored
      BY <1>0, <3>1 DEF Run, LeadKnown
    <3>4. QED
      BY <1>0, <3>2, <3>3, AnonymizedRow DEF Erased
  <2>3. CASE ~PurgeRow(p) /\ ~Retire(p)
    BY <1>4, <2>3 DEF RetentionStep, ListEvent, SkipEvent, MarkPurging, ListRows, FinishPurge,
       FailPurge, CountDown, ReadToForce, ForcePurge, ReadToRetire, CollectTargets, leadVars
  <2>4. QED
    BY <2>1, <2>2, <2>3
<1>5. CASE OffboardingStep(p)
  <2>1. CASE DeleteData(p)
    <3>1. leads' = [m \in Leads |->
                      IF m \in Stored /\ leads[m].status # "anonymized"
                      THEN Anonymized(leads[m], leads[m].release) ELSE leads[m]]
      BY <2>1 DEF DeleteData
    <3>2. QED
      BY <1>0, <3>1, AnonymizedRow DEF Erased
  <2>2. CASE ~DeleteData(p)
    BY <1>5, <2>2 DEF OffboardingStep, Initiate, Approve, AwaitExport, ScheduleDeletion,
       IssueCertificate, FailCertificate, leadVars
  <2>3. QED
    BY <2>1, <2>2
<1>6. QED
  BY <1>1, <1>2, <1>3, <1>4, <1>5 DEF Step


(* An interaction never disappears, and a job lists those that are there.  *)
LEMMA StoredStays ==
  ASSUME TypeInv, DataInv, NEW p \in cast, Step(p)
  PROVE  /\ Stored \subseteq Stored'
         /\ \A l \in Leads : leads'[l] = leads[l] \/ Erased(l) \/ (LeadStep(p) /\ WrittenBy(p, l))
<1>1. \A l \in Leads : leads'[l] = leads[l] \/ Erased(l) \/ (LeadStep(p) /\ WrittenBy(p, l))
  BY RouteChanges, ErasureChanges
<1>2. ASSUME NEW l \in Leads, leads[l].status # "absent" PROVE leads'[l].status # "absent"
  BY <1>1, <1>2 DEF Erased, WrittenBy
<1>3. QED
  BY <1>1, <1>2 DEF Stored

LEMMA SubjectStored ==
  ASSUME DataInv, NEW d \in Requests
  PROVE  SubjectRows(d) \subseteq Stored
<1>1. Subject[d] # Nobody
  BY RequestsAssumption, LeadsAssumption DEF Nobody
<1>2. QED
  BY <1>1 DEF DataInv, SubjectRows, Stored

LEMMA ListingStep ==
  ASSUME TypeInv, DataInv, NEW p \in cast, Step(p), Listed(p)'
  PROVE  DOMAIN copy'[p].rows \subseteq Stored'
<1>0. /\ Fits(p) /\ ProcOk /\ Thread /\ LeadTypes /\ leads \in [Leads -> Lead]
      /\ LeadKnown(p) /\ Op(p) \in ListOps /\ pc'[p] \notin {"asleep", "start", "done"}
  BY DEF TypeInv, RowTypes, LeadTypes, DataInv, Listed, Op
<1>a. DOMAIN <<>> = {}
  OBVIOUS
<1>b. Stored \subseteq Stored' /\ (Listed(p) => DOMAIN copy[p].rows \subseteq Stored)
  BY <1>0, StoredStays DEF LeadKnown
<1>c. ASSUME NEW about \in {"dsr", "event"}, Work(copy[p], about), EraseNext(p)
      PROVE  copy'[p].rows = copy[p].rows
  BY <1>0, <1>c, EraseFacts
<1>d. ASSUME Row(p) \in Requests, NEW S \in SUBSET Stored, copy'[p].rows = Listing(S)
      PROVE  DOMAIN copy'[p].rows \subseteq Stored
  <2>1. S \in SUBSET Leads
    BY DEF Stored
  <2>2. QED
    BY <1>0, <1>d, <2>1, ListingFacts
<1>1. CASE RequestStep(p)
  <2>0. Op(p) \in {"dsr-worker", "complete"} /\ Row(p) \in Requests
    BY <1>0, <1>1, RequestMoves, CastRows DEF ListOps, RequestOps
  <2>1. CASE FindRequest(p) \/ ReadToComplete(p)
    <3>1. copy'[p].rows = <<>>
      BY <1>0, <2>1, AtFacts, Going DEF FindRequest, ReadToComplete, Return
    <3>2. QED
      BY <1>a, <3>1
  <2>2. CASE StartProcessing(p) \/ AskCrm(p)
    <3>1. Listed(p) /\ copy'[p] = copy[p]
      <4>1. Listed(p)
        BY <2>0, <2>2, AtFacts DEF Listed, ListOps, StartProcessing, AskCrm
      <4>2. CASE AskCrm(p)
        BY <1>0, <4>1, <4>2, AtFacts, Going DEF AskCrm
      <4>3. CASE StartProcessing(p)
        <5>1. CASE copy[p].dsr.type = "export"
          BY <1>0, <4>1, <4>3, <5>1, AtFacts, Going DEF StartProcessing
        <5>2. CASE copy[p].dsr.type = "delete"
          BY <1>0, <4>1, <4>3, <5>2, AtFacts, Going DEF StartProcessing
        <5>3. CASE copy[p].dsr.type \notin {"export", "delete"}
          BY <1>0, <4>1, <4>3, <5>3, AtFacts, Going DEF StartProcessing, Return
        <5>4. QED
          BY <5>1, <5>2, <5>3
      <4>4. QED
        BY <2>2, <4>1, <4>2, <4>3
    <3>2. QED
      BY <1>b, <3>1
  <2>3. CASE CollectSubject(p)
    <3>1. Op(p) = "complete" /\ pc[p] = "collect" => Work(copy[p], "dsr")
      BY <1>0 DEF Fits
    <3>2. copy'[p].rows = Listing(Selected(Row(p), copy[p].dsr))
      BY <1>0, <2>3, <3>1, CollectSubjectFacts
    <3>3. Selected(Row(p), copy[p].dsr) \subseteq Stored
      BY <2>0, SubjectStored DEF Selected
    <3>4. QED
      BY <1>b, <1>d, <2>0, <3>2, <3>3
  <2>4. CASE BlankProfile(p)
    <3>1. Work(copy[p], "dsr") /\ Collect(p, SubjectRows(Row(p)))
      BY <1>0, <2>4, AtFacts DEF BlankProfile, Fits
    <3>2. copy'[p].rows = Listing(SubjectRows(Row(p)))
      BY <1>0, <3>1, CollectFacts, SelectedLeads
    <3>3. QED
      BY <1>b, <1>d, <2>0, <3>2, SubjectStored
  <2>5. CASE AnonymizeRow(p)
    <3>1. Work(copy[p], "dsr") /\ Listed(p)
      BY <1>0, <2>5, AtFacts DEF AnonymizeRow, Fits, Listed, ListOps
    <3>2. QED
      BY <1>b, <1>c, <2>5, <3>1 DEF AnonymizeRow
  <2>6. CASE Complete(p) \/ Confirm(p) \/ FailRequest(p)
    BY <1>0, <2>6, AtFacts, Going, EndMoves DEF Complete, Return
  <2>7. CASE FinishExport(p) \/ FinishDelete(p)
    <3>1. copy'[p] = copy[p] /\ Op(p) = "dsr-worker" /\ pc[p] = "io"
      BY <1>0, <2>7, FinishMoves
    <3>2. Listed(p)
      BY <3>1 DEF Listed, ListOps
    <3>3. QED
      BY <1>b, <3>1, <3>2
  <2>8. QED
    BY <1>1, <2>0, <2>1, <2>2, <2>3, <2>4, <2>5, <2>6, <2>7, AtFacts DEF RequestStep, LookForActive,
       FindNoActive, SubmitRequest, CreateSessionRequest, PollRequests, ReadToReject, Reject,
       ReadToDownload, HandOut
<1>2. CASE RetentionStep(p)
  <2>1. CASE ListEvent(p) \/ ReadToRetire(p)
    <3>1. copy'[p].rows = <<>>
      BY <1>0, <2>1, AtFacts, Going DEF ListEvent, ReadToRetire, Return
    <3>2. QED
      BY <1>a, <3>1
  <2>2. CASE MarkPurging(p)
    <3>1. Listed(p) /\ copy'[p] = copy[p]
      BY <1>0, <2>2, AtFacts, Going DEF Listed, ListOps, MarkPurging
    <3>2. QED
      BY <1>b, <3>1
  <2>3. CASE ListRows(p)
    <3> DEFINE L == Listing(Stored)
               T == {l \in Stored : leads[l].status # "anonymized"}
    <3>1. copy'[p] = [copy[p] EXCEPT !.rows = L, !.todo = T] /\ Work(copy[p], "event")
      BY <1>0, <2>3, AtFacts, Going DEF ListRows, Fits
    <3>2. DOMAIN L = Stored
      BY <1>0, ListingFacts, StoredLeads
    <3> HIDE DEF L, T
    <3>3. copy'[p].rows = L
      BY <3>1 DEF Work
    <3>4. QED
      BY <1>b, <3>2, <3>3
  <2>4. CASE CollectTargets(p)
    <3> DEFINE L == Listing(Stored)
               X == Expiring
    <3>1. copy'[p] = [copy[p] EXCEPT !.rows = L, !.expiring = X] /\ Run(copy[p])
      BY <1>0, <2>4, AtFacts, Going DEF CollectTargets, Fits
    <3>2. DOMAIN L = Stored
      BY <1>0, ListingFacts, StoredLeads
    <3> HIDE DEF L, X
    <3>3. copy'[p].rows = L
      BY <3>1 DEF Run
    <3>4. QED
      BY <1>b, <3>2, <3>3
  <2>5. CASE PurgeRow(p)
    <3>1. Work(copy[p], "event") /\ Listed(p)
      BY <1>0, <2>5, AtFacts DEF PurgeRow, Fits, Listed, ListOps
    <3>2. QED
      BY <1>b, <1>c, <2>5, <3>1 DEF PurgeRow
  <2>6. CASE SkipEvent(p) \/ FinishPurge(p) \/ FailPurge(p) \/ CountDown(p)
    BY <1>0, <2>6, AtFacts, RoundMoves DEF SkipEvent, FinishPurge, FailPurge, CountDown
  <2>7. CASE Retire(p)
    BY <1>0, <2>7, AtFacts, Going DEF Retire, Return
  <2>8. QED
    BY <1>0, <1>2, <2>1, <2>2, <2>3, <2>4, <2>5, <2>6, <2>7, AtFacts
    DEF RetentionStep, ReadToForce, ForcePurge, ListOps
<1>3. CASE ~RequestStep(p) /\ ~RetentionStep(p)
  <2>1. Op(p) \in LeadOps \cup ExportOps \cup EventOps \cup JobOps
    BY <1>0, <1>3, LeadMoves, ExportMoves, EventMoves, JobMoves DEF Step
  <2>2. QED
    BY <1>0, <2>1 DEF LeadOps, ExportOps, EventOps, JobOps, ListOps
<1>4. QED
  BY <1>1, <1>2, <1>3

(* Nobody starts a tap again, or a route.                                  *)
LEMMA TapNotWoken ==
  ASSUME TypeInv, NEW p \in cast, Step(p), NEW q \in cast, q # p,
         Op(q) \notin {"purge", "offboard-worker", "dsr-worker", "export-worker"}
  PROVE  Kept(q)
BY LeadMoves, RequestMoves, ExportMoves, EventMoves, RetentionMoves, JobMoves
DEF Step, TypeInv, Moves

LEMMA KnownOutside ==
  ASSUME NEW q \in cast, pc'[q] \in {"asleep", "start", "done"}, Op(q) # "tap" \/ pc'[q] # "start"
  PROVE  LeadKnown(q)'
BY DEF LeadKnown, Listed, LeadWriters, Op

LEMMA DataStep == TypeInv /\ DataInv /\ [Next]_vars => DataInv'
<1> SUFFICES ASSUME TypeInv, DataInv, [Next]_vars PROVE DataInv'
  OBVIOUS
<1>0. /\ ProcOk /\ Thread /\ LeadTypes /\ leads \in [Leads -> Lead] /\ \A p \in cast : LeadKnown(p)
      /\ build' = build /\ cast' = cast
  BY Frame DEF TypeInv, RowTypes, LeadTypes, DataInv
<1>a. ASSUME UNCHANGED leadVars, NEW q \in cast, Kept(q) \/ (Op(q) # "tap" /\ pc'[q] = "start")
      PROVE  LeadKnown(q)'
  <2>1. CASE Kept(q)
    BY <1>0, <1>a, <2>1 DEF LeadKnown, Kept, Listed, Op, leadVars, Stored
  <2>2. CASE Op(q) # "tap" /\ pc'[q] = "start"
    BY <2>2, KnownOutside
  <2>3. QED
    BY <1>a, <2>1, <2>2
<1>1. CASE Clock
  <2>1. \A q \in cast : Kept(q) \/ (Op(q) # "tap" /\ pc'[q] = "start")
    BY <1>1, ClockKeeps DEF Woken
  <2>2. UNCHANGED leadVars
    BY <1>1, ClockKeeps
  <2>3. QED
    BY <1>0, <1>a, <2>1, <2>2 DEF DataInv, leadVars
<1>2. CASE Restarted
  <2>1. UNCHANGED leadVars
    BY <1>2 DEF Restarted
  <2>2. ASSUME NEW q \in cast PROVE LeadKnown(q)'
    <3>1. pc'[q] \in {"asleep", "start", "done"} /\ (Op(q) = "tap" /\ pc'[q] = "start" => pc[q] = "start")
      BY <1>0, <1>2, RestartFacts DEF Restarted, Pollers
    <3>2. CASE Op(q) = "tap" /\ pc'[q] = "start"
      BY <1>0, <2>1, <3>1, <3>2 DEF LeadKnown, Listed, ListOps, LeadWriters, Op, leadVars
    <3>3. QED
      BY <3>1, <3>2, KnownOutside
  <2>3. QED
    BY <1>0, <2>1, <2>2 DEF DataInv, leadVars
<1>3. ASSUME NEW p \in cast, Step(p) PROVE DataInv'
  <2>1. PICK ops : Moves(p, ops)
    BY <1>3, StepMoves
  <2>2. /\ Stored \subseteq Stored'
        /\ \A l \in Leads : leads'[l] = leads[l] \/ Erased(l) \/ (LeadStep(p) /\ WrittenBy(p, l))
    BY <1>3, StoredStays
  <2>3. ASSUME NEW l \in Leads, leads'[l].status = "absent" PROVE leads'[l].who = Nobody
    BY <2>2, <2>3 DEF Erased, WrittenBy, DataInv
  <2>4. LeadKnown(p)'
    <3>1. Op(p) = "tap" => pc'[p] # "start"
      <4>1. ASSUME Op(p) = "tap" PROVE Tap(p)
        <5>1. Op(p) \notin RequestOps \cup ExportOps \cup EventOps \cup RetentionOps \cup JobOps
          BY <4>1 DEF RequestOps, ExportOps, EventOps, RetentionOps, JobOps
        <5>2. LeadStep(p)
          BY <1>0, <1>3, <5>1, RequestMoves, ExportMoves, EventMoves, RetentionMoves, JobMoves DEF Step
        <5>3. QED
          BY <4>1, <5>2, AtFacts DEF LeadStep, ReadLead, Capture, Revoke, Classify
      <4>2. QED
        BY <1>0, <4>1, AtFacts, Going DEF Tap, Return
    <3>2. ASSUME Op(p) \in LeadWriters, pc'[p] = "write"
          PROVE  Row(p) \in Stored' /\ copy'[p].status # "absent" /\ copy'[p] = leads'[Row(p)]
      <4>1. Op(p) \notin RequestOps \cup ExportOps \cup EventOps \cup RetentionOps \cup JobOps
        BY <3>2 DEF LeadWriters, RequestOps, ExportOps, EventOps, RetentionOps, JobOps
      <4>2. LeadStep(p)
        BY <1>0, <1>3, <4>1, RequestMoves, ExportMoves, EventMoves, RetentionMoves, JobMoves DEF Step
      <4>3. ReadLead(p)
        BY <1>0, <3>2, <4>2, AtFacts, Going DEF LeadStep, Tap, Capture, Revoke, Classify, Return
      <4>4. Row(p) \in Leads
        BY <1>0, <3>2, CastRows DEF LeadWriters, LeadOps
      <4>5. copy'[p] = leads[Row(p)] /\ leads' = leads /\ leads[Row(p)].status # "absent"
        BY <1>0, <4>3, AtFacts, Going DEF ReadLead, leadVars
      <4>6. QED
        BY <4>4, <4>5 DEF Stored
    <3>3. Listed(p)' => DOMAIN copy'[p].rows \subseteq Stored'
      BY <1>3, ListingStep
    <3>4. QED
      BY <3>1, <3>2, <3>3 DEF LeadKnown, Op, Row
  <2>5. ASSUME NEW q \in cast, q # p PROVE LeadKnown(q)'
    <3>1. Kept(q) \/ (pc[q] \in {"asleep", "done"} /\ pc'[q] = "start")
      BY <2>1, <2>5 DEF Moves, Woken
    <3>2. ASSUME Op(q) = "tap", pc'[q] = "start" PROVE leads'[Row(q)].status = "absent"
      <4>1. pc[q] = "start" /\ Row(q) \in Leads /\ leads[Row(q)].status = "absent"
        <5>1. Op(q) \notin {"purge", "offboard-worker", "dsr-worker", "export-worker"}
          BY <3>2
        <5>2. Kept(q)
          BY <1>3, <2>5, <5>1, TapNotWoken
        <5>3. QED
          BY <1>0, <3>2, <5>2, CastRows DEF Kept, LeadKnown, LeadOps
      <4>2. ~Erased(Row(q)) /\ ~WrittenBy(p, Row(q))
        <5>1. Row(q) \notin Stored
          BY <4>1 DEF Stored
        <5>2. Op(p) = "tap" => Row(p) # Row(q)
          BY <1>0, <2>5, <3>2, LeadsAssumption DEF ProcOk
        <5>3. Op(p) \in LeadWriters /\ pc[p] = "write" => Row(p) \in Stored
          BY <1>0 DEF LeadKnown
        <5>4. QED
          BY <5>1, <5>2, <5>3 DEF Erased, WrittenBy
      <4>3. QED
        BY <2>2, <4>1, <4>2
    <3>3. ASSUME Op(q) \in LeadWriters, pc'[q] = "write"
          PROVE  /\ Row(q) \in Stored' /\ copy'[q].status # "absent"
                 /\ build' = "memory" => copy'[q] = leads'[Row(q)]
      <4>1. Kept(q) /\ pc[q] = "write"
        BY <3>1, <3>3 DEF Kept
      <4>2. build # "memory"
        BY <2>1, <2>5, <3>3, <4>1, Alone DEF Moves, Inside, LeadWriters, Immediate
      <4>3. QED
        BY <1>0, <2>2, <3>3, <4>1, <4>2 DEF LeadKnown, Kept
    <3>4. Listed(q)' => DOMAIN copy'[q].rows \subseteq Stored'
      BY <1>0, <2>2, <3>1 DEF LeadKnown, Listed, Kept, Op
    <3>5. QED
      BY <3>2, <3>3, <3>4 DEF LeadKnown, Op, Row
  <2>6. QED
    BY <1>0, <2>3, <2>4, <2>5 DEF DataInv
<1>4. CASE UNCHANGED vars
  <2>1. UNCHANGED leadVars /\ \A q \in cast : Kept(q)
    BY <1>4 DEF vars, procVars, Kept
  <2>2. QED
    BY <1>0, <1>a, <2>1 DEF DataInv, leadVars
<1>5. QED
  BY <1>1, <1>2, <1>3, <1>4 DEF Next


LEMMA DataInit == Init => DataInv
<1> SUFFICES ASSUME Init PROVE DataInv
  OBVIOUS
<1>1. ProcOk /\ \A p \in cast : pc[p] \in {"asleep", "start"}
  BY ProcStart DEF Init
<1>2. leads = [l \in Leads |-> IF \E p \in cast : Op(p) = "tap" /\ Row(p) = l
                               THEN Untapped ELSE Consented(l)]
  BY DEF Init, LeadInit
<1>3. ASSUME NEW p \in cast PROVE LeadKnown(p)
  <2>1. Op(p) = "tap" => Row(p) \in Leads /\ leads[Row(p)] = Untapped
    BY <1>1, <1>2, CastRows DEF LeadOps
  <2>2. QED
    BY <1>1, <2>1 DEF LeadKnown, Listed, Untapped
<1>4. \A l \in Leads : leads[l].status = "absent" => leads[l].who = Nobody
  BY <1>2 DEF Untapped, Consented
<1>5. QED
  BY <1>3, <1>4 DEF DataInv

(* What is anonymised without its attendee gets no attendee from a copy of *)
(* an older row: in the memory build the copy is the row, and over         *)
(* Postgres the property assumes that nobody writes one back.              *)
LEMMA ErasureStep ==
  ASSUME TypeInv, DataInv, [Next]_vars, Untangled, NEW l \in Leads,
         leads[l].status = "anonymized", leads[l].who = Nobody
  PROVE  leads'[l].who \in {Nobody, Newcomer}
<1>1. ASSUME NEW p \in cast, Step(p) PROVE leads'[l].who \in {Nobody, Newcomer}
  <2>1. leads'[l] = leads[l] \/ Erased(l) \/ WrittenBy(p, l)
    BY <1>1, StoredStays
  <2>2. CASE WrittenBy(p, l)
    <3>1. LeadKnown(p) /\ leads[l].status # "absent"
      BY DEF DataInv
    <3>2. Op(p) \in LeadWriters /\ pc[p] = "write" /\ Row(p) = l
      BY <2>2, <3>1 DEF WrittenBy, LeadKnown
    <3>3. copy[p] = leads[l]
      BY <3>1, <3>2 DEF LeadKnown, Untangled
    <3>4. QED
      BY <2>2, <3>2, <3>3 DEF WrittenBy, LeadWriters
  <2>3. QED
    BY <2>1, <2>2 DEF Erased
<1>2. CASE UNCHANGED leadVars
  BY <1>2 DEF leadVars
<1>3. QED
  BY <1>1, <1>2, ClockKeeps DEF Next, Restarted, vars

(* An erasure is final, but for a new consent.                             *)
THEOREM ErasuresLast == Spec => ErasedStaysErased
<1> DEFINE Final == Untangled => \A l \in Leads :
                      leads[l].status = "anonymized" /\ leads[l].who = Nobody
                        => leads'[l].who \in {Nobody, Newcomer}
<1>1. Init => TypeInv /\ DataInv
  BY TypeInit, DataInit
<1>2. TypeInv /\ DataInv /\ [Next]_vars => (TypeInv /\ DataInv)'
  BY TypeStep, DataStep
<1>3. TypeInv /\ DataInv /\ [Next]_vars => [Final]_vars
  BY ErasureStep
<1>4. QED
  BY <1>1, <1>2, <1>3, PTL DEF Spec, ErasedStaysErased


-----------------------------------------------------------------------------
(* Erasures.  Without new data an interaction is whole, or it is gone for  *)
(* good, and a blanked profile stays blank.  An eraser has listed what is  *)
(* left of its subject, or of the event, and takes one row at a time off   *)
(* its list.  A purge blanks the profiles only after the last row: until   *)
(* then it has the attendees in its list.                                  *)
Whole(l) == leads[l].who = Owner[l] /\ leads[l].status = "active"
Gone(l)  == leads[l].who = Nobody /\ leads[l].status = "anonymized"
Blank(a) == a \in Shared \/ profiles[a] # "kept"
AllGone  == \A l \in Leads : Gone(l) /\ Blank(Owner[l])

Done(d)    == SubjectRows(d) = {} /\ (Within(d, requests[d]) => Blank(Subject[d]))
Settled(d) == requests[d].type = "delete" /\ requests[d].status = "completed" => Done(d)

TypeHeld(p) ==
  /\ Op(p) \in {"dsr-worker", "complete"} /\ pc[p] \notin {"asleep", "start", "done"}
       => copy[p].dsr.type = requests[Row(p)].type
  /\ Op(p) \in {"reject", "dsr-download"} /\ pc[p] = "write" => copy[p].type = requests[Row(p)].type
  /\ Op(p) = "dsr-download" /\ pc[p] = "write" => copy[p].type = "export"

(* What is listed has its attendee still, or that one's profile is gone.   *)
AsOwned(rows) == \A l \in DOMAIN rows : rows[l].who = Owner[l] \/ Blank(Owner[l])
Reaches(p)    == \/ Blank(Subject[Row(p)])
                 \/ \E l \in DOMAIN copy[p].rows : copy[p].rows[l].who = Subject[Row(p)]

ErasingSubject(p) ==
  /\ Op(p) \in {"dsr-worker", "complete"} /\ pc[p] = "rows"
       => SubjectRows(Row(p)) \subseteq copy[p].todo
  /\ Op(p) = "dsr-worker" /\ pc[p] = "rows"
       => /\ Blank(Subject[Row(p)])
          /\ \A l \in DOMAIN copy[p].rows : Owner[l] = Subject[Row(p)]
  /\ Op(p) = "complete" /\ pc[p] = "rows"
       => /\ Tidy => AsOwned(copy[p].rows)
          /\ copy[p].dsr.type # "access" /\ Within(Row(p), copy[p].dsr) => Reaches(p)
  /\ Op(p) = "dsr-worker" /\ pc[p] = "io" /\ copy[p].dsr.type = "delete"
       => SubjectRows(Row(p)) = {} /\ Blank(Subject[Row(p)])

ErasingEvent(p) ==
  /\ Op(p) = "purge" /\ pc[p] = "rows" =>
       /\ \A l \in Leads : Gone(l) \/ l \in copy[p].todo
       /\ build = "memory" => Leads \subseteq DOMAIN copy[p].rows /\ AsOwned(copy[p].rows)
  /\ Op(p) = "retention-run" /\ pc[p] = "commit" /\ Tidy => AsOwned(copy[p].rows)

(* The event is "purged", and a worker of an offboarding waits for the     *)
(* upload of its certificate, only when everything is gone.  Over Postgres *)
(* no such worker is ever started.                                         *)
PurgedSeen(p) ==
  /\ Op(p) = "offboard-worker" => /\ pc[p] # "asleep" => build = "memory"
                                  /\ pc[p] = "io" => AllGone
  /\ Op(p) \in EventOps /\ pc[p] = "write" /\ copy[p].retention = "purged" => AllGone
  /\ Op(p) = "retention-run" /\ pc[p] \in {"collect", "commit"} /\ copy[p].event.retention = "purged"
       => AllGone

Erasing(p) == TypeHeld(p) /\ ErasingSubject(p) /\ ErasingEvent(p) /\ PurgedSeen(p)

Purging(l) == \E p \in cast : Op(p) = "purge" /\ pc[p] = "rows" /\ copy[p].rows[l].who = Owner[l]

EraseFits ==
  /\ \A l \in Leads : Whole(l) \/ Gone(l)
  /\ \A d \in Requests : Settled(d)
  /\ \A p \in cast : Erasing(p)
  /\ Tidy => \A l \in Leads : Gone(l) => Blank(Owner[l]) \/ Purging(l)
  /\ build = "postgres" => \A j \in Jobs : alarm[j] = Never
  /\ event.retention = "purged" \/ tenant = "deleted" => AllGone

EraseInv == NoNewData => EraseFits

(* What every step leaves as it was: nothing comes back.                   *)
Later ==
  /\ \A l \in Leads : (Gone(l) => Gone(l)') /\ (Whole(l)' \/ Gone(l)')
  /\ \A a \in Attendees : Blank(a) => Blank(a)'
  /\ \A d \in Requests : SubjectRows(d)' \subseteq SubjectRows(d)
  /\ \A l \in Leads : leads'[l].who = leads[l].who \/ Gone(l)'

LEMMA LeadsLater ==
  ASSUME TypeInv, DataInv, NoNewData, NEW p \in cast, Step(p), NEW l \in Leads
  PROVE  (leads'[l].who = leads[l].who /\ leads'[l].status = leads[l].status) \/ Gone(l)'
<1>1. leads'[l] = leads[l] \/ Erased(l) \/ (LeadStep(p) /\ WrittenBy(p, l))
  BY StoredStays
<1>2. CASE WrittenBy(p, l)
  <2>1. Op(p) = "classify" /\ pc[p] = "write" /\ Row(p) = l
    BY <1>2 DEF WrittenBy, LeadWriters, NoNewData
  <2>2. copy[p] = leads[l]
    BY <2>1 DEF NoNewData, Untangled, DataInv, LeadKnown, LeadWriters
  <2>3. QED
    BY <1>2, <2>1, <2>2 DEF WrittenBy
<1>3. QED
  BY <1>1, <1>2 DEF Erased, Gone

LEMMA ProfilesLater ==
  ASSUME TypeInv, NoNewData, NEW p \in cast, Step(p), NEW a \in Attendees
  PROVE  profiles'[a] = profiles[a] \/ profiles'[a] # "kept"
<1>0. ProcOk /\ Thread /\ profiles \in [Attendees -> ProfileStates]
  BY DEF TypeInv, RowTypes, LeadTypes
<1>1. CASE LeadStep(p)
  <2>1. ~Capture(p)
    BY AtFacts DEF Capture, NoNewData
  <2>2. QED
    BY <1>1, <2>1 DEF LeadStep, Tap, ReadLead, Revoke, Classify, leadVars
<1>2. CASE RequestStep(p)
  <2>1. \/ profiles' = profiles
        \/ \E b, s : s # "kept" /\ profiles' = [profiles EXCEPT ![b] = s]
        \/ \E S : profiles' = [b \in Attendees |-> IF b \in S THEN "nulled" ELSE profiles[b]]
    <3>1. CASE BlankProfile(p)
      BY <3>1 DEF BlankProfile
    <3>2. CASE Complete(p)
      BY <3>2 DEF Complete, leadVars
    <3>3. CASE ~BlankProfile(p) /\ ~Complete(p)
      BY <1>2, <3>3 DEF RequestStep, AnonymizeRow, EraseNext, leadVars
    <3>4. QED
      BY <3>1, <3>2, <3>3
  <2>2. QED
    BY <1>0, <2>1
<1>3. CASE RetentionStep(p)
  <2>1. profiles' = profiles \/ \E S : profiles' = [b \in Attendees |-> IF b \in S THEN "nulled" ELSE profiles[b]]
    BY <1>3 DEF RetentionStep, ListEvent, SkipEvent, MarkPurging, ListRows, PurgeRow, EraseNext, FinishPurge,
       FailPurge, CountDown, ReadToForce, ForcePurge, ReadToRetire, CollectTargets, Retire, leadVars
  <2>2. QED
    BY <2>1
<1>4. CASE OffboardingStep(p)
  <2>1. profiles' = profiles \/ \E S : profiles' = [b \in Attendees |-> IF b \in S THEN "nulled" ELSE profiles[b]]
    BY <1>4 DEF OffboardingStep, Initiate, Approve, AwaitExport, ScheduleDeletion, DeleteData,
       IssueCertificate, FailCertificate, leadVars
  <2>2. QED
    BY <2>1
<1>5. QED
  BY <1>1, <1>2, <1>3, <1>4 DEF Step, leadVars

LEMMA NothingBack ==
  ASSUME TypeInv, DataInv, EraseInv, NoNewData, NEW p \in cast, Step(p)
  PROVE  Later /\ (AllGone => AllGone')
<1>1. \A l \in Leads : Whole(l) \/ Gone(l)
  BY DEF EraseInv, EraseFits
<1>2. \A l \in Leads : (leads'[l].who = leads[l].who /\ leads'[l].status = leads[l].status) \/ Gone(l)'
  BY LeadsLater
<1>3. \A a \in Attendees : Blank(a) => Blank(a)'
  BY ProfilesLater DEF Blank
<1>4. \A l \in Leads : (Gone(l) => Gone(l)') /\ (Whole(l)' \/ Gone(l)')
  BY <1>1, <1>2 DEF Whole, Gone
<1>5. ASSUME NEW d \in Requests PROVE SubjectRows(d)' \subseteq SubjectRows(d)
  <2>1. Subject[d] # Nobody
    BY RequestsAssumption, LeadsAssumption DEF Nobody
  <2>2. QED
    BY <1>2, <2>1 DEF SubjectRows, Gone
<1>6. AllGone => AllGone'
  BY <1>3, <1>4, LeadsAssumption DEF AllGone
<1>7. QED
  BY <1>2, <1>3, <1>4, <1>5, <1>6 DEF Later

LEMMA Ownership == \A l \in Leads : Owner[l] \in Attendees /\ Owner[l] # Nobody
BY LeadsAssumption DEF Nobody

LEMMA Subjects == \A d \in Requests : Subject[d] \in Attendees /\ Subject[d] # Nobody
BY RequestsAssumption, LeadsAssumption DEF Nobody

(* What a process knows that does not move.                                *)
LEMMA ErasingKept ==
  ASSUME TypeInv, Later, AllGone => AllGone', build' = build, cast' = cast,
         \A d \in Requests : requests'[d].type = requests[d].type,
         NEW q \in cast, Kept(q), Erasing(q)
  PROVE  Erasing(q)'
<1>0. Fits(q) /\ ProcOk
  BY DEF TypeInv
<1>1. Op(q) \in {"dsr-worker", "complete", "reject", "dsr-download"} => Row(q) \in Requests
  BY <1>0, CastRows DEF RequestOps
<1>2. TypeHeld(q)'
  BY <1>1 DEF Erasing, TypeHeld, Kept, Op, Row
<1>a. Tidy' <=> Tidy
  BY DEF Tidy, Op
<1>b. ASSUME DOMAIN copy[q].rows \subseteq Leads, AsOwned(copy[q].rows) PROVE AsOwned(copy[q].rows)'
  BY <1>b, Ownership DEF AsOwned, Kept, Later
<1>3. ErasingSubject(q)'
  <2>1. CASE Op(q) = "complete" /\ pc[q] = "rows"
    <3>1. Row(q) \in Requests /\ DOMAIN copy[q].rows \subseteq Leads
      BY <1>0, <1>1, <2>1 DEF Fits, Work
    <3>2. Reaches(q) => Reaches(q)'
      BY <3>1, Subjects DEF Reaches, Kept, Later, Row
    <3>3. Within(Row(q), copy[q].dsr)' <=> Within(Row(q), copy[q].dsr)
      BY <1>a DEF Within, Kept, Row
    <3>4. QED
      BY <1>a, <1>b, <2>1, <3>1, <3>2, <3>3 DEF Erasing, ErasingSubject, Kept, Op, Row, Later
  <2>2. CASE ~(Op(q) = "complete" /\ pc[q] = "rows")
    BY <1>1, <2>2, Subjects DEF Erasing, ErasingSubject, Kept, Op, Row, Later
  <2>3. QED
    BY <2>1, <2>2
<1>4. ErasingEvent(q)'
  <2>1. ASSUME Op(q) = "purge", pc[q] = "rows" PROVE ErasingEvent(q)'
    <3>1. DOMAIN copy[q].rows \subseteq Leads
      BY <1>0, <2>1 DEF Fits, Work
    <3>2. QED
      BY <1>b, <2>1, <3>1 DEF Erasing, ErasingEvent, Kept, Op, Later
  <2>2. ASSUME Op(q) = "retention-run", pc[q] = "commit" PROVE ErasingEvent(q)'
    <3>1. DOMAIN copy[q].rows \subseteq Leads
      BY <1>0, <2>2 DEF Fits, Run
    <3>2. QED
      BY <1>a, <1>b, <2>2, <3>1 DEF Erasing, ErasingEvent, Kept, Op
  <2>3. QED
    BY <2>1, <2>2 DEF ErasingEvent, Kept, Op
<1>5. PurgedSeen(q)'
  BY DEF Erasing, PurgedSeen, Kept, Op, EventOps
<1>6. QED
  BY <1>2, <1>3, <1>4, <1>5 DEF Erasing

LEMMA ErasingOutside ==
  ASSUME NEW q, pc'[q] \in {"asleep", "start", "done"},
         Op(q) = "offboard-worker" /\ pc'[q] # "asleep" => build' = "memory"
  PROVE  Erasing(q)'
BY DEF Erasing, TypeHeld, ErasingSubject, ErasingEvent, PurgedSeen, Op, EventOps

(* A route or a job whose operation is none of those that erase.           *)
LEMMA ErasingOthers ==
  ASSUME NEW q, Op(q) \notin {"dsr-worker", "complete", "reject", "dsr-download", "purge",
                              "retention-run", "offboard-worker"} \cup EventOps
  PROVE  Erasing(q)'
BY DEF Erasing, TypeHeld, ErasingSubject, ErasingEvent, PurgedSeen, Op, EventOps


(* In the memory build nobody purges while another process takes a step,   *)
(* so what is gone has taken its profile along.                            *)
LEMMA NoPurging ==
  ASSUME Tidy, NEW p \in cast, At(p, Op(p), pc[p]), Op(p) # "purge" \/ pc[p] # "rows", NEW l
  PROVE  ~Purging(l)
BY Alone DEF Purging, Inside, Immediate, Tidy

LEMMA Tidied ==
  ASSUME EraseFits, Tidy, NEW p \in cast, At(p, Op(p), pc[p]), Op(p) # "purge" \/ pc[p] # "rows",
         NEW l \in Leads
  PROVE  Blank(Owner[l]) \/ (Whole(l) /\ leads[l].who = Owner[l])
BY NoPurging DEF EraseFits, Whole

LEMMA LinkedWho ==
  ASSUME NEW rows, NEW l \in DOMAIN rows, rows[l].who \in Attendees
  PROVE  rows[l].who \in Linked(rows)
BY DEF Linked

LEMMA WriteTypes ==
  ASSUME requests \in [Requests -> Request], NEW d \in Requests, NEW row \in Request,
         row.type = requests[d].type, WriteRequest(d, row)
  PROVE  /\ \A e \in Requests : requests'[e].type = requests[e].type
         /\ \A e \in Requests : e # d => requests'[e] = requests[e]
         /\ requests'[d].status = row.status /\ requests'[d].about = row.about
BY DEF WriteRequest, Request

(* A request keeps its type, and is completed as a deletion only when      *)
(* nothing of its subject is left.                                         *)
LEMMA RequestErasing ==
  ASSUME TypeInv, DataInv, EraseInv, NoNewData, NEW p \in cast, RequestStep(p), Later,
         build' = build, cast' = cast
  PROVE  /\ Erasing(p)'
         /\ \A d \in Requests :
              /\ requests'[d].type = requests[d].type
              /\ requests'[d].status = "completed" /\ requests[d].type = "delete"
                   => requests'[d] = requests[d] \/ Done(d)'
         /\ Tidy => \A l \in Leads : Gone(l)' => Gone(l) \/ Blank(Owner[l])'
<1>0. /\ Fits(p) /\ ProcOk /\ Thread /\ LeadTypes /\ leads \in [Leads -> Lead] /\ LeadKnown(p)
      /\ requests \in [Requests -> Request] /\ Erasing(p)
      /\ \A l \in Leads : Whole(l) \/ Gone(l)
  BY DEF TypeInv, RowTypes, LeadTypes, RequestTypes, DataInv, EraseInv, EraseFits
<1>a. Op(p) \in RequestOps /\ (Op(p) # "dsr-poll" => Row(p) \in Requests)
  BY <1>0, RequestMoves, CastRows
<1>b. UNCHANGED leadVars => \A l \in Leads : Gone(l)' => Gone(l) \/ Blank(Owner[l])'
  BY DEF leadVars, Gone
<1> DEFINE Fine(d) == /\ requests'[d].type = requests[d].type
                      /\ requests'[d].status = "completed" /\ requests[d].type = "delete"
                           => requests'[d] = requests[d] \/ Done(d)'
<1>c. ASSUME NEW row \in Request, row.type = requests[Row(p)].type, WriteRequest(Row(p), row),
             Row(p) \in Requests, row.type = "export" \/ row.status # "completed"
      PROVE  \A d \in Requests : Fine(d)
  BY <1>0, <1>c, WriteTypes
<1>d. requests' = requests => \A d \in Requests : Fine(d)
  OBVIOUS
<1>e. pc'[p] = "done" => Erasing(p)'
  <2>1. Op(p) # "offboard-worker"
    BY <1>a DEF RequestOps
  <2>2. QED
    BY <2>1, ErasingOutside
<1>t. Tidy' <=> Tidy
  BY DEF Tidy, Op
<1>1. CASE LookForActive(p) /\ UNCHANGED leadVars
  <2>1. pc'[p] = "done" /\ requests' = requests
    BY <1>0, <1>1, AtFacts, Going DEF LookForActive, Return, requestVars
  <2>2. QED
    BY <1>1, <1>b, <1>d, <1>e, <2>1
<1>2. CASE FindNoActive(p) /\ UNCHANGED leadVars
  <2>1. Op(p) = "privacy-dsr" /\ requests' = requests
    BY <1>2, AtFacts DEF FindNoActive, requestVars
  <2>2. QED
    BY <1>2, <1>b, <1>d, <2>1, ErasingOthers DEF EventOps
<1>3. CASE (SubmitRequest(p) \/ CreateSessionRequest(p)) /\ UNCHANGED leadVars
  <2>1. pc'[p] = "done" /\ Op(p) # "dsr-poll"
    <3>1. CASE SubmitRequest(p)
      BY <1>0, <3>1, AtFacts, SpawnFacts DEF SubmitRequest
    <3>2. CASE CreateSessionRequest(p)
      BY <1>0, <3>2, AtFacts, Going DEF CreateSessionRequest, Return
    <3>3. QED
      BY <1>3, <3>1, <3>2
  <2>2. \E l : requests' = [requests EXCEPT ![Row(p)].status = "requested", ![Row(p)].about = l]
    <3>1. CASE SubmitRequest(p)
      <4>1. requests[Row(p)] \in Request
        BY <1>0, <1>a, <2>1
      <4>2. requests' = [requests EXCEPT ![Row(p)].status = "requested",
                                         ![Row(p)].about = requests[Row(p)].about]
        BY <1>0, <1>a, <2>1, <3>1, <4>1 DEF SubmitRequest, Request
      <4>3. QED
        BY <4>2
    <3>2. CASE CreateSessionRequest(p)
      BY <3>2 DEF CreateSessionRequest
    <3>3. QED
      BY <1>3, <3>1, <3>2
  <2>3. \A d \in Requests : Fine(d)
    BY <1>0, <1>a, <2>1, <2>2 DEF Request
  <2>4. QED
    BY <1>3, <1>b, <1>e, <2>1, <2>3
<1>4. CASE PollRequests(p) /\ UNCHANGED leadVars
  <2>1. Op(p) = "dsr-poll" /\ requests' = requests
    BY <1>4, AtFacts DEF PollRequests, requestVars
  <2>2. QED
    BY <1>4, <1>b, <1>d, <2>1, ErasingOthers DEF EventOps
<1>5. CASE (FindRequest(p) \/ ReadToComplete(p)) /\ UNCHANGED leadVars
  <2>1. /\ Op(p) \in {"dsr-worker", "complete"} /\ requests' = requests
        /\ \/ pc'[p] = "done"
           \/ /\ pc'[p] \in {"mark", "collect"}
              /\ copy'[p].dsr = requests[Row(p)]
    BY <1>0, <1>5, AtFacts, Going DEF FindRequest, ReadToComplete, Return, requestVars
  <2>2. CASE pc'[p] \in {"mark", "collect"} /\ copy'[p].dsr = requests[Row(p)]
    <3>1. Erasing(p)'
      BY <2>1, <2>2 DEF Erasing, TypeHeld, ErasingSubject, ErasingEvent, PurgedSeen, Op, Row, EventOps
    <3>2. QED
      BY <1>5, <1>b, <1>d, <2>1, <3>1
  <2>3. QED
    BY <1>5, <1>b, <1>d, <1>e, <2>1, <2>2
<1>6. CASE StartProcessing(p) /\ UNCHANGED leadVars
  <2>1. /\ Op(p) = "dsr-worker" /\ pc[p] = "mark" /\ Row(p) \in Requests
        /\ copy[p].dsr \in Request /\ copy[p].dsr.type = requests[Row(p)].type
    BY <1>0, <1>6, <1>a, AtFacts DEF StartProcessing, Fits, Erasing, TypeHeld
  <2>2. [copy[p].dsr EXCEPT !.status = "processing"] \in Request
    BY <2>1 DEF Request
  <2>3. [copy[p].dsr EXCEPT !.status = "processing"].type = copy[p].dsr.type
        /\ [copy[p].dsr EXCEPT !.status = "processing"].status = "processing"
    BY <2>1 DEF Request
  <2>4. \A d \in Requests : Fine(d)
    BY <1>6, <1>c, <2>1, <2>2, <2>3 DEF StartProcessing
  <2>5. \/ pc'[p] = "done"
        \/ /\ copy'[p] = copy[p]
           /\ pc'[p] = "delete" \/ (pc'[p] = "io" /\ copy[p].dsr.type = "export")
    <3>1. CASE copy[p].dsr.type = "export"
      BY <1>0, <1>6, <2>1, <3>1, AtFacts, Going DEF StartProcessing
    <3>2. CASE copy[p].dsr.type = "delete"
      BY <1>0, <1>6, <2>1, <3>2, AtFacts, Going DEF StartProcessing
    <3>3. CASE copy[p].dsr.type \notin {"export", "delete"}
      BY <1>0, <1>6, <2>1, <3>3, AtFacts, Going DEF StartProcessing, Return
    <3>4. QED
      BY <3>1, <3>2, <3>3
  <2>6. requests'[Row(p)].type = requests[Row(p)].type
    BY <2>1, <2>4
  <2>7. Erasing(p)'
    <3>1. CASE pc'[p] # "done"
      BY <2>1, <2>5, <2>6, <3>1 DEF Erasing, TypeHeld, ErasingSubject, ErasingEvent, PurgedSeen, Op, Row, EventOps
    <3>2. QED
      BY <1>e, <3>1
  <2>8. QED
    BY <1>6, <1>b, <2>4, <2>7
<1>7. CASE (FinishExport(p) \/ FinishDelete(p)) /\ UNCHANGED leadVars
  <2>1. /\ Op(p) = "dsr-worker" /\ pc[p] = "io" /\ Row(p) \in Requests
        /\ pc'[p] = "done" \/ (pc'[p] = "report" /\ copy'[p] = copy[p])
        /\ copy[p].dsr \in Request /\ copy[p].dsr.type = requests[Row(p)].type
        /\ copy[p].dsr.type = "delete" => SubjectRows(Row(p)) = {} /\ Blank(Subject[Row(p)])
    BY <1>0, <1>7, <1>a, FinishMoves DEF Fits, Erasing, TypeHeld, ErasingSubject
  <2>2. PICK row \in Request :
          /\ WriteRequest(Row(p), row) /\ row.type = copy[p].dsr.type
          /\ row.type \in {"export", "delete"}
    <3> DEFINE sent == Exported(copy[p].dsr)
               lost == [copy[p].dsr EXCEPT !.status = "failed"]
               gone == [copy[p].dsr EXCEPT !.status = "completed"]
    <3>1. /\ sent \in Request /\ lost \in Request /\ gone \in Request
          /\ sent.type = copy[p].dsr.type /\ lost.type = copy[p].dsr.type /\ gone.type = copy[p].dsr.type
      BY <2>1 DEF Request, Exported
    <3>2. /\ WriteRequest(Row(p), sent) \/ WriteRequest(Row(p), lost) \/ WriteRequest(Row(p), gone)
          /\ copy[p].dsr.type \in {"export", "delete"}
      BY <1>0, <1>7, FinishMoves
    <3> HIDE DEF sent, lost, gone
    <3>3. QED
      BY <3>1, <3>2
  <2>3. \A d \in Requests : Fine(d)
    <3>1. CASE row.type = "export"
      BY <1>c, <2>1, <2>2, <3>1
    <3>2. CASE row.type = "delete"
      <4>1. SubjectRows(Row(p))' = {} /\ Blank(Subject[Row(p)])'
        BY <1>7, <2>1, <2>2, <3>2 DEF leadVars, SubjectRows, Blank, Row
      <4>2. Done(Row(p))'
        BY <4>1 DEF Done, Row, SubjectRows, Blank
      <4>3. QED
        BY <1>0, <2>1, <2>2, <4>2, WriteTypes DEF Row
    <3>3. QED
      BY <2>2, <3>1, <3>2
  <2>4. requests'[Row(p)].type = requests[Row(p)].type
    BY <2>1, <2>3
  <2>5. Erasing(p)'
    <3>1. CASE pc'[p] # "done"
      BY <2>1, <2>4, <3>1 DEF Erasing, TypeHeld, ErasingSubject, ErasingEvent, PurgedSeen, Op, Row, EventOps
    <3>2. QED
      BY <1>e, <3>1
  <2>6. QED
    BY <1>7, <1>b, <2>3, <2>5
<1>8. CASE (Confirm(p) \/ FailRequest(p)) /\ UNCHANGED leadVars
  <2>1. /\ Op(p) = "dsr-worker" /\ Row(p) \in Requests /\ pc'[p] = "done"
        /\ copy[p].dsr \in Request /\ copy[p].dsr.type = requests[Row(p)].type
        /\ requests' = requests \/ WriteRequest(Row(p), [copy[p].dsr EXCEPT !.status = "failed"])
    BY <1>0, <1>8, <1>a, EndMoves DEF Fits, Erasing, TypeHeld
  <2> DEFINE lost == [copy[p].dsr EXCEPT !.status = "failed"]
  <2>2. /\ lost \in Request /\ lost.type = copy[p].dsr.type /\ lost.status = "failed"
        /\ requests' = requests \/ WriteRequest(Row(p), lost)
    BY <2>1 DEF Request
  <2> HIDE DEF lost
  <2>3. \A d \in Requests : Fine(d)
    BY <1>c, <1>d, <2>1, <2>2
  <2>4. QED
    BY <1>8, <1>b, <1>e, <2>1, <2>3
<1>9. CASE (ReadToReject(p) \/ ReadToDownload(p)) /\ UNCHANGED leadVars
  <2>1. /\ Op(p) \in {"reject", "dsr-download"} /\ requests' = requests
        /\ \/ pc'[p] = "done"
           \/ /\ copy'[p] = requests[Row(p)]
              /\ Op(p) = "dsr-download" => requests[Row(p)].type = "export"
    BY <1>0, <1>9, AtFacts, Going DEF ReadToReject, ReadToDownload, Return, requestVars
  <2>2. Erasing(p)'
    <3>1. CASE pc'[p] # "done"
      BY <2>1, <3>1 DEF Erasing, TypeHeld, ErasingSubject, ErasingEvent, PurgedSeen, Op, Row, EventOps
    <3>2. QED
      BY <1>e, <3>1
  <2>3. QED
    BY <1>9, <1>b, <1>d, <2>1, <2>2
<1>10. CASE (Reject(p) \/ HandOut(p)) /\ UNCHANGED leadVars
  <2>1. /\ Op(p) \in {"reject", "dsr-download"} /\ pc[p] = "write" /\ pc'[p] = "done"
        /\ copy[p] \in Request /\ Row(p) \in Requests /\ copy[p].type = requests[Row(p)].type
        /\ Op(p) = "dsr-download" => copy[p].type = "export"
    BY <1>0, <1>10, <1>a, AtFacts, Going DEF Reject, HandOut, Return, Fits, Erasing, TypeHeld
  <2>2. PICK row \in Request :
          /\ WriteRequest(Row(p), row) /\ row.type = copy[p].type
          /\ row.type = "export" \/ row.status # "completed"
    <3> DEFINE no  == [copy[p] EXCEPT !.status = "rejected"]
               yes == [copy[p] EXCEPT !.used = TRUE]
    <3>1. /\ no \in Request /\ yes \in Request /\ no.type = copy[p].type /\ yes.type = copy[p].type
          /\ no.status = "rejected"
      BY <2>1 DEF Request
    <3>2. WriteRequest(Row(p), no) \/ (WriteRequest(Row(p), yes) /\ Op(p) = "dsr-download")
      BY <1>10, AtFacts DEF Reject, HandOut
    <3> HIDE DEF no, yes
    <3>3. QED
      BY <2>1, <3>1, <3>2
  <2>3. \A d \in Requests : Fine(d)
    BY <1>c, <2>1, <2>2
  <2>4. QED
    BY <1>10, <1>b, <1>e, <2>1, <2>3
<1>11. CASE CollectSubject(p) /\ UNCHANGED leadVars
  <2> DEFINE S == Selected(Row(p), copy[p].dsr)
  <2>1. /\ Op(p) = "complete" /\ pc[p] = "collect" /\ Row(p) \in Requests /\ requests' = requests
        /\ At(p, Op(p), pc[p]) /\ copy[p].dsr.type = requests[Row(p)].type
        /\ \/ pc'[p] = "done"
           \/ /\ pc'[p] = "rows" /\ copy'[p].dsr = copy[p].dsr
              /\ copy'[p].rows = Listing(S) /\ copy'[p].todo = S
              /\ copy[p].dsr.type # "access" => S # {}
    BY <1>0, <1>11, <1>a, AtFacts, CollectSubjectFacts DEF CollectSubject, Fits, Erasing, TypeHeld, requestVars
  <2>2. CASE pc'[p] # "done"
    <3>1. S \in SUBSET Leads /\ SubjectRows(Row(p)) \subseteq S
      BY SelectedLeads DEF Selected
    <3> HIDE DEF S
    <3>2. DOMAIN Listing(S) = S /\ \A l \in S : Listing(S)[l].who = leads[l].who
      BY <1>0, <3>1, ListingFacts
    <3>3. Tidy => \A l \in Leads : leads[l].who = Owner[l] \/ Blank(Owner[l])
      BY <1>0, <2>1, Tidied DEF EraseInv, Whole
    <3>4. ASSUME copy[p].dsr.type # "access", Within(Row(p), copy[p].dsr)
          PROVE  \/ Blank(Subject[Row(p)])
                 \/ \E l \in S : leads[l].who = Subject[Row(p)]
      <4>1. CASE copy[p].dsr.about = NoLead
        <5>1. S = SubjectRows(Row(p))
          BY <3>1, <4>1, RequestsAssumption DEF S, Selected, NoLead, Stored
        <5>2. QED
          BY <2>1, <2>2, <3>4, <5>1 DEF SubjectRows
      <4>2. CASE copy[p].dsr.about # NoLead
        <5>1. PICK l \in Leads : Tidy /\ Owner[l] = Subject[Row(p)]
          BY <3>4, <4>2 DEF Within
        <5>2. QED
          BY <3>1, <3>3, <5>1 DEF SubjectRows
      <4>3. QED
        BY <4>1, <4>2
    <3>5. copy'[p].rows = Listing(S) /\ copy'[p].todo = S /\ copy'[p].dsr = copy[p].dsr /\ pc'[p] = "rows"
      BY <2>1, <2>2
    <3>6. SubjectRows(Row(p))' \subseteq copy'[p].todo
      BY <1>11, <3>1, <3>5 DEF SubjectRows, Row, leadVars
    <3>7. Tidy' => AsOwned(copy[p].rows)'
      BY <1>11, <1>t, <3>1, <3>2, <3>3, <3>5 DEF AsOwned, Blank, leadVars
    <3>8. copy'[p].dsr.type # "access" /\ Within(Row(p), copy[p].dsr)' => Reaches(p)'
      BY <1>11, <1>t, <3>2, <3>4, <3>5 DEF Within, Reaches, Blank, Row, leadVars
    <3>9. Erasing(p)'
      BY <2>1, <3>5, <3>6, <3>7, <3>8 DEF Erasing, TypeHeld, ErasingSubject, ErasingEvent, PurgedSeen,
         Op, Row, EventOps
    <3>10. QED
      BY <1>11, <1>b, <1>d, <2>1, <3>9
  <2>3. QED
    BY <1>11, <1>b, <1>d, <1>e, <2>1, <2>2
<1>12. CASE AskCrm(p) /\ UNCHANGED leadVars
  <2>1. /\ Op(p) = "dsr-worker" /\ pc[p] = "rows" /\ requests' = requests
        /\ copy'[p] = copy[p] /\ pc'[p] = "io" /\ copy[p].todo = {}
    BY <1>0, <1>12, AtFacts, Going DEF AskCrm, requestVars
  <2>2. /\ copy[p].dsr.type = requests[Row(p)].type
        /\ SubjectRows(Row(p)) = {} /\ Blank(Subject[Row(p)])
    BY <1>0, <2>1 DEF Erasing, TypeHeld, ErasingSubject
  <2>3. SubjectRows(Row(p))' = {} /\ Blank(Subject[Row(p)])'
    BY <1>12, <2>2 DEF leadVars, SubjectRows, Blank, Row
  <2>4. Erasing(p)'
    BY <2>1, <2>2, <2>3 DEF Erasing, TypeHeld, ErasingSubject, ErasingEvent, PurgedSeen, Op, Row, EventOps
  <2>5. QED
    BY <1>12, <1>b, <1>d, <2>1, <2>4
<1>13. CASE BlankProfile(p)
  <2> DEFINE S == SubjectRows(Row(p))
  <2>1. /\ Op(p) = "dsr-worker" /\ pc[p] = "delete" /\ Row(p) \in Requests
        /\ requests' = requests /\ leads' = leads
        /\ Work(copy[p], "dsr") /\ copy[p].dsr.type = requests[Row(p)].type
    BY <1>0, <1>13, <1>a, AtFacts DEF BlankProfile, Fits, Erasing, TypeHeld, requestVars
  <2>2. profiles'[Subject[Row(p)]] # "kept"
    BY <1>0, <1>13, <2>1, Subjects DEF BlankProfile, LeadTypes
  <2>3. S \in SUBSET Leads /\ \A l \in S : Owner[l] = Subject[Row(p)]
    BY <1>0, <2>1, Subjects DEF SubjectRows, Whole, Gone
  <2>4. /\ copy'[p].rows = Listing(S) /\ copy'[p].todo = S /\ copy'[p].dsr = copy[p].dsr
        /\ pc'[p] = "rows" /\ DOMAIN Listing(S) = S
    <3>1. Collect(p, S)
      BY <1>13 DEF BlankProfile
    <3> HIDE DEF S
    <3>2. QED
      BY <1>0, <2>1, <2>3, <3>1, CollectFacts, ListingFacts
  <2>5. S = SubjectRows(Row(p))'
    BY <2>1 DEF SubjectRows, Row
  <2> HIDE DEF S
  <2>6. Erasing(p)'
    BY <2>1, <2>2, <2>3, <2>4, <2>5 DEF Erasing, TypeHeld, ErasingSubject, ErasingEvent, PurgedSeen, Blank,
       Op, Row, EventOps
  <2>7. QED
    BY <1>d, <2>1, <2>6 DEF Gone
<1>14. CASE AnonymizeRow(p)
  <2>1. /\ Op(p) = "dsr-worker" /\ pc[p] = "rows" /\ Row(p) \in Requests /\ requests' = requests
        /\ Work(copy[p], "dsr") /\ copy[p].dsr.type = requests[Row(p)].type /\ EraseNext(p)
        /\ SubjectRows(Row(p)) \subseteq copy[p].todo /\ Blank(Subject[Row(p)])
        /\ \A l \in DOMAIN copy[p].rows : Owner[l] = Subject[Row(p)]
    BY <1>0, <1>14, <1>a, AtFacts DEF AnonymizeRow, Fits, Erasing, TypeHeld, ErasingSubject, requestVars
  <2>2. /\ profiles' = profiles /\ pc'[p] = "rows" /\ copy'[p].dsr = copy[p].dsr
        /\ copy'[p].rows = copy[p].rows
    BY <1>0, <2>1, EraseFacts
  <2>3. PICK l \in Leads : /\ l \in copy[p].todo /\ copy'[p].todo = copy[p].todo \ {l}
                           /\ leads' = [leads EXCEPT ![l] = Anonymized(copy[p].rows[l], leads[l].release)]
    BY <1>0, <2>1, EraseFacts
  <2>4. l \in DOMAIN copy[p].rows /\ copy[p].rows[l] \in Lead
    BY <2>1, <2>3 DEF Work
  <2>5. leads'[l].who = Nobody /\ \A m \in Leads : m # l => leads'[m] = leads[m]
    BY <1>0, <2>3, <2>4, AnonymizedRow
  <2>6. SubjectRows(Row(p))' \subseteq copy'[p].todo
    BY <2>1, <2>3, <2>5, Subjects DEF SubjectRows, Row
  <2>7. Blank(Subject[Row(p)])'
    BY <2>1, <2>2 DEF Blank, Row
  <2>8. Erasing(p)'
    BY <2>1, <2>2, <2>6, <2>7 DEF Erasing, TypeHeld, ErasingSubject, ErasingEvent, PurgedSeen,
       Op, Row, EventOps
  <2>9. \A m \in Leads : Gone(m)' => Gone(m) \/ Blank(Owner[m])'
    BY <2>1, <2>4, <2>5, <2>7 DEF Gone, Row
  <2>10. QED
    BY <1>d, <2>1, <2>8, <2>9
<1>15. CASE Complete(p)
  <2>1. /\ Op(p) = "complete" /\ pc[p] = "rows" /\ Row(p) \in Requests /\ pc'[p] = "done"
        /\ Work(copy[p], "dsr") /\ copy[p].dsr \in Request /\ copy[p].dsr.type = requests[Row(p)].type
        /\ SubjectRows(Row(p)) \subseteq copy[p].todo /\ ErasingSubject(p)
    BY <1>0, <1>15, <1>a, AtFacts, Going DEF Complete, Return, Fits, Erasing, TypeHeld, ErasingSubject
  <2> DEFINE row == [copy[p].dsr EXCEPT !.status = "completed"]
  <2>2. /\ row \in Request /\ row.type = copy[p].dsr.type /\ row.about = copy[p].dsr.about
        /\ WriteRequest(Row(p), row)
    BY <1>15, <2>1 DEF Request, Complete
  <2> HIDE DEF row
  <2>3. /\ \A d \in Requests : requests'[d].type = requests[d].type
        /\ \A d \in Requests : d # Row(p) => requests'[d] = requests[d]
        /\ requests'[Row(p)].about = copy[p].dsr.about
    BY <1>0, <2>1, <2>2, WriteTypes
  <2>4. CASE copy[p].dsr.type = "access"
    <3>1. UNCHANGED leadVars
      BY <1>15, <2>4 DEF Complete
    <3>2. \A d \in Requests : Fine(d)
      BY <2>1, <2>3, <2>4
    <3>3. QED
      BY <1>b, <1>e, <2>1, <3>1, <3>2
  <2>5. CASE copy[p].dsr.type # "access"
    <3>1. /\ leads' = [l \in Leads |-> IF l \in copy[p].todo THEN Anonymized(copy[p].rows[l], FALSE)
                                       ELSE leads[l]]
          /\ \A a \in Attendees : a \in Linked(copy[p].rows) \ Shared => profiles'[a] = "nulled"
      BY <1>15, <2>5 DEF Complete
    <3>2. \A l \in copy[p].todo : l \in DOMAIN copy[p].rows /\ copy[p].rows[l] \in Lead
      BY <2>1 DEF Work
    <3>3. \A l \in Leads : IF l \in copy[p].todo THEN leads'[l].who = Nobody ELSE leads'[l] = leads[l]
      BY <3>1, <3>2, AnonymizedRow
    <3>4. SubjectRows(Row(p))' = {}
      BY <2>1, <3>3, Subjects DEF SubjectRows, Row
    <3>5. \A a \in Attendees : a \in Linked(copy[p].rows) \/ Blank(a) => Blank(a)'
      BY <3>1 DEF Blank, Later
    <3>6. Within(Row(p), copy[p].dsr) => Blank(Subject[Row(p)])'
      <4>1. ASSUME NEW l \in DOMAIN copy[p].rows, copy[p].rows[l].who = Subject[Row(p)]
            PROVE  Subject[Row(p)] \in Linked(copy[p].rows)
        <5>1. copy[p].rows[l].who \in Attendees
          BY <2>1, <4>1, Subjects
        <5>2. QED
          BY <4>1, <5>1, LinkedWho
      <4>2. QED
        BY <2>1, <2>5, <3>5, <4>1, Subjects DEF ErasingSubject, Reaches
    <3>7. Done(Row(p))'
      BY <1>t, <2>3, <3>4, <3>6 DEF Done, Within, Row, SubjectRows, Blank
    <3>8. \A d \in Requests : Fine(d)
      BY <2>3, <3>7 DEF Row
    <3>9. ASSUME Tidy, NEW m \in Leads, Gone(m)' PROVE Gone(m) \/ Blank(Owner[m])'
      <4>1. CASE m \notin copy[p].todo
        BY <3>3, <3>9, <4>1 DEF Gone
      <4>2. CASE m \in DOMAIN copy[p].rows /\ copy[p].rows[m].who = Owner[m]
        BY <3>5, <4>2, LinkedWho, Ownership
      <4>3. CASE Blank(Owner[m])
        BY <3>5, <4>3, Ownership
      <4>4. QED
        BY <2>1, <3>2, <3>9, <4>1, <4>2, <4>3 DEF ErasingSubject, AsOwned
    <3>10. QED
      BY <1>e, <2>1, <3>8, <3>9
  <2>6. QED
    BY <2>4, <2>5
<1>16. QED
  BY <1>1, <1>2, <1>3, <1>4, <1>5, <1>6, <1>7, <1>8, <1>9, <1>10, <1>11, <1>12, <1>13, <1>14, <1>15
  DEF RequestStep


LEMMA WriteRetention ==
  ASSUME event \in Event, NEW row \in Event, WriteEvent(row)
  PROVE  event'.retention \in {row.retention, event.retention}
BY DEF WriteEvent, Event

(* A purge that has taken its last row off the list finds every            *)
(* interaction gone and blanks the profiles that it has listed.            *)
LEMMA RetentionErasing ==
  ASSUME TypeInv, DataInv, EraseInv, NoNewData, NEW p \in cast, RetentionStep(p), Later,
         AllGone => AllGone', build' = build, cast' = cast
  PROVE  /\ Erasing(p)'
         /\ Tidy => \A l \in Leads : Gone(l)' =>
              \/ Gone(l) \/ Blank(Owner[l])'
              \/ Op(p) = "purge" /\ pc'[p] = "rows" /\ copy'[p].rows[l].who = Owner[l]
         /\ build = "memory" /\ Op(p) = "purge" /\ pc[p] = "rows" =>
              \A l \in Leads : copy[p].rows[l].who = Owner[l] =>
                Blank(Owner[l])' \/ (pc'[p] = "rows" /\ copy'[p].rows = copy[p].rows)
         /\ event'.retention = "purged" => event.retention = "purged" \/ AllGone'
<1>0. /\ Fits(p) /\ ProcOk /\ Thread /\ LeadTypes /\ leads \in [Leads -> Lead] /\ LeadKnown(p)
      /\ event \in Event /\ Erasing(p) /\ EraseFits
      /\ \A l \in Leads : Whole(l) \/ Gone(l)
  BY DEF TypeInv, RowTypes, LeadTypes, EventTypes, DataInv, EraseInv, EraseFits
<1>a. UNCHANGED leadVars => \A l \in Leads : Gone(l)' => Gone(l)
  BY DEF leadVars, Gone
<1>b. ASSUME NEW row \in Event, NEW r \in RetentionStates, r # "purged",
             WriteEvent([row EXCEPT !.retention = r])
      PROVE  event'.retention = "purged" => event.retention = "purged"
  BY <1>b, <1>0, WriteRetention DEF Event
<1>c. pc'[p] \in {"start", "done"} => Erasing(p)'
  <2>1. Op(p) \in RetentionOps
    BY <1>0, RetentionMoves
  <2>2. Op(p) # "offboard-worker"
    BY <2>1 DEF RetentionOps
  <2>3. QED
    BY <2>2, ErasingOutside
<1>d. \A l \in Leads : l \in Stored
  BY <1>0 DEF Whole, Gone, Stored
<1>e. ASSUME Tidy, At(p, Op(p), pc[p]), Op(p) # "purge" \/ pc[p] # "rows",
             NEW l \in Leads
      PROVE  leads[l].who = Owner[l] \/ Blank(Owner[l])
  BY <1>0, <1>e, Tidied
<1>t. (Tidy' <=> Tidy) /\ (build = "memory" => Tidy) /\ (Op(p) = "purge" /\ Tidy => build = "memory")
  BY DEF Tidy, Op
<1>1. CASE ListEvent(p) \/ MarkPurging(p)
  <2>1. /\ Op(p) \in {"purge", "countdown"} /\ pc[p] # "rows" /\ pc'[p] \in {"listed", "collect"}
    BY <1>0, <1>1, AtFacts, Going DEF ListEvent, MarkPurging
  <2>2. Erasing(p)'
    BY <2>1 DEF Erasing, TypeHeld, ErasingSubject, ErasingEvent, PurgedSeen, Op, EventOps
  <2>3. event'.retention = "purged" => event.retention = "purged"
    <3>1. CASE ListEvent(p)
      BY <3>1 DEF ListEvent, eventVars
    <3>2. CASE MarkPurging(p)
      <4>1. copy[p].event \in Event
        BY <1>0, <3>2, AtFacts DEF MarkPurging, Fits
      <4>2. QED
        BY <1>b, <3>2, <4>1 DEF MarkPurging, RetentionStates
    <3>3. QED
      BY <1>1, <3>1, <3>2
  <2>4. QED
    BY <1>1, <1>a, <2>1, <2>2, <2>3 DEF ListEvent, MarkPurging
<1>2. CASE SkipEvent(p) \/ CountDown(p)
  <2>1. Op(p) \in {"purge", "countdown"} /\ pc[p] = "listed" /\ pc'[p] \in {"start", "done"}
    BY <1>0, <1>2, AtFacts, RoundMoves DEF SkipEvent, CountDown
  <2>2. event'.retention = "purged" => event.retention = "purged"
    <3>1. CASE SkipEvent(p)
      BY <3>1 DEF SkipEvent, eventVars
    <3>2. CASE CountDown(p)
      <4>1. copy[p].event \in Event
        BY <1>0, <2>1 DEF Fits
      <4>2. PICK r \in RetentionStates :
              r # "purged" /\ WriteEvent([copy[p].event EXCEPT !.retention = r])
        BY <3>2 DEF CountDown, RetentionStates
      <4>3. QED
        BY <1>b, <4>1, <4>2
    <3>3. QED
      BY <1>2, <3>1, <3>2
  <2>3. QED
    BY <1>2, <1>a, <1>c, <2>1, <2>2 DEF SkipEvent, CountDown
<1>3. CASE ListRows(p)
  <2> DEFINE L == Listing(Stored)
             T == {l \in Stored : leads[l].status # "anonymized"}
  <2>1. /\ Op(p) = "purge" /\ pc[p] = "collect" /\ pc'[p] = "rows" /\ At(p, Op(p), pc[p])
        /\ copy'[p] = [copy[p] EXCEPT !.rows = L, !.todo = T]
        /\ Work(copy[p], "event") /\ UNCHANGED leadVars /\ UNCHANGED eventVars
        /\ build' = build
    BY <1>0, <1>3, AtFacts, Going DEF ListRows, Fits, Moves
  <2>2. \A l \in Leads : l \in DOMAIN L /\ L[l].who = leads[l].who
    BY <1>0, <1>d, ListingFacts, StoredLeads
  <2>3. \A l \in Leads : Gone(l) \/ l \in T
    BY <1>0, <1>d DEF Whole
  <2> HIDE DEF L, T
  <2>4. copy'[p].rows = L /\ copy'[p].todo = T
    BY <2>1 DEF Work
  <2>5. \A l \in Leads : Gone(l)' \/ l \in copy'[p].todo
    BY <2>3, <2>4 DEF Later
  <2>6. DOMAIN copy'[p].rows \subseteq Leads
    BY <2>4, <1>0, ListingFacts, StoredLeads DEF L
  <2>7. build' = "memory" => Leads \subseteq DOMAIN copy'[p].rows /\ AsOwned(copy[p].rows)'
    BY <1>e, <1>t, <2>1, <2>2, <2>4, <2>6 DEF AsOwned, Blank, leadVars
  <2>9. Erasing(p)'
    BY <2>1, <2>5, <2>7 DEF Erasing, TypeHeld, ErasingSubject, ErasingEvent, PurgedSeen, Op, EventOps
  <2>8. QED
    BY <1>a, <2>1, <2>9 DEF eventVars
<1>4. CASE PurgeRow(p)
  <2>1. /\ Op(p) = "purge" /\ pc[p] = "rows" /\ Work(copy[p], "event") /\ EraseNext(p)
        /\ UNCHANGED eventVars /\ ErasingEvent(p)
    BY <1>0, <1>4, AtFacts DEF PurgeRow, Fits, Erasing
  <2>2. /\ profiles' = profiles /\ pc'[p] = "rows" /\ copy'[p].rows = copy[p].rows /\ build' = build
    <3>1. \E l, c : Go(p, l, c)
      BY <2>1 DEF EraseNext
    <3>2. QED
      BY <1>0, <2>1, <3>1, EraseFacts, GoFacts
  <2>3. PICK l \in Leads : /\ l \in copy[p].todo /\ copy'[p].todo = copy[p].todo \ {l}
                           /\ leads' = [leads EXCEPT ![l] = Anonymized(copy[p].rows[l], leads[l].release)]
    BY <1>0, <2>1, EraseFacts
  <2>4. l \in DOMAIN copy[p].rows /\ copy[p].rows[l] \in Lead
    BY <2>1, <2>3 DEF Work
  <2>5. Gone(l)' /\ \A m \in Leads : m # l => leads'[m] = leads[m]
    BY <1>0, <2>3, <2>4, AnonymizedRow DEF Gone
  <2>6. \A m \in Leads : Gone(m)' \/ m \in copy'[p].todo
    BY <2>1, <2>3, <2>5 DEF ErasingEvent, Later
  <2>7. build = "memory" => Leads \subseteq DOMAIN copy[p].rows /\ AsOwned(copy[p].rows)
    BY <2>1 DEF ErasingEvent
  <2>8. \A m \in Leads : Blank(Owner[m]) => Blank(Owner[m])'
    BY Ownership DEF Later
  <2>a. build' = "memory" => Leads \subseteq DOMAIN copy'[p].rows /\ AsOwned(copy[p].rows)'
    <3>1. DOMAIN copy[p].rows \subseteq Leads
      BY <2>1 DEF Work
    <3>2. QED
      BY <2>2, <2>7, <2>8, <3>1 DEF AsOwned
  <2>9. Erasing(p)'
    BY <2>1, <2>2, <2>6, <2>a DEF Erasing, TypeHeld, ErasingSubject, ErasingEvent, PurgedSeen,
       Op, EventOps
  <2>10. QED
    BY <1>t, <2>1, <2>2, <2>7, <2>8, <2>9 DEF eventVars, AsOwned
<1>5. CASE FinishPurge(p)
  <2>1. /\ Op(p) = "purge" /\ pc[p] = "rows" /\ pc'[p] \in {"start", "done"} /\ copy[p].todo = {}
        /\ copy[p].event \in Event /\ ErasingEvent(p)
        /\ WriteEvent([copy[p].event EXCEPT !.retention = "purged"]) /\ leads' = leads
    BY <1>0, <1>5, AtFacts, RoundMoves DEF FinishPurge, Fits, Erasing
  <2>2. \A a \in Attendees : a \in Linked(copy[p].rows) => profiles'[a] = "nulled"
    BY <1>5 DEF FinishPurge
  <2>3. \A l \in Leads : Gone(l)
    BY <2>1 DEF ErasingEvent
  <2>4. ASSUME build = "memory", NEW l \in Leads PROVE Blank(Owner[l])'
    <3>1. CASE copy[p].rows[l].who = Owner[l]
      <4>1. Owner[l] \in Linked(copy[p].rows)
        BY <2>1, <2>4, <3>1, LinkedWho, Ownership DEF ErasingEvent
      <4>2. QED
        BY <2>2, <4>1, Ownership DEF Blank
    <3>2. CASE Blank(Owner[l])
      BY <3>2, Ownership DEF Later
    <3>3. QED
      BY <2>1, <2>4, <3>1, <3>2 DEF ErasingEvent, AsOwned
  <2>5. build = "memory" => AllGone'
    BY <2>3, <2>4 DEF AllGone, Later
  <2>6. build # "memory" => event'.retention = event.retention
    BY <1>0, <2>1 DEF WriteEvent, Event
  <2>7. QED
    BY <1>c, <2>1, <2>3, <2>4, <2>5, <2>6
<1>6. CASE FailPurge(p)
  <2>1. /\ Op(p) = "purge" /\ pc'[p] \in {"start", "done"} /\ copy[p].event \in Event
        /\ build = "postgres" /\ WriteEvent([copy[p].event EXCEPT !.retention = "purge_failed"])
    BY <1>0, <1>6, AtFacts, RoundMoves DEF FailPurge, Fits
  <2>2. event'.retention = "purged" => event.retention = "purged"
    BY <1>b, <2>1 DEF RetentionStates
  <2>3. \A l \in Leads : Gone(l)' => Gone(l)
    BY <1>6, <1>a DEF FailPurge
  <2>4. Tidy => FALSE
    BY <1>t, <2>1
  <2>5. QED
    BY <1>c, <2>1, <2>2, <2>3, <2>4
<1>7. CASE ReadToForce(p)
  <2>1. Op(p) = "force-purge"
    BY <1>7, AtFacts DEF ReadToForce
  <2>2. QED
    BY <1>7, <1>a, <2>1, ErasingOthers DEF ReadToForce, EventOps, eventVars
<1>8. CASE ForcePurge(p)
  <2>1. /\ Op(p) = "force-purge" /\ copy[p] \in Event
        /\ WriteEvent([copy[p] EXCEPT !.retention = "purging"])
    BY <1>0, <1>8, AtFacts DEF ForcePurge, Fits
  <2>2. event'.retention = "purged" => event.retention = "purged"
    BY <1>b, <2>1 DEF RetentionStates
  <2>3. QED
    BY <1>8, <1>a, <2>1, <2>2, ErasingOthers DEF ForcePurge, EventOps
<1>9. CASE ReadToRetire(p)
  <2>1. /\ Op(p) = "retention-run" /\ UNCHANGED eventVars /\ UNCHANGED leadVars
        /\ \/ pc'[p] = "done"
           \/ pc'[p] = "collect" /\ copy'[p] = [event |-> event, rows |-> <<>>, expiring |-> {}]
    BY <1>0, <1>9, AtFacts, Going DEF ReadToRetire, Return
  <2>2. Erasing(p)'
    <3>1. CASE pc'[p] # "done"
      <4>1. copy'[p].event.retention = "purged" => AllGone'
        BY <1>0, <2>1, <3>1 DEF EraseFits
      <4>2. QED
        BY <2>1, <3>1, <4>1 DEF Erasing, TypeHeld, ErasingSubject, ErasingEvent, PurgedSeen, Op, EventOps
    <3>2. QED
      BY <1>c, <3>1
  <2>3. QED
    BY <1>a, <2>1, <2>2 DEF eventVars
<1>10. CASE CollectTargets(p)
  <2> DEFINE L == Listing(Stored)
             X == Expiring
  <2>1. /\ Op(p) = "retention-run" /\ pc[p] = "collect" /\ pc'[p] = "commit" /\ At(p, Op(p), pc[p])
        /\ copy'[p] = [copy[p] EXCEPT !.rows = L, !.expiring = X] /\ build' = build
        /\ Run(copy[p]) /\ UNCHANGED leadVars /\ UNCHANGED eventVars /\ PurgedSeen(p)
    BY <1>0, <1>10, AtFacts, Going DEF CollectTargets, Fits, Moves, Erasing
  <2>2. \A l \in Leads : L[l].who = leads[l].who
    BY <1>0, <1>d, ListingFacts, StoredLeads
  <2>3. DOMAIN L \subseteq Leads
    BY <1>0, ListingFacts, StoredLeads
  <2> HIDE DEF L, X
  <2>4. copy'[p].rows = L /\ copy'[p].event = copy[p].event
    BY <2>1 DEF Run
  <2>5. Tidy' => AsOwned(copy[p].rows)'
    BY <1>e, <1>t, <2>1, <2>2, <2>3, <2>4 DEF AsOwned, Blank, leadVars
  <2>6. copy'[p].event.retention = "purged" => AllGone'
    BY <2>1, <2>4 DEF PurgedSeen
  <2>7. Erasing(p)'
    BY <2>1, <2>5, <2>6 DEF Erasing, TypeHeld, ErasingSubject, ErasingEvent, PurgedSeen, Op, EventOps
  <2>8. QED
    BY <1>a, <2>1, <2>7 DEF eventVars
<1>11. CASE Retire(p)
  <2>1. /\ Op(p) = "retention-run" /\ pc[p] = "commit" /\ pc'[p] = "done"
        /\ Run(copy[p]) /\ ErasingEvent(p) /\ PurgedSeen(p)
    BY <1>0, <1>11, AtFacts, Going DEF Retire, Return, Fits, Erasing
  <2>2. \A a \in Attendees : a \in Linked(copy[p].rows) \ Shared => profiles'[a] = "nulled"
    BY <1>11 DEF Retire
  <2>3. \A l \in Leads : l \notin DOMAIN copy[p].rows => leads'[l] = leads[l]
    BY <1>11 DEF Retire
  <2>4. ASSUME Tidy, NEW l \in Leads, Gone(l)' PROVE Gone(l) \/ Blank(Owner[l])'
    <3>1. CASE l \notin DOMAIN copy[p].rows
      BY <2>3, <2>4, <3>1 DEF Gone
    <3>2. CASE l \in DOMAIN copy[p].rows /\ copy[p].rows[l].who = Owner[l]
      <4>1. Owner[l] \in Linked(copy[p].rows)
        BY <3>2, LinkedWho, Ownership
      <4>2. QED
        BY <2>2, <4>1, Ownership DEF Blank
    <3>3. CASE Blank(Owner[l])
      BY <3>3, Ownership DEF Later
    <3>4. QED
      BY <2>1, <2>4, <3>1, <3>2, <3>3 DEF ErasingEvent, AsOwned
  <2>5. event' = event \/ (build = "memory" /\ event' = [copy[p].event EXCEPT !.status = "archived"])
        \/ event'.retention = event.retention
    BY <1>0, <1>11, <2>1 DEF Retire, WriteEvent, Run, Event
  <2>6. event'.retention = "purged" => event.retention = "purged" \/ AllGone'
    BY <2>1, <2>5 DEF PurgedSeen, Run, Event
  <2>7. QED
    BY <1>c, <2>1, <2>4, <2>6
<1>12. QED
  BY <1>1, <1>2, <1>3, <1>4, <1>5, <1>6, <1>7, <1>8, <1>9, <1>10, <1>11 DEF RetentionStep

LEMMA EventErasing ==
  ASSUME TypeInv, EraseInv, NoNewData, NEW p \in cast, EventStep(p), AllGone => AllGone'
  PROVE  /\ Erasing(p)'
         /\ event'.retention = "purged" => event.retention = "purged" \/ AllGone'
<1>0. /\ Fits(p) /\ ProcOk /\ Thread /\ event \in Event /\ Erasing(p) /\ EraseFits
      /\ Op(p) \in EventOps
  BY EventMoves DEF TypeInv, RowTypes, EventTypes, EraseInv, EraseFits
<1>a. pc'[p] = "done" => Erasing(p)'
  BY <1>0, ErasingOutside DEF EventOps
<1>1. CASE ReadEvent(p)
  <2>1. copy'[p] = event /\ UNCHANGED eventVars
    BY <1>0, <1>1, AtFacts, Going DEF ReadEvent
  <2>2. copy'[p].retention = "purged" => AllGone'
    BY <1>0, <2>1 DEF EraseFits
  <2>3. QED
    BY <1>0, <2>1, <2>2 DEF Erasing, TypeHeld, ErasingSubject, ErasingEvent, PurgedSeen, Op, EventOps, eventVars
<1>2. CASE RefuseEvent(p)
  <2>1. pc'[p] = "done" /\ UNCHANGED eventVars
    BY <1>0, <1>2, AtFacts, Going DEF RefuseEvent, Return
  <2>2. QED
    BY <1>a, <2>1 DEF eventVars
<1>3. CASE ~ReadEvent(p) /\ ~RefuseEvent(p)
  <2>1. pc[p] = "write" /\ pc'[p] = "done"
    BY <1>0, <1>3, AtFacts, Going DEF EventStep, PatchEvent, PublishEvent, GoLive, CloseEvent,
       ArchiveEvent, FreezeReport, Return
  <2>2. copy[p] \in Event /\ (copy[p].retention = "purged" => AllGone)
    BY <1>0, <2>1 DEF Fits, Erasing, PurgedSeen
  <2>3. event'.retention \in {copy[p].retention, event.retention}
    <3>1. \A s \in {"published", "live", "closed", "archived"} :
            /\ [copy[p] EXCEPT !.status = s] \in Event
            /\ [copy[p] EXCEPT !.status = s].retention = copy[p].retention
      BY <2>2, StatusSet DEF Event
    <3>2. CASE FreezeReport(p)
      <4> DEFINE next == copy[p].version + 1
      <4>1. next \in 1 .. MaxVersion /\ WriteEvent([copy[p] EXCEPT !.status = "closed", !.version = next])
        BY <2>2, <3>2, VersionAssumption DEF FreezeReport, Event
      <4> HIDE DEF next
      <4>2. [copy[p] EXCEPT !.status = "closed", !.version = next] \in Event
            /\ [copy[p] EXCEPT !.status = "closed", !.version = next].retention = copy[p].retention
        BY <2>2, <4>1, StatusSet DEF Event
      <4>3. QED
        BY <1>0, <4>1, <4>2, WriteRetention
    <3>3. CASE ~FreezeReport(p)
      <4>1. \E row \in Event : WriteEvent(row) /\ row.retention = copy[p].retention
        BY <1>3, <2>2, <3>1, <3>3 DEF EventStep, PatchEvent, PublishEvent, GoLive, CloseEvent, ArchiveEvent
      <4>2. QED
        BY <1>0, <4>1, WriteRetention
    <3>4. QED
      BY <3>2, <3>3
  <2>4. QED
    BY <1>a, <2>1, <2>2, <2>3
<1>4. QED
  BY <1>1, <1>2, <1>3


(* Over Postgres an offboarding goes no further than its job.              *)
LEMMA NoOffboarding ==
  ASSUME TypeInv, NEW p \in cast, OffboardingStep(p), PurgedSeen(p), build = "postgres"
  PROVE  /\ Op(p) \in {"offboard", "approve-offboard"} /\ Moves(p, {})
         /\ UNCHANGED <<leadVars, eventVars, tenant, alarm>>
<1>0. ProcOk /\ Thread
  BY DEF TypeInv
<1>1. CASE Initiate(p)
  BY <1>0, <1>1, AtFacts, Going DEF Initiate, Return
<1>2. CASE Approve(p)
  <2>1. Return(p)
    BY <1>2 DEF Approve
  <2>2. QED
    BY <1>0, <1>2, <2>1, AtFacts, Going DEF Approve, Return
<1>3. CASE ~Initiate(p) /\ ~Approve(p)
  <2>1. Op(p) = "offboard-worker" /\ pc[p] \in {"start", "io"}
    BY <1>3, AtFacts DEF OffboardingStep, AwaitExport, ScheduleDeletion, DeleteData, IssueCertificate,
       FailCertificate
  <2>2. QED
    BY <2>1 DEF PurgedSeen
<1>4. QED
  BY <1>1, <1>2, <1>3

LEMMA JobErasing ==
  ASSUME TypeInv, DataInv, EraseInv, NoNewData, NEW p \in cast, OffboardingStep(p), Later,
         AllGone => AllGone'
  PROVE  /\ Erasing(p)'
         /\ \A l \in Leads : Gone(l)' => Gone(l) \/ Blank(Owner[l])'
         /\ build = "postgres" => UNCHANGED alarm /\ \A q \in cast \ {p} : Kept(q)
         /\ event'.retention = "purged" \/ tenant' = "deleted"
              => event.retention = "purged" \/ tenant = "deleted" \/ AllGone'
<1>0. /\ Fits(p) /\ ProcOk /\ Thread /\ LeadTypes /\ leads \in [Leads -> Lead]
      /\ event \in Event /\ Erasing(p) /\ EraseFits /\ Op(p) \in JobOps
      /\ \A l \in Leads : Whole(l) \/ Gone(l)
  BY JobMoves DEF TypeInv, RowTypes, LeadTypes, EventTypes, EraseInv, EraseFits
<1>a. build \in {"memory", "postgres"} /\ build' = build
  <2>1. build' = build
    BY <1>0, JobMoves DEF Moves
  <2>2. QED
    BY <1>0, <2>1, BuildsAssumption DEF ProcOk
<1>b. build = "postgres" =>
        /\ UNCHANGED <<leadVars, eventVars, tenant, alarm>> /\ \A q \in cast \ {p} : Kept(q)
        /\ Op(p) \in {"offboard", "approve-offboard"}
  BY <1>0, NoOffboarding DEF Erasing, Moves
<1>1. CASE build = "postgres"
  <2>1. Erasing(p)'
    BY <1>1, <1>b, ErasingOthers DEF EventOps
  <2>2. QED
    BY <1>1, <1>b, <2>1 DEF eventVars, leadVars, Gone
<1>2. CASE build = "memory" /\ DeleteData(p)
  <2>1. /\ Op(p) = "offboard-worker" /\ pc[p] = "start" /\ pc'[p] = "io" /\ At(p, Op(p), pc[p])
        /\ leads' = [l \in Leads |-> IF l \in Stored /\ leads[l].status # "anonymized"
                                     THEN Anonymized(leads[l], leads[l].release) ELSE leads[l]]
        /\ \A a \in Attendees : a \in Linked(Listing(Stored)) => profiles'[a] = "nulled"
    BY <1>0, <1>2, AtFacts, Going DEF DeleteData
  <2>2. ASSUME NEW l \in Leads PROVE Gone(l)' /\ Blank(Owner[l])'
    <3>1. CASE Gone(l)
      <4>1. Blank(Owner[l])
        BY <1>0, <1>2, <2>1, <3>1, NoPurging DEF EraseFits, Tidy
      <4>2. QED
        BY <3>1, <4>1, Ownership DEF Later
    <3>2. CASE Whole(l)
      <4>1. l \in Stored /\ leads[l].status # "anonymized" /\ leads[l] \in Lead
        BY <1>0, <3>2 DEF Whole, Stored
      <4>2. Gone(l)'
        BY <2>1, <4>1, AnonymizedRow DEF Gone
      <4>3. l \in DOMAIN Listing(Stored) /\ Listing(Stored)[l].who = Owner[l]
        BY <1>0, <3>2, <4>1, ListingFacts, StoredLeads DEF Whole
      <4>4. Owner[l] \in Linked(Listing(Stored))
        <5> DEFINE rows == Listing(Stored)
        <5>1. l \in DOMAIN rows /\ rows[l].who = Owner[l]
          BY <4>3
        <5> HIDE DEF rows
        <5>2. Owner[l] \in Linked(rows)
          BY <5>1, LinkedWho, Ownership
        <5>3. QED
          BY <5>2 DEF rows
      <4>5. QED
        BY <2>1, <4>2, <4>4, Ownership DEF Blank
    <3>3. QED
      BY <1>0, <3>1, <3>2
  <2>3. AllGone'
    BY <2>2 DEF AllGone
  <2>4. Erasing(p)'
    BY <1>2, <1>a, <2>1, <2>3 DEF Erasing, TypeHeld, ErasingSubject, ErasingEvent, PurgedSeen, Op, EventOps
  <2>5. QED
    BY <1>2, <2>2, <2>3, <2>4
<1>3. CASE build = "memory" /\ ~DeleteData(p)
  <2>1. UNCHANGED leadVars /\ UNCHANGED eventVars
    BY <1>3 DEF OffboardingStep, Initiate, Approve, AwaitExport, ScheduleDeletion,
       IssueCertificate, FailCertificate
  <2>2. pc'[p] = "done"
    <3>1. CASE Approve(p)
      BY <1>0, <3>1, AtFacts, Going, SpawnFacts DEF Approve, Return
    <3>2. CASE ~Approve(p)
      BY <1>0, <1>3, <3>2, AtFacts, Going DEF OffboardingStep, Initiate, AwaitExport, ScheduleDeletion,
         IssueCertificate, FailCertificate, Return
    <3>3. QED
      BY <3>1, <3>2
  <2>3. Erasing(p)'
    BY <1>3, <1>a, <2>2, ErasingOutside
  <2>4. tenant' = "deleted" => tenant = "deleted" \/ AllGone'
    <3>1. CASE IssueCertificate(p)
      BY <1>0, <3>1, AtFacts DEF IssueCertificate, Erasing, PurgedSeen
    <3>2. CASE ~IssueCertificate(p)
      BY <1>3, <3>2 DEF OffboardingStep, Initiate, Approve, AwaitExport, ScheduleDeletion, FailCertificate
    <3>3. QED
      BY <3>1, <3>2
  <2>5. QED
    BY <1>3, <2>1, <2>3, <2>4 DEF leadVars, eventVars, Gone
<1>4. QED
  BY <1>1, <1>2, <1>3, <1>a

LEMMA EraseInit == Init => EraseInv
<1> SUFFICES ASSUME Init, NoNewData PROVE EraseFits
  BY DEF EraseInv
<1>1. /\ ProcOk /\ \A p \in cast : /\ pc[p] \in {"asleep", "start"}
                                   /\ pc[p] = "asleep" <=> Op(p) \in Workers
  BY ProcStart DEF Init
<1>2. \A l \in Leads : Whole(l)
  BY DEF Init, LeadInit, NoNewData, Consented, Whole
<1>3. \A p \in cast : Erasing(p)
  BY <1>1 DEF Erasing, TypeHeld, ErasingSubject, ErasingEvent, PurgedSeen, Workers
<1>4. \A d \in Requests : Settled(d)
  BY DEF Init, RequestInit, Settled
<1>5. event.retention = "active" /\ tenant = "active" /\ \A j \in Jobs : alarm[j] = Never
  BY DEF Init, EventInit, OffboardingInit
<1>6. \A l \in Leads : ~Gone(l)
  BY <1>2, Ownership DEF Whole, Gone
<1>7. QED
  BY <1>2, <1>3, <1>4, <1>5, <1>6 DEF EraseFits

LEMMA EraseStep == TypeInv /\ DataInv /\ EraseInv /\ [Next]_vars => EraseInv'
<1> SUFFICES ASSUME TypeInv, DataInv, EraseInv, [Next]_vars, NoNewData' PROVE EraseFits'
  BY DEF EraseInv
<1>0. /\ build' = build /\ cast' = cast /\ NoNewData /\ EraseFits
      /\ ProcOk /\ Thread /\ event \in Event
      /\ \A p \in cast : Erasing(p) /\ Fits(p)
      /\ build \in {"memory", "postgres"} /\ (Tidy' <=> Tidy)
  <2>1. build' = build /\ cast' = cast
    BY Frame
  <2>2. NoNewData /\ (Tidy' <=> Tidy)
    BY <2>1 DEF NoNewData, Untangled, Tidy, Op
  <2>3. QED
    BY <2>1, <2>2, BuildsAssumption DEF EraseInv, EraseFits, TypeInv, RowTypes, EventTypes, ProcOk
<1>a. ASSUME UNCHANGED <<leadVars, requestVars, eventVars, tenant>>,
             build = "postgres" => \A j \in Jobs : alarm'[j] = Never,
             \A q \in cast : \/ Kept(q)
                             \/ /\ pc'[q] \in {"asleep", "start", "done"}
                                /\ Op(q) = "offboard-worker" /\ pc'[q] # "asleep" => build = "memory"
                                /\ build = "memory" => Woken(q)
      PROVE  EraseFits'
  <2>1. Later /\ (AllGone => AllGone')
    BY <1>0, <1>a DEF Later, EraseFits, Whole, Gone, Blank, SubjectRows, AllGone, leadVars
  <2>2. ASSUME NEW q \in cast PROVE Erasing(q)'
    <3>1. CASE Kept(q)
      BY <1>0, <1>a, <2>1, <3>1, ErasingKept DEF requestVars
    <3>2. CASE ~Kept(q)
      BY <1>0, <1>a, <3>2, ErasingOutside
    <3>3. QED
      BY <3>1, <3>2
  <2>3. ASSUME Tidy, NEW l \in Leads, Purging(l) PROVE Purging(l)'
    <3>1. PICK q \in cast : Op(q) = "purge" /\ pc[q] = "rows" /\ copy[q].rows[l].who = Owner[l]
      BY <2>3 DEF Purging
    <3>2. Kept(q)
      BY <1>a, <2>3, <3>1 DEF Woken, Tidy
    <3>3. QED
      BY <1>0, <3>1, <3>2 DEF Purging, Kept, Op
  <2>4. QED
    BY <1>0, <1>a, <2>1, <2>2, <2>3 DEF EraseFits, leadVars, requestVars, eventVars, Settled, Done, Within,
       Later, Whole, Gone, Blank, SubjectRows
<1>1. CASE Clock
  <2>1. UNCHANGED <<leadVars, requestVars, eventVars, tenant>>
    BY <1>1, ClockKeeps DEF Clock, Ageing, RingAlarm, PassDays, offboardingVars
  <2>2. build = "postgres" => UNCHANGED alarm /\ ~RingAlarm
    <3>1. ASSUME build = "postgres", RingAlarm PROVE FALSE
      <4>1. PICK j \in Jobs : alarm[j] <= day
        BY <3>1 DEF RingAlarm
      <4>2. day <= LastDay /\ day \in Nat
        BY OffboardingAssumption DEF TypeInv, RowTypes, JobTypes
      <4>3. alarm[j] = LastDay + 1000
        BY <1>0, <3>1 DEF EraseFits, Never
      <4>4. QED
        BY <4>1, <4>2, <4>3, OffboardingAssumption
    <3>2. QED
      BY <1>1, <3>1 DEF Clock, Ageing, PassDays, offboardingVars
  <2>3. \A q \in cast : Kept(q) \/ (Woken(q) /\ build = "memory")
    <3>1. CASE RingAlarm
      BY <1>0, <1>1, <2>2, <3>1, ClockKeeps
    <3>2. CASE ~RingAlarm
      BY <1>1, <3>2 DEF Clock, Ageing, PassDays, procVars, Kept
    <3>3. QED
      BY <3>1, <3>2
  <2>4. \A q \in cast : Woken(q) => pc'[q] \in {"asleep", "start", "done"}
    BY DEF Woken
  <2>5. QED
    BY <1>0, <1>a, <2>1, <2>2, <2>3, <2>4 DEF EraseFits
<1>2. CASE Restarted
  <2>1. /\ UNCHANGED <<leadVars, requestVars, eventVars, tenant, alarm>> /\ build = "postgres"
        /\ \A q \in cast : /\ pc'[q] \in {"asleep", "start", "done"}
                           /\ Op(q) = "offboard-worker" => pc'[q] = "asleep"
    <3>1. /\ build = "postgres" /\ \A q \in cast : pc'[q] \in {"asleep", "start", "done"}
      BY <1>0, <1>2, RestartFacts DEF Restarted
    <3>2. \A q \in cast : Op(q) = "offboard-worker" => pc'[q] = "asleep"
      BY <1>2 DEF Restarted, Restart, Workers, Pollers
    <3>3. QED
      BY <1>2, <3>1, <3>2 DEF Restarted, offboardingVars
  <2>2. QED
    BY <1>0, <1>a, <2>1 DEF EraseFits
<1>3. ASSUME NEW p \in cast, Step(p) PROVE EraseFits'
  <2>1. Later /\ (AllGone => AllGone')
    BY <1>0, <1>3, NothingBack
  <2>2. PICK ops : Moves(p, ops)
    BY <1>3, StepMoves
  <2> DEFINE TypesSame == \A d \in Requests : requests'[d].type = requests[d].type
             NowSettled(d) == requests'[d].status = "completed" /\ requests[d].type = "delete"
                                => requests'[d] = requests[d] \/ Done(d)'
             Handled(l) == Gone(l)' => \/ Gone(l) \/ Blank(Owner[l])'
                                       \/ Op(p) = "purge" /\ pc'[p] = "rows" /\ copy'[p].rows[l].who = Owner[l]
             Kept1 == build = "memory" /\ Op(p) = "purge" /\ pc[p] = "rows" =>
                        \A l \in Leads : copy[p].rows[l].who = Owner[l] =>
                          Blank(Owner[l])' \/ (pc'[p] = "rows" /\ copy'[p].rows = copy[p].rows)
             Marks == event'.retention = "purged" \/ tenant' = "deleted"
                        => event.retention = "purged" \/ tenant = "deleted" \/ AllGone'
             Idle == build = "postgres" => UNCHANGED alarm
             NoWaking == \A q \in cast \ {p} : Op(q) = "offboard-worker" => Kept(q) \/ build = "memory"
  <2>3. /\ Erasing(p)' /\ TypesSame /\ (\A d \in Requests : NowSettled(d))
        /\ (Tidy => \A l \in Leads : Handled(l)) /\ Kept1 /\ Marks /\ Idle /\ NoWaking
    <3>a. UNCHANGED requestVars => TypesSame /\ (\A d \in Requests : NowSettled(d))
      BY DEF requestVars
    <3>b. UNCHANGED leadVars => \A l \in Leads : Handled(l)
      BY DEF leadVars, Gone
    <3>c. ASSUME Moves(p, {"dsr-worker", "export-worker", "purge"}) PROVE NoWaking
      BY <3>c DEF Moves
    <3>d. /\ Moves(p, {}) => Moves(p, {"dsr-worker", "export-worker", "purge"})
          /\ Moves(p, {"dsr-worker"}) => Moves(p, {"dsr-worker", "export-worker", "purge"})
          /\ Moves(p, {"export-worker"}) => Moves(p, {"dsr-worker", "export-worker", "purge"})
          /\ Moves(p, {"purge"}) => Moves(p, {"dsr-worker", "export-worker", "purge"})
      BY DEF Moves
    <3>1. CASE LeadStep(p) /\ UNCHANGED <<requestVars, exportVars, eventVars, retentionVars, offboardingVars>>
      <4>1. Op(p) \in LeadOps /\ NoWaking
        BY <1>0, <3>1, <3>c, <3>d, LeadMoves
      <4>2. Erasing(p)'
        BY <4>1, ErasingOthers DEF LeadOps, EventOps
      <4>3. \A l \in Leads : Handled(l)
        <5>1. \A l \in Leads : leads'[l] = leads[l] \/ WrittenBy(p, l)
          BY <3>1, RouteChanges
        <5>2. ASSUME NEW l \in Leads, WrittenBy(p, l) PROVE Handled(l)
          <6>1. Op(p) = "classify" /\ pc[p] = "write" /\ Row(p) = l
            BY <1>0, <5>2 DEF WrittenBy, LeadWriters, NoNewData
          <6>2. copy[p] = leads[l]
            BY <1>0, <6>1 DEF NoNewData, Untangled, DataInv, LeadKnown, LeadWriters
          <6>3. QED
            BY <5>2, <6>1, <6>2 DEF WrittenBy, Gone
        <5>3. QED
          BY <5>1, <5>2 DEF Gone
      <4>4. QED
        BY <3>1, <3>a, <4>1, <4>2, <4>3 DEF LeadOps, eventVars, offboardingVars
    <3>2. CASE RequestStep(p) /\ UNCHANGED <<exportVars, eventVars, retentionVars, offboardingVars>>
      <4>1. Op(p) \in RequestOps /\ NoWaking
        BY <1>0, <3>2, <3>c, <3>d, RequestMoves
      <4>2. QED
        BY <1>0, <2>1, <3>2, <4>1, RequestErasing DEF RequestOps, eventVars, offboardingVars
    <3>3. CASE ExportStep(p) /\ UNCHANGED <<leadVars, requestVars, eventVars, retentionVars, offboardingVars>>
      <4>1. Op(p) \in ExportOps /\ NoWaking
        BY <1>0, <3>3, <3>c, <3>d, ExportMoves
      <4>2. Erasing(p)'
        BY <4>1, ErasingOthers DEF ExportOps, EventOps
      <4>3. QED
        BY <3>3, <3>a, <3>b, <4>1, <4>2 DEF ExportOps, eventVars, offboardingVars
    <3>4. CASE EventStep(p) /\ UNCHANGED <<leadVars, requestVars, exportVars, retentionVars, offboardingVars>>
      <4>1. Op(p) \in EventOps /\ NoWaking
        BY <1>0, <3>4, <3>c, <3>d, EventMoves
      <4>2. QED
        BY <1>0, <2>1, <3>4, <3>a, <3>b, <4>1, EventErasing DEF EventOps, offboardingVars
    <3>5. CASE RetentionStep(p) /\ UNCHANGED <<requestVars, offboardingVars>>
      <4>1. NoWaking
        BY <1>0, <3>5, <3>c, <3>d, RetentionMoves
      <4>2. QED
        BY <1>0, <2>1, <3>5, <3>a, <4>1, RetentionErasing DEF offboardingVars
    <3>6. CASE OffboardingStep(p) /\ UNCHANGED <<requestVars, exportVars, retentionVars>>
      <4>1. Op(p) \in JobOps
        BY <1>0, <3>6, JobMoves
      <4>2. NoWaking
        BY <1>0, <2>1, <3>6, JobErasing
      <4>3. QED
        BY <1>0, <2>1, <3>6, <3>a, <4>1, <4>2, JobErasing DEF JobOps
    <3>7. QED
      BY <1>3, <3>1, <3>2, <3>3, <3>4, <3>5, <3>6 DEF Step
  <2>4. ASSUME NEW q \in cast PROVE Erasing(q)'
    <3>1. CASE q = p
      BY <2>3, <3>1
    <3>2. CASE q # p /\ Kept(q)
      BY <1>0, <2>1, <2>3, <3>2, ErasingKept
    <3>3. CASE q # p /\ ~Kept(q)
      BY <1>0, <2>2, <2>3, <3>3, ErasingOutside DEF Moves, Woken
    <3>4. QED
      BY <3>1, <3>2, <3>3
  <2>5. ASSUME NEW d \in Requests PROVE Settled(d)'
    <3>1. ASSUME requests'[d] = requests[d], Done(d) PROVE Done(d)'
      BY <1>0, <2>1, <3>1, Subjects DEF Done, Within, Later
    <3>2. Settled(d)
      BY <1>0 DEF EraseFits
    <3>3. QED
      BY <2>3, <3>1, <3>2 DEF Settled
  <2>6. ASSUME Tidy, NEW l \in Leads, Gone(l)' PROVE Blank(Owner[l])' \/ Purging(l)'
    <3>1. CASE Blank(Owner[l])
      BY <2>1, <3>1, Ownership DEF Later
    <3>2. CASE Op(p) = "purge" /\ pc'[p] = "rows" /\ copy'[p].rows[l].who = Owner[l]
      BY <1>0, <3>2 DEF Purging, Op
    <3>3. CASE Gone(l) /\ Purging(l)
      <4>1. PICK q \in cast : Op(q) = "purge" /\ pc[q] = "rows" /\ copy[q].rows[l].who = Owner[l]
        BY <3>3 DEF Purging
      <4>2. CASE q = p
        <5>1. Blank(Owner[l])' \/ (pc'[p] = "rows" /\ copy'[p].rows = copy[p].rows)
          BY <2>3, <2>6, <4>1, <4>2 DEF Tidy
        <5>2. QED
          BY <1>0, <4>1, <4>2, <5>1 DEF Purging, Op
      <4>3. CASE q # p
        <5>1. Kept(q)
          BY <2>2, <4>1, <4>3 DEF Moves, Woken
        <5>2. QED
          BY <1>0, <4>1, <5>1 DEF Purging, Kept, Op
      <4>4. QED
        BY <4>2, <4>3
    <3>4. QED
      BY <1>0, <2>3, <2>6, <3>1, <3>2, <3>3 DEF EraseFits
  <2>7. event'.retention = "purged" \/ tenant' = "deleted" => AllGone'
    BY <1>0, <2>1, <2>3 DEF EraseFits
  <2>8. build = "postgres" => \A j \in Jobs : alarm'[j] = Never
    BY <1>0, <2>3 DEF EraseFits
  <2>9. \A l \in Leads : Whole(l)' \/ Gone(l)'
    BY <2>1 DEF Later
  <2> HIDE DEF TypesSame, NowSettled, Handled, Kept1, Marks, Idle, NoWaking
  <2>10. QED
    BY <1>0, <2>4, <2>5, <2>6, <2>7, <2>8, <2>9 DEF EraseFits
<1>4. CASE UNCHANGED vars
  <2>1. \A q \in cast : Kept(q)
    BY <1>4 DEF vars, procVars, Kept
  <2>2. UNCHANGED <<leadVars, requestVars, eventVars, tenant, alarm>>
    BY <1>4 DEF vars, offboardingVars
  <2>3. QED
    BY <1>0, <1>a, <2>1, <2>2 DEF EraseFits
<1>5. QED
  BY <1>1, <1>2, <1>3, <1>4 DEF Next

(* Whoever reports an erasure has done it: a completed deletion request,   *)
(* a purged event, a deleted tenant.                                       *)
THEOREM ReportedErasuresAreDone == Spec => []NothingLeftBehind
<1>1. Init => TypeInv /\ DataInv /\ EraseInv
  BY TypeInit, DataInit, EraseInit
<1>2. TypeInv /\ DataInv /\ EraseInv /\ [Next]_vars => (TypeInv /\ DataInv /\ EraseInv)'
  BY TypeStep, DataStep, EraseStep
<1>3. EraseInv => NothingLeftBehind
  BY StoredLeads DEF EraseInv, EraseFits, NothingLeftBehind, Settled, Done, AllGone, Gone, Blank
<1>4. QED
  BY <1>1, <1>2, <1>3, PTL DEF Spec


-----------------------------------------------------------------------------
(* Files that are handed out once, in the memory build.  A row is in the   *)
(* hands of one worker: the number 1 that its route starts, or, as no      *)
(* timer runs before that one has marked the row, the number 2 that the    *)
(* poller starts.  The row is marked after that and never "requested"      *)
(* again, so nobody starts the other worker, or this one a second time;    *)
(* its file is handed out when the worker is done.                         *)
(*                                                                         *)
(* c are the processes, at[p] is where p is, op is the operation of the    *)
(* workers and makers the operations that make the row r, n is how often   *)
(* its file was handed out.                                                *)
ToCome(c, at, makers, r, row) ==
  \A p \in c : Op(p) \in makers /\ Row(p) = r /\ at[p] # "done" => row.status = "absent"

InTurn(c, at, op, r, row, n) ==
  \A p \in c : Op(p) = op /\ Row(p) = r /\ at[p] # "asleep" =>
    /\ p[3] \in {1, 2} /\ row.status # "absent"
    /\ at[p] \notin {"start", "mark"} => row.status # "requested"
    /\ at[p] # "done" => row.status # "completed" /\ n = 0
    /\ \A q \in c : Op(q) = op /\ Row(q) = r /\ at[q] # "asleep" => q = p

OutOnce(row, n) == n = 0 \/ (n = 1 /\ row.used /\ row.status \notin {"absent", "requested"})

Once(c, at, op, makers, r, row, n) ==
  ToCome(c, at, makers, r, row) /\ InTurn(c, at, op, r, row, n) /\ OutOnce(row, n)

(* Somebody else writes the row: a step that does not take it back.        *)
LEMMA OnceStill ==
  ASSUME NEW c, NEW at, NEW at2, NEW op, NEW makers, NEW r, NEW row, NEW n, NEW row2, NEW n2,
         Once(c, at, op, makers, r, row, n), OutOnce(row2, n2),
         \A q \in c : Op(q) = op /\ Row(q) = r => at2[q] = at[q],
         \A q \in c : Op(q) \in makers /\ Row(q) = r /\ at2[q] # "done" => at[q] # "done",
         row.status = "absent" <=> row2.status = "absent",
         row2.status \in {"requested", "completed"} => row.status = row2.status,
         row.status # "completed" => n2 = n
  PROVE  Once(c, at2, op, makers, r, row2, n2)
<1>1. ToCome(c, at2, makers, r, row2)
  BY DEF Once, ToCome
<1>2. InTurn(c, at2, op, r, row2, n2)
  <2> SUFFICES ASSUME NEW p \in c, Op(p) = op, Row(p) = r, at2[p] # "asleep"
               PROVE  /\ p[3] \in {1, 2} /\ row2.status # "absent"
                      /\ at2[p] \notin {"start", "mark"} => row2.status # "requested"
                      /\ at2[p] # "done" => row2.status # "completed" /\ n2 = 0
                      /\ \A q \in c : Op(q) = op /\ Row(q) = r /\ at2[q] # "asleep" => q = p
    BY DEF InTurn
  <2>1. at2[p] = at[p]
    OBVIOUS
  <2>2. QED
    BY <2>1 DEF Once, InTurn
<1>3. QED
  BY <1>1, <1>2 DEF Once

(* The worker writes it.                                                   *)
LEMMA OnceWorks ==
  ASSUME NEW c, NEW at, NEW at2, NEW op, NEW makers, NEW r, NEW row, NEW n, NEW row2,
         Once(c, at, op, makers, r, row, n),
         NEW p \in c, Op(p) = op, Row(p) = r, at[p] \notin {"asleep", "done"}, op \notin makers,
         \A q \in c \ {p} : Op(q) \in makers \cup {op} /\ Row(q) = r => at2[q] = at[q],
         at2[p] # "asleep", row2.status # "absent",
         at2[p] \notin {"start", "mark"} => row2.status # "requested",
         at2[p] # "done" => row2.status # "completed"
  PROVE  Once(c, at2, op, makers, r, row2, n)
<1>1. /\ p[3] \in {1, 2} /\ row.status # "absent" /\ n = 0
      /\ \A q \in c : Op(q) = op /\ Row(q) = r /\ at[q] # "asleep" => q = p
  BY DEF Once, InTurn
<1>2. ToCome(c, at2, makers, r, row2)
  BY <1>1 DEF Once, ToCome
<1>3. \A q \in c : Op(q) = op /\ Row(q) = r /\ at2[q] # "asleep" => q = p
  BY <1>1
<1>4. InTurn(c, at2, op, r, row2, n)
  BY <1>1, <1>3 DEF InTurn
<1>5. QED
  BY <1>1, <1>2, <1>4 DEF Once, OutOnce

(* The route makes it, and starts the first worker if there is one.        *)
LEMMA OnceMade ==
  ASSUME NEW c, NEW at, NEW at2, NEW op, NEW makers, NEW r, NEW row, NEW n, NEW row2,
         Once(c, at, op, makers, r, row, n),
         NEW p \in c, Op(p) \in makers, Row(p) = r, at[p] # "done", at2[p] = "done",
         op \notin makers,
         \A q \in c : Op(q) \in makers /\ Row(q) = r => q = p,
         \A q \in c : Op(q) = op /\ Row(q) = r =>
           at2[q] = at[q] \/ (q = <<op, r, 1>> /\ at2[q] = "start"),
         row2.status = "requested"
  PROVE  Once(c, at2, op, makers, r, row2, n)
<1>1. row.status = "absent" /\ n = 0
  BY DEF Once, ToCome, OutOnce
<1>2. \A q \in c : Op(q) = op /\ Row(q) = r => at[q] = "asleep"
  BY <1>1 DEF Once, InTurn
<1>3. \A q \in c : Op(q) = op /\ Row(q) = r /\ at2[q] # "asleep"
                    => q = <<op, r, 1>> /\ at2[q] = "start"
  BY <1>2
<1>4. \A q : q = <<op, r, 1>> => q[3] = 1
  OBVIOUS
<1>5. InTurn(c, at2, op, r, row2, n)
  BY <1>1, <1>3, <1>4 DEF InTurn
<1>6. ToCome(c, at2, makers, r, row2)
  BY DEF ToCome
<1>7. QED
  BY <1>1, <1>5, <1>6 DEF Once, OutOnce

(* The poller starts the second worker.                                    *)
LEMMA OncePolled ==
  ASSUME NEW c, NEW at, NEW at2, NEW op, NEW makers, NEW r, NEW row, NEW n,
         Once(c, at, op, makers, r, row, n), op \notin makers,
         \A q \in c : q = <<q[1], q[2], q[3]>>,
         \A q \in c : Op(q) = op => /\ at[q] \in Outside
                                    /\ at[q] = "start" => q[3] # 1,
         \A q \in c : Op(q) \in makers /\ Row(q) = r => at2[q] = at[q],
         \A q \in c : Op(q) = op /\ Row(q) = r =>
           \/ at2[q] = at[q]
           \/ /\ q = <<op, r, 2>> /\ at[q] \in {"asleep", "done"} /\ at2[q] = "start"
              /\ row.status = "requested"
  PROVE  Once(c, at2, op, makers, r, row, n)
<1>1. CASE \A q \in c : Op(q) = op /\ Row(q) = r => at2[q] = at[q]
  BY <1>1, OnceStill DEF Once
<1>2. CASE \E q \in c : Op(q) = op /\ Row(q) = r /\ at2[q] # at[q]
  <2>1. PICK p \in c : /\ Op(p) = op /\ Row(p) = r /\ p = <<op, r, 2>> /\ at2[p] = "start"
                       /\ row.status = "requested"
    BY <1>2
  <2>2. \A q \in c : Op(q) = op /\ Row(q) = r /\ at[q] # "asleep" => at[q] = "start" /\ q[3] = 2
    BY <2>1 DEF Once, InTurn, Outside
  <2>3. \A q \in c : Op(q) = op /\ Row(q) = r /\ q[3] = 2 => q = p
    BY <2>1 DEF Op, Row
  <2>4. \A q \in c : Op(q) = op /\ Row(q) = r /\ at2[q] # "asleep" => q = p /\ at2[q] = "start"
    BY <2>1, <2>2, <2>3
  <2>5. n = 0
    BY <2>1 DEF Once, OutOnce
  <2>6. p[3] = 2
    BY <2>1
  <2>7. InTurn(c, at2, op, r, row, n)
    BY <2>1, <2>4, <2>5, <2>6 DEF InTurn
  <2>8. QED
    BY <2>7 DEF Once, ToCome
<1>3. QED
  BY <1>1, <1>2


(* What a route that hands out, refuses or decides, and a retention run,   *)
(* has read is still so: they keep the thread.                             *)
Held(p) ==
  /\ Op(p) = "reject" /\ pc[p] = "write"
       => copy[p] = requests[Row(p)] /\ copy[p].status = "requested"
  /\ Op(p) = "dsr-download" /\ pc[p] = "write"
       => copy[p] = requests[Row(p)] /\ copy[p].status = "completed" /\ ~copy[p].used
  /\ Op(p) \in {"approve", "reject-export"} /\ pc[p] = "write"
       => copy[p] = exports[Row(p)] /\ copy[p].status # "absent"
  /\ Op(p) = "full-download" /\ pc[p] = "write"
       => /\ copy[p].row = exports[copy[p].id]
          /\ copy[p].row.status = "completed" /\ ~copy[p].row.used
  /\ Op(p) = "retention-run" /\ pc[p] = "commit" => copy[p].expiring \subseteq Expiring

RequestOnce(d) == Once(cast, pc, "dsr-worker", Creators, d, requests[d], handed[d])

ExportOnce(x) == /\ exports[x].status # "generated"
                 /\ Once(cast, pc, "export-worker", {"full-export"}, x, exports[x], served[x])

OnceInv ==
  build = "memory" => /\ \A p \in cast : Held(p)
                      /\ \A d \in Requests : ~Doing("complete", d) => RequestOnce(d)
                      /\ \A x \in FullOnes : ~Doing("approve", x) => ExportOnce(x)

LEMMA HeldOutside ==
  ASSUME NEW q, pc'[q] \notin Inside
  PROVE  Held(q)'
BY DEF Held, Inside, Op

LEMMA HeldOne ==
  ASSUME build = "memory", NEW p \in cast, NEW ops, Moves(p, ops), Held(p)', NEW q \in cast
  PROVE  Held(q)'
<1>1. CASE q = p
  BY <1>1
<1>2. CASE q # p /\ pc[q] \in Inside /\ Op(q) \notin Immediate
  BY <1>2, Alone DEF Moves
<1>3. CASE q # p /\ (pc[q] \notin Inside \/ Op(q) \in Immediate)
  <2>1. pc'[q] \notin Inside \/ Op(q) \in Immediate
    BY <1>3 DEF Moves, Kept, Woken, Inside
  <2>2. Op(q) \in Immediate => Held(q)'
    BY DEF Held, Immediate, Op
  <2>3. QED
    BY <2>1, <2>2, HeldOutside
<1>4. QED
  BY <1>1, <1>2, <1>3

(* The rows of the requests when their components do not move.             *)
LEMMA RequestStill ==
  ASSUME NEW d \in Requests, RequestOnce(d), cast' = cast,
         requests'[d] = requests[d], handed'[d] = handed[d],
         \A q \in cast : Op(q) \in Creators \cup {"dsr-worker"} /\ Row(q) = d => pc'[q] = pc[q]
  PROVE  RequestOnce(d)'
<1>1. Once(cast, pc', "dsr-worker", Creators, d, requests'[d], handed'[d])
  BY OnceStill DEF RequestOnce, Once
<1>2. QED
  BY <1>1 DEF RequestOnce, Once, ToCome, InTurn, OutOnce

LEMMA ExportStill ==
  ASSUME NEW x \in FullOnes, ExportOnce(x), cast' = cast,
         exports'[x] = exports[x], served'[x] = served[x],
         \A q \in cast : Op(q) \in {"full-export", "export-worker"} /\ Row(q) = x => pc'[q] = pc[q]
  PROVE  ExportOnce(x)'
<1>1. Once(cast, pc', "export-worker", {"full-export"}, x, exports'[x], served'[x])
  BY OnceStill DEF ExportOnce, Once
<1>2. QED
  BY <1>1 DEF ExportOnce, Once, ToCome, InTurn, OutOnce

(* A step for another request moves nobody who works on this one.          *)
LEMMA RequestElsewhere ==
  ASSUME TypeInv, NEW p \in cast, RequestStep(p), ~PollRequests(p),
         NEW q \in cast, q # p, pc'[q] # pc[q]
  PROVE  SubmitRequest(p) /\ q = Worker(Row(p), 1) /\ Woken(q)
<1> USE DEF TypeInv
<1>0. At(p, Op(p), pc[p]) /\ ProcOk /\ Thread
  BY RequestMoves DEF Moves
<1>1. ASSUME NEW l, NEW c, Go(p, l, c) PROVE pc'[q] = pc[q]
  BY <1>0, <1>1, GoFacts
<1>2. CASE SubmitRequest(p)
  <2>1. Kept(q) \/ (q \in {Worker(Row(p), 1)} /\ Woken(q))
    BY <1>0, <1>2, SpawnFacts DEF SubmitRequest, Kept, Woken
  <2>2. QED
    BY <1>2, <2>1 DEF Kept
<1>3. CASE StartProcessing(p)
  <2>1. \E l, c : Go(p, l, c)
    <3>1. CASE copy[p].dsr.type = "export"
      BY <1>3, <3>1 DEF StartProcessing
    <3>2. CASE copy[p].dsr.type = "delete"
      BY <1>3, <3>2 DEF StartProcessing
    <3>3. CASE copy[p].dsr.type \notin {"export", "delete"}
      BY <1>3, <3>3 DEF StartProcessing, Return
    <3>4. QED
      BY <3>1, <3>2, <3>3
  <2>2. QED
    BY <2>1, <1>1
<1>4. CASE LookForActive(p) \/ FindNoActive(p) \/ CreateSessionRequest(p) \/ FindRequest(p)
  BY <1>4, <1>1 DEF LookForActive, FindNoActive, CreateSessionRequest, FindRequest, Return
<1>5. CASE FinishExport(p) \/ FinishDelete(p) \/ Confirm(p) \/ FailRequest(p)
  <2>1. Moves(p, {})
    BY <1>0, <1>5, FinishMoves, EndMoves
  <2>2. QED
    BY <2>1 DEF Moves, Kept
<1>b. CASE ReadToReject(p) \/ Reject(p)
  BY <1>b, <1>1 DEF ReadToReject, Reject, Return
<1>6. CASE ReadToDownload(p) \/ HandOut(p) \/ ReadToComplete(p) \/ CollectSubject(p) \/ AskCrm(p)
  BY <1>6, <1>1 DEF ReadToDownload, HandOut, ReadToComplete, CollectSubject, Collect, AskCrm, Return
<1>7. CASE BlankProfile(p) \/ AnonymizeRow(p) \/ Complete(p)
  BY <1>7, <1>1 DEF BlankProfile, Collect, AnonymizeRow, EraseNext, Complete, Return
<1>8. QED
  BY <1>2, <1>3, <1>4, <1>5, <1>6, <1>7, <1>b DEF RequestStep

LEMMA RequestRowStays ==
  ASSUME TypeInv, NEW p \in cast, RequestStep(p), NEW d \in Requests, Row(p) # d \/ Op(p) = "dsr-poll"
  PROVE  requests'[d] = requests[d] /\ handed'[d] = handed[d]
<1>0. ProcOk /\ Thread /\ requests \in [Requests -> Request] /\ handed \in [Requests -> Nat]
  BY DEF TypeInv, RowTypes, RequestTypes
<1>a. ASSUME NEW row, WriteRequest(Row(p), row), Row(p) # d PROVE requests'[d] = requests[d]
  BY <1>0, <1>a DEF WriteRequest
<1>1. CASE UNCHANGED requestVars
  BY <1>1 DEF requestVars
<1>2. CASE SubmitRequest(p) \/ CreateSessionRequest(p)
  BY <1>0, <1>2, AtFacts DEF SubmitRequest, CreateSessionRequest
<1>f. CASE FinishExport(p) \/ FinishDelete(p)
  <2>1. Op(p) # "dsr-poll" /\ handed' = handed /\ \E row : WriteRequest(Row(p), row)
    BY <1>0, <1>f, FinishMoves
  <2>2. QED
    BY <1>a, <2>1
<1>g. CASE Confirm(p) \/ FailRequest(p)
  <2>1. /\ Op(p) # "dsr-poll" /\ handed' = handed
        /\ requests' = requests \/ \E row : WriteRequest(Row(p), row)
    BY <1>0, <1>g, EndMoves
  <2>2. QED
    BY <1>a, <2>1
<1>3. CASE StartProcessing(p) \/ Reject(p) \/ Complete(p)
  <2>1. Op(p) # "dsr-poll" /\ handed' = handed
    <3>1. CASE StartProcessing(p)
      BY <3>1, AtFacts DEF StartProcessing
    <3>3. CASE Reject(p)
      BY <3>3, AtFacts DEF Reject
    <3>4. CASE Complete(p)
      <4>1. At(p, "complete", "rows") /\ handed' = handed
        BY <3>4 DEF Complete
      <4>2. QED
        BY <4>1, AtFacts
    <3>5. QED
      BY <1>3, <3>1, <3>3, <3>4
  <2>2. \E row : WriteRequest(Row(p), row)
    BY <1>3 DEF StartProcessing, Reject, Complete
  <2>3. QED
    BY <1>a, <2>1, <2>2
<1>4. CASE HandOut(p)
  <2>1. Op(p) # "dsr-poll" /\ handed' = [handed EXCEPT ![Row(p)] = @ + 1]
        /\ WriteRequest(Row(p), [copy[p] EXCEPT !.used = TRUE])
    BY <1>4, AtFacts DEF HandOut
  <2>2. QED
    BY <1>0, <1>a, <2>1
<1>5. CASE LookForActive(p) \/ FindNoActive(p) \/ PollRequests(p) \/ FindRequest(p) \/ BlankProfile(p)
           \/ AnonymizeRow(p)
  BY <1>5, <1>1 DEF LookForActive, FindNoActive, PollRequests, FindRequest, BlankProfile, AnonymizeRow
<1>6. CASE AskCrm(p) \/ ReadToReject(p) \/ ReadToDownload(p) \/ ReadToComplete(p) \/ CollectSubject(p)
  BY <1>6, <1>1 DEF AskCrm, ReadToReject, ReadToDownload, ReadToComplete, CollectSubject
<1>7. QED
  BY <1>2, <1>3, <1>4, <1>5, <1>6, <1>f, <1>g DEF RequestStep


LEMMA RequestHeld ==
  ASSUME TypeInv, OnceInv, build = "memory", NEW p \in cast, RequestStep(p)
  PROVE  Held(p)'
<1>0. /\ ProcOk /\ Thread /\ requests \in [Requests -> Request]
      /\ At(p, Op(p), pc[p]) /\ Op(p) \in RequestOps
  BY RequestMoves DEF TypeInv, RowTypes, RequestTypes, Moves
<1>1. CASE ReadToReject(p) /\ requests[Row(p)].status = "requested"
  <2>1. Op(p) = "reject" /\ copy'[p] = requests[Row(p)] /\ UNCHANGED requests
    BY <1>0, <1>1, AtFacts, Going DEF ReadToReject, requestVars
  <2>2. QED
    BY <1>1, <2>1 DEF Held, Op, Row
<1>2. CASE /\ ReadToDownload(p) /\ requests[Row(p)].type = "export"
           /\ requests[Row(p)].status = "completed" /\ ~requests[Row(p)].used
  <2>1. Op(p) = "dsr-download" /\ copy'[p] = requests[Row(p)] /\ UNCHANGED requests
    BY <1>0, <1>2, AtFacts, Going DEF ReadToDownload, requestVars
  <2>2. QED
    BY <1>2, <2>1 DEF Held, Op, Row
<1>3. CASE ReadToReject(p) /\ requests[Row(p)].status # "requested"
  <2>1. pc'[p] = "done"
    BY <1>0, <1>3, AtFacts, Going DEF ReadToReject, Return
  <2>2. QED
    BY <2>1, HeldOutside DEF Inside
<1>4. CASE /\ ReadToDownload(p)
           /\ ~(/\ requests[Row(p)].type = "export"
                /\ requests[Row(p)].status = "completed" /\ ~requests[Row(p)].used)
  <2>1. pc'[p] = "done"
    BY <1>0, <1>4, AtFacts, Going DEF ReadToDownload, Return
  <2>2. QED
    BY <2>1, HeldOutside DEF Inside
<1>5. CASE Reject(p) \/ HandOut(p)
  <2>1. pc'[p] = "done"
    BY <1>0, <1>5, AtFacts, Going DEF Reject, HandOut, Return
  <2>2. QED
    BY <2>1, HeldOutside DEF Inside
<1>6. CASE Op(p) \notin {"reject", "dsr-download"}
  BY <1>0, <1>6 DEF Held, RequestOps, Op
<1>7. Op(p) \in {"reject", "dsr-download"}
        => ReadToReject(p) \/ Reject(p) \/ ReadToDownload(p) \/ HandOut(p)
  <2>1. \A op, l : At(p, op, l) => Op(p) = op
    BY AtFacts
  <2>2. CASE \/ LookForActive(p) \/ FindNoActive(p) \/ SubmitRequest(p) \/ CreateSessionRequest(p)
             \/ PollRequests(p) \/ FindRequest(p)
    BY <2>1, <2>2 DEF LookForActive, FindNoActive, SubmitRequest, CreateSessionRequest, PollRequests,
       FindRequest
  <2>3. CASE \/ StartProcessing(p) \/ FinishExport(p) \/ FinishDelete(p) \/ Confirm(p) \/ FailRequest(p)
    BY <2>1, <2>3 DEF StartProcessing, FinishExport, FinishDelete, Confirm, FailRequest
  <2>4. CASE ReadToComplete(p) \/ CollectSubject(p) \/ AskCrm(p) \/ BlankProfile(p) \/ AnonymizeRow(p)
    BY <2>1, <2>4 DEF ReadToComplete, CollectSubject, AskCrm, BlankProfile, AnonymizeRow
  <2>5. CASE Complete(p)
    <3>1. At(p, "complete", "rows")
      BY <2>5 DEF Complete
    <3>2. QED
      BY <2>1, <3>1
  <2>6. QED
    BY <2>2, <2>3, <2>4, <2>5 DEF RequestStep
<1>8. QED
  BY <1>1, <1>2, <1>3, <1>4, <1>5, <1>6, <1>7

(* In the memory build the worker of a request is the only one who has it. *)
LEMMA RequestWorks ==
  ASSUME TypeInv, OnceInv, build = "memory", NEW p \in cast, RequestStep(p),
         Op(p) = "dsr-worker", NEW d \in Requests, Row(p) = d, RequestOnce(d)
  PROVE  RequestOnce(d)'
<1>0. /\ Fits(p) /\ ProcOk /\ Thread /\ requests \in [Requests -> Request]
      /\ At(p, Op(p), pc[p]) /\ cast' = cast
  BY RequestMoves DEF TypeInv, RowTypes, RequestTypes, Moves
<1>1. \A q \in cast \ {p} : pc'[q] = pc[q]
  <2>1. ~SubmitRequest(p) /\ ~PollRequests(p)
    BY AtFacts DEF SubmitRequest, PollRequests
  <2>2. QED
    BY <2>1, RequestElsewhere
<1>a. pc[p] \notin {"asleep", "done"} =>
        /\ requests[d].status # "absent" /\ requests[d].status # "completed"
        /\ pc[p] \notin {"start", "mark"} => requests[d].status # "requested"
  BY DEF RequestOnce, Once, InTurn
<1>b. ASSUME NEW row \in Request, WriteRequest(Row(p), row)
      PROVE  requests'[d] = row
  BY <1>0, <1>b DEF WriteRequest
<1>2. /\ pc[p] \notin {"asleep", "done"} /\ pc'[p] # "asleep" /\ handed' = handed
      /\ requests'[d].status # "absent"
      /\ pc'[p] \notin {"start", "mark"} => requests'[d].status # "requested"
      /\ pc'[p] # "done" => requests'[d].status # "completed"
  <2>1. CASE FindRequest(p)
    BY <1>0, <1>a, <2>1, AtFacts, Going DEF FindRequest, requestVars
  <2>2. CASE BlankProfile(p) \/ AnonymizeRow(p) \/ AskCrm(p)
    <3>1. /\ pc[p] \in {"delete", "rows"} /\ pc'[p] \in {"rows", "io"} /\ UNCHANGED requestVars
      BY <1>0, <2>2, AtFacts, Going DEF BlankProfile, AnonymizeRow, AskCrm, Collect, EraseNext
    <3>2. QED
      BY <1>a, <3>1 DEF requestVars
  <2>3. CASE StartProcessing(p)
    <3>1. pc[p] = "mark" /\ handed' = handed
      BY <2>3, AtFacts DEF StartProcessing
    <3>2. copy[p].dsr \in Request
      BY <1>0, <3>1 DEF Fits
    <3>3. requests'[d] = [copy[p].dsr EXCEPT !.status = "processing"]
      <4>1. [copy[p].dsr EXCEPT !.status = "processing"] \in Request
        BY <3>2 DEF Request
      <4>2. QED
        BY <1>b, <2>3, <4>1 DEF StartProcessing
    <3>4. requests'[d].status = "processing"
      BY <3>2, <3>3 DEF Request
    <3>5. pc'[p] \in {"io", "delete", "done"}
      <4>1. CASE copy[p].dsr.type = "export"
        BY <1>0, <2>3, <4>1, AtFacts, Going DEF StartProcessing
      <4>2. CASE copy[p].dsr.type = "delete"
        BY <1>0, <2>3, <4>2, AtFacts, Going DEF StartProcessing
      <4>3. CASE copy[p].dsr.type \notin {"export", "delete"}
        BY <1>0, <2>3, <4>3, AtFacts, Going DEF StartProcessing, Return
      <4>4. QED
        BY <4>1, <4>2, <4>3
    <3>6. QED
      BY <3>1, <3>4, <3>5
  <2>4. CASE FinishExport(p) \/ FinishDelete(p)
    <3>1. pc[p] = "io" /\ pc'[p] = "done" /\ handed' = handed
      BY <1>0, <2>4, FinishMoves
    <3>2. copy[p].dsr \in Request
      BY <1>0, <3>1 DEF Fits
    <3>3. \E row \in Request : WriteRequest(Row(p), row) /\ row.status \in {"completed", "failed"}
      <4>1. \A row \in Request :
              /\ Exported(row) \in Request /\ Exported(row).status = "completed"
              /\ [row EXCEPT !.status = "failed"] \in Request
              /\ [row EXCEPT !.status = "failed"].status = "failed"
              /\ [row EXCEPT !.status = "completed"] \in Request
              /\ [row EXCEPT !.status = "completed"].status = "completed"
        BY DEF Request, Exported
      <4>2. QED
        BY <1>0, <2>4, <3>2, <4>1, FinishMoves
    <3>4. requests'[d].status \in {"completed", "failed"}
      BY <1>b, <3>3
    <3>5. QED
      BY <3>1, <3>4
  <2>7. CASE Confirm(p) \/ FailRequest(p)
    <3>1. /\ pc[p] \in {"delete", "rows", "io", "report"} /\ pc'[p] = "done" /\ handed' = handed
          /\ requests' = requests
      BY <1>0, <2>7, EndMoves
    <3>2. QED
      BY <1>a, <3>1
  <2>5. FindRequest(p) \/ BlankProfile(p) \/ AnonymizeRow(p) \/ AskCrm(p) \/ StartProcessing(p)
        \/ FinishExport(p) \/ FinishDelete(p) \/ Confirm(p) \/ FailRequest(p)
    <3>1. \A op, l : At(p, op, l) => op = "dsr-worker"
      BY AtFacts
    <3>2. ~Complete(p)
      BY <3>1 DEF Complete
    <3>3. QED
      BY <3>1, <3>2 DEF RequestStep, LookForActive, FindNoActive, SubmitRequest, CreateSessionRequest,
         PollRequests, ReadToReject, Reject, ReadToDownload, HandOut, ReadToComplete, CollectSubject
  <2>6. QED
    BY <2>1, <2>2, <2>3, <2>4, <2>5, <2>7
<1>3. "dsr-worker" \notin Creators
  BY DEF Creators
<1>4. Once(cast, pc', "dsr-worker", Creators, d, requests'[d], handed[d])
  BY <1>1, <1>2, <1>3, OnceWorks DEF RequestOnce
<1>5. handed'[d] = handed[d]
  BY <1>2
<1>6. QED
  BY <1>0, <1>4, <1>5 DEF RequestOnce, Once, ToCome, InTurn, OutOnce


LEMMA RequestOnceStep ==
  ASSUME TypeInv, OnceInv, build = "memory", NEW p \in cast, RequestStep(p),
         NEW d \in Requests, ~Doing("complete", d)
  PROVE  RequestOnce(d)'
<1>0. /\ ProcOk /\ Thread /\ requests \in [Requests -> Request] /\ handed \in [Requests -> Nat]
      /\ At(p, Op(p), pc[p]) /\ cast' = cast /\ RequestOnce(d) /\ Held(p)
      /\ Op(p) \in RequestOps
  BY RequestMoves DEF TypeInv, RowTypes, RequestTypes, Moves, OnceInv
<1>a. ASSUME Once(cast, pc', "dsr-worker", Creators, d, requests'[d], handed'[d])
      PROVE  RequestOnce(d)'
  BY <1>0, <1>a DEF RequestOnce, Once, ToCome, InTurn, OutOnce
<1>b. "dsr-worker" \notin Creators
  BY DEF Creators
<1>c. \A q \in cast : q = <<q[1], q[2], q[3]>>
  BY <1>0, BuildsAssumption DEF ProcOk
<1>1. CASE PollRequests(p)
  <2>1. requests' = requests /\ handed' = handed /\ Timers /\ Op(p) = "dsr-poll" /\ pc[p] = "start"
    BY <1>1, AtFacts DEF PollRequests, requestVars
  <2>2. \A q \in cast \ {p} :
          Kept(q) \/ (q \in {Worker(e, 2) : e \in {f \in Requests : requests[f].status = "requested"}}
                      /\ Woken(q))
    <3> DEFINE ws == {Worker(e, 2) : e \in {f \in Requests : requests[f].status = "requested"}}
    <3>1. Spawn(p, "start", ws)
      BY <1>1 DEF PollRequests
    <3> HIDE DEF ws
    <3>2. \A q \in cast \ {p} : Kept(q) \/ (q \in ws /\ Woken(q))
      BY <1>0, <3>1, SpawnFacts DEF Kept, Woken
    <3>3. QED
      BY <3>2 DEF ws
  <2>3. \A q \in cast : Op(q) = "dsr-worker" =>
          pc[q] \in Outside /\ (pc[q] = "start" => q[3] # 1)
    <3>1. \A q \in cast : Op(q) = "dsr-worker" => pc[q] \in Outside
      BY <2>1, <1>0, NobodyElse DEF Together, Immediate
    <3>2. QED
      BY <2>1, <3>1 DEF Timers, Immediate
  <2>4. \A q \in cast : Op(q) \in Creators /\ Row(q) = d => pc'[q] = pc[q]
    BY <2>1, <2>2 DEF Creators, Kept, Worker, Op
  <2>5. ASSUME NEW q \in cast, Op(q) = "dsr-worker", Row(q) = d, pc'[q] # pc[q]
        PROVE  /\ q = <<"dsr-worker", d, 2>> /\ pc[q] \in {"asleep", "done"} /\ pc'[q] = "start"
               /\ requests[d].status = "requested"
    <3>1. PICK e \in Requests : requests[e].status = "requested" /\ q = Worker(e, 2) /\ Woken(q)
      BY <2>1, <2>2, <2>5 DEF Kept
    <3>2. e = d
      BY <2>5, <3>1 DEF Worker, Row
    <3>3. QED
      BY <3>1, <3>2 DEF Worker, Woken
  <2>6. Once(cast, pc', "dsr-worker", Creators, d, requests[d], handed[d])
    <3>1. Once(cast, pc, "dsr-worker", Creators, d, requests[d], handed[d])
      BY <1>0 DEF RequestOnce
    <3>2. QED
      BY <1>b, <1>c, <2>3, <2>4, <2>5, <3>1, OncePolled
  <2>7. QED
    BY <1>a, <2>1, <2>6
<1>2. CASE ~PollRequests(p) /\ (Row(p) # d \/ Op(p) = "dsr-poll")
  <2>1. requests'[d] = requests[d] /\ handed'[d] = handed[d]
    BY <1>2, RequestRowStays
  <2>2. Op(p) # "dsr-poll"
    <3>1. \A op, l : At(p, op, l) => op = Op(p)
      BY AtFacts
    <3>2. Complete(p) => Op(p) = "complete"
      BY <3>1 DEF Complete
    <3>3. StartProcessing(p) \/ FinishExport(p) \/ FinishDelete(p) \/ Confirm(p) \/ FailRequest(p)
            => Op(p) = "dsr-worker"
      BY <3>1 DEF StartProcessing, FinishExport, FinishDelete, Confirm, FailRequest
    <3>4. QED
      BY <1>2, <3>1, <3>2, <3>3 DEF RequestStep, LookForActive, FindNoActive, SubmitRequest,
         CreateSessionRequest, FindRequest, ReadToReject, Reject, ReadToDownload, HandOut,
         ReadToComplete, CollectSubject, AskCrm, BlankProfile, AnonymizeRow
  <2>3. ASSUME NEW q \in cast, Row(q) = d PROVE pc'[q] = pc[q]
    <3>1. q # p
      BY <1>2, <2>2, <2>3
    <3>2. q # Worker(Row(p), 1)
      BY <1>2, <2>2, <2>3 DEF Worker, Row
    <3>3. QED
      BY <1>2, <3>1, <3>2, RequestElsewhere
  <2>4. QED
    BY <1>0, <2>1, <2>3, RequestStill
<1>3. CASE Row(p) = d /\ Op(p) = "dsr-worker"
  BY <1>0, <1>3, RequestWorks
<1>4. CASE Row(p) = d /\ Op(p) \in Creators /\ (SubmitRequest(p) \/ CreateSessionRequest(p))
  <2>1. /\ pc[p] # "done" /\ pc'[p] = "done" /\ handed' = handed
        /\ requests'[d].status = "requested"
    <3>1. CASE SubmitRequest(p)
      BY <1>0, <1>4, <3>1, AtFacts, SpawnFacts DEF SubmitRequest, Request
    <3>2. CASE CreateSessionRequest(p)
      <4>1. PICK l : requests' = [requests EXCEPT ![d].status = "requested", ![d].about = l]
        BY <1>4, <3>2 DEF CreateSessionRequest
      <4>2. requests'[d].status = "requested"
        BY <1>0, <4>1 DEF Request
      <4>3. At(p, "session-dsr", "start") /\ Return(p) /\ handed' = handed
        BY <3>2 DEF CreateSessionRequest
      <4>4. QED
        BY <1>0, <4>2, <4>3, AtFacts, Going DEF Return
    <3>3. QED
      BY <1>4, <3>1, <3>2
  <2>2. requests'[d].status = "requested"
    BY <2>1
  <2>3. \A q \in cast : Op(q) \in Creators /\ Row(q) = d => q = p
    BY <1>0, <1>4, RequestsAssumption DEF ProcOk, Creators
  <2>4. ASSUME NEW q \in cast, Op(q) = "dsr-worker", Row(q) = d, pc'[q] # pc[q]
        PROVE  q = <<"dsr-worker", d, 1>> /\ pc'[q] = "start"
    <3>1. q # p /\ ~PollRequests(p)
      BY <1>4, <1>b, <2>4, AtFacts DEF PollRequests, Creators
    <3>2. QED
      BY <1>4, <2>4, <3>1, RequestElsewhere DEF Worker, Woken
  <2>5. Once(cast, pc', "dsr-worker", Creators, d, requests'[d], handed[d])
    <3>1. Once(cast, pc, "dsr-worker", Creators, d, requests[d], handed[d])
      BY <1>0 DEF RequestOnce
    <3>2. \A q \in cast : Op(q) = "dsr-worker" /\ Row(q) = d =>
            pc'[q] = pc[q] \/ (q = <<"dsr-worker", d, 1>> /\ pc'[q] = "start")
      BY <2>4
    <3>3. Op(p) \in Creators /\ Row(p) = d /\ pc[p] # "done" /\ pc'[p] = "done"
      BY <1>4, <2>1
    <3>4. QED
      BY <1>b, <2>2, <2>3, <3>1, <3>2, <3>3, OnceMade
  <2>6. QED
    BY <1>a, <2>1, <2>5
<1>5. CASE /\ Row(p) = d /\ Op(p) \notin {"dsr-poll", "dsr-worker", "complete"}
           /\ ~SubmitRequest(p) /\ ~CreateSessionRequest(p) /\ ~PollRequests(p)
  <2>1. /\ pc[p] # "done"
        /\ \/ UNCHANGED requestVars
           \/ Reject(p) \/ HandOut(p)
    <3>1. \A op, l : At(p, op, l) => op = Op(p) /\ l = pc[p]
      BY AtFacts
    <3>2. ~Complete(p)
      BY <1>5, <3>1 DEF Complete
    <3>3. ~StartProcessing(p) /\ ~FinishExport(p) /\ ~FinishDelete(p) /\ ~Confirm(p) /\ ~FailRequest(p)
      BY <1>5, <3>1 DEF StartProcessing, FinishExport, FinishDelete, Confirm, FailRequest
    <3>4. LookForActive(p) \/ FindNoActive(p) \/ ReadToReject(p) \/ Reject(p) \/ ReadToDownload(p)
          \/ HandOut(p)
      BY <1>5, <3>1, <3>2, <3>3 DEF RequestStep, FindRequest, ReadToComplete, CollectSubject, AskCrm,
         BlankProfile, AnonymizeRow
    <3>5. QED
      BY <3>1, <3>4 DEF LookForActive, FindNoActive, ReadToReject, Reject, ReadToDownload, HandOut
  <2>2. ASSUME NEW q \in cast, Row(q) = d, Op(q) \in Creators \cup {"dsr-worker"}
        PROVE  (pc'[q] = pc[q]) \/ (q = p /\ Op(q) # "dsr-worker")
    BY <1>5, <2>2, RequestElsewhere
  <2>3. /\ \A q \in cast : Op(q) = "dsr-worker" /\ Row(q) = d => pc'[q] = pc[q]
        /\ \A q \in cast : Op(q) \in Creators /\ Row(q) = d /\ pc'[q] # "done" => pc[q] # "done"
    BY <2>1, <2>2
  <2>4. /\ OutOnce(requests'[d], handed'[d])
        /\ requests[d].status = "absent" <=> requests'[d].status = "absent"
        /\ requests'[d].status \in {"requested", "completed"} => requests[d].status = requests'[d].status
        /\ requests[d].status # "completed" => handed'[d] = handed[d]
    <3>1. CASE UNCHANGED requestVars
      BY <1>0, <3>1 DEF requestVars, RequestOnce, Once
    <3>2. CASE Reject(p)
      <4>1. /\ copy[p] = requests[d] /\ requests[d].status = "requested"
            /\ WriteRequest(d, [copy[p] EXCEPT !.status = "rejected"]) /\ handed' = handed
        BY <1>0, <1>5, <3>2, AtFacts DEF Reject, Held
      <4>2. requests'[d] = [requests[d] EXCEPT !.status = "rejected"]
        BY <1>0, <4>1 DEF WriteRequest
      <4>3. requests'[d].status = "rejected"
        BY <1>0, <4>2 DEF Request
      <4>4. QED
        BY <1>0, <4>1, <4>3 DEF RequestOnce, Once, OutOnce
    <3>3. CASE HandOut(p)
      <4>1. /\ copy[p] = requests[d] /\ requests[d].status = "completed" /\ ~requests[d].used
            /\ WriteRequest(d, [copy[p] EXCEPT !.used = TRUE])
            /\ handed' = [handed EXCEPT ![d] = @ + 1]
        BY <1>0, <1>5, <3>3, AtFacts DEF HandOut, Held
      <4>2. requests'[d] = [requests[d] EXCEPT !.used = TRUE]
        BY <1>0, <4>1 DEF WriteRequest
      <4>3. requests'[d].status = "completed" /\ requests'[d].used
        BY <1>0, <4>1, <4>2 DEF Request
      <4>4. handed[d] = 0
        BY <1>0, <4>1 DEF RequestOnce, Once, OutOnce
      <4>5. handed'[d] = 1
        BY <1>0, <4>1, <4>4
      <4>6. QED
        BY <4>1, <4>3, <4>5 DEF OutOnce
    <3>4. QED
      BY <2>1, <3>1, <3>2, <3>3
  <2>5. Once(cast, pc', "dsr-worker", Creators, d, requests'[d], handed'[d])
    <3>1. Once(cast, pc, "dsr-worker", Creators, d, requests[d], handed[d])
      BY <1>0 DEF RequestOnce
    <3>2. QED
      BY <2>3, <2>4, <3>1, OnceStill
  <2>6. QED
    BY <1>a, <2>5
<1>6. Op(p) = "complete" => Row(p) # d
  BY DEF Doing
<1>7. SubmitRequest(p) \/ CreateSessionRequest(p) => Op(p) \in Creators
  BY AtFacts DEF SubmitRequest, CreateSessionRequest, Creators
<1>8. QED
  BY <1>1, <1>2, <1>3, <1>4, <1>5, <1>6, <1>7


(* The same of the full exports.                                           *)
LEMMA ExportElsewhere ==
  ASSUME TypeInv, NEW p \in cast, ExportStep(p), ~PollExports(p),
         NEW q \in cast, q # p, pc'[q] # pc[q]
  PROVE  SubmitExport(p) /\ q = <<"export-worker", Row(p), 1>> /\ Woken(q)
<1>0. At(p, Op(p), pc[p]) /\ ProcOk /\ Thread
  BY ExportMoves DEF Moves, TypeInv
<1>1. ASSUME NEW l, NEW c, Go(p, l, c) PROVE pc'[q] = pc[q]
  BY <1>0, <1>1, GoFacts
<1>2. CASE SubmitExport(p)
  <2>1. Kept(q) \/ (q \in {<<"export-worker", Row(p), 1>>} /\ Woken(q))
    BY <1>0, <1>2, SpawnFacts DEF SubmitExport, Kept, Woken
  <2>2. QED
    BY <1>2, <2>1 DEF Kept
<1>3. CASE RequestExport(p) \/ ReadToDecide(p) \/ Decide(p) \/ DownloadExport(p)
  BY <1>3, <1>1 DEF RequestExport, ReadToDecide, Decide, DownloadExport, Return
<1>4. CASE LookForRequested(p) \/ FindExport(p) \/ MarkProcessing(p) \/ FinishFullExport(p)
  BY <1>4, <1>1 DEF LookForRequested, FindExport, MarkProcessing, FinishFullExport, Return
<1>5. CASE ReadFullExport(p) \/ ServeFullExport(p)
  BY <1>5, <1>1 DEF ReadFullExport, ServeFullExport, Return
<1>6. QED
  BY <1>2, <1>3, <1>4, <1>5 DEF ExportStep

LEMMA ExportHeld ==
  ASSUME TypeInv, OnceInv, build = "memory", NEW p \in cast, ExportStep(p)
  PROVE  Held(p)'
<1>0. /\ ProcOk /\ Thread /\ exports \in [Exports -> Export]
      /\ At(p, Op(p), pc[p]) /\ Op(p) \in ExportOps
  BY ExportMoves DEF TypeInv, RowTypes, ExportTypes, Moves
<1>1. CASE ReadToDecide(p)
  <2>1. /\ Op(p) \in {"approve", "reject-export"} /\ copy'[p] = exports[Row(p)]
        /\ UNCHANGED exports /\ exports[Row(p)].status # "absent"
    BY <1>0, <1>1, AtFacts, Going DEF ReadToDecide, exportVars
  <2>2. QED
    BY <2>1 DEF Held, Op, Row
<1>2. CASE ReadFullExport(p)
  <2>1. CASE pc'[p] = "done"
    BY <2>1, HeldOutside DEF Inside
  <2>2. CASE pc'[p] # "done"
    <3>1. PICK x \in FullOnes : /\ Latest(x) /\ ~exports[x].used
                                /\ Go(p, "write", [id |-> x, row |-> exports[x]])
      BY <1>0, <1>2, <2>2, AtFacts, Going DEF ReadFullExport, Return
    <3>2. /\ Op(p) = "full-download" /\ copy'[p] = [id |-> x, row |-> exports[x]]
          /\ UNCHANGED exports /\ exports[x].status = "completed"
      BY <1>0, <1>2, <3>1, AtFacts, Going DEF ReadFullExport, exportVars, Latest
    <3>3. copy'[p].id = x /\ copy'[p].row = exports[x]
      BY <3>2
    <3>4. QED
      BY <3>1, <3>2, <3>3 DEF Held, Op
  <2>3. QED
    BY <2>1, <2>2
<1>3. CASE Decide(p) \/ ServeFullExport(p)
  <2>1. pc'[p] = "done"
    BY <1>0, <1>3, AtFacts, Going DEF Decide, ServeFullExport, Return
  <2>2. QED
    BY <2>1, HeldOutside DEF Inside
<1>4. CASE Op(p) \notin {"approve", "reject-export", "full-download"}
  BY <1>0, <1>4 DEF Held, ExportOps, Op
<1>5. Op(p) \in {"approve", "reject-export", "full-download"}
        => ReadToDecide(p) \/ Decide(p) \/ ReadFullExport(p) \/ ServeFullExport(p)
  <2>1. \A op, l : At(p, op, l) => Op(p) = op
    BY AtFacts
  <2>2. QED
    BY <2>1 DEF ExportStep, RequestExport, DownloadExport, LookForRequested, SubmitExport, PollExports,
       FindExport, MarkProcessing, FinishFullExport
<1>6. QED
  BY <1>1, <1>2, <1>3, <1>4, <1>5

LEMMA ExportWorks ==
  ASSUME TypeInv, OnceInv, build = "memory", NEW p \in cast, ExportStep(p),
         Op(p) = "export-worker", NEW x \in FullOnes, Row(p) = x, ExportOnce(x)
  PROVE  ExportOnce(x)'
<1>0. /\ Fits(p) /\ ProcOk /\ Thread /\ exports \in [Exports -> Export] /\ x \in Exports
      /\ At(p, Op(p), pc[p]) /\ cast' = cast
  BY ExportMoves, ExportsAssumption DEF TypeInv, RowTypes, ExportTypes, Moves
<1>1. \A q \in cast \ {p} : pc'[q] = pc[q]
  <2>1. ~SubmitExport(p) /\ ~PollExports(p)
    BY AtFacts DEF SubmitExport, PollExports
  <2>2. QED
    BY <2>1, ExportElsewhere
<1>a. pc[p] \notin {"asleep", "done"} =>
        /\ exports[x].status # "absent" /\ exports[x].status # "completed"
        /\ pc[p] \notin {"start", "mark"} => exports[x].status # "requested"
  BY DEF ExportOnce, Once, InTurn
<1>b. ASSUME NEW row \in Export, WriteExport(Row(p), row)
      PROVE  exports'[x] = row
  BY <1>0, <1>b DEF WriteExport
<1>c. \A row \in Export :
        /\ [row EXCEPT !.status = "completed", !.file = TRUE, !.used = FALSE] \in Export
        /\ [row EXCEPT !.status = "completed", !.file = TRUE, !.used = FALSE].status = "completed"
        /\ [row EXCEPT !.status = "failed"] \in Export
        /\ [row EXCEPT !.status = "failed"].status = "failed"
        /\ [row EXCEPT !.status = "processing"] \in Export
        /\ [row EXCEPT !.status = "processing"].status = "processing"
  BY DEF Export
<1>2. /\ pc[p] \notin {"asleep", "done"} /\ pc'[p] # "asleep" /\ served' = served
      /\ exports'[x].status # "absent" /\ exports'[x].status # "generated"
      /\ pc'[p] \notin {"start", "mark"} => exports'[x].status # "requested"
      /\ pc'[p] # "done" => exports'[x].status # "completed"
  <2>1. CASE FindExport(p)
    BY <1>0, <1>a, <2>1, AtFacts, Going DEF FindExport, exportVars, ExportOnce
  <2>2. CASE MarkProcessing(p)
    <3>1. pc[p] = "mark" /\ served' = served
      BY <2>2, AtFacts DEF MarkProcessing
    <3>2. copy[p] \in Export
      BY <1>0, <3>1 DEF Fits
    <3>3. WriteExport(Row(p), [copy[p] EXCEPT !.status = "processing"]) /\ Go(p, "io", copy[p])
      BY <2>2 DEF MarkProcessing, Accepts
    <3>4. exports'[x].status = "processing"
      BY <1>b, <1>c, <3>2, <3>3
    <3>5. pc'[p] = "io"
      BY <1>0, <3>3, GoFacts
    <3>6. QED
      BY <3>1, <3>4, <3>5
  <2>3. CASE FinishFullExport(p)
    <3>1. pc[p] = "io" /\ pc'[p] = "done" /\ served' = served
      BY <1>0, <2>3, AtFacts, Going DEF FinishFullExport, Return
    <3>2. copy[p] \in Export
      BY <1>0, <3>1 DEF Fits
    <3>3. \E row \in Export : WriteExport(Row(p), row) /\ row.status \in {"completed", "failed"}
      BY <2>3, <3>2, <1>c DEF FinishFullExport
    <3>4. exports'[x].status \in {"completed", "failed"}
      BY <1>b, <3>3
    <3>5. QED
      BY <3>1, <3>4
  <2>4. FindExport(p) \/ MarkProcessing(p) \/ FinishFullExport(p)
    <3>1. \A op, l : At(p, op, l) => op = "export-worker"
      BY AtFacts
    <3>2. QED
      BY <3>1 DEF ExportStep, RequestExport, ReadToDecide, Decide, DownloadExport, LookForRequested,
         SubmitExport, PollExports, ReadFullExport, ServeFullExport
  <2>5. QED
    BY <2>1, <2>2, <2>3, <2>4
<1>4. Once(cast, pc', "export-worker", {"full-export"}, x, exports'[x], served[x])
  BY <1>1, <1>2, OnceWorks DEF ExportOnce
<1>5. served'[x] = served[x]
  BY <1>2
<1>6. QED
  BY <1>0, <1>2, <1>4, <1>5 DEF ExportOnce, Once, ToCome, InTurn, OutOnce

LEMMA ExportOnceStep ==
  ASSUME TypeInv, OnceInv, build = "memory", NEW p \in cast, ExportStep(p),
         NEW x \in FullOnes, ~Doing("approve", x)
  PROVE  ExportOnce(x)'
<1>0. /\ ProcOk /\ Thread /\ exports \in [Exports -> Export] /\ served \in [Exports -> Nat]
      /\ At(p, Op(p), pc[p]) /\ cast' = cast /\ ExportOnce(x) /\ Held(p) /\ Fits(p)
      /\ Op(p) \in ExportOps /\ x \in Exports
  BY ExportMoves, ExportsAssumption DEF TypeInv, RowTypes, ExportTypes, Moves, OnceInv
<1>a. ASSUME Once(cast, pc', "export-worker", {"full-export"}, x, exports'[x], served'[x]),
             exports'[x].status # "generated"
      PROVE  ExportOnce(x)'
  BY <1>0, <1>a DEF ExportOnce, Once, ToCome, InTurn, OutOnce
<1>c. \A q \in cast : q = <<q[1], q[2], q[3]>>
  BY <1>0, BuildsAssumption DEF ProcOk
<1>d. Once(cast, pc, "export-worker", {"full-export"}, x, exports[x], served[x])
  BY <1>0 DEF ExportOnce
<1>1. CASE PollExports(p)
  <2>1. exports' = exports /\ served' = served /\ Timers /\ Op(p) = "export-poll" /\ pc[p] = "start"
    BY <1>1, AtFacts DEF PollExports, exportVars
  <2> DEFINE ws == {<<"export-worker", y, 2>> : y \in {z \in FullOnes : exports[z].status = "requested"}}
  <2>2. \A q \in cast \ {p} : Kept(q) \/ (q \in ws /\ Woken(q))
    <3>1. Spawn(p, "start", ws)
      BY <1>1 DEF PollExports
    <3> HIDE DEF ws
    <3>2. QED
      BY <1>0, <3>1, SpawnFacts DEF Kept, Woken
  <2>3. \A q \in cast : Op(q) = "export-worker" =>
          pc[q] \in Outside /\ (pc[q] = "start" => q[3] # 1)
    <3>1. \A q \in cast : Op(q) = "export-worker" => pc[q] \in Outside
      BY <2>1, <1>0, NobodyElse DEF Together, Immediate
    <3>2. QED
      BY <2>1, <3>1 DEF Timers, Immediate
  <2>4. \A q \in cast : Op(q) \in {"full-export"} /\ Row(q) = x => pc'[q] = pc[q]
    BY <2>1, <2>2 DEF Kept, Op
  <2>5. ASSUME NEW q \in cast, Op(q) = "export-worker", Row(q) = x, pc'[q] # pc[q]
        PROVE  /\ q = <<"export-worker", x, 2>> /\ pc[q] \in {"asleep", "done"} /\ pc'[q] = "start"
               /\ exports[x].status = "requested"
    <3>1. PICK y \in FullOnes : exports[y].status = "requested" /\ q = <<"export-worker", y, 2>> /\ Woken(q)
      BY <2>1, <2>2, <2>5 DEF Kept
    <3>2. y = x
      BY <2>5, <3>1 DEF Row
    <3>3. QED
      BY <3>1, <3>2 DEF Woken
  <2>6. Once(cast, pc', "export-worker", {"full-export"}, x, exports[x], served[x])
    BY <1>c, <1>d, <2>3, <2>4, <2>5, OncePolled
  <2>7. QED
    BY <1>0, <1>a, <2>1, <2>6 DEF ExportOnce
<1>2. CASE SubmitExport(p) /\ Row(p) = x
  <2>1. /\ Op(p) \in {"full-export"} /\ pc[p] # "done" /\ pc'[p] = "done" /\ served' = served
        /\ exports' = [exports EXCEPT ![x].status = "requested"]
    BY <1>0, <1>2, AtFacts, SpawnFacts DEF SubmitExport
  <2>2. exports'[x].status = "requested"
    BY <1>0, <2>1 DEF Export
  <2>3. \A q \in cast : Op(q) \in {"full-export"} /\ Row(q) = x => q = p
    BY <1>0, <1>2, <2>1, ExportsAssumption DEF ProcOk
  <2>4. \A q \in cast : Op(q) = "export-worker" /\ Row(q) = x =>
          pc'[q] = pc[q] \/ (q = <<"export-worker", x, 1>> /\ pc'[q] = "start")
    <3>1. ~PollExports(p)
      BY <2>1, AtFacts DEF PollExports
    <3>2. QED
      BY <1>2, <2>1, <3>1, ExportElsewhere DEF Woken
  <2>5. Once(cast, pc', "export-worker", {"full-export"}, x, exports'[x], served[x])
    <3>1. Op(p) \in {"full-export"} /\ Row(p) = x /\ pc[p] # "done" /\ pc'[p] = "done"
      BY <1>2, <2>1
    <3>2. QED
      BY <1>d, <2>2, <2>3, <2>4, <3>1, OnceMade
  <2>6. QED
    BY <1>a, <2>1, <2>2, <2>5
<1>3. CASE Row(p) = x /\ Op(p) = "export-worker"
  BY <1>0, <1>3, ExportWorks
<1>4. CASE ~PollExports(p) /\ ~(SubmitExport(p) /\ Row(p) = x) /\ ~(Row(p) = x /\ Op(p) = "export-worker")
  <2>1. /\ \A q \in cast : Op(q) = "export-worker" /\ Row(q) = x => pc'[q] = pc[q]
        /\ \A q \in cast : Op(q) \in {"full-export"} /\ Row(q) = x /\ pc'[q] # "done" => pc[q] # "done"
    <3>1. pc[p] # "done"
      <4>1. \A op, l : At(p, op, l) => l = pc[p]
        BY AtFacts
      <4>2. QED
        BY <4>1 DEF ExportStep, RequestExport, ReadToDecide, Decide, DownloadExport, LookForRequested,
           SubmitExport, PollExports, FindExport, MarkProcessing, FinishFullExport, ReadFullExport,
           ServeFullExport
    <3>2. ASSUME NEW q \in cast, Row(q) = x, q # p PROVE pc'[q] = pc[q]
      <4>1. q = <<"export-worker", Row(p), 1>> => Row(q) = Row(p)
        BY DEF Row
      <4>2. QED
        BY <1>4, <3>2, <4>1, ExportElsewhere
    <3>3. QED
      BY <1>4, <3>1, <3>2
  <2>2. /\ OutOnce(exports'[x], served'[x]) /\ exports'[x].status # "generated"
        /\ exports[x].status = "absent" <=> exports'[x].status = "absent"
        /\ exports'[x].status \in {"requested", "completed"} => exports[x].status = exports'[x].status
        /\ exports[x].status # "completed" => served'[x] = served[x]
    <3>1. CASE exports'[x] = exports[x] /\ served'[x] = served[x]
      BY <1>0, <1>d, <3>1 DEF Once, ExportOnce
    <3>2. CASE LookForRequested(p) \/ FindExport(p) \/ ReadToDecide(p) \/ ReadFullExport(p)
      BY <3>1, <3>2 DEF LookForRequested, FindExport, ReadToDecide, ReadFullExport, exportVars
    <3>3. CASE RequestExport(p)
      <4>1. Row(p) # x /\ served' = served
        BY <1>0, <3>3, AtFacts, ExportsAssumption DEF RequestExport, ProcOk
      <4>2. exports'[x] = exports[x]
        BY <1>0, <3>3, <4>1 DEF RequestExport
      <4>3. QED
        BY <3>1, <4>1, <4>2
    <3>4. CASE DownloadExport(p)
      <4>1. exports' = exports /\ served'[x] = served[x]
        BY <1>0, <3>4 DEF DownloadExport, ExportOnce
      <4>2. QED
        BY <3>1, <4>1
    <3>5. CASE SubmitExport(p)
      <4>1. Row(p) # x /\ served' = served
        BY <1>4, <3>5 DEF SubmitExport
      <4>2. exports'[x] = exports[x]
        BY <1>0, <3>5, <4>1 DEF SubmitExport
      <4>3. QED
        BY <3>1, <4>1, <4>2
    <3>6. CASE MarkProcessing(p) \/ FinishFullExport(p)
      <4>1. Op(p) = "export-worker" /\ served' = served
        BY <3>6, AtFacts DEF MarkProcessing, FinishFullExport
      <4>2. Row(p) # x
        BY <1>4, <4>1
      <4>3. exports'[x] = exports[x]
        BY <1>0, <3>6, <4>2 DEF MarkProcessing, FinishFullExport, WriteExport
      <4>4. QED
        BY <3>1, <4>1, <4>3
    <3>7. CASE Decide(p)
      <4>1. /\ Op(p) \in {"approve", "reject-export"} /\ pc[p] = "write" /\ served' = served
        BY <3>7, AtFacts DEF Decide
      <4>2. CASE Row(p) # x
        <5>1. exports'[x] = exports[x]
          BY <1>0, <3>7, <4>2 DEF Decide, WriteExport
        <5>2. QED
          BY <3>1, <4>1, <5>1
      <4>3. CASE Row(p) = x
        <5>1. Op(p) = "reject-export" /\ copy[p] = exports[x] /\ exports[x].status # "absent"
          BY <1>0, <4>1, <4>3 DEF Doing, Held
        <5>2. WriteExport(x, [exports[x] EXCEPT !.status = "rejected"])
          BY <3>7, <4>3, <5>1, AtFacts DEF Decide
        <5>3. exports'[x] = [exports[x] EXCEPT !.status = "rejected"]
          BY <1>0, <5>2 DEF WriteExport
        <5>4. exports'[x].status = "rejected" /\ exports'[x].used = exports[x].used
          BY <1>0, <5>3 DEF Export
        <5>5. QED
          BY <1>d, <4>1, <5>1, <5>4 DEF Once, OutOnce
      <4>4. QED
        BY <4>2, <4>3
    <3>8. CASE ServeFullExport(p)
      <4>1. /\ Op(p) = "full-download" /\ pc[p] = "write"
            /\ served' = [served EXCEPT ![copy[p].id] = @ + 1]
            /\ WriteExport(copy[p].id, [copy[p].row EXCEPT !.used = TRUE])
        BY <3>8, AtFacts DEF ServeFullExport
      <4>2. /\ copy[p].id \in FullOnes /\ copy[p].row = exports[copy[p].id]
            /\ copy[p].row.status = "completed" /\ ~copy[p].row.used
        BY <1>0, <4>1 DEF Fits, Held
      <4>3. CASE copy[p].id # x
        <5>1. exports'[x] = exports[x] /\ served'[x] = served[x]
          BY <1>0, <4>1, <4>3 DEF WriteExport
        <5>2. QED
          BY <3>1, <5>1
      <4>4. CASE copy[p].id = x
        <5>1. exports'[x] = [exports[x] EXCEPT !.used = TRUE]
          BY <1>0, <4>1, <4>2, <4>4 DEF WriteExport
        <5>2. exports'[x].status = "completed" /\ exports'[x].used
          BY <1>0, <4>2, <4>4, <5>1 DEF Export
        <5>3. served[x] = 0
          BY <1>d, <4>2, <4>4 DEF Once, OutOnce
        <5>4. served'[x] = 1
          BY <1>0, <4>1, <4>4, <5>3
        <5>5. QED
          BY <4>2, <4>4, <5>2, <5>4 DEF OutOnce
      <4>5. QED
        BY <4>3, <4>4
    <3>9. QED
      BY <1>4, <3>2, <3>3, <3>4, <3>5, <3>6, <3>7, <3>8 DEF ExportStep
  <2>3. Once(cast, pc', "export-worker", {"full-export"}, x, exports'[x], served'[x])
    BY <1>d, <2>1, <2>2, OnceStill
  <2>4. QED
    BY <1>a, <2>2, <2>3
<1>5. QED
  BY <1>1, <1>2, <1>3, <1>4


(* A retention run expires what it has found, and touches nothing else.    *)
LEMMA RetentionHeld ==
  ASSUME TypeInv, NEW p \in cast, RetentionStep(p)
  PROVE  Held(p)'
<1>0. ProcOk /\ Thread /\ At(p, Op(p), pc[p]) /\ Op(p) \in RetentionOps
  BY RetentionMoves DEF TypeInv, Moves
<1>1. CASE Op(p) # "retention-run"
  BY <1>0, <1>1 DEF Held, RetentionOps, Op
<1>2. CASE CollectTargets(p)
  <2>1. /\ Op(p) = "retention-run" /\ UNCHANGED exports
        /\ copy'[p] = [copy[p] EXCEPT !.rows = Listing(Stored), !.expiring = Expiring]
    BY <1>0, <1>2, AtFacts, Going DEF CollectTargets, exportVars
  <2>2. pc[p] = "collect"
    BY <1>2, AtFacts DEF CollectTargets
  <2>3. Run(copy[p])
    BY <2>1, <2>2 DEF TypeInv, Fits
  <2>4. copy'[p].expiring = Expiring
    <3> DEFINE list == Listing(Stored)
    <3>1. copy'[p] = [copy[p] EXCEPT !.rows = list, !.expiring = Expiring]
      BY <2>1
    <3> HIDE DEF list
    <3>2. QED
      BY <2>3, <3>1 DEF Run
  <2>5. Expiring' = Expiring
    BY <2>1 DEF Expiring
  <2>6. QED
    BY <2>1, <2>4, <2>5 DEF Held, Op
<1>3. CASE ReadToRetire(p) \/ Retire(p)
  <2>1. pc'[p] \in {"collect", "done"}
    BY <1>0, <1>3, AtFacts, Going DEF ReadToRetire, Retire, Return
  <2>2. QED
    BY <1>0, <2>1 DEF Held, Op, RetentionOps
<1>4. Op(p) = "retention-run" => CollectTargets(p) \/ ReadToRetire(p) \/ Retire(p)
  <2>1. \A op, l : At(p, op, l) => Op(p) = op
    BY AtFacts
  <2>2. QED
    BY <2>1 DEF RetentionStep, ListEvent, SkipEvent, MarkPurging, ListRows, PurgeRow, FinishPurge,
       FailPurge, CountDown, ReadToForce, ForcePurge
<1>5. QED
  BY <1>1, <1>2, <1>3, <1>4

LEMMA RetentionExports ==
  ASSUME TypeInv, OnceInv, build = "memory", NEW p \in cast, RetentionStep(p)
  PROVE  /\ served' = served
         /\ \/ exports' = exports
            \/ \A x \in Exports :
                 \/ exports'[x] = exports[x]
                 \/ /\ exports[x].status \in {"requested", "generated"}
                    /\ exports'[x] = [exports[x] EXCEPT !.status = "expired"]
<1>1. CASE Retire(p)
  <2>1. Held(p) /\ Op(p) = "retention-run" /\ pc[p] = "commit"
    BY <1>1, AtFacts DEF OnceInv, Retire
  <2>2. \A x \in copy[p].expiring : exports[x].status \in {"requested", "generated"}
    BY <2>1 DEF Held, Expiring
  <2>3. /\ served' = served
        /\ exports' = [x \in Exports |-> IF x \in copy[p].expiring
                                         THEN [exports[x] EXCEPT !.status = "expired"] ELSE exports[x]]
    BY <1>1 DEF Retire
  <2>4. QED
    BY <2>2, <2>3
<1>2. CASE ListEvent(p) \/ SkipEvent(p) \/ MarkPurging(p) \/ ListRows(p) \/ PurgeRow(p) \/ FinishPurge(p)
  BY <1>2 DEF ListEvent, SkipEvent, MarkPurging, ListRows, PurgeRow, FinishPurge, exportVars
<1>3. CASE \/ FailPurge(p) \/ CountDown(p) \/ ReadToForce(p) \/ ForcePurge(p) \/ ReadToRetire(p)
           \/ CollectTargets(p)
  BY <1>3 DEF FailPurge, CountDown, ReadToForce, ForcePurge, ReadToRetire, CollectTargets, exportVars
<1>4. QED
  BY <1>1, <1>2, <1>3 DEF RetentionStep

LEMMA RetentionOnceStep ==
  ASSUME TypeInv, OnceInv, build = "memory", NEW p \in cast, RetentionStep(p),
         NEW x \in FullOnes, ~Doing("approve", x)
  PROVE  ExportOnce(x)'
<1>0. /\ exports \in [Exports -> Export] /\ cast' = cast /\ ExportOnce(x) /\ x \in Exports
      /\ \A q \in cast : Op(q) \in {"full-export", "export-worker"} => pc'[q] = pc[q]
  BY RetentionMoves, ExportsAssumption
  DEF TypeInv, RowTypes, ExportTypes, Moves, OnceInv, RetentionOps, Kept
<1>1. CASE exports'[x] = exports[x]
  BY <1>0, <1>1, RetentionExports, ExportStill
<1>2. CASE /\ exports[x].status \in {"requested", "generated"}
           /\ exports'[x] = [exports[x] EXCEPT !.status = "expired"]
  <2>1. exports'[x].status = "expired" /\ exports'[x].used = exports[x].used /\ served' = served
    BY <1>0, <1>2, RetentionExports DEF Export
  <2>2. Once(cast, pc, "export-worker", {"full-export"}, x, exports[x], served[x])
    BY <1>0 DEF ExportOnce
  <2>3. OutOnce(exports'[x], served'[x]) /\ served'[x] = served[x]
    BY <1>2, <2>1, <2>2 DEF Once, OutOnce
  <2>4. /\ \A q \in cast : Op(q) = "export-worker" /\ Row(q) = x => pc'[q] = pc[q]
        /\ \A q \in cast : Op(q) \in {"full-export"} /\ Row(q) = x /\ pc'[q] # "done" => pc[q] # "done"
    BY <1>0
  <2>5. /\ exports[x].status = "absent" <=> exports'[x].status = "absent"
        /\ exports'[x].status \in {"requested", "completed"} => exports[x].status = exports'[x].status
        /\ exports[x].status # "completed" => served'[x] = served[x]
    BY <1>2, <2>1
  <2>6. Once(cast, pc', "export-worker", {"full-export"}, x, exports'[x], served'[x])
    BY <2>2, <2>3, <2>4, <2>5, OnceStill
  <2>7. QED
    BY <1>0, <2>1, <2>6 DEF ExportOnce, Once, ToCome, InTurn, OutOnce
<1>3. QED
  BY <1>0, <1>1, <1>2, RetentionExports

(* Steps of the others.                                                    *)
LEMMA OthersOnce ==
  ASSUME OnceInv, build = "memory", cast' = cast
  PROVE  /\ /\ UNCHANGED requestVars
            /\ \A q \in cast : Op(q) \in Creators \cup {"dsr-worker"} => pc'[q] = pc[q]
            => \A d \in Requests : ~Doing("complete", d) => RequestOnce(d)'
         /\ /\ UNCHANGED exportVars
            /\ \A q \in cast : Op(q) \in {"full-export", "export-worker"} => pc'[q] = pc[q]
            => \A x \in FullOnes : ~Doing("approve", x) => ExportOnce(x)'
BY RequestStill, ExportStill DEF OnceInv, requestVars, exportVars

LEMMA OnceStep == TypeInv /\ OnceInv /\ [Next]_vars => OnceInv'
<1> SUFFICES ASSUME TypeInv, OnceInv, [Next]_vars PROVE OnceInv'
  OBVIOUS
<1> USE DEF TypeInv
<1>0. build' = build /\ cast' = cast
  BY Frame
<1>1. CASE build # "memory"
  BY <1>0, <1>1 DEF OnceInv
<1>2. CASE build = "memory"
  <2>1. SUFFICES /\ \A q \in cast : Held(q)'
                 /\ \A d \in Requests : ~Doing("complete", d) => RequestOnce(d)'
                 /\ \A x \in FullOnes : ~Doing("approve", x) => ExportOnce(x)'
    BY <1>0 DEF OnceInv, Doing
  <2>2. ASSUME NEW p \in cast, Step(p)
        PROVE  /\ \A q \in cast : Held(q)'
               /\ \A d \in Requests : ~Doing("complete", d) => RequestOnce(d)'
               /\ \A x \in FullOnes : ~Doing("approve", x) => ExportOnce(x)'
    <3>0. PICK ops : Moves(p, ops)
      BY <2>2, StepMoves
    <3>1. CASE RequestStep(p) /\ UNCHANGED exportVars
      <4>1. \A q \in cast : Held(q)'
        BY <1>2, <3>0, <3>1, RequestHeld, HeldOne
      <4>2. \A q \in cast : Op(q) \in {"full-export", "export-worker"} => pc'[q] = pc[q]
        BY <3>1, RequestMoves DEF Moves, Kept, RequestOps
      <4>3. QED
        BY <1>0, <1>2, <3>1, <4>1, <4>2, RequestOnceStep, OthersOnce
    <3>2. CASE ExportStep(p) /\ UNCHANGED requestVars
      <4>1. \A q \in cast : Held(q)'
        BY <1>2, <3>0, <3>2, ExportHeld, HeldOne
      <4>2. \A q \in cast : Op(q) \in Creators \cup {"dsr-worker"} => pc'[q] = pc[q]
        BY <3>2, ExportMoves DEF Moves, Kept, ExportOps, Creators
      <4>3. QED
        BY <1>0, <1>2, <3>2, <4>1, <4>2, ExportOnceStep, OthersOnce
    <3>3. CASE RetentionStep(p) /\ UNCHANGED requestVars
      <4>1. \A q \in cast : Held(q)'
        BY <1>2, <3>0, <3>3, RetentionHeld, HeldOne
      <4>2. \A q \in cast : Op(q) \in Creators \cup {"dsr-worker"} => pc'[q] = pc[q]
        BY <3>3, RetentionMoves DEF Moves, Kept, RetentionOps, Creators
      <4>3. QED
        BY <1>0, <1>2, <3>3, <4>1, <4>2, RetentionOnceStep, OthersOnce
    <3>4. CASE (LeadStep(p) \/ EventStep(p) \/ OffboardingStep(p)) /\ UNCHANGED <<requestVars, exportVars>>
      <4>1. /\ Op(p) \in LeadOps \cup EventOps \cup JobOps
            /\ \A q \in cast \ {p} : Kept(q) \/ Op(q) = "offboard-worker"
        BY <3>4, LeadMoves, EventMoves, JobMoves DEF Moves
      <4>2. Held(p)'
        BY <4>1 DEF Held, Op, LeadOps, EventOps, JobOps
      <4>3. \A q \in cast : Held(q)'
        BY <1>2, <3>0, <4>2, HeldOne
      <4>4. \A q \in cast : Op(q) \in Creators \cup {"dsr-worker", "full-export", "export-worker"}
                             => pc'[q] = pc[q]
        BY <4>1 DEF Kept, LeadOps, EventOps, JobOps, Creators
      <4>5. QED
        BY <1>0, <1>2, <3>4, <4>3, <4>4, OthersOnce
    <3>5. QED
      BY <2>2, <3>1, <3>2, <3>3, <3>4 DEF Step
  <2>3. ASSUME UNCHANGED <<requestVars, exportVars>>,
               \A q \in cast : Kept(q) \/ Op(q) = "offboard-worker"
        PROVE  /\ \A q \in cast : Held(q)'
               /\ \A d \in Requests : ~Doing("complete", d) => RequestOnce(d)'
               /\ \A x \in FullOnes : ~Doing("approve", x) => ExportOnce(x)'
    <3>1. ASSUME NEW q \in cast PROVE Held(q)'
      <4>1. CASE Op(q) = "offboard-worker"
        BY <4>1 DEF Held, Op
      <4>2. CASE Kept(q)
        <5>1. Held(q)
          BY <1>2 DEF OnceInv
        <5>2. requests' = requests /\ exports' = exports /\ Expiring' = Expiring
          BY <2>3 DEF requestVars, exportVars, Expiring
        <5>3. QED
          BY <4>2, <5>1, <5>2 DEF Held, Kept, Op, Row
      <4>3. QED
        BY <2>3, <4>1, <4>2
    <3>2. \A q \in cast : Op(q) \in Creators \cup {"dsr-worker", "full-export", "export-worker"}
                           => pc'[q] = pc[q]
      BY <2>3 DEF Kept, Creators
    <3>3. QED
      BY <1>0, <1>2, <2>3, <3>1, <3>2, OthersOnce
  <2>4. CASE Clock
    BY <2>3, <2>4, ClockKeeps
  <2>5. CASE UNCHANGED vars
    BY <2>3, <2>5 DEF vars, procVars, Kept
  <2>6. ~Restarted
    BY <1>2 DEF Restarted, Restart
  <2>7. QED
    BY <2>2, <2>4, <2>5, <2>6 DEF Next
<1>3. QED
  BY <1>1, <1>2

LEMMA OnceInit == Init => OnceInv
<1> SUFFICES ASSUME Init PROVE OnceInv
  OBVIOUS
<1>1. \A p \in cast : /\ pc[p] \in {"asleep", "start"}
                      /\ pc[p] = "asleep" <=> Op(p) \in Workers
  BY ProcStart DEF Init
<1>2. \A p \in cast : Held(p)
  BY <1>1 DEF Held
<1>3. ASSUME NEW d \in Requests PROVE RequestOnce(d)
  <2>1. handed[d] = 0 /\ (CreatedLater(d) => requests[d].status = "absent")
    BY DEF Init, RequestInit, Present
  <2>2. ToCome(cast, pc, Creators, d, requests[d])
    BY <2>1 DEF ToCome, CreatedLater
  <2>3. InTurn(cast, pc, "dsr-worker", d, requests[d], handed[d])
    BY <1>1 DEF InTurn, Workers
  <2>4. QED
    BY <2>1, <2>2, <2>3 DEF RequestOnce, Once, OutOnce
<1>4. ASSUME NEW x \in FullOnes PROVE ExportOnce(x)
  <2>0. x \in Exports
    BY ExportsAssumption
  <2>1. /\ served[x] = 0 /\ exports[x].status # "generated"
        /\ (\E p \in cast : Row(p) = x /\ Op(p) = "full-export") => exports[x].status = "absent"
    BY <2>0 DEF Init, ExportInit
  <2>2. ToCome(cast, pc, {"full-export"}, x, exports[x])
    BY <2>1 DEF ToCome
  <2>3. InTurn(cast, pc, "export-worker", x, exports[x], served[x])
    BY <1>1 DEF InTurn, Workers
  <2>4. QED
    BY <2>1, <2>2, <2>3 DEF ExportOnce, Once, OutOnce
<1>5. QED
  BY <1>2, <1>3, <1>4 DEF OnceInv

(* In the memory build the file of a request and of a full export is       *)
(* handed out once, although no worker claims a row and the download       *)
(* checks download_used on a copy; with the two exceptions that the        *)
(* property names.                                                         *)
THEOREM FilesGoOutOnce == Spec => []OneTimeLinks
<1>1. Init => TypeInv /\ OnceInv
  BY TypeInit, OnceInit
<1>2. TypeInv /\ OnceInv /\ [Next]_vars => (TypeInv /\ OnceInv)'
  BY TypeStep, OnceStep
<1>3. OnceInv => OneTimeLinks
  BY DEF OnceInv, OneTimeLinks, RequestOnce, ExportOnce, Once, OutOnce
<1>4. QED
  BY <1>1, <1>2, <1>3, PTL DEF Spec


-----------------------------------------------------------------------------
(* The grace period.  Nothing of a job runs before its approval; the       *)
(* worker that one approval starts is alone until it has set the day of    *)
(* the deletion and a timer for that very day, if Node can count it; after *)
(* that only the timer starts a worker.                                    *)
Runners(j) == {p \in cast : Op(p) = "offboard-worker" /\ Row(p) = j}

Idle(j) == /\ jobs[j].due = Never /\ alarm[j] = Never
           /\ \A p \in Runners(j) : pc[p] = "asleep"

Short(j) == jobs[j].path = "grace_period_delete" /\ jobs[j].grace * 86400 <= 2147483

Pending(j) == \E p \in cast : /\ Op(p) = "approve-offboard" /\ Row(p) = j
                              /\ p[3] # jobs[j].by /\ pc[p] # "done"

(* A worker that uploads the certificate has the job, but for its status.  *)
JobHeld(j) ==
  \A p \in Runners(j) : pc[p] = "io" =>
    /\ copy[p] = [jobs[j] EXCEPT !.status = copy[p].status]
    /\ jobs[j].path # "grace_period_delete" \/ jobs[j].due # Never

InGrace(j) ==
  /\ Pending(j) => Idle(j)
  /\ jobs[j].due = Never =>
       /\ alarm[j] = Never
       /\ \A p, q \in Runners(j) : pc[p] # "asleep" /\ pc[q] # "asleep" => p = q
  /\ jobs[j].due # Never =>
       /\ alarm[j] = jobs[j].due \/ (alarm[j] = Never /\ day >= jobs[j].due)
       /\ \A p \in Runners(j) : pc[p] = "start" => day >= jobs[j].due

GraceFits(j) ==
  /\ \A p \in cast : Op(p) = "offboard" /\ Row(p) = j /\ pc[p] # "done" => jobs[j].status = "absent"
  /\ jobs[j].status = "absent" => Idle(j)
  /\ JobHeld(j)
  /\ jobs[j].status # "absent" /\ Short(j) /\ OneApprover(j) => InGrace(j)

GraceInv ==
  /\ build = "memory" => \A j \in Jobs : GraceFits(j)
  /\ build # "memory" => \A j \in Jobs : alarm[j] = Never /\ \A p \in Runners(j) : pc[p] = "asleep"

(* A step that leaves the job, its timer and its workers as they are.      *)
LEMMA GraceStill ==
  ASSUME NEW j \in Jobs, GraceFits(j), cast' = cast,
         jobs'[j] = jobs[j], alarm'[j] = alarm[j],
         jobs[j].due \in Nat, day \in Nat, day' \in Nat, day <= day',
         \A q \in cast : Op(q) = "offboard-worker" /\ Row(q) = j => Kept(q),
         \A q \in cast : Op(q) \in {"offboard", "approve-offboard"} /\ pc'[q] # "done" => pc[q] # "done"
  PROVE  GraceFits(j)'
<1>1. Runners(j)' = Runners(j) /\ \A q \in Runners(j) : Kept(q)
  BY DEF Runners, Op, Row
<1>2. Idle(j) => Idle(j)'
  BY <1>1 DEF Idle, Kept, Never
<1>3. JobHeld(j)'
  BY <1>1 DEF GraceFits, JobHeld, Kept, Never
<1>4. /\ OneApprover(j)' <=> OneApprover(j)
      /\ Short(j)' <=> Short(j)
      /\ Pending(j)' => Pending(j)
  <2>1. OneApprover(j)' <=> OneApprover(j)
    BY DEF OneApprover, Op, Row
  <2>2. Short(j)' <=> Short(j)
    BY DEF Short
  <2>3. Pending(j)' => Pending(j)
    BY DEF Pending, Op, Row
  <2>4. QED
    BY <2>1, <2>2, <2>3
<1>5. ASSUME InGrace(j) PROVE InGrace(j)'
  <2>1. Pending(j)' => Idle(j)'
    BY <1>2, <1>4, <1>5 DEF InGrace
  <2>2. jobs'[j].due = Never =>
          /\ alarm'[j] = Never
          /\ \A p, q \in Runners(j) : pc'[p] # "asleep" /\ pc'[q] # "asleep" => p = q
    BY <1>1, <1>5 DEF InGrace, Kept
  <2>3. jobs'[j].due # Never =>
          /\ alarm'[j] = jobs'[j].due \/ (alarm'[j] = Never /\ day' >= jobs'[j].due)
          /\ \A p \in Runners(j) : pc'[p] = "start" => day' >= jobs'[j].due
    <3>1. day >= jobs[j].due => day' >= jobs[j].due
      OBVIOUS
    <3>2. QED
      BY <1>1, <1>5, <3>1 DEF InGrace, Kept
  <2>4. QED
    BY <1>1, <2>1, <2>2, <2>3 DEF InGrace, Never
<1>6. \A p \in cast : Op(p) = "offboard" /\ Row(p) = j /\ pc'[p] # "done" => jobs'[j].status = "absent"
  BY DEF GraceFits
<1>7. QED
  BY <1>2, <1>3, <1>4, <1>5, <1>6 DEF GraceFits, Op, Row

(* The worker p goes on, and writes nothing but the status of the job.     *)
LEMMA GraceWorks ==
  ASSUME NEW j \in Jobs, jobs[j] \in Job, GraceFits(j), cast' = cast, NEW p \in Runners(j), pc[p] # "asleep",
         NEW s, s # "absent", jobs'[j] = [jobs[j] EXCEPT !.status = s],
         alarm'[j] = alarm[j], day' = day,
         \A q \in cast \ {p} : Kept(q),
         pc'[p] \in {"io", "done"},
         pc'[p] = "io" => /\ copy'[p] = jobs[j]
                          /\ jobs[j].path # "grace_period_delete" \/ jobs[j].due # Never
  PROVE  GraceFits(j)'
<1>1. /\ jobs'[j].path = jobs[j].path /\ jobs'[j].grace = jobs[j].grace
      /\ jobs'[j].by = jobs[j].by /\ jobs'[j].due = jobs[j].due
      /\ jobs'[j].status = s
      /\ \A t : [jobs'[j] EXCEPT !.status = t] = [jobs[j] EXCEPT !.status = t]
  BY DEF Job
<1>2. Runners(j)' = Runners(j) /\ Op(p) = "offboard-worker"
  BY DEF Runners, Op, Row
<1>3. ~Idle(j) /\ jobs[j].status # "absent"
  BY DEF Idle, GraceFits
<1>4. JobHeld(j)'
  <2>1. ASSUME NEW q \in Runners(j), pc'[q] = "io"
        PROVE  /\ copy'[q] = [jobs'[j] EXCEPT !.status = copy'[q].status]
               /\ jobs'[j].path # "grace_period_delete" \/ jobs'[j].due # Never
    <3>1. CASE q = p
      <4>1. jobs[j] = [jobs[j] EXCEPT !.status = jobs[j].status]
        BY DEF Job
      <4>2. QED
        BY <1>1, <2>1, <3>1, <4>1
    <3>2. CASE q # p
      <4>1. pc[q] = "io" /\ copy'[q] = copy[q]
        BY <2>1, <3>2 DEF Kept, Runners
      <4>2. /\ copy[q] = [jobs[j] EXCEPT !.status = copy[q].status]
            /\ jobs[j].path # "grace_period_delete" \/ jobs[j].due # Never
        BY <4>1 DEF GraceFits, JobHeld
      <4>3. [jobs'[j] EXCEPT !.status = copy[q].status] = [jobs[j] EXCEPT !.status = copy[q].status]
        BY <1>1
      <4>4. QED
        BY ONLY <1>1, <4>1, <4>2, <4>3
    <3>3. QED
      BY <3>1, <3>2
  <2>2. QED
    BY ONLY <1>2, <2>1 DEF JobHeld, Never
<1>5. /\ OneApprover(j)' <=> OneApprover(j)
      /\ Short(j)' <=> Short(j)
      /\ Pending(j)' => Pending(j)
  <2>1. OneApprover(j)' <=> OneApprover(j)
    BY <1>1 DEF OneApprover, Op, Row
  <2>2. Short(j)' <=> Short(j)
    <3>1. jobs'[j].path = jobs[j].path /\ jobs'[j].grace = jobs[j].grace
      BY <1>1
    <3>2. QED
      BY ONLY <3>1 DEF Short
  <2>3. Pending(j)' => Pending(j)
    BY <1>1, <1>2 DEF Pending, Op, Row, Kept
  <2>4. QED
    BY <2>1, <2>2, <2>3
<1>6. ASSUME InGrace(j) PROVE InGrace(j)'
  <2>1. ~Pending(j)'
    BY <1>3, <1>5, <1>6 DEF InGrace
  <2>2. \A q \in Runners(j) : pc'[q] = pc[q] \/ (q = p /\ pc'[q] # "start")
    BY DEF Kept, Runners
  <2>3. jobs'[j].due = Never =>
          /\ alarm'[j] = Never
          /\ \A q, r \in Runners(j) : pc'[q] # "asleep" /\ pc'[r] # "asleep" => q = r
    BY <1>1, <1>6, <2>2 DEF InGrace
  <2>4. jobs'[j].due # Never =>
          /\ alarm'[j] = jobs'[j].due \/ (alarm'[j] = Never /\ day' >= jobs'[j].due)
          /\ \A q \in Runners(j) : pc'[q] = "start" => day' >= jobs'[j].due
    BY <1>1, <1>6, <2>2 DEF InGrace
  <2>5. QED
    BY <1>2, <2>1, <2>3, <2>4 DEF InGrace, Never
<1>7. \A q \in cast : Op(q) = "offboard" /\ Row(q) = j => pc'[q] = "done"
  BY <1>2, <1>3 DEF GraceFits, Kept
<1>8. QED
  BY <1>1, <1>3, <1>4, <1>5, <1>6, <1>7 DEF GraceFits, Op, Row


(* The numbers of a job that can be.                                       *)
LEMMA Dates ==
  ASSUME TypeInv, NEW j \in Jobs
  PROVE  /\ jobs[j] \in Job /\ jobs[j].due \in Nat /\ jobs[j].grace \in 0 .. 999
         /\ day \in Nat /\ day < Never /\ day + jobs[j].grace # Never
         /\ jobs \in [Jobs -> Job] /\ alarm \in [Jobs -> Nat]
<1>1. jobs \in [Jobs -> Job] /\ day \in 0 .. LastDay /\ alarm \in [Jobs -> Nat] /\ LastDay \in Nat
  BY OffboardingAssumption DEF TypeInv, RowTypes, JobTypes
<1>2. jobs[j] \in Job
  BY <1>1
<1>3. jobs[j].due \in Nat /\ jobs[j].grace \in GraceDays \cup {0}
  BY <1>2 DEF Job
<1>4. jobs[j].grace \in 0 .. 999
  <2>1. \A n \in GraceDays \cup {0} : n \in 0 .. 999
    BY OffboardingAssumption
  <2>2. QED
    BY <1>3, <2>1
<1>5. QED
  BY <1>1, <1>2, <1>3, <1>4 DEF Never

(* The first approval, when nothing of the job runs yet.                   *)
LEMMA ApprovalGrace ==
  ASSUME TypeInv, GraceInv, build = "memory", NEW p \in cast, Approve(p),
         NEW j \in Jobs, Row(p) = j
  PROVE  GraceFits(j)'
<1>0. /\ ProcOk /\ Thread /\ GraceFits(j) /\ jobs \in [Jobs -> Job] /\ jobs[j] \in Job
      /\ jobs[j].due \in Nat /\ day \in Nat /\ alarm' = alarm /\ day' = day
      /\ Op(p) = "approve-offboard" /\ pc[p] = "start" /\ At(p, Op(p), pc[p])
      /\ jobs[j].status # "absent"
  BY Dates, AtFacts DEF TypeInv, GraceInv, Approve
<1>1. CASE jobs[j].by = p[3]
  <2>1. Return(p) /\ jobs' = jobs
    BY <1>1 DEF Approve
  <2>2. pc'[p] = "done" /\ cast' = cast /\ \A q \in cast \ {p} : Kept(q)
    BY <1>0, <2>1, GoFacts DEF Return, Kept
  <2>3. /\ \A q \in cast : Op(q) = "offboard-worker" /\ Row(q) = j => Kept(q)
        /\ \A q \in cast : Op(q) \in {"offboard", "approve-offboard"} /\ pc'[q] # "done" => pc[q] # "done"
    BY <1>0, <2>2 DEF Kept
  <2>4. QED
    BY <1>0, <2>1, <2>2, <2>3, GraceStill
<1>2. CASE jobs[j].by # p[3]
  <2>1. PICK s \in {"deletion_in_progress", "export_in_progress"} :
          jobs' = [jobs EXCEPT ![j].status = s]
    BY <1>2 DEF Approve
  <2>2. Spawn(p, "done", {Offboarder(j, p[3])})
    BY <1>2 DEF Approve
  <2>3. /\ pc'[p] = "done" /\ cast' = cast
        /\ \A q \in cast \ {p} : Kept(q) \/ (q = Offboarder(j, p[3]) /\ Woken(q))
    BY <1>0, <2>2, SpawnFacts DEF Kept, Woken
  <2>4. /\ jobs'[j].path = jobs[j].path /\ jobs'[j].grace = jobs[j].grace
        /\ jobs'[j].by = jobs[j].by /\ jobs'[j].due = jobs[j].due
        /\ jobs'[j].status = s
        /\ \A t : [jobs'[j] EXCEPT !.status = t] = [jobs[j] EXCEPT !.status = t]
    BY <1>0, <2>1 DEF Job
  <2>5. Op(Offboarder(j, p[3])) = "offboard-worker"
    BY DEF Offboarder, Op
  <2>6. Runners(j)' = Runners(j)
    BY <2>3 DEF Runners, Op, Row
  <2>7. JobHeld(j)'
    <3>1. ASSUME NEW q \in Runners(j), pc'[q] = "io"
          PROVE  /\ copy'[q] = [jobs'[j] EXCEPT !.status = copy'[q].status]
                 /\ jobs'[j].path # "grace_period_delete" \/ jobs'[j].due # Never
      <4>1. pc[q] = "io" /\ copy'[q] = copy[q]
        BY <1>0, <2>3, <3>1 DEF Kept, Woken, Runners
      <4>2. /\ copy[q] = [jobs[j] EXCEPT !.status = copy[q].status]
            /\ jobs[j].path # "grace_period_delete" \/ jobs[j].due # Never
        BY <1>0, <4>1 DEF GraceFits, JobHeld
      <4>3. [jobs'[j] EXCEPT !.status = copy[q].status] = [jobs[j] EXCEPT !.status = copy[q].status]
        BY <2>4
      <4>4. QED
        BY ONLY <2>4, <4>1, <4>2, <4>3
    <3>2. QED
      BY ONLY <2>6, <3>1 DEF JobHeld, Never
  <2>8. ASSUME Short(j)', OneApprover(j)' PROVE InGrace(j)'
    <3>1. Short(j) /\ OneApprover(j)
      <4>1. OneApprover(j)
        BY <2>3, <2>4, <2>8 DEF OneApprover, Op, Row
      <4>2. jobs'[j].path = jobs[j].path /\ jobs'[j].grace = jobs[j].grace
        BY <2>4
      <4>3. Short(j)
        BY ONLY <2>8, <4>2 DEF Short
      <4>4. QED
        BY <4>1, <4>3
    <3>2. Pending(j)
      BY <1>0, <1>2 DEF Pending
    <3>3. Idle(j)
      BY <1>0, <3>1, <3>2 DEF GraceFits, InGrace
    <3>4. ~Pending(j)'
      <4>1. \A q \in cast : Op(q) = "approve-offboard" /\ Row(q) = j /\ q[3] # jobs[j].by => q = p
        BY <1>0, <1>2, <3>1 DEF OneApprover
      <4>2. QED
        BY <2>3, <2>4, <4>1 DEF Pending, Op, Row
    <3>5. \A q \in Runners(j) : pc'[q] # "asleep" => q = Offboarder(j, p[3])
      BY <1>0, <2>3, <3>3 DEF Idle, Kept, Runners
    <3>6. jobs'[j].due = Never /\ alarm'[j] = Never
      BY <1>0, <2>4, <3>3 DEF Idle
    <3>7. QED
      BY <2>6, <3>4, <3>5, <3>6 DEF InGrace, Never
  <2>9. \A q \in cast : Op(q) = "offboard" /\ Row(q) = j => pc'[q] = "done"
    BY <1>0, <2>3, <2>5 DEF GraceFits, Kept
  <2>10. QED
    <3>1. jobs'[j].status # "absent" /\ cast' = cast
      BY <2>3, <2>4
    <3>2. QED
      BY ONLY <2>7, <2>8, <2>9, <3>1 DEF GraceFits, Op, Row
<1>3. QED
  BY <1>1, <1>2

(* The day of the deletion is set by the worker that the approval started. *)
LEMMA ScheduleGrace ==
  ASSUME TypeInv, GraceInv, build = "memory", NEW p \in cast, ScheduleDeletion(p),
         NEW j \in Jobs, Row(p) = j
  PROVE  GraceFits(j)'
<1>0. /\ ProcOk /\ Thread /\ GraceFits(j) /\ jobs \in [Jobs -> Job] /\ jobs[j] \in Job
      /\ jobs[j].grace \in 0 .. 999 /\ day \in Nat /\ day + jobs[j].grace # Never
      /\ day < Never /\ alarm \in [Jobs -> Nat]
      /\ Op(p) = "offboard-worker" /\ pc[p] = "start" /\ At(p, Op(p), pc[p])
      /\ jobs[j].path = "grace_period_delete" /\ jobs[j].due = Never
  <2>1. ProcOk /\ Thread
    BY DEF TypeInv
  <2>2. GraceFits(j)
    BY DEF GraceInv
  <2>3. /\ At(p, "offboard-worker", "start")
        /\ jobs[j].path = "grace_period_delete" /\ jobs[j].due = Never
    BY DEF ScheduleDeletion, Job0
  <2>4. Op(p) = "offboard-worker" /\ pc[p] = "start" /\ At(p, Op(p), pc[p])
    BY <2>3, AtFacts
  <2>5. /\ jobs \in [Jobs -> Job] /\ jobs[j] \in Job /\ jobs[j].grace \in 0 .. 999
        /\ day \in Nat /\ day + jobs[j].grace # Never /\ day < Never
        /\ alarm \in [Jobs -> Nat]
    BY Dates
  <2>6. QED
    BY ONLY <2>1, <2>2, <2>3, <2>4, <2>5
<1>1. pc'[p] = "done" /\ cast' = cast /\ day' = day /\ \A q \in cast \ {p} : Kept(q)
  BY <1>0, GoFacts DEF ScheduleDeletion, Return, Kept
<1> DEFINE due == day + jobs[j].grace
<1>2. /\ jobs' = [jobs EXCEPT ![j].status = "awaiting_grace_period", ![j].due = due]
      /\ alarm' = [alarm EXCEPT ![j] = day + TimerDays(jobs[j].grace)]
      /\ due # Never
  BY <1>0 DEF ScheduleDeletion, Job0
<1>3. jobs[j].grace * 86400 <= 2147483 => alarm'[j] = due
  BY <1>0, <1>2 DEF TimerDays
<1> HIDE DEF due
<1>4. /\ jobs'[j].path = jobs[j].path /\ jobs'[j].grace = jobs[j].grace
      /\ jobs'[j].by = jobs[j].by /\ jobs'[j].due = due
      /\ jobs'[j].status = "awaiting_grace_period"
  BY <1>0, <1>2 DEF Job
<1>5. p \in Runners(j) /\ Runners(j)' = Runners(j)
  BY <1>0, <1>1 DEF Runners, Op, Row
<1>6. ~Idle(j) /\ jobs[j].status # "absent"
  BY <1>0, <1>5 DEF Idle, GraceFits
<1>7. JobHeld(j)'
  <2>1. ASSUME NEW q \in Runners(j) PROVE pc'[q] # "io"
    <3>1. pc[q] # "io"
      BY <1>0 DEF GraceFits, JobHeld
    <3>2. QED
      BY <1>1, <3>1 DEF Kept, Runners
  <2>2. QED
    BY <1>5, <2>1 DEF JobHeld
<1>8. ASSUME Short(j)', OneApprover(j)' PROVE InGrace(j)'
  <2>1. Short(j) /\ OneApprover(j)
    <3>1. OneApprover(j)
      BY <1>1, <1>4, <1>8 DEF OneApprover, Op, Row
    <3>2. jobs'[j].path = jobs[j].path /\ jobs'[j].grace = jobs[j].grace
      BY <1>4
    <3>3. Short(j)
      BY ONLY <1>8, <3>2 DEF Short
    <3>4. QED
      BY <3>1, <3>3
  <2>2. InGrace(j)
    BY <1>6, <2>1, <1>0 DEF GraceFits
  <2>3. ~Pending(j)'
    <3>1. ~Pending(j)
      BY <1>6, <2>2 DEF InGrace
    <3>2. QED
      BY <1>0, <1>1, <1>4, <3>1 DEF Pending, Op, Row, Kept
  <2>4. \A q \in Runners(j) : pc'[q] # "start"
    <3>1. \A q \in Runners(j) : pc[q] = "start" => q = p
      BY <1>0, <1>5, <2>2 DEF InGrace
    <3>2. QED
      BY <1>1, <3>1 DEF Kept, Runners
  <2>5. alarm'[j] = due
    BY <1>3, <2>1 DEF Short
  <2>6. QED
    BY <1>2, <1>4, <1>5, <2>3, <2>4, <2>5 DEF InGrace, Never
<1>9. \A q \in cast : Op(q) = "offboard" /\ Row(q) = j => pc'[q] = "done"
  BY <1>0, <1>1, <1>6 DEF GraceFits, Kept
<1>10. QED
  <2>1. jobs'[j].status # "absent" /\ cast' = cast
    BY <1>1, <1>4
  <2>2. QED
    BY ONLY <1>7, <1>8, <1>9, <2>1 DEF GraceFits, Op, Row


LEMMA JobGrace ==
  ASSUME TypeInv, GraceInv, build = "memory", NEW p \in cast, OffboardingStep(p),
         NEW j \in Jobs
  PROVE  GraceFits(j)'
<1>0. /\ ProcOk /\ Thread /\ GraceFits(j) /\ jobs \in [Jobs -> Job] /\ jobs[j] \in Job
      /\ jobs[j].due \in Nat /\ day \in Nat /\ alarm \in [Jobs -> Nat] /\ Fits(p)
      /\ At(p, Op(p), pc[p]) /\ Op(p) \in JobOps /\ day' = day /\ cast' = cast
  <2>1. day' = day
    BY DEF OffboardingStep, Initiate, Approve, AwaitExport, ScheduleDeletion, DeleteData,
       IssueCertificate, FailCertificate
  <2>2. QED
    BY <2>1, Dates, JobMoves DEF TypeInv, GraceInv, Moves
<1>1. CASE Row(p) # j
  <2>1. jobs'[j] = jobs[j] /\ alarm'[j] = alarm[j]
    <3>1. CASE Initiate(p)
      BY <1>0, <1>1, <3>1 DEF Initiate
    <3>2. CASE Approve(p) \/ AwaitExport(p) \/ ScheduleDeletion(p)
      BY <1>0, <1>1, <3>2 DEF Approve, AwaitExport, ScheduleDeletion
    <3>3. CASE DeleteData(p) \/ IssueCertificate(p) \/ FailCertificate(p)
      BY <1>0, <1>1, <3>3 DEF DeleteData, IssueCertificate, FailCertificate
    <3>4. QED
      BY <3>1, <3>2, <3>3 DEF OffboardingStep
  <2>2. \A q \in cast \ {p} : Kept(q) \/ (Row(q) = Row(p) /\ Op(q) = "offboard-worker" /\ Woken(q))
    <3>1. CASE Approve(p) /\ ~Return(p)
      <4>1. Spawn(p, "done", {Offboarder(Row(p), p[3])})
        BY <3>1 DEF Approve
      <4>2. \A q \in cast \ {p} : Kept(q) \/ (q = Offboarder(Row(p), p[3]) /\ Woken(q))
        BY <1>0, <4>1, SpawnFacts DEF Kept, Woken
      <4>3. Row(Offboarder(Row(p), p[3])) = Row(p) /\ Op(Offboarder(Row(p), p[3])) = "offboard-worker"
        BY DEF Offboarder, Row, Op
      <4>4. QED
        BY <4>2, <4>3
    <3>2. CASE Return(p) \/ DeleteData(p)
      BY <1>0, <3>2, GoFacts DEF Return, DeleteData, Kept
    <3>3. CASE Initiate(p) \/ AwaitExport(p) \/ ScheduleDeletion(p) \/ IssueCertificate(p) \/ FailCertificate(p)
      BY <3>2, <3>3 DEF Initiate, AwaitExport, ScheduleDeletion, IssueCertificate, FailCertificate
    <3>4. QED
      BY <3>1, <3>2, <3>3 DEF OffboardingStep
  <2>3. pc[p] # "done"
    <3>1. \A op, l : At(p, op, l) => l = pc[p]
      BY AtFacts
    <3>2. QED
      BY <3>1 DEF OffboardingStep, Initiate, Approve, AwaitExport, ScheduleDeletion, DeleteData,
         IssueCertificate, FailCertificate
  <2>4. /\ \A q \in cast : Op(q) = "offboard-worker" /\ Row(q) = j => Kept(q)
        /\ \A q \in cast : Op(q) \in {"offboard", "approve-offboard"} /\ pc'[q] # "done" => pc[q] # "done"
    BY <1>1, <2>2, <2>3 DEF Kept
  <2>5. QED
    BY <1>0, <2>1, <2>4, GraceStill
<1>2. CASE Row(p) = j /\ Initiate(p)
  <2>1. /\ Op(p) = "offboard" /\ pc[p] = "start" /\ pc'[p] = "done" /\ alarm' = alarm
        /\ \A q \in cast \ {p} : Kept(q)
    BY <1>0, <1>2, AtFacts, GoFacts DEF Initiate, Return, Kept
  <2>2. Idle(j)
    BY <1>0, <1>2, <2>1 DEF GraceFits
  <2>3. PICK path \in Paths, grace \in GraceDays :
          jobs' = [jobs EXCEPT ![j] =
                     [path |-> path, by |-> p[3], due |-> Never, status |-> "awaiting_approval",
                      grace |-> IF path = "grace_period_delete" THEN grace ELSE 0]]
    BY <1>2 DEF Initiate
  <2>4. jobs'[j].due = Never /\ jobs'[j].status = "awaiting_approval"
    BY <1>0, <2>3
  <2>5. Runners(j)' = Runners(j) /\ \A q \in Runners(j) : pc'[q] = "asleep"
    BY <1>0, <2>1, <2>2 DEF Runners, Op, Row, Kept, Idle
  <2>6. Idle(j)'
    BY <2>1, <2>2, <2>4, <2>5 DEF Idle, Never
  <2>7. JobHeld(j)'
    BY <2>5 DEF JobHeld
  <2>8. InGrace(j)'
    BY <2>4, <2>5, <2>6 DEF InGrace, Idle, Never
  <2>9. \A q \in cast : Op(q) = "offboard" /\ Row(q) = j => pc'[q] = "done"
    BY <1>0, <1>2, <2>1, OffboardingAssumption DEF ProcOk
  <2>10. QED
    BY ONLY <1>0, <2>4, <2>7, <2>8, <2>9 DEF GraceFits, Op, Row
<1>3. CASE Row(p) = j /\ (Approve(p) \/ ScheduleDeletion(p))
  BY <1>3, ApprovalGrace, ScheduleGrace
<1>4. CASE Row(p) = j /\ (AwaitExport(p) \/ DeleteData(p) \/ IssueCertificate(p) \/ FailCertificate(p))
  <2>1. p \in Runners(j) /\ pc[p] \in {"start", "io"} /\ alarm' = alarm
    BY <1>4, AtFacts DEF AwaitExport, DeleteData, IssueCertificate, FailCertificate, Runners
  <2>2. \A q \in cast \ {p} : Kept(q)
    <3>1. \E l, c : Go(p, l, c)
      BY <1>4 DEF AwaitExport, DeleteData, IssueCertificate, FailCertificate, Return
    <3>2. QED
      BY <1>0, <3>1, GoFacts DEF Kept
  <2>3. /\ pc'[p] \in {"io", "done"}
        /\ pc'[p] = "io" => /\ copy'[p] = jobs[j]
                            /\ jobs[j].path # "grace_period_delete" \/ jobs[j].due # Never
    <3>1. CASE AwaitExport(p) \/ IssueCertificate(p) \/ FailCertificate(p)
      BY <1>0, <3>1, GoFacts DEF AwaitExport, IssueCertificate, FailCertificate, Return
    <3>2. CASE DeleteData(p)
      BY <1>0, <1>4, <3>2, GoFacts DEF DeleteData, Job0
    <3>3. QED
      BY <1>4, <3>1, <3>2
  <2>4. \E s : s # "absent" /\ jobs'[j] = [jobs[j] EXCEPT !.status = s]
    <3>1. CASE AwaitExport(p)
      BY <1>0, <1>4, <3>1 DEF AwaitExport
    <3>2. CASE DeleteData(p)
      BY <1>0, <1>4, <3>2 DEF DeleteData
    <3>3. CASE IssueCertificate(p) \/ FailCertificate(p)
      <4>1. pc[p] = "io"
        BY <3>3, AtFacts DEF IssueCertificate, FailCertificate
      <4>2. copy[p] = [jobs[j] EXCEPT !.status = copy[p].status]
        BY <1>0, <2>1, <4>1 DEF GraceFits, JobHeld
      <4>3. PICK s \in {"completed", "failed"} : jobs' = [jobs EXCEPT ![j] = [copy[p] EXCEPT !.status = s]]
        BY <1>4, <3>3 DEF IssueCertificate, FailCertificate
      <4>4. jobs'[j] = [copy[p] EXCEPT !.status = s]
        BY <1>0, <4>3
      <4> DEFINE t == copy[p].status
      <4>5. copy[p] = [jobs[j] EXCEPT !.status = t]
        BY <4>2
      <4> HIDE DEF t
      <4>6. [copy[p] EXCEPT !.status = s] = [jobs[j] EXCEPT !.status = s]
        BY <1>0, <4>5 DEF Job
      <4>7. QED
        BY <4>4, <4>6
    <3>4. QED
      BY <1>4, <3>1, <3>2, <3>3
  <2>5. QED
    BY <1>0, <2>1, <2>2, <2>3, <2>4, GraceWorks
<1>5. QED
  BY <1>1, <1>2, <1>3, <1>4 DEF OffboardingStep

(* The clock: days pass, or the timer of a job runs out.                   *)
LEMMA ClockGrace ==
  ASSUME TypeInv, TypeInv', GraceInv, build = "memory", Clock, NEW j \in Jobs
  PROVE  GraceFits(j)'
<1>0. /\ ProcOk /\ GraceFits(j) /\ jobs[j] \in Job /\ jobs[j].due \in Nat /\ day \in Nat /\ day < Never
      /\ day' \in Nat /\ alarm \in [Jobs -> Nat] /\ cast' = cast
  <2>1. day' \in 0 .. LastDay /\ LastDay \in Nat
    BY OffboardingAssumption DEF TypeInv, RowTypes, JobTypes
  <2>2. QED
    BY <2>1, Dates, ClockKeeps DEF TypeInv, GraceInv
<1>1. CASE UNCHANGED <<procVars, jobs, alarm>> /\ day <= day'
  BY <1>0, <1>1, GraceStill DEF procVars, Kept
<1>2. CASE RingAlarm
  <2>1. PICK i \in Jobs :
          /\ alarm[i] <= day
          /\ alarm' = [alarm EXCEPT ![i] = Never]
          /\ Offboarder(i, 3) \in cast
          /\ pc[Offboarder(i, 3)] \in {"asleep", "done"}
          /\ pc' = [pc EXCEPT ![Offboarder(i, 3)] = "start"]
          /\ UNCHANGED <<build, cast, copy, restarts, jobs, tenant, day, leadVars, eventVars>>
    BY <1>2 DEF RingAlarm
  <2> DEFINE r == Offboarder(i, 3)
  <2>2. Op(r) = "offboard-worker" /\ Row(r) = i
    BY DEF Offboarder, Op, Row
  <2>3. /\ r \in cast /\ pc'[r] = "start" /\ \A q \in cast \ {r} : Kept(q)
        /\ jobs' = jobs /\ day' = day /\ copy' = copy
    BY <2>1, <1>0 DEF Kept, ProcOk
  <2>4. alarm[i] <= day /\ alarm' = [alarm EXCEPT ![i] = Never]
    BY <2>1
  <2> HIDE DEF r
  <2>5. CASE i # j
    <3>1. alarm'[j] = alarm[j]
      BY <1>0, <2>4, <2>5
    <3>2. /\ \A q \in cast : Op(q) = "offboard-worker" /\ Row(q) = j => Kept(q)
          /\ \A q \in cast : Op(q) \in {"offboard", "approve-offboard"} /\ pc'[q] # "done" => pc[q] # "done"
      BY <2>2, <2>3, <2>5 DEF Kept
    <3>3. QED
      BY <1>0, <2>3, <3>1, <3>2, GraceStill
  <2>6. CASE i = j
    <3>1. alarm[j] # Never /\ alarm'[j] = Never /\ ~Idle(j)
      BY <1>0, <2>4, <2>6 DEF Idle
    <3>2. jobs[j].status # "absent"
      BY <1>0, <3>1 DEF GraceFits
    <3>3. Runners(j)' = Runners(j)
      BY <1>0 DEF Runners, Op, Row
    <3>4. JobHeld(j)'
      <4>1. \A q \in Runners(j) : pc'[q] = "io" => pc[q] = "io"
        BY <2>3 DEF Kept, Runners
      <4>2. QED
        BY <1>0, <2>3, <3>3, <4>1 DEF GraceFits, JobHeld, Never
    <3>5. ASSUME Short(j)', OneApprover(j)' PROVE InGrace(j)'
      <4>1. Short(j) /\ OneApprover(j)
        BY <1>0, <2>3, <3>5 DEF Short, OneApprover, Op, Row
      <4>2. InGrace(j)
        BY <1>0, <3>2, <4>1 DEF GraceFits
      <4>3. ~Pending(j)'
        <5>1. ~Pending(j)
          BY <3>1, <4>2 DEF InGrace
        <5>2. QED
          BY <1>0, <2>2, <2>3, <5>1 DEF Pending, Op, Row, Kept
      <4>4. jobs[j].due # Never /\ alarm[j] = jobs[j].due /\ day >= jobs[j].due
        BY <1>0, <2>4, <2>6, <3>1, <4>2 DEF InGrace
      <4>5. QED
        BY <2>3, <3>1, <4>3, <4>4 DEF InGrace, Never
    <3>6. \A q \in cast : Op(q) = "offboard" /\ Row(q) = j => pc'[q] = "done"
      BY <1>0, <2>2, <2>3, <3>2 DEF GraceFits, Kept
    <3>7. QED
      BY ONLY <1>0, <2>3, <3>2, <3>4, <3>5, <3>6 DEF GraceFits, Op, Row
  <2>7. QED
    BY <2>5, <2>6
<1>3. CASE Ageing /\ UNCHANGED <<requestVars, offboardingVars>>
  BY <1>0, <1>1, <1>3 DEF Ageing, offboardingVars
<1>4. CASE PassDays
  <2>1. PICK d : day < d /\ day' = d
    BY <1>4 DEF PassDays
  <2>2. UNCHANGED <<procVars, jobs, alarm>> /\ day <= day'
    BY <1>0, <1>4, <2>1 DEF PassDays
  <2>3. QED
    BY <1>1, <2>2
<1>5. QED
  BY <1>2, <1>3, <1>4 DEF Clock


(* A step of another component.                                            *)
LEMMA OthersGrace ==
  ASSUME TypeInv, GraceInv, cast' = cast, build' = build, UNCHANGED offboardingVars,
         \A q \in cast : Op(q) \in JobOps => Kept(q)
  PROVE  GraceInv'
<1>0. jobs' = jobs /\ alarm' = alarm /\ day' = day
  BY DEF offboardingVars
<1>1. CASE build = "memory"
  <2>1. ASSUME NEW j \in Jobs PROVE GraceFits(j)'
    <3>1. /\ \A q \in cast : Op(q) = "offboard-worker" /\ Row(q) = j => Kept(q)
          /\ \A q \in cast : Op(q) \in {"offboard", "approve-offboard"} /\ pc'[q] # "done" => pc[q] # "done"
      BY DEF JobOps, Kept
    <3>2. QED
      BY <1>0, <1>1, <3>1, Dates, GraceStill DEF GraceInv
  <2>2. QED
    BY <1>1, <2>1 DEF GraceInv
<1>2. CASE build # "memory"
  BY <1>0, <1>2 DEF GraceInv, Runners, Op, Row, Kept, JobOps, Never
<1>3. QED
  BY <1>1, <1>2

(* Over Postgres no worker of an offboarding is ever started.              *)
LEMMA PostgresGrace ==
  ASSUME TypeInv, GraceInv, build # "memory", [Next]_vars
  PROVE  GraceInv'
<1>0. /\ build' = build /\ cast' = cast /\ ProcOk /\ Thread
      /\ \A j \in Jobs : alarm[j] = Never /\ \A q \in Runners(j) : pc[q] = "asleep"
  BY Frame DEF TypeInv, GraceInv
<1>a. \A q \in cast : Op(q) = "offboard-worker" => pc[q] = "asleep"
  BY <1>0, CastRows DEF Runners, JobOps
<1>b. ASSUME alarm' = alarm, \A q \in cast : Op(q) = "offboard-worker" => pc'[q] = "asleep"
      PROVE  GraceInv'
  BY <1>0, <1>b DEF GraceInv, Runners, Op, Row, Never
<1>1. ASSUME NEW p \in cast, Step(p) PROVE GraceInv'
  <2>1. CASE OffboardingStep(p)
    <3>1. Op(p) \in JobOps /\ At(p, Op(p), pc[p])
      BY <1>0, <2>1, JobMoves DEF Moves
    <3>2. Initiate(p) \/ Approve(p)
      <4>1. \A l : At(p, "offboard-worker", l) => l = "asleep"
        BY <1>a, AtFacts
      <4>2. QED
        BY <2>1, <4>1 DEF OffboardingStep, AwaitExport, ScheduleDeletion, DeleteData, IssueCertificate,
           FailCertificate
    <3>3. build = "postgres"
      BY <1>0, BuildsAssumption DEF ProcOk
    <3>4. Return(p) /\ alarm' = alarm /\ Op(p) # "offboard-worker"
      BY <3>2, <3>3, AtFacts DEF Initiate, Approve
    <3>5. \A q \in cast : Op(q) = "offboard-worker" => pc'[q] = "asleep"
      BY <1>0, <1>a, <3>4, GoFacts DEF Return
    <3>6. QED
      BY <1>b, <3>4, <3>5
  <2>2. CASE ~OffboardingStep(p)
    <3>1. /\ UNCHANGED offboardingVars
          /\ Op(p) \notin JobOps /\ \A q \in cast \ {p} : Op(q) \in JobOps => Kept(q)
      <4>1. CASE (LeadStep(p) \/ EventStep(p)) /\ UNCHANGED offboardingVars
        BY <1>0, <4>1, LeadMoves, EventMoves DEF Moves, LeadOps, EventOps, JobOps
      <4>2. CASE RequestStep(p) /\ UNCHANGED offboardingVars
        BY <1>0, <4>2, RequestMoves DEF Moves, RequestOps, JobOps
      <4>3. CASE ExportStep(p) /\ UNCHANGED offboardingVars
        BY <1>0, <4>3, ExportMoves DEF Moves, ExportOps, JobOps
      <4>4. CASE RetentionStep(p) /\ UNCHANGED offboardingVars
        BY <1>0, <4>4, RetentionMoves DEF Moves, RetentionOps, JobOps
      <4>5. QED
        BY <1>1, <2>2, <4>1, <4>2, <4>3, <4>4 DEF Step
    <3>2. QED
      BY <1>0, <3>1, OthersGrace
  <2>3. QED
    BY <2>1, <2>2
<1>2. CASE Clock
  <2>1. ~RingAlarm
    <3>1. \A j \in Jobs : ~(alarm[j] <= day)
      BY <1>0, Dates
    <3>2. QED
      BY <3>1 DEF RingAlarm
  <2>2. alarm' = alarm /\ UNCHANGED procVars
    BY <1>2, <2>1 DEF Clock, Ageing, PassDays, offboardingVars
  <2>3. QED
    BY <1>a, <1>b, <2>2 DEF procVars
<1>3. CASE Restarted
  <2>1. \A q \in cast : Op(q) = "offboard-worker" => pc'[q] = "asleep"
    BY <1>3 DEF Restarted, Restart, Workers, Pollers
  <2>2. alarm' = alarm
    BY <1>3 DEF Restarted, offboardingVars
  <2>3. QED
    BY <1>b, <2>1, <2>2
<1>4. CASE UNCHANGED vars
  BY <1>0, <1>4, OthersGrace DEF vars, procVars, Kept
<1>5. QED
  BY <1>1, <1>2, <1>3, <1>4 DEF Next

LEMMA GraceStep == TypeInv /\ GraceInv /\ [Next]_vars => GraceInv'
<1> SUFFICES ASSUME TypeInv, GraceInv, [Next]_vars PROVE GraceInv'
  OBVIOUS
<1>0. build' = build /\ cast' = cast /\ ProcOk /\ Thread /\ TypeInv'
  BY Frame, TypeStep DEF TypeInv
<1>1. CASE build # "memory"
  BY <1>1, PostgresGrace
<1>2. CASE build = "memory"
  <2>1. ASSUME NEW p \in cast, Step(p) PROVE GraceInv'
    <3>1. CASE OffboardingStep(p)
      BY <1>0, <1>2, <3>1, JobGrace DEF GraceInv
    <3>2. CASE ~OffboardingStep(p)
      <4>1. /\ UNCHANGED offboardingVars
            /\ \A q \in cast : Op(q) \in JobOps => Kept(q)
        <5>1. CASE (LeadStep(p) \/ EventStep(p)) /\ UNCHANGED offboardingVars
          BY <1>0, <5>1, LeadMoves, EventMoves DEF Moves, LeadOps, EventOps, JobOps
        <5>2. CASE RequestStep(p) /\ UNCHANGED offboardingVars
          BY <1>0, <5>2, RequestMoves DEF Moves, RequestOps, JobOps
        <5>3. CASE ExportStep(p) /\ UNCHANGED offboardingVars
          BY <1>0, <5>3, ExportMoves DEF Moves, ExportOps, JobOps
        <5>4. CASE RetentionStep(p) /\ UNCHANGED offboardingVars
          BY <1>0, <5>4, RetentionMoves DEF Moves, RetentionOps, JobOps
        <5>5. QED
          BY <2>1, <3>2, <5>1, <5>2, <5>3, <5>4 DEF Step
      <4>2. QED
        BY <1>0, <4>1, OthersGrace
    <3>3. QED
      BY <3>1, <3>2
  <2>2. CASE Clock
    BY <1>0, <1>2, <2>2, ClockGrace DEF GraceInv
  <2>3. CASE UNCHANGED vars
    BY <1>0, <2>3, OthersGrace DEF vars, procVars, Kept
  <2>4. ~Restarted
    BY <1>2 DEF Restarted, Restart
  <2>5. QED
    BY <2>1, <2>2, <2>3, <2>4 DEF Next
<1>3. QED
  BY <1>1, <1>2

LEMMA GraceInit == Init => GraceInv
<1> SUFFICES ASSUME Init PROVE GraceInv
  OBVIOUS
<1>1. \A p \in cast : Op(p) = "offboard-worker" => pc[p] = "asleep"
  BY ProcStart DEF Init, Workers
<1>2. ASSUME NEW j \in Jobs PROVE Idle(j) /\ jobs[j].status = "absent" /\ JobHeld(j)
  BY <1>1 DEF Init, OffboardingInit, Idle, JobHeld, Runners
<1>3. QED
  BY <1>2 DEF GraceInv, GraceFits, Idle

(* A tenant keeps its data to the end of the grace period it was given, if *)
(* Node can count it and one admin approved: no interaction is erased and  *)
(* no profile blanked by the offboarding before that day.                  *)
THEOREM ShortGraceIsKept == Spec => ShortGraceKept
<1> DEFINE InTime ==
             \A p \in cast : DeleteData(p) /\ Job0(p).grace * 86400 <= 2147483 /\ OneApprover(Row(p))
               /\ Job0(p).path = "grace_period_delete" => day >= Job0(p).due
<1>1. Init => TypeInv /\ GraceInv
  BY TypeInit, GraceInit
<1>2. TypeInv /\ GraceInv /\ [Next]_vars => (TypeInv /\ GraceInv)'
  BY TypeStep, GraceStep
<1>3. TypeInv /\ GraceInv => InTime
  <2> SUFFICES ASSUME TypeInv, GraceInv, NEW p \in cast, DeleteData(p),
                      Job0(p).grace * 86400 <= 2147483, OneApprover(Row(p)),
                      Job0(p).path = "grace_period_delete"
               PROVE  day >= Job0(p).due
    OBVIOUS
  <2> DEFINE j == Row(p)
  <2>1. Op(p) = "offboard-worker" /\ pc[p] = "start" /\ jobs[j].due # Never
    BY AtFacts DEF DeleteData, Job0
  <2>2. j \in Jobs /\ p \in Runners(j)
    BY <2>1, CastRows DEF TypeInv, JobOps, Runners
  <2>3. GraceFits(j)
    BY <2>1, <2>2 DEF GraceInv
  <2>4. jobs[j].status # "absent" /\ Short(j) /\ OneApprover(j)
    BY <2>1, <2>2, <2>3 DEF GraceFits, Idle, Short, Job0
  <2>5. QED
    BY <2>1, <2>2, <2>3, <2>4 DEF GraceFits, InGrace, Job0
<1>4. TypeInv /\ GraceInv /\ [Next]_vars => [InTime]_vars
  BY <1>3
<1>5. QED
  BY <1>1, <1>2, <1>4, PTL DEF Spec, ShortGraceKept
=============================================================================
