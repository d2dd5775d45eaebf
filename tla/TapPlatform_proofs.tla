------------------------- MODULE TapPlatform_proofs -------------------------
(***************************************************************************)
(* Theorems about TapPlatform for every value of its constants.            *)
(***************************************************************************)
EXTENDS TapPlatform, TLAPS

(* The step of a client inside ingestTapEvent, whoever the client is. *)
Ingesting(c) == IngestStep(c) /\ UNCHANGED <<deviceVars, iotVars>>

(* What a step is, for the case splits below. *)
LEMMA StepCases ==
  ASSUME [Next]_vars
  PROVE  \/ \E k \in Keys : Capture(k) /\ UNCHANGED iotVars
         \/ \E c \in Clients : Ingesting(c)
         \/ \E c \in Requests :
              /\ UNCHANGED iotVars
              /\ \/ Post(c) \/ IssueLink(c) \/ FailRequest(c)
                 \/ Answer(c) \/ LoseAnswer(c) \/ DropRequest(c)
         \/ \E r \in Runs :
              /\ UNCHANGED deviceVars
              /\ \/ StartRun(r) \/ ListPage(r) \/ FetchError(r) \/ NextItem(r)
                 \/ SavePage(r) \/ SaveFailure(r) \/ KillRun(r)
         \/ Publish /\ UNCHANGED deviceVars
         \/ Moving
         \/ UNCHANGED vars
  BY ClientAssumption DEF Next, Requesting, Running, RequestStep, RequestFault, RunStep,
     RunFault, Ingesting, deviceVars, iotVars

-----------------------------------------------------------------------------
(* TypeOk is not inductive: the tap of a step is looked up by position, so *)
(* the positions must be known to stay inside what the client was given.   *)
Busy == Ingest \cup {"ingested"}

Walk(c) == pc[c] \in Busy => pos[c] \in 1 .. upto[c] /\ upto[c] \in 1 .. Len(req[c])

RunWalk(r) ==
  /\ pc[r] # "done"
  /\ pc[r] # "idle" => /\ req[r] = Feed
                       /\ pageStart[r] < pos[r]
                       /\ pos[r] <= Len(Feed) + 1
  /\ pc[r] = "list" => pos[r] = pageStart[r] + 1

RequestWalk(q) == pc[q] \notin {"list", "save"}

TypeInv ==
  /\ TypeOk
  /\ \A c \in Clients : Walk(c)
  /\ \A r \in Runs : RunWalk(r)
  /\ \A q \in Requests : RequestWalk(q)

LEMMA TypeInit == Init => TypeInv
  BY ClientAssumption, TapAssumption, FeedAssumption
  DEF Init, IngestInit, DeviceInit, IotInit, TypeInv, TypeOk, Replies, Statuses, NoCheckpoint,
      Checkpoints, Cursors, Ingest, InTx, Busy, Walk, RunWalk, RequestWalk

(* The tap of a client that is ingesting is a tap. *)
LEMMA KeyType ==
  ASSUME TypeInv, NEW c \in Clients, pc[c] \in Busy
  PROVE  Key(c) \in Keys
  BY DEF TypeInv, TypeOk, Walk, Key

(* The steps inside ingestTapEvent move no client along its taps. *)
LEMMA TypeIngest ==
  ASSUME TypeInv, NEW c \in Clients, Ingesting(c)
  PROVE  TypeInv'
<1> USE DEF TypeOk, Ingest, InTx, Replies, Return, Goto, deviceVars, iotVars, runVars,
           storeVars, Checkpoints, Cursors
<1>1. TypeOk' /\ pc' = [pc EXCEPT ![c] = pc'[c]] /\ pc[c] \in Ingest /\ pc'[c] \in Busy \cup {"failed"}
  <2> USE DEF TypeInv, Busy
  <2>1. CASE Resolve(c)
    BY <2>1 DEF Ingesting, Resolve
  <2>2. CASE Reject(c)
    BY <2>2 DEF Ingesting, Reject
  <2>3. CASE FindExisting(c)
    BY <2>3 DEF Ingesting, FindExisting
  <2>4. CASE InsertTap(c)
    <3> DEFINE v == UniqueViolation(Key(c))
    <3>1. v \in BOOLEAN
      BY DEF UniqueViolation, Stored
    <3>2. /\ pc[c] = "insert"
          /\ aborted' = [aborted EXCEPT ![c] = v]
          /\ pc' = [pc EXCEPT ![c] = IF v THEN "recover" ELSE "interaction"]
          /\ UNCHANGED <<storeVars, assignment, req, pos, upto, seen, reply, faults>>
      BY <2>4 DEF InsertTap
    <3> HIDE DEF v
    <3>3. QED
      BY <3>1, <3>2 DEF Ingesting
  <2>5. CASE RecoverDuplicate(c)
    BY <2>5 DEF Ingesting, RecoverDuplicate
  <2>6. CASE CreateInteraction(c)
    <3>1. CASE UNCHANGED <<aborted, faults>>
      BY <2>6, <3>1 DEF Ingesting, CreateInteraction
    <3>2. CASE GrantFailure(c)
      <4>1. /\ faults < MaxFaults /\ faults' = faults + 1
            /\ aborted' = [aborted EXCEPT ![c] = TRUE]
        BY <3>2 DEF GrantFailure, Fault
      <4>2. /\ pc[c] = "interaction" /\ pc' = [pc EXCEPT ![c] = "commit"]
            /\ UNCHANGED <<storeVars, assignment, req, pos, upto, seen, reply>>
        BY <2>6 DEF CreateInteraction
      <4>3. faults' \in 0 .. MaxFaults
        BY <4>1, TapAssumption
      <4>4. QED
        BY <4>1, <4>2, <4>3 DEF Ingesting
    <3>3. QED
      BY <2>6, <3>1, <3>2 DEF CreateInteraction
  <2>7. CASE Commit(c)
    <3>1. Key(c) \in Keys
      BY <2>7, KeyType DEF Commit
    <3>2. CASE aborted[c]
      BY <2>7, <3>2 DEF Ingesting, Commit
    <3>3. CASE ~aborted[c]
      <4>1. granted' \subseteq Keys
        BY <2>7, <3>1, <3>3 DEF Commit
      <4>5. /\ tapRows'  = [tapRows  EXCEPT ![Key(c)] = @ + 1]
            /\ leadRows' = [leadRows EXCEPT ![Key(c)] = @ + 1]
        BY <2>7, <3>3 DEF Commit
      <4> DEFINE k == Key(c)
      <4> HIDE DEF k
      <4>2. tapRows' \in [Keys -> Nat] /\ leadRows' \in [Keys -> Nat]
        BY <3>1, <4>5
      <4>3. /\ pc[c] = "commit" /\ pc' = [pc EXCEPT ![c] = "ingested"]
            /\ aborted' = [aborted EXCEPT ![c] = FALSE]
            /\ reply' = [reply EXCEPT ![c] = "created"]
            /\ UNCHANGED <<assignment, req, pos, upto, seen, faults>>
        BY <2>7 DEF Commit
      <4>4. QED
        BY <4>1, <4>2, <4>3 DEF Ingesting
    <3>4. QED
      BY <3>2, <3>3
  <2>8. QED
    BY <2>1, <2>2, <2>3, <2>4, <2>5, <2>6, <2>7 DEF Ingesting, IngestStep
<1>2. UNCHANGED <<req, pos, upto, pageStart>>
  BY DEF Ingesting, IngestStep, Resolve, Reject, FindExisting, InsertTap, RecoverDuplicate,
         CreateInteraction, Commit
<1>3. QED
  BY <1>1, <1>2, ClientAssumption DEF TypeInv, Busy, Walk, RunWalk, RequestWalk

(* The parts of TypeOk, by who writes them. *)
ClientTyped ==
  /\ pc \in [Clients -> {"idle", "list", "save", "ingested", "failed", "done"} \cup Ingest]
  /\ req \in [Clients -> Seq(Keys)]
  /\ pos \in [Clients -> Nat] /\ upto \in [Clients -> Nat]
  /\ seen \in [Clients -> Assignments \cup {NoAssignment}]
  /\ aborted \in [Clients -> BOOLEAN]
  /\ reply \in [Clients -> Replies]

StoreTyped ==
  /\ tapRows \in [Keys -> Nat] /\ leadRows \in [Keys -> Nat]
  /\ granted \subseteq Keys
  /\ assignment \in Assignments \cup {NoAssignment}
  /\ faults \in 0 .. MaxFaults

DeviceTyped == links \subseteq Keys /\ queue \in [Keys -> Statuses]

IotTyped ==
  /\ checkpoint \in Checkpoints /\ snapshot \in [Runs -> Checkpoints]
  /\ pageStart \in [Runs -> Cursors] /\ more \in [Runs -> BOOLEAN]
  /\ published \in Cursors

Walks ==
  /\ \A c \in Clients : Walk(c)
  /\ \A r \in Runs : RunWalk(r)
  /\ \A q \in Requests : RequestWalk(q)

LEMMA Parts ==
  /\ TypeInv <=> StoreTyped /\ ClientTyped /\ DeviceTyped /\ IotTyped /\ Walks
  /\ TypeInv' <=> StoreTyped' /\ ClientTyped' /\ DeviceTyped' /\ IotTyped' /\ Walks'
  BY DEF TypeInv, TypeOk, StoreTyped, ClientTyped, DeviceTyped, IotTyped, Walks

LEMMA LeaveTyped ==
  ASSUME ClientTyped, NEW c \in Clients, Leave(c)
  PROVE  ClientTyped' /\ pc'[c] = "idle" /\ \A d \in Clients \ {c} : pc'[d] = pc[d]
  BY DEF ClientTyped, Leave, Goto, Replies

LEMMA FaultTyped ==
  ASSUME faults \in 0 .. MaxFaults, Fault
  PROVE  faults' \in 0 .. MaxFaults
  BY TapAssumption DEF Fault

(* A client that leaves takes its walk with it. *)
LEMMA LeaveWalks ==
  ASSUME ClientTyped, Walks, NEW c \in Clients, Leave(c),
         \A r \in Runs \ {c} : pageStart'[r] = pageStart[r]
  PROVE  Walks'
<1>1. /\ pc'[c] = "idle"
      /\ \A d \in Clients \ {c} : /\ pc'[d] = pc[d] /\ req'[d] = req[d]
                                   /\ pos'[d] = pos[d] /\ upto'[d] = upto[d]
  BY DEF ClientTyped, Leave, Goto
<1>2. ASSUME NEW d \in Clients PROVE Walk(d)'
  BY <1>1 DEF Walks, Walk, Busy, Ingest, InTx
<1>3. ASSUME NEW r \in Runs PROVE RunWalk(r)'
  BY <1>1, ClientAssumption DEF Walks, RunWalk
<1>4. ASSUME NEW q \in Requests PROVE RequestWalk(q)'
  BY <1>1, ClientAssumption DEF Walks, RequestWalk
<1>5. QED
  BY <1>2, <1>3, <1>4 DEF Walks

(* The steps of a kiosk request outside ingestTapEvent. *)
RequestCases(c) ==
  /\ UNCHANGED iotVars
  /\ \/ Post(c) \/ IssueLink(c) \/ FailRequest(c)
     \/ Answer(c) \/ LoseAnswer(c) \/ DropRequest(c)

LEMMA TypeRequest ==
  ASSUME TypeInv, NEW c \in Requests, RequestCases(c)
  PROVE  TypeInv'
<1> c \in Clients /\ \A r \in Runs : r \in Clients /\ r # c
  BY ClientAssumption
<1> \A q \in Requests : q \in Clients
  BY ClientAssumption
<1> StoreTyped /\ ClientTyped /\ DeviceTyped /\ IotTyped /\ Walks
  BY Parts
<1>1. IotTyped' /\ pageStart' = pageStart
  BY DEF RequestCases, IotTyped, iotVars, runVars
<1>2. CASE Post(c)
  <2>1. PICK b \in Batches :
          /\ req'  = [req  EXCEPT ![c] = b]
          /\ upto' = [upto EXCEPT ![c] = Len(b)]
    BY <1>2 DEF Post
  <2>2. b \in Seq(Keys) /\ Len(b) \in Nat /\ Len(b) >= 1
    BY RequestAssumption
  <2>3. /\ pos' = [pos EXCEPT ![c] = 1]
        /\ pc' = [pc EXCEPT ![c] = "resolve"] /\ reply' = [reply EXCEPT ![c] = "none"]
        /\ UNCHANGED <<storeVars, assignment, seen, aborted, faults, deviceVars>>
    BY <1>2 DEF Post, Return, Goto
  <2>4. ClientTyped'
    BY <2>1, <2>2, <2>3 DEF ClientTyped, Ingest, InTx, Replies
  <2>5. StoreTyped' /\ DeviceTyped'
    BY <2>3 DEF StoreTyped, DeviceTyped, storeVars, deviceVars
  <2>6. \A d \in Clients : Walk(d)'
    BY <2>1, <2>2, <2>3 DEF ClientTyped, Walks, Walk
  <2>7. /\ \A r \in Runs : RunWalk(r)'
        /\ \A q \in Requests : RequestWalk(q)'
    BY <1>1, <2>1, <2>3 DEF ClientTyped, Walks, RunWalk, RequestWalk
  <2>8. QED
    BY <1>1, <2>4, <2>5, <2>6, <2>7, Parts DEF Walks
<1>3. CASE IssueLink(c)
  <2>1. Key(c) \in Keys
    BY <1>3, KeyType DEF IssueLink, Busy
  <2> DEFINE l == IF pos[c] < upto[c] THEN "find" ELSE "done"
             p == IF pos[c] < upto[c] THEN pos[c] + 1 ELSE pos[c]
  <2>2. l \in {"find", "done"} /\ p \in Nat /\ (l = "find" => p \in 1 .. upto[c])
    BY DEF ClientTyped
  <2>3. /\ pc[c] = "ingested" /\ links' = links \cup {Key(c)}
        /\ pc' = [pc EXCEPT ![c] = l] /\ pos' = [pos EXCEPT ![c] = p]
        /\ UNCHANGED <<storeVars, assignment, req, upto, seen, aborted, reply, faults, queue>>
    BY <1>3 DEF IssueLink, Goto, ClientTyped
  <2> HIDE DEF l, p
  <2>4. ClientTyped'
    BY <2>2, <2>3 DEF ClientTyped, Ingest, InTx
  <2>5. StoreTyped' /\ DeviceTyped'
    BY <2>1, <2>3 DEF StoreTyped, DeviceTyped, storeVars
  <2>6. \A d \in Clients : Walk(d)'
    BY <2>2, <2>3 DEF ClientTyped, Walks, Walk, Busy, Ingest, InTx
  <2>7. /\ \A r \in Runs : RunWalk(r)'
        /\ \A q \in Requests : RequestWalk(q)'
    BY <1>1, <2>2, <2>3 DEF ClientTyped, Walks, RunWalk, RequestWalk
  <2>8. QED
    BY <1>1, <2>4, <2>5, <2>6, <2>7, Parts DEF Walks
<1>4. CASE FailRequest(c)
  <2>1. /\ pc' = [pc EXCEPT ![c] = "done"]
        /\ UNCHANGED <<storeVars, assignment, req, pos, upto, seen, aborted, reply, faults, deviceVars>>
    BY <1>4 DEF FailRequest, Goto
  <2>2. ClientTyped' /\ StoreTyped' /\ DeviceTyped'
    BY <2>1 DEF ClientTyped, StoreTyped, DeviceTyped, storeVars, deviceVars
  <2>3. Walks'
    BY <1>1, <2>1 DEF ClientTyped, Walks, Walk, RunWalk, RequestWalk, Busy, Ingest, InTx
  <2>4. QED
    BY <1>1, <2>2, <2>3, Parts
<1>5. ASSUME NEW st \in Statuses, queue' = Mark(req[c], st), UNCHANGED links
      PROVE  DeviceTyped'
  BY <1>5 DEF Mark, DeviceTyped
<1>6. ASSUME Leave(c), DeviceTyped', StoreTyped'
      PROVE  TypeInv'
  BY <1>1, <1>6, LeaveTyped, LeaveWalks, Parts
<1>7. CASE Answer(c)
  <2>1. Outcome(c) \in Statuses
    BY DEF Outcome, Statuses
  <2>2. StoreTyped' /\ Leave(c)
    BY <1>7 DEF Answer, StoreTyped, storeVars
  <2>3. QED
    BY <1>5, <1>6, <1>7, <2>1, <2>2 DEF Answer
<1>8. CASE LoseAnswer(c) \/ DropRequest(c)
  <2>1. Leave(c) /\ Fault /\ UNCHANGED <<storeVars, assignment, links>>
    BY <1>8 DEF LoseAnswer, DropRequest, Crash
  <2>2. StoreTyped'
    BY <2>1, FaultTyped DEF StoreTyped, storeVars
  <2>3. queue' = Mark(req[c], "failed_retryable") /\ "failed_retryable" \in Statuses
    BY <1>8 DEF LoseAnswer, DropRequest, Statuses
  <2>4. QED
    BY <1>5, <1>6, <2>1, <2>2, <2>3
<1>9. QED
  BY <1>2, <1>3, <1>4, <1>7, <1>8 DEF RequestCases

(* The steps of a run of the sync outside ingestTapEvent. *)
RunCases(r) ==
  /\ UNCHANGED deviceVars
  /\ \/ StartRun(r) \/ ListPage(r) \/ FetchError(r) \/ NextItem(r)
     \/ SavePage(r) \/ SaveFailure(r) \/ KillRun(r)

LEMMA EndRunTyped ==
  ASSUME TypeInv, NEW r \in Runs, EndRun(r), UNCHANGED published,
         checkpoint' \in Checkpoints, StoreTyped', DeviceTyped'
  PROVE  TypeInv'
<1> r \in Clients /\ Len(Feed) \in Nat /\ NoCheckpoint \in Checkpoints
  BY ClientAssumption, FeedAssumption DEF NoCheckpoint, Checkpoints, Cursors
<1> ClientTyped /\ IotTyped /\ Walks /\ Leave(r)
  BY Parts DEF EndRun
<1>1. IotTyped' /\ \A s \in Runs \ {r} : pageStart'[s] = pageStart[s]
  BY DEF IotTyped, EndRun, Cursors
<1>2. QED
  BY <1>1, LeaveTyped, LeaveWalks, Parts

LEMMA TypeRun ==
  ASSUME TypeInv, NEW r \in Runs, RunCases(r)
  PROVE  TypeInv'
<1> r \in Clients /\ \A q \in Requests : q \in Clients /\ q # r
  BY ClientAssumption
<1> \A s \in Runs : s \in Clients
  BY ClientAssumption
<1> Len(Feed) \in Nat /\ Feed \in Seq(Keys)
  BY FeedAssumption
<1> StoreTyped /\ ClientTyped /\ DeviceTyped /\ IotTyped /\ Walks
  BY Parts
<1>1. DeviceTyped'
  BY DEF RunCases, DeviceTyped, deviceVars
<1>2. CASE StartRun(r)
  <2>1. checkpoint.cursor \in 0 .. Len(Feed)
    BY DEF IotTyped, Checkpoints, Cursors
  <2>2. /\ snapshot'  = [snapshot  EXCEPT ![r] = checkpoint]
        /\ pageStart' = [pageStart EXCEPT ![r] = checkpoint.cursor]
        /\ req'       = [req EXCEPT ![r] = Feed]
        /\ pos'       = [pos EXCEPT ![r] = checkpoint.cursor + 1]
        /\ pc' = [pc EXCEPT ![r] = "list"] /\ reply' = [reply EXCEPT ![r] = "none"]
        /\ UNCHANGED <<storeVars, assignment, upto, seen, aborted, faults, checkpoint, more, published>>
    BY <1>2 DEF StartRun, Return, Goto
  <2> DEFINE cur == checkpoint.cursor
  <2> HIDE DEF cur
  <2>3. ClientTyped'
    BY <2>1, <2>2 DEF ClientTyped, Replies
  <2>4. StoreTyped' /\ IotTyped'
    BY <2>1, <2>2 DEF StoreTyped, IotTyped, Cursors, storeVars
  <2>5. \A c \in Clients : Walk(c)'
    BY <2>2 DEF ClientTyped, Walks, Walk, Busy, Ingest, InTx
  <2>6. \A s \in Runs : RunWalk(s)'
    BY <2>1, <2>2 DEF ClientTyped, IotTyped, Walks, RunWalk
  <2>7. \A q \in Requests : RequestWalk(q)'
    BY <2>2 DEF ClientTyped, Walks, RequestWalk
  <2>8. QED
    BY <1>1, <2>3, <2>4, <2>5, <2>6, <2>7, Parts DEF Walks
<1>3. CASE ListPage(r)
  <2> DEFINE e == PageEnd(r)
             l == IF pageStart[r] < e THEN "resolve" ELSE "save"
             m == e < published
  <2>1. /\ e \in 0 .. Len(Feed) /\ m \in BOOLEAN
        /\ pageStart[r] \in 0 .. Len(Feed)
        /\ l \in {"resolve", "save"} /\ (l = "resolve" => pageStart[r] < e)
    BY FeedAssumption DEF PageEnd, Smaller, IotTyped, Cursors
  <2>2. /\ pc[r] = "list"
        /\ upto' = [upto EXCEPT ![r] = e]
        /\ more' = [more EXCEPT ![r] = m]
        /\ pc' = [pc EXCEPT ![r] = l]
        /\ UNCHANGED <<storeVars, assignment, req, pos, seen, aborted, reply, faults>>
        /\ UNCHANGED <<checkpoint, snapshot, pageStart, published>>
    BY <1>3 DEF ListPage, Goto
  <2>3. pos[r] = pageStart[r] + 1 /\ req[r] = Feed
    BY <2>2 DEF Walks, RunWalk
  <2> HIDE DEF e, l, m
  <2>4. ClientTyped'
    BY <2>1, <2>2 DEF ClientTyped, Ingest, InTx
  <2>5. StoreTyped' /\ IotTyped'
    BY <2>1, <2>2 DEF StoreTyped, IotTyped, storeVars
  <2>6. \A c \in Clients : Walk(c)'
    BY <2>1, <2>2, <2>3 DEF ClientTyped, Walks, Walk, Busy, Ingest, InTx
  <2>7. \A s \in Runs : RunWalk(s)'
    BY <2>1, <2>2, <2>3 DEF ClientTyped, IotTyped, Walks, RunWalk
  <2>8. \A q \in Requests : RequestWalk(q)'
    BY <2>2 DEF ClientTyped, Walks, RequestWalk
  <2>9. QED
    BY <1>1, <2>4, <2>5, <2>6, <2>7, <2>8, Parts DEF Walks
<1>4. CASE FetchError(r)
  <2>1. /\ pc[r] = "list" /\ Fault
        /\ pc' = [pc EXCEPT ![r] = "failed"] /\ reply' = [reply EXCEPT ![r] = "none"]
        /\ UNCHANGED <<storeVars, assignment, req, pos, upto, seen, aborted>>
        /\ UNCHANGED <<checkpoint, snapshot, pageStart, more, published>>
    BY <1>4 DEF FetchError, Return, Goto, iotVars, runVars
  <2>2. ClientTyped' /\ StoreTyped' /\ IotTyped'
    BY <2>1, FaultTyped DEF ClientTyped, StoreTyped, IotTyped, storeVars, Replies
  <2>3. Walks'
    BY <2>1 DEF ClientTyped, Walks, Walk, RunWalk, RequestWalk, Busy, Ingest, InTx
  <2>4. QED
    BY <1>1, <2>2, <2>3, Parts
<1>5. CASE NextItem(r)
  <2> DEFINE l == IF pos[r] < upto[r] THEN "resolve" ELSE "save"
  <2>1. l \in {"resolve", "save"} /\ (l = "resolve" => pos[r] < upto[r])
    OBVIOUS
  <2>2. /\ pc[r] = "ingested"
        /\ pos' = [pos EXCEPT ![r] = @ + 1] /\ pc' = [pc EXCEPT ![r] = l]
        /\ UNCHANGED <<storeVars, assignment, req, upto, seen, aborted, reply, faults>>
        /\ UNCHANGED <<checkpoint, snapshot, pageStart, more, published>>
    BY <1>5 DEF NextItem, Goto, iotVars, runVars
  <2>3. pos[r] \in 1 .. upto[r] /\ upto[r] \in 1 .. Len(req[r]) /\ req[r] = Feed
    BY <2>2 DEF Walks, Walk, RunWalk, Busy
  <2> HIDE DEF l
  <2>4. ClientTyped'
    BY <2>1, <2>2 DEF ClientTyped, Ingest, InTx
  <2>5. StoreTyped' /\ IotTyped'
    BY <2>2 DEF StoreTyped, IotTyped, storeVars
  <2>6. \A c \in Clients : Walk(c)'
    BY <2>1, <2>2, <2>3 DEF ClientTyped, Walks, Walk, Busy, Ingest, InTx
  <2>7. \A s \in Runs : RunWalk(s)'
    BY <2>1, <2>2, <2>3 DEF ClientTyped, IotTyped, Cursors, Walks, RunWalk
  <2>8. \A q \in Requests : RequestWalk(q)'
    BY <2>2 DEF ClientTyped, Walks, RequestWalk
  <2>9. QED
    BY <1>1, <2>4, <2>5, <2>6, <2>7, <2>8, Parts DEF Walks
<1>6. CASE SavePage(r)
  <2>1. /\ pc[r] = "save" /\ req[r] = Feed
        /\ pos[r] \in 1 .. Len(Feed) + 1
    BY <1>6 DEF SavePage, Walks, RunWalk, ClientTyped, IotTyped, Cursors
  <2>2. pos[r] - 1 \in Cursors /\ 0 \in 0 .. CountLimit
    BY <2>1, FeedAssumption DEF Cursors
  <2>3. SavedCheckpoint(r) \in Checkpoints
    BY <2>2 DEF SavedCheckpoint, Checkpoints
  <2>4. checkpoint' \in Checkpoints /\ StoreTyped' /\ UNCHANGED published
    BY <1>6, <2>3 DEF SavePage, StoreTyped, storeVars
  <2>5. CASE ~more[r]
    BY <1>1, <1>6, <2>4, <2>5, EndRunTyped DEF SavePage
  <2>6. CASE more[r]
    <3>1. /\ pc' = [pc EXCEPT ![r] = "list"]
          /\ pageStart' = [pageStart EXCEPT ![r] = pos[r] - 1]
          /\ UNCHANGED <<req, pos, upto, seen, aborted, reply, snapshot, more>>
      BY <1>6, <2>6 DEF SavePage, Goto
    <3>2. ClientTyped' /\ IotTyped'
      BY <2>2, <2>4, <3>1 DEF ClientTyped, IotTyped
    <3>3. \A c \in Clients : Walk(c)'
      BY <3>1 DEF ClientTyped, Walks, Walk, Busy, Ingest, InTx
    <3>4. \A s \in Runs : RunWalk(s)'
      BY <2>1, <3>1 DEF ClientTyped, IotTyped, Walks, RunWalk
    <3>5. \A q \in Requests : RequestWalk(q)'
      BY <3>1 DEF ClientTyped, Walks, RequestWalk
    <3>6. QED
      BY <1>1, <2>4, <3>2, <3>3, <3>4, <3>5, Parts DEF Walks
  <2>7. QED
    BY <2>5, <2>6
<1>7. CASE SaveFailure(r)
  <2>1. pageStart[r] \in Cursors /\ snapshot[r].failures \in 0 .. CountLimit
    BY DEF IotTyped, Checkpoints
  <2>2. Bump(snapshot[r].failures) \in 0 .. CountLimit
    BY <2>1, FeedAssumption DEF Bump
  <2>3. FailedCheckpoint(r) \in Checkpoints
    BY <2>1, <2>2 DEF FailedCheckpoint, Checkpoints
  <2>4. checkpoint' \in Checkpoints /\ StoreTyped' /\ EndRun(r) /\ UNCHANGED published
    BY <1>7, <2>3 DEF SaveFailure, StoreTyped, storeVars
  <2>5. QED
    BY <1>1, <2>4, EndRunTyped
<1>8. CASE KillRun(r)
  <2>1. Fault /\ EndRun(r) /\ UNCHANGED <<storeVars, assignment, checkpoint, published>>
    BY <1>8 DEF KillRun, Crash
  <2>2. StoreTyped' /\ checkpoint' \in Checkpoints
    BY <2>1, FaultTyped DEF StoreTyped, IotTyped, storeVars
  <2>3. QED
    BY <1>1, <2>1, <2>2, EndRunTyped
<1>9. QED
  BY <1>2, <1>3, <1>4, <1>5, <1>6, <1>7, <1>8 DEF RunCases

(* The rest: captures, publications and moves of the device. *)
LEMMA TypeRest ==
  ASSUME TypeInv,
         \/ \E k \in Keys : Capture(k) /\ UNCHANGED iotVars
         \/ Publish /\ UNCHANGED deviceVars
         \/ Moving
         \/ UNCHANGED vars
  PROVE  TypeInv'
<1> StoreTyped /\ ClientTyped /\ DeviceTyped /\ IotTyped /\ Walks
  BY Parts
<1>1. ASSUME UNCHANGED <<pc, req, pos, upto, pageStart>> PROVE Walks'
  BY <1>1 DEF Walks, Walk, RunWalk, RequestWalk
<1>2. CASE \E k \in Keys : Capture(k) /\ UNCHANGED iotVars
  <2>1. PICK k \in Keys : /\ queue' = [queue EXCEPT ![k] = "queued"]
                          /\ UNCHANGED <<ingestVars, links, iotVars>>
    BY <1>2 DEF Capture
  <2>2. StoreTyped' /\ ClientTyped' /\ DeviceTyped' /\ IotTyped'
    BY <2>1 DEF StoreTyped, ClientTyped, DeviceTyped, IotTyped, Statuses, ingestVars,
                clientVars, storeVars, iotVars, runVars
  <2>3. QED
    BY <1>1, <2>1, <2>2, Parts DEF ingestVars, clientVars, iotVars, runVars
<1>3. CASE Publish /\ UNCHANGED deviceVars
  <2>1. published' \in Cursors /\ UNCHANGED <<ingestVars, deviceVars, checkpoint, runVars>>
    BY <1>3, FeedAssumption DEF Publish, IotTyped, Cursors
  <2>2. StoreTyped' /\ ClientTyped' /\ DeviceTyped' /\ IotTyped'
    BY <2>1 DEF StoreTyped, ClientTyped, DeviceTyped, IotTyped, ingestVars,
                clientVars, storeVars, deviceVars, runVars
  <2>3. QED
    BY <1>1, <2>1, <2>2, Parts DEF ingestVars, clientVars, runVars
<1>4. CASE Moving
  <2>1. /\ UNCHANGED <<storeVars, clientVars, deviceVars, iotVars>>
        /\ assignment' \in Assignments \cup {NoAssignment}
        /\ faults' \in 0 .. MaxFaults
    BY <1>4, FaultTyped DEF Moving, Unassign, Assign, StoreTyped
  <2>2. StoreTyped' /\ ClientTyped' /\ DeviceTyped' /\ IotTyped'
    BY <2>1 DEF StoreTyped, ClientTyped, DeviceTyped, IotTyped,
                clientVars, storeVars, deviceVars, iotVars, runVars
  <2>3. QED
    BY <1>1, <2>1, <2>2, Parts DEF clientVars, iotVars, runVars
<1>5. CASE UNCHANGED vars
  <2>1. StoreTyped' /\ ClientTyped' /\ DeviceTyped' /\ IotTyped'
    BY <1>5 DEF StoreTyped, ClientTyped, DeviceTyped, IotTyped, vars, ingestVars,
                clientVars, storeVars, deviceVars, iotVars, runVars
  <2>2. QED
    BY <1>1, <1>5, <2>1, Parts DEF vars, ingestVars, clientVars, iotVars, runVars
<1>6. QED
  BY <1>2, <1>3, <1>4, <1>5

(* TypeOk holds of every reachable state, for every set of kiosk requests, *)
(* runs, taps and batches and for every feed.                              *)
THEOREM TypeCorrect == Spec => [](TypeInv /\ TypeOk)
<1>1. TypeInv /\ [Next]_vars => TypeInv'
  BY StepCases, TypeIngest, TypeRequest, TypeRun, TypeRest DEF RequestCases, RunCases
<1>2. TypeInv => TypeOk
  BY DEF TypeInv
<1>3. QED
  BY TypeInit, <1>1, <1>2, PTL DEF Spec
=============================================================================
