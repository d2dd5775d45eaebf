-------------------------- MODULE TapLedger_proofs --------------------------
(***************************************************************************)
(* The safety of tap delivery, for every value of the constants: a tap     *)
(* makes one lead, and tap delivery implements the ledger.                 *)
(***************************************************************************)
EXTENDS TapPlatform_proofs

(* A transaction that holds a row of a tap is the only one to do so, and   *)
(* the tap has no committed row yet: what the unique index and its waiting *)
(* INSERT give, and what keeps OneLeadPerTap over a commit.                *)
Holding(c) == pc[c] \in {"interaction", "commit"} /\ ~aborted[c]

Owned(c) == Holding(c) => /\ ~Stored(Key(c))
                          /\ \A d \in Clients \ {c} : Holding(d) => Key(d) # Key(c)

LeadInv == OneLeadPerTap /\ \A c \in Clients : Owned(c)

(* What a client has walked past is stored.  It needs the statements of    *)
(* the grants not to fail: only then does every commit that answers        *)
(* created commit.                                                         *)
Walked(c) == pc[c] # "idle" =>
  \A i \in DOMAIN req[c] : i < pos[c] => Stored(req[c][i])

Progress(c) ==
  /\ aborted[c] <=> pc[c] = "recover"
  /\ pc[c] = "ingested" => Stored(Key(c))
  /\ Walked(c)

Answering(q) ==
  /\ pc[q] # "idle" => upto[q] = Len(req[q])
  /\ pc[q] = "done" /\ Outcome(q) = "synced" => \A i \in DOMAIN req[q] : Stored(req[q][i])
  /\ pc[q] = "failed" => Outcome(q) # "synced"

LinkedIsStored == \A k \in links \cup granted : Stored(k)

StoredInv ==
  /\ \A c \in Clients : Progress(c)
  /\ \A q \in Requests : Answering(q)
  /\ CheckpointCovered
  /\ SyncedIsStored
  /\ LinkedIsStored

-----------------------------------------------------------------------------
(* The step of one client inside ingestTapEvent, seen by the others. *)
LEMMA IngestFrame ==
  ASSUME TypeInv, NEW c \in Clients, Ingesting(c)
  PROVE  /\ UNCHANGED <<req, pos, upto, deviceVars, iotVars>>
         /\ \A d \in Clients : Key(d)' = Key(d)
         /\ \A d \in Clients \ {c} : /\ pc'[d] = pc[d] /\ aborted'[d] = aborted[d]
                                     /\ reply'[d] = reply[d]
         /\ pc[c] \in Ingest
<1>1. UNCHANGED <<req, pos, upto, deviceVars, iotVars>> /\ pc[c] \in Ingest
  BY DEF Ingesting, IngestStep, Resolve, Reject, FindExisting, InsertTap, RecoverDuplicate,
         CreateInteraction, Commit, Ingest, InTx
<1>2. \A d \in Clients : Key(d)' = Key(d)
  BY <1>1 DEF Key
<1>3. \A d \in Clients \ {c} : /\ pc'[d] = pc[d] /\ aborted'[d] = aborted[d]
                               /\ reply'[d] = reply[d]
  <2> pc \in [Clients -> {"idle", "list", "save", "ingested", "failed", "done"} \cup Ingest]
      /\ aborted \in [Clients -> BOOLEAN] /\ reply \in [Clients -> Replies]
    BY DEF TypeInv, TypeOk
  <2>1. CASE Resolve(c) \/ Reject(c) \/ FindExisting(c) \/ RecoverDuplicate(c)
    BY <2>1 DEF Resolve, Reject, FindExisting, RecoverDuplicate, Goto, Return
  <2>2. CASE InsertTap(c)
    BY <2>2 DEF InsertTap, Goto
  <2>3. CASE CreateInteraction(c)
    BY <2>3 DEF CreateInteraction, GrantFailure, Goto
  <2>4. CASE Commit(c)
    BY <2>4 DEF Commit, Return, Goto
  <2>5. QED
    BY <2>1, <2>2, <2>3, <2>4 DEF Ingesting, IngestStep
<1>4. QED
  BY <1>1, <1>2, <1>3

(* Every other step leaves the database and the open transactions alone. *)
Outside ==
  /\ UNCHANGED storeVars
  /\ \A d \in Clients :
       pc'[d] \in InTx => pc[d] = pc'[d] /\ Key(d)' = Key(d) /\ aborted'[d] = aborted[d]

LEMMA ClientTypes == TypeInv => ClientTyped
  BY Parts

LEMMA OutsideRequest ==
  ASSUME TypeInv, NEW c \in Requests, RequestCases(c)
  PROVE  Outside
<1> c \in Clients /\ ClientTyped
  BY ClientAssumption, ClientTypes
<1>1. UNCHANGED storeVars
  BY DEF RequestCases, Post, IssueLink, FailRequest, Answer, LoseAnswer, DropRequest, Crash
<1>2. pc'[c] \notin InTx
  BY DEF RequestCases, Post, IssueLink, FailRequest, Answer, LoseAnswer, DropRequest, Crash,
         Leave, Return, Goto, ClientTyped, InTx
<1>3. ASSUME NEW d \in Clients \ {c}
      PROVE  pc[d] = pc'[d] /\ req'[d] = req[d] /\ pos'[d] = pos[d] /\ aborted'[d] = aborted[d]
  BY DEF RequestCases, Post, IssueLink, FailRequest, Answer, LoseAnswer, DropRequest, Crash,
         Leave, Return, Goto, ClientTyped
<1>4. QED
  BY <1>1, <1>2, <1>3 DEF Outside, Key

LEMMA OutsideRun ==
  ASSUME TypeInv, NEW r \in Runs, RunCases(r)
  PROVE  Outside
<1> r \in Clients /\ ClientTyped
  BY ClientAssumption, ClientTypes
<1>1. UNCHANGED storeVars
  BY DEF RunCases, StartRun, ListPage, FetchError, NextItem, SavePage, SaveFailure, KillRun, Crash
<1>2. pc'[r] \notin InTx
  BY DEF RunCases, StartRun, ListPage, FetchError, NextItem, SavePage, SaveFailure, KillRun,
         EndRun, Leave, Return, Goto, ClientTyped, InTx
<1>3. ASSUME NEW d \in Clients \ {r}
      PROVE  pc[d] = pc'[d] /\ req'[d] = req[d] /\ pos'[d] = pos[d] /\ aborted'[d] = aborted[d]
  BY DEF RunCases, StartRun, ListPage, FetchError, NextItem, SavePage, SaveFailure, KillRun,
         EndRun, Leave, Return, Goto, ClientTyped
<1>4. QED
  BY <1>1, <1>2, <1>3 DEF Outside, Key

LEMMA OutsideRest ==
  ASSUME \/ \E k \in Keys : Capture(k) /\ UNCHANGED iotVars
         \/ Publish /\ UNCHANGED deviceVars
         \/ Moving
         \/ UNCHANGED vars
  PROVE  Outside /\ UNCHANGED <<clientVars, checkpoint, links>>
  BY DEF Outside, Key, Capture, Publish, Moving, Unassign, Assign, vars, ingestVars, clientVars,
         deviceVars, iotVars

-----------------------------------------------------------------------------
(* A tap makes one lead. *)
LEMMA LeadInit == Init => LeadInv
  BY DEF Init, IngestInit, LeadInv, OneLeadPerTap, Owned, Holding, Stored

LEMMA LeadOutside ==
  ASSUME LeadInv, Outside
  PROVE  LeadInv'
<1>1. OneLeadPerTap'
  BY DEF LeadInv, OneLeadPerTap, Outside, storeVars
<1>2. \A k \in Keys : Stored(k)' <=> Stored(k)
  BY DEF Outside, storeVars, Stored
<1>3. \A d \in Clients : Holding(d)' => Holding(d) /\ Key(d)' = Key(d)
  BY DEF Outside, Holding, InTx
<1>4. ASSUME NEW c \in Clients PROVE Owned(c)'
  BY <1>3 DEF LeadInv, Owned, Stored, Outside, storeVars
<1>5. QED
  BY <1>1, <1>4 DEF LeadInv

(* A step that neither commits nor takes a row. *)
LEMMA LeadQuiet ==
  ASSUME TypeInv, LeadInv, NEW c \in Clients, Ingesting(c), UNCHANGED storeVars,
         Holding(c)' => Holding(c)
  PROVE  LeadInv'
<1>1. \A d \in Clients : Holding(d)' => Holding(d)
  BY IngestFrame DEF Holding
<1>2. \A d \in Clients : Key(d)' = Key(d)
  BY IngestFrame
<1>3. ASSUME NEW d \in Clients PROVE Owned(d)'
  BY <1>1, <1>2 DEF LeadInv, Owned, Stored, storeVars
<1>4. QED
  BY <1>3 DEF LeadInv, OneLeadPerTap, storeVars

LEMMA LeadIngest ==
  ASSUME TypeInv, LeadInv, NEW c \in Clients, Ingesting(c)
  PROVE  LeadInv'
<1> ClientTyped
  BY ClientTypes
<1>1. CASE Resolve(c) \/ Reject(c) \/ FindExisting(c) \/ RecoverDuplicate(c)
  <2>1. UNCHANGED storeVars
    BY <1>1 DEF Resolve, Reject, FindExisting, RecoverDuplicate
  <2>2. pc'[c] \notin {"interaction", "commit"}
    BY <1>1 DEF Resolve, Reject, FindExisting, RecoverDuplicate, Return, Goto, ClientTyped
  <2>3. QED
    BY <2>1, <2>2, LeadQuiet DEF Holding
<1>2. CASE InsertTap(c)
  <2>1. UNCHANGED storeVars /\ ~HeldByOther(c, Key(c))
    BY <1>2 DEF InsertTap
  <2>2. Holding(c)' => ~Stored(Key(c))
    BY <1>2 DEF InsertTap, Goto, Holding, UniqueViolation, ClientTyped
  <2>3. \A d \in Clients \ {c} : Holding(d) => Key(d) # Key(c)
    BY <2>1 DEF HeldByOther, Holds, Holding
  <2>4. \A d \in Clients \ {c} : Holding(d)' <=> Holding(d)
    BY IngestFrame DEF Holding
  <2>5. \A d \in Clients : Key(d)' = Key(d)
    BY IngestFrame
  <2>6. ASSUME NEW d \in Clients PROVE Owned(d)'
    BY <2>1, <2>2, <2>3, <2>4, <2>5 DEF LeadInv, Owned, Stored, storeVars
  <2>7. QED
    BY <2>1, <2>6 DEF LeadInv, OneLeadPerTap, storeVars
<1>3. CASE CreateInteraction(c)
  <2>1. UNCHANGED storeVars /\ pc[c] = "interaction"
    BY <1>3 DEF CreateInteraction
  <2>2. aborted[c] => aborted'[c]
    BY <1>3 DEF CreateInteraction, GrantFailure, ClientTyped
  <2>3. QED
    BY <2>1, <2>2, LeadQuiet DEF Holding
<1>4. CASE Commit(c)
  <2>1. pc'[c] = "ingested" /\ pc[c] = "commit"
    BY <1>4 DEF Commit, Return, Goto, ClientTyped
  <2>2. CASE aborted[c]
    BY <1>4, <2>1, <2>2, LeadQuiet DEF Commit, Holding
  <2>3. CASE ~aborted[c]
    <3>1. /\ tapRows'  = [tapRows  EXCEPT ![Key(c)] = @ + 1]
          /\ leadRows' = [leadRows EXCEPT ![Key(c)] = @ + 1]
      BY <1>4, <2>3 DEF Commit
    <3>2. Key(c) \in Keys /\ tapRows \in [Keys -> Nat] /\ leadRows \in [Keys -> Nat]
      BY <2>1, KeyType DEF Busy, Ingest, InTx, TypeInv, TypeOk
    <3>3. Holding(c)
      BY <2>1, <2>3 DEF Holding
    <3>4. tapRows[Key(c)] = 0
      BY <3>2, <3>3 DEF LeadInv, Owned, Stored
    <3>5. OneLeadPerTap'
      BY <3>1, <3>2, <3>4 DEF LeadInv, OneLeadPerTap
    <3>6. \A d \in Clients : Holding(d)' => d # c /\ Holding(d)
      BY <2>1, IngestFrame DEF Holding
    <3>7. \A d \in Clients : Key(d)' = Key(d)
      BY IngestFrame
    <3>8. ASSUME NEW d \in Clients, Holding(d)' PROVE ~Stored(Key(d))'
      <4>1. Holding(d) /\ d # c /\ Key(d) # Key(c) /\ ~Stored(Key(d))
        BY <3>3, <3>6, <3>8 DEF LeadInv, Owned
      <4>2. Key(d) \in Keys
        BY <4>1, KeyType DEF Holding, Busy, Ingest, InTx
      <4>3. tapRows'[Key(d)] = tapRows[Key(d)]
        BY <3>1, <3>2, <4>1, <4>2
      <4>4. QED
        BY <3>7, <4>1, <4>3 DEF Stored
    <3>9. ASSUME NEW d \in Clients PROVE Owned(d)'
      BY <3>6, <3>7, <3>8 DEF LeadInv, Owned
    <3>10. QED
      BY <3>5, <3>9 DEF LeadInv
  <2>4. QED
    BY <2>2, <2>3
<1>5. QED
  BY <1>1, <1>2, <1>3, <1>4 DEF Ingesting, IngestStep

LEMMA LeadStep ==
  ASSUME TypeInv, LeadInv, [Next]_vars
  PROVE  LeadInv'
BY StepCases, LeadIngest, LeadOutside, OutsideRequest, OutsideRun, OutsideRest
DEF RequestCases, RunCases

(* However many requests and runs deliver a tap, and whatever crashes,     *)
(* fails or is lost, it makes at most one tap event, with its interaction. *)
THEOREM OneLead == Spec => []OneLeadPerTap
<1>1. TypeInv /\ LeadInv /\ [Next]_vars => LeadInv'
  BY LeadStep
<1>2. LeadInv => OneLeadPerTap
  BY DEF LeadInv
<1>3. QED
  BY LeadInit, TypeCorrect, <1>1, <1>2, PTL DEF Spec
-----------------------------------------------------------------------------
(* What has been acknowledged, walked past or linked is stored. *)
LEMMA StoredInit == Init => StoredInv
  BY ClientAssumption
  DEF Init, IngestInit, DeviceInit, IotInit, NoCheckpoint, StoredInv, Progress, Walked, Answering,
      CheckpointCovered, SyncedIsStored, LinkedIsStored

(* No step takes a stored tap away. *)
Grows == \A k \in Keys : Stored(k) => Stored(k)'

LEMMA OutsideGrows ==
  ASSUME Outside
  PROVE  Grows /\ \A k \in Keys : Stored(k)' <=> Stored(k)
  BY DEF Outside, Grows, Stored, storeVars

LEMMA IngestGrows ==
  ASSUME TypeInv, NEW c \in Clients, Ingesting(c)
  PROVE  Grows
<1>1. CASE tapRows' = tapRows
  BY <1>1 DEF Grows, Stored
<1>2. CASE Commit(c) /\ ~aborted[c]
  <2>1. tapRows'  = [tapRows  EXCEPT ![Key(c)] = @ + 1] /\ tapRows \in [Keys -> Nat]
    BY <1>2 DEF Commit, TypeInv, TypeOk
  <2>2. ASSUME NEW k \in Keys PROVE tapRows'[k] >= tapRows[k]
    BY <2>1
  <2>3. \A k \in Keys : tapRows[k] \in Nat /\ tapRows'[k] \in Nat
    BY <2>1
  <2>4. QED
    BY <2>2, <2>3 DEF Grows, Stored
<1>3. QED
  BY <1>1, <1>2 DEF Ingesting, IngestStep, Resolve, Reject, FindExisting, InsertTap,
     RecoverDuplicate, CreateInteraction, Commit, storeVars

(* A client that does not move keeps what it knows. *)
Still(d) ==
  /\ pc'[d] = pc[d] /\ req'[d] = req[d] /\ pos'[d] = pos[d] /\ upto'[d] = upto[d]
  /\ aborted'[d] = aborted[d] /\ reply'[d] = reply[d]

LEMMA StillProgress ==
  ASSUME TypeInv, StoredInv, Grows, NEW d \in Clients, Still(d)
  PROVE  Progress(d)' /\ (d \in Requests => Answering(d)')
<1>1. req[d] \in Seq(Keys) /\ (pc[d] = "ingested" => Key(d) \in Keys)
  BY KeyType DEF TypeInv, TypeOk, Busy
<1>2. \A i \in DOMAIN req[d] : req[d][i] \in Keys
  BY <1>1
<1>3. Key(d)' = Key(d)
  BY DEF Still, Key
<1>4. Progress(d)'
  BY <1>1, <1>2, <1>3 DEF StoredInv, Progress, Walked, Still, Grows
<1>5. ASSUME d \in Requests PROVE Answering(d)'
  <2>1. Outcome(d)' = Outcome(d)
    BY DEF Outcome, Still
  <2>2. QED
    BY <1>2, <1>5, <2>1 DEF StoredInv, Answering, Still, Grows
<1>6. QED
  BY <1>4, <1>5

LEMMA SharedGrows ==
  ASSUME TypeInv, StoredInv, Grows
  PROVE  /\ checkpoint' = checkpoint => CheckpointCovered'
         /\ queue' = queue => SyncedIsStored'
         /\ links' = links /\ granted' = granted => LinkedIsStored'
<1>1. Feed \in Seq(Keys) /\ checkpoint.cursor \in 0 .. Len(Feed)
  BY FeedAssumption DEF TypeInv, TypeOk, Checkpoints, Cursors
<1>2. \A i \in 1 .. checkpoint.cursor : Feed[i] \in Keys
  BY <1>1
<1>3. granted \subseteq Keys /\ links \subseteq Keys
  BY DEF TypeInv, TypeOk
<1>4. QED
  BY <1>2, <1>3 DEF StoredInv, Grows, CheckpointCovered, SyncedIsStored, LinkedIsStored

LEMMA StoredIngest ==
  ASSUME ~GrantMayFail, TypeInv, StoredInv, NEW c \in Clients, Ingesting(c)
  PROVE  StoredInv'
<1> ClientTyped /\ Grows
  BY ClientTypes, IngestGrows
<1>1. UNCHANGED <<req, pos, upto, deviceVars, iotVars>> /\ pc[c] \in Ingest /\ Key(c)' = Key(c)
  BY IngestFrame
<1>2. Key(c) \in Keys
  BY <1>1, KeyType DEF Busy
<1>3. ASSUME NEW d \in Clients \ {c} PROVE Still(d)
  BY <1>1, IngestFrame DEF Still
<1>4. /\ aborted'[c] <=> pc'[c] = "recover"
      /\ pc'[c] = "ingested" => Stored(Key(c))'
      /\ pc'[c] \in Busy \cup {"failed"}
      /\ pc'[c] = "failed" => reply'[c] \in {"rejected", "error"}
      /\ granted' = granted \/ (granted' = granted \cup {Key(c)} /\ Stored(Key(c))')
  <2>1. aborted[c] <=> pc[c] = "recover"
    BY DEF StoredInv, Progress
  <2> pc \in [Clients -> {"idle", "list", "save", "ingested", "failed", "done"} \cup Ingest]
      /\ aborted \in [Clients -> BOOLEAN] /\ reply \in [Clients -> Replies]
    BY DEF ClientTyped
  <2>2. CASE Resolve(c)
    <3>1. pc[c] = "resolve" /\ pc' = [pc EXCEPT ![c] = "find"] /\ aborted' = aborted
          /\ granted' = granted
      BY <2>2 DEF Resolve, Goto, storeVars
    <3>2. QED
      BY <2>1, <3>1 DEF Busy, Ingest, InTx
  <2>8. CASE Reject(c)
    <3>1. /\ pc[c] = "find" /\ pc' = [pc EXCEPT ![c] = "failed"] /\ aborted' = aborted
          /\ reply' = [reply EXCEPT ![c] = "rejected"] /\ granted' = granted
      BY <2>8 DEF Reject, Return, Goto, storeVars
    <3>2. QED
      BY <2>1, <3>1
  <2>9. CASE FindExisting(c)
    <3>1. /\ pc[c] = "find" /\ aborted' = aborted /\ granted' = granted /\ tapRows' = tapRows
          /\ \/ pc' = [pc EXCEPT ![c] = "ingested"] /\ Stored(Key(c))
             \/ pc' = [pc EXCEPT ![c] = "insert"]
      BY <2>9 DEF FindExisting, Return, Goto, storeVars
    <3>2. Stored(Key(c))' <=> Stored(Key(c))
      BY <1>1, <3>1 DEF Stored
    <3>3. QED
      BY <2>1, <3>1, <3>2 DEF Busy, Ingest, InTx
  <2>3. CASE InsertTap(c)
    <3> DEFINE v == UniqueViolation(Key(c))
    <3>1. v \in BOOLEAN
      BY DEF UniqueViolation, Stored
    <3>2. /\ aborted' = [aborted EXCEPT ![c] = v]
          /\ pc' = [pc EXCEPT ![c] = IF v THEN "recover" ELSE "interaction"]
          /\ granted' = granted
      BY <2>3 DEF InsertTap, Goto, storeVars
    <3> HIDE DEF v
    <3>3. CASE v
      BY <3>2, <3>3 DEF Busy, Ingest, InTx
    <3>4. CASE ~v
      BY <3>1, <3>2, <3>4 DEF Busy, Ingest, InTx
    <3>5. QED
      BY <3>3, <3>4
  <2>4. CASE RecoverDuplicate(c)
    <3>1. /\ pc[c] = "recover" /\ pc' = [pc EXCEPT ![c] = "failed"]
          /\ aborted' = [aborted EXCEPT ![c] = FALSE] /\ granted' = granted
      BY <2>4 DEF RecoverDuplicate, Return, Goto, storeVars
    <3>2. reply' = [reply EXCEPT ![c] = "error"]
      BY <2>1, <2>4 DEF RecoverDuplicate, Return
    <3>3. QED
      BY <3>1, <3>2
  <2>5. CASE CreateInteraction(c)
    <3>1. /\ pc[c] = "interaction" /\ pc' = [pc EXCEPT ![c] = "commit"]
          /\ aborted' = aborted /\ granted' = granted
      BY <2>5 DEF CreateInteraction, GrantFailure, Goto, storeVars
    <3>2. QED
      BY <2>1, <3>1 DEF Busy, Ingest, InTx
  <2>6. CASE Commit(c)
    <3>1. ~aborted[c]
      BY <2>1, <2>6 DEF Commit
    <3>2. /\ tapRows'  = [tapRows  EXCEPT ![Key(c)] = @ + 1]
          /\ aborted' = [aborted EXCEPT ![c] = FALSE]
          /\ pc' = [pc EXCEPT ![c] = "ingested"]
          /\ granted' = granted \/ granted' = granted \cup {Key(c)}
      BY <2>6, <3>1 DEF Commit, Return, Goto
    <3>3. tapRows \in [Keys -> Nat]
      BY DEF TypeInv, TypeOk
    <3>4. tapRows'[Key(c)] > 0
      BY <1>2, <3>2, <3>3
    <3>5. Stored(Key(c))'
      BY <1>1, <3>4 DEF Stored
    <3>6. QED
      BY <3>2, <3>5 DEF ClientTyped, Busy
  <2>7. QED
    BY <2>2, <2>3, <2>4, <2>5, <2>6, <2>8, <2>9 DEF Ingesting, IngestStep
<1>5. Progress(c)'
  <2>1. \A i \in DOMAIN req[c] : req[c][i] \in Keys
    BY DEF ClientTyped
  <2>2. pc[c] # "idle"
    BY <1>1 DEF Ingest, InTx
  <2>3. Walked(c)'
    BY <1>1, <2>1, <2>2 DEF StoredInv, Progress, Walked, Grows
  <2>4. QED
    BY <1>4, <2>3 DEF Progress
<1>6. ASSUME c \in Requests PROVE Answering(c)'
  <2>1. pc[c] # "idle" /\ pc'[c] # "done"
    BY <1>1, <1>4 DEF Ingest, InTx, Busy
  <2>2. pc'[c] = "failed" => Outcome(c)' # "synced"
    BY <1>4 DEF Outcome
  <2>3. QED
    BY <1>1, <1>6, <2>1, <2>2 DEF StoredInv, Answering
<1>7. LinkedIsStored'
  <2>1. granted \subseteq Keys /\ links \subseteq Keys /\ links' = links
    BY <1>1 DEF TypeInv, TypeOk, deviceVars
  <2>2. \A k \in links \cup granted : Stored(k)'
    BY <2>1 DEF Grows, StoredInv, LinkedIsStored
  <2>3. Stored(Key(c))' => \A k \in {Key(c)} : Stored(k)'
    BY <1>1 DEF Stored
  <2>4. QED
    BY <1>4, <2>1, <2>2, <2>3 DEF LinkedIsStored
<1>8. CheckpointCovered' /\ SyncedIsStored'
  BY <1>1, SharedGrows DEF deviceVars, iotVars
<1>9. ASSUME NEW d \in Clients PROVE Progress(d)' /\ (d \in Requests => Answering(d)')
  BY <1>3, <1>5, <1>6, StillProgress
<1>10. QED
  BY <1>7, <1>8, <1>9, ClientAssumption DEF StoredInv
(* The other clients stand still while one request or run moves. *)
LEMMA Others ==
  ASSUME TypeInv, NEW c \in Clients, RequestCases(c) \/ RunCases(c), NEW d \in Clients \ {c}
  PROVE  Still(d)
<1> ClientTyped
  BY ClientTypes
<1>1. CASE RequestCases(c)
  BY <1>1 DEF RequestCases, Post, IssueLink, FailRequest, Answer, LoseAnswer, DropRequest, Crash,
         Leave, Return, Goto, ClientTyped, Still
<1>2. CASE RunCases(c)
  BY <1>2 DEF RunCases, StartRun, ListPage, FetchError, NextItem, SavePage, SaveFailure, KillRun,
         Crash, EndRun, Leave, Return, Goto, ClientTyped, Still
<1>3. QED
  BY <1>1, <1>2

LEMMA LeaveProgress ==
  ASSUME TypeInv, NEW c \in Clients, Leave(c)
  PROVE  Progress(c)' /\ Answering(c)'
<1>1. pc'[c] = "idle" /\ aborted'[c] = FALSE
  BY ClientTypes DEF ClientTyped, Leave, Goto
<1>2. QED
  BY <1>1 DEF Progress, Walked, Answering

LEMMA StoredRequest ==
  ASSUME TypeInv, StoredInv, NEW c \in Requests, RequestCases(c)
  PROVE  StoredInv'
<1> c \in Clients /\ ClientTyped
  BY ClientAssumption, ClientTypes
<1>1. Outside /\ Grows /\ (\A k \in Keys : Stored(k)' <=> Stored(k)) /\ granted' = granted
  BY OutsideRequest, OutsideGrows DEF Outside, storeVars
<1>2. ASSUME NEW d \in Clients \ {c} PROVE Progress(d)' /\ (d \in Requests => Answering(d)')
  BY <1>1, <1>2, Others, StillProgress
<1>3. CheckpointCovered'
  BY <1>1, SharedGrows DEF RequestCases, iotVars
<1>4. Progress(c) /\ Answering(c)
  BY DEF StoredInv
<1>5. \A i \in DOMAIN req[c] : req[c][i] \in Keys
  BY DEF ClientTyped
<1>6. ASSUME Progress(c)', Answering(c)', SyncedIsStored', LinkedIsStored' PROVE StoredInv'
  BY <1>2, <1>3, <1>6, ClientAssumption DEF StoredInv
<1>7. CASE Post(c)
  <2>1. PICK b \in Batches :
          /\ req'  = [req  EXCEPT ![c] = b]
          /\ upto' = [upto EXCEPT ![c] = Len(b)]
    BY <1>7 DEF Post
  <2>2. /\ pc[c] = "idle" /\ pos' = [pos EXCEPT ![c] = 1]
        /\ pc' = [pc EXCEPT ![c] = "resolve"] /\ UNCHANGED <<aborted, queue, links>>
    BY <1>7 DEF Post, Return, Goto, deviceVars
  <2>3. Progress(c)'
    <3>1. b \in Seq(Keys)
      BY RequestAssumption
    <3>2. pc'[c] = "resolve" /\ pos'[c] = 1 /\ req'[c] = b /\ aborted'[c] = FALSE
      BY <1>4, <2>1, <2>2 DEF ClientTyped, Progress
    <3>3. QED
      BY <3>1, <3>2 DEF Progress, Walked
  <2>4. Answering(c)'
    BY <2>1, <2>2 DEF ClientTyped, Answering
  <2>5. SyncedIsStored' /\ LinkedIsStored'
    BY <1>1, <2>2, SharedGrows
  <2>6. QED
    BY <1>6, <2>3, <2>4, <2>5
<1>8. CASE IssueLink(c)
  <2>1. /\ pc[c] = "ingested" /\ links' = links \cup {Key(c)}
        /\ UNCHANGED <<req, upto, aborted, reply, queue>>
        /\ \/ /\ pos[c] < upto[c]
              /\ pc' = [pc EXCEPT ![c] = "find"] /\ pos' = [pos EXCEPT ![c] = @ + 1]
           \/ ~(pos[c] < upto[c]) /\ pc' = [pc EXCEPT ![c] = "done"] /\ pos' = pos
    BY <1>8 DEF IssueLink, Goto
  <2>2. pos[c] \in 1 .. upto[c] /\ upto[c] = Len(req[c]) /\ Key(c) \in Keys /\ Stored(Key(c))
    BY <1>4, <2>1, KeyType DEF TypeInv, Walk, Busy, Progress, Answering
  <2>3. \A i \in DOMAIN req[c] : i <= pos[c] => Stored(req[c][i])'
    <3>1. \A i \in DOMAIN req[c] : i < pos[c] => Stored(req[c][i])
      BY <1>4, <2>1 DEF Progress, Walked
    <3>2. \A i \in DOMAIN req[c] : i <= pos[c] => Stored(req[c][i])
      BY <2>2, <3>1 DEF ClientTyped, Key
    <3>3. ASSUME NEW i \in DOMAIN req[c], i <= pos[c] PROVE Stored(req[c][i])'
      <4>1. Stored(req[c][i]) /\ req[c][i] \in Keys /\ req' = req
        BY <1>5, <2>1, <3>2, <3>3
      <4>2. QED
        BY <1>1, <4>1 DEF Outside, storeVars, Stored
    <3>4. QED
      BY <3>3
  <2>4. Progress(c)' /\ Answering(c)'
    <3>1. req'[c] = req[c] /\ upto'[c] = upto[c] /\ ~aborted'[c] /\ reply'[c] = reply[c]
      BY <1>4, <2>1 DEF Progress
    <3>2. CASE pc'[c] = "find" /\ pos'[c] = pos[c] + 1
      BY <2>2, <2>3, <3>1, <3>2 DEF Progress, Walked, Answering, ClientTyped
    <3>3. CASE pc'[c] = "done" /\ pos'[c] = pos[c] /\ pos[c] = upto[c]
      BY <2>2, <2>3, <3>1, <3>3 DEF Progress, Walked, Answering, ClientTyped
    <3>4. QED
      BY <2>1, <2>2, <3>2, <3>3 DEF ClientTyped
  <2>5. SyncedIsStored'
    BY <1>1, <2>1, SharedGrows
  <2>6. LinkedIsStored'
    <3>1. \A k \in links \cup granted \cup {Key(c)} : k \in Keys /\ Stored(k)
      BY <2>2 DEF StoredInv, LinkedIsStored, TypeInv, TypeOk
    <3>2. QED
      BY <1>1, <2>1, <3>1 DEF LinkedIsStored
  <2>7. QED
    BY <1>6, <2>4, <2>5, <2>6
<1>9. CASE FailRequest(c)
  <2>1. /\ pc[c] = "failed" /\ pc' = [pc EXCEPT ![c] = "done"]
        /\ UNCHANGED <<req, pos, upto, aborted, reply, queue, links>>
    BY <1>9 DEF FailRequest, Goto, deviceVars
  <2>2. pc'[c] = "done" /\ Outcome(c)' = Outcome(c) /\ Outcome(c) # "synced"
    BY <1>4, <2>1 DEF ClientTyped, Outcome, Answering
  <2>3. Progress(c)' /\ Answering(c)'
    BY <1>1, <1>4, <1>5, <2>1, <2>2 DEF Progress, Walked, Answering, Grows
  <2>4. SyncedIsStored' /\ LinkedIsStored'
    BY <1>1, <2>1, SharedGrows
  <2>5. QED
    BY <1>6, <2>3, <2>4
<1>10. ASSUME NEW st, queue' = Mark(req[c], st), links' = links, Leave(c),
              st = "synced" => \A i \in DOMAIN req[c] : Stored(req[c][i])
       PROVE  StoredInv'
  <2>1. LinkedIsStored'
    BY <1>1, <1>10, SharedGrows
  <2>2. ASSUME NEW k \in Keys, queue'[k] = "synced" PROVE Stored(k)
    <3>1. CASE k \in Items(req[c])
      BY <1>10, <2>2, <3>1 DEF Mark, Items
    <3>2. CASE k \notin Items(req[c])
      BY <1>10, <2>2, <3>2 DEF Mark, StoredInv, SyncedIsStored
    <3>3. QED
      BY <3>1, <3>2
  <2>3. SyncedIsStored'
    BY <1>1, <2>2 DEF SyncedIsStored
  <2>4. QED
    BY <1>6, <1>10, <2>1, <2>3, LeaveProgress
<1>11. CASE Answer(c)
  <2>1. Outcome(c) = "synced" => \A i \in DOMAIN req[c] : Stored(req[c][i])
    BY <1>4, <1>11 DEF Answer, Answering
  <2>2. QED
    BY <1>10, <1>11, <2>1 DEF Answer
<1>12. CASE LoseAnswer(c) \/ DropRequest(c)
  BY <1>10, <1>12 DEF LoseAnswer, DropRequest, Crash
<1>13. QED
  BY <1>7, <1>8, <1>9, <1>11, <1>12 DEF RequestCases

LEMMA StoredRun ==
  ASSUME TypeInv, StoredInv, NEW r \in Runs, RunCases(r)
  PROVE  StoredInv'
<1> r \in Clients /\ r \notin Requests /\ ClientTyped
  BY ClientAssumption, ClientTypes
<1> Feed \in Seq(Keys) /\ Len(Feed) \in Nat /\ DOMAIN Feed = 1 .. Len(Feed)
  BY FeedAssumption
<1> \A i \in 1 .. Len(Feed) : Feed[i] \in Keys
  OBVIOUS
<1>1. Outside /\ Grows /\ (\A k \in Keys : Stored(k)' <=> Stored(k)) /\ granted' = granted
  BY OutsideRun, OutsideGrows DEF Outside, storeVars
<1>2. ASSUME NEW d \in Clients \ {r} PROVE Progress(d)' /\ (d \in Requests => Answering(d)')
  BY <1>1, <1>2, Others, StillProgress
<1>3. SyncedIsStored' /\ LinkedIsStored'
  BY <1>1, SharedGrows DEF RunCases, deviceVars
<1>4. Progress(r) /\ RunWalk(r) /\ Walk(r)
  BY DEF StoredInv, TypeInv
<1>5. ASSUME Progress(r)', CheckpointCovered' PROVE StoredInv'
  BY <1>2, <1>3, <1>5, ClientAssumption DEF StoredInv
<1>6. checkpoint' = checkpoint => CheckpointCovered'
  BY <1>1, SharedGrows
<1>7. pc[r] # "idle" => /\ req[r] = Feed /\ pos[r] \in 1 .. Len(Feed) + 1
                        /\ pageStart[r] \in 0 .. Len(Feed) /\ pageStart[r] < pos[r]
                        /\ \A i \in 1 .. Len(Feed) : i < pos[r] => Stored(Feed[i])'
  <2>1. pageStart[r] \in 0 .. Len(Feed) /\ pos[r] \in Nat
    BY DEF TypeInv, TypeOk, Cursors
  <2>2. QED
    BY <1>1, <1>4, <2>1 DEF RunWalk, Progress, Walked
<1>8. ASSUME pc'[r] # "ingested", pc'[r] # "recover", ~aborted'[r], req'[r] = Feed,
             \A i \in 1 .. Len(Feed) : i < pos'[r] => Stored(Feed[i])'
      PROVE  Progress(r)'
  BY <1>8 DEF Progress, Walked, Stored
<1>9. CASE StartRun(r)
  <2>1. /\ pc'[r] = "list" /\ aborted'[r] = aborted[r] /\ req'[r] = Feed
        /\ pos'[r] = checkpoint.cursor + 1 /\ checkpoint' = checkpoint /\ pc[r] = "idle"
    BY <1>9 DEF StartRun, Return, Goto, ClientTyped
  <2>2. checkpoint.cursor \in 0 .. Len(Feed)
    BY DEF TypeInv, TypeOk, Checkpoints, Cursors
  <2>3. \A i \in 1 .. Len(Feed) : i < pos'[r] => Stored(Feed[i])'
    BY <1>1, <2>1, <2>2 DEF StoredInv, CheckpointCovered
  <2>4. QED
    BY <1>4, <1>5, <1>6, <1>8, <2>1, <2>3 DEF Progress
<1>10. CASE ListPage(r)
  <2>1. /\ pc[r] = "list" /\ pc'[r] \in {"resolve", "save"} /\ aborted' = aborted
        /\ req' = req /\ pos' = pos /\ checkpoint' = checkpoint
    BY <1>10 DEF ListPage, Goto, ClientTyped
  <2>2. QED
    BY <1>4, <1>5, <1>6, <1>7, <1>8, <2>1 DEF Progress
<1>11. CASE FetchError(r)
  <2>1. /\ pc[r] = "list" /\ pc'[r] = "failed" /\ aborted' = aborted
        /\ req' = req /\ pos' = pos /\ checkpoint' = checkpoint
    BY <1>11 DEF FetchError, Return, Goto, ClientTyped, iotVars
  <2>2. QED
    BY <1>4, <1>5, <1>6, <1>7, <1>8, <2>1 DEF Progress
<1>12. CASE NextItem(r)
  <2>1. /\ pc[r] = "ingested" /\ pc'[r] \in {"resolve", "save"} /\ aborted' = aborted
        /\ req' = req /\ pos'[r] = pos[r] + 1 /\ checkpoint' = checkpoint
    BY <1>12 DEF NextItem, Goto, ClientTyped, iotVars
  <2>2. Stored(Key(r)) /\ Key(r) = Feed[pos[r]] /\ pos[r] \in 1 .. Len(Feed)
    BY <1>4, <1>7, <2>1 DEF Progress, Key, Walk, Busy
  <2>3. \A i \in 1 .. Len(Feed) : i < pos'[r] => Stored(Feed[i])'
    <3>1. \A i \in 1 .. Len(Feed) : i = pos[r] => Stored(Feed[i])'
      BY <1>1, <2>2 DEF Outside, storeVars, Stored
    <3>2. \A i \in 1 .. Len(Feed) : i < pos[r] + 1 => i < pos[r] \/ i = pos[r]
      BY <2>2
    <3>3. QED
      BY <1>7, <2>1, <3>1, <3>2
  <2>4. QED
    BY <1>4, <1>5, <1>6, <1>7, <1>8, <2>1, <2>3 DEF Progress
<1>13. ASSUME NEW n \in 0 .. Len(Feed), checkpoint'.cursor = n, pc[r] # "idle", n < pos[r]
       PROVE  CheckpointCovered'
  BY <1>7, <1>13 DEF CheckpointCovered
<1>14. CASE SavePage(r)
  <2>1. pc[r] = "save" /\ checkpoint'.cursor = pos[r] - 1
    BY <1>14 DEF SavePage, SavedCheckpoint
  <2>2. CheckpointCovered'
    BY <1>7, <1>13, <2>1
  <2>3. CASE ~more[r]
    BY <1>5, <1>14, <2>2, <2>3, LeaveProgress DEF SavePage, EndRun
  <2>4. CASE more[r]
    <3>1. pc'[r] = "list" /\ UNCHANGED <<req, pos, aborted>>
      BY <1>14, <2>4 DEF SavePage, Goto, ClientTyped
    <3>2. QED
      BY <1>4, <1>5, <1>7, <1>8, <2>1, <2>2, <3>1 DEF Progress
  <2>5. QED
    BY <2>3, <2>4
<1>15. CASE SaveFailure(r)
  <2>1. pc[r] = "failed" /\ checkpoint'.cursor = pageStart[r] /\ Leave(r)
    BY <1>15 DEF SaveFailure, FailedCheckpoint, EndRun
  <2>2. QED
    BY <1>5, <1>7, <1>13, <2>1, LeaveProgress
<1>16. CASE KillRun(r)
  BY <1>5, <1>6, <1>16, LeaveProgress DEF KillRun, EndRun
<1>17. QED
  BY <1>9, <1>10, <1>11, <1>12, <1>14, <1>15, <1>16 DEF RunCases

LEMMA StoredRest ==
  ASSUME TypeInv, StoredInv,
         \/ \E k \in Keys : Capture(k) /\ UNCHANGED iotVars
         \/ Publish /\ UNCHANGED deviceVars
         \/ Moving
         \/ UNCHANGED vars
  PROVE  StoredInv'
<1>1. Outside /\ UNCHANGED <<clientVars, checkpoint, links, granted>>
  BY OutsideRest DEF Outside, storeVars
<1>2. Grows /\ \A k \in Keys : Stored(k)' <=> Stored(k)
  BY <1>1, OutsideGrows
<1>3. ASSUME NEW d \in Clients PROVE Progress(d)' /\ (d \in Requests => Answering(d)')
  BY <1>1, <1>2, StillProgress DEF Still, clientVars
<1>4. CheckpointCovered' /\ LinkedIsStored'
  BY <1>1, <1>2, SharedGrows
<1>5. \A k \in Keys : queue'[k] = "synced" => queue[k] = "synced"
  BY DEF Capture, Publish, Moving, Unassign, Assign, vars, deviceVars, TypeInv, TypeOk
<1>6. SyncedIsStored'
  BY <1>2, <1>5 DEF StoredInv, SyncedIsStored
<1>7. QED
  BY <1>3, <1>4, <1>6, ClientAssumption DEF StoredInv

LEMMA StoredStep ==
  ASSUME ~GrantMayFail, TypeInv, StoredInv, [Next]_vars
  PROVE  StoredInv'
BY StepCases, StoredIngest, StoredRequest, StoredRun, StoredRest DEF RequestCases, RunCases
-----------------------------------------------------------------------------
(* If the statements of the grants do not fail - the run on MCTapGrant     *)
(* shows what happens when one does - then whatever else crashes, fails,   *)
(* overlaps or is lost: the cursor passes no tap that is not stored, the   *)
(* device never drops a tap that is not stored, and every short link and   *)
(* grant leads to an interaction.                                          *)
THEOREM NothingLost ==
  ASSUME ~GrantMayFail
  PROVE  Spec => [](CheckpointCovered /\ SyncedIsStored /\ NoDanglingLink)
<1>1. TypeInv /\ StoredInv /\ [Next]_vars => StoredInv'
  BY StoredStep
<1>2. StoredInv /\ OneLeadPerTap /\ TypeInv => CheckpointCovered /\ SyncedIsStored /\ NoDanglingLink
  BY DEF StoredInv, LinkedIsStored, NoDanglingLink, OneLeadPerTap, Stored, TypeInv, TypeOk
<1>3. QED
  BY StoredInit, TypeCorrect, OneLead, <1>1, <1>2, PTL DEF Spec

(* The same of the device, and of the links, alone.                        *)
THEOREM SyncedTapsAreStored ==
  ASSUME ~GrantMayFail
  PROVE  Spec => []SyncedIsStored
BY NothingLost, PTL

THEOREM LinksLeadSomewhere ==
  ASSUME ~GrantMayFail
  PROVE  Spec => []NoDanglingLink
BY NothingLost, PTL

(* Under the same condition, tap delivery implements the ledger: a commit  *)
(* records a lead, every other change of the queue acknowledges recorded   *)
(* ones, and every write of the checkpoint is a move of the cursor.        *)
LEMMA LedgerInit == Init => Ledger!Init
  BY DEF Init, IngestInit, DeviceInit, IotInit, NoCheckpoint, Ledger!Init

Synced == {k \in Keys : queue[k] = "synced"}

LEMMA RecordedIsStored ==
  OneLeadPerTap => \A k \in Keys : k \in Ledger!Recorded <=> Stored(k)
  BY DEF OneLeadPerTap, Ledger!Recorded, Stored

LEMMA CommitRecords ==
  ASSUME ~GrantMayFail, TypeInv, LeadInv, StoredInv, NEW c \in Clients, Ingesting(c)
  PROVE  \/ Ledger!Next
         \/ UNCHANGED <<leadRows, Synced, checkpoint.cursor>>
<1>1. UNCHANGED <<Synced, checkpoint.cursor>>
  BY IngestFrame DEF Synced, deviceVars, iotVars
<1>2. CASE leadRows' = leadRows
  BY <1>1, <1>2
<1>3. CASE Commit(c) /\ ~aborted[c]
  <2>1. /\ leadRows' = [leadRows EXCEPT ![Key(c)] = @ + 1] /\ pc[c] = "commit"
        /\ leadRows \in [Keys -> Nat]
    BY <1>3 DEF Commit, TypeInv, TypeOk
  <2>2. Key(c) \in Keys
    BY <2>1, KeyType DEF Busy, Ingest, InTx
  <2>3. leadRows[Key(c)] = 0
    BY <1>3, <2>1, <2>2 DEF LeadInv, Owned, Holding, Stored, OneLeadPerTap, TypeInv, TypeOk
  <2>4. leadRows' = [leadRows EXCEPT ![Key(c)] = 1]
    BY <2>1, <2>2, <2>3
  <2>5. Ledger!Record(Key(c))
    BY <1>1, <2>3, <2>4 DEF Ledger!Record, Synced
  <2>6. QED
    BY <2>2, <2>5 DEF Ledger!Next
<1>4. QED
  BY <1>2, <1>3 DEF Ingesting, IngestStep, Resolve, Reject, FindExisting, InsertTap,
     RecoverDuplicate, CreateInteraction, Commit, storeVars

LEMMA OutsideLedger ==
  ASSUME TypeInv', LeadInv', StoredInv', leadRows' = leadRows,
         UNCHANGED Synced \/ UNCHANGED checkpoint.cursor
  PROVE  \/ Ledger!Next
         \/ UNCHANGED <<leadRows, Synced, checkpoint.cursor>>
<1>1. \A k \in Keys : Stored(k)' => k \in Ledger!Recorded
  BY DEF LeadInv, OneLeadPerTap, Ledger!Recorded, Stored, TypeInv, TypeOk
<1>2. CASE UNCHANGED checkpoint.cursor
  <2>1. Synced' \in SUBSET Ledger!Recorded
    BY <1>1 DEF StoredInv, SyncedIsStored, Synced
  <2>2. Ledger!Acknowledge
    BY <1>2, <2>1 DEF Ledger!Acknowledge, Synced
  <2>3. QED
    BY <2>2 DEF Ledger!Next
<1>3. CASE UNCHANGED Synced
  <2>1. checkpoint'.cursor \in 0 .. Len(Feed)
    BY DEF TypeInv, TypeOk, Checkpoints, Cursors
  <2>2. \A i \in 1 .. Len(Feed) : Feed[i] \in Keys
    BY FeedAssumption
  <2>3. \A i \in 1 .. checkpoint'.cursor : Feed[i] \in Ledger!Recorded
    BY <1>1, <2>1, <2>2 DEF StoredInv, CheckpointCovered
  <2>4. Ledger!MoveCursor
    BY <1>3, <2>1, <2>3 DEF Ledger!MoveCursor, Synced
  <2>5. QED
    BY <2>4 DEF Ledger!Next
<1>4. QED
  BY <1>2, <1>3

LEMMA LedgerStep ==
  ASSUME ~GrantMayFail, TypeInv, LeadInv, StoredInv, [Next]_vars, TypeInv', LeadInv', StoredInv'
  PROVE  \/ Ledger!Next
         \/ UNCHANGED <<leadRows, Synced, checkpoint.cursor>>
<1>1. CASE \E c \in Clients : Ingesting(c)
  BY <1>1, CommitRecords
<1>2. CASE \E k \in Keys : Capture(k) /\ UNCHANGED iotVars
  BY <1>2, OutsideLedger DEF Capture, iotVars, ingestVars, storeVars
<1>3. CASE \E c \in Requests : RequestCases(c)
  BY <1>3, OutsideRequest, OutsideLedger DEF RequestCases, iotVars, Outside, storeVars
<1>4. CASE \E r \in Runs : RunCases(r)
  BY <1>4, OutsideRun, OutsideLedger DEF RunCases, deviceVars, Outside, storeVars, Synced
<1>5. CASE (Publish /\ UNCHANGED deviceVars) \/ Moving \/ UNCHANGED vars
  BY <1>5, OutsideRest, OutsideLedger DEF Outside, storeVars, Synced
<1>6. QED
  BY <1>1, <1>2, <1>3, <1>4, <1>5, StepCases DEF RequestCases, RunCases

THEOREM Implements ==
  ASSUME ~GrantMayFail
  PROVE  Spec => LedgerSpec
<1>1. TypeInv /\ LeadInv /\ [Next]_vars => LeadInv'
  BY LeadStep
<1>2. TypeInv /\ StoredInv /\ [Next]_vars => StoredInv'
  BY StoredStep
<1>3. /\ TypeInv /\ LeadInv /\ StoredInv /\ [Next]_vars /\ TypeInv' /\ LeadInv' /\ StoredInv'
      => [Ledger!Next]_<<leadRows, Synced, checkpoint.cursor>>
  BY LedgerStep
<1>4. QED
  BY LeadInit, StoredInit, LedgerInit, TypeCorrect, <1>1, <1>2, <1>3, PTL
  DEF Spec, LedgerSpec, Ledger!Spec, Synced
=============================================================================
