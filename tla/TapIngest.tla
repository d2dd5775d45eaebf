----------------------------- MODULE TapIngest -----------------------------
(***************************************************************************)
(* ingestTapEvent (interactions/ingest-tap.mjs) over the Postgres          *)
(* repositories: the procedure that every way of delivering a tap ends in. *)
(*                                                                         *)
(* A client is one caller of the procedure: a request of a kiosk or a run  *)
(* of the IoT tap sync.  It walks through a sequence of taps req[c], and   *)
(* Key(c) is the tap it is delivering.  The steps are the awaits of the    *)
(* code, so that other clients run between any two of them: the assignment *)
(* is read, the tap looked up outside any transaction, then inserted with  *)
(* its interaction and its document grants inside one.                     *)
(*                                                                         *)
(* Postgres is modelled by what the code meets of it at READ COMMITTED:    *)
(* other sessions see committed rows only; an INSERT on a key that an open *)
(* transaction has inserted waits for that transaction; an INSERT on a     *)
(* committed key fails; after a failed statement the transaction refuses   *)
(* every later statement and its COMMIT is a ROLLBACK.                     *)
(*                                                                         *)
(* All taps are of one device: UNIQUE (device_id, local_event_id) and the  *)
(* active assignment make different devices independent.                   *)
(***************************************************************************)
EXTENDS Naturals, Sequences

CONSTANTS
  Clients,        \* callers of ingestTapEvent
  Keys,           \* local_event_id values of the device
  Assignments,    \* places of the device: event, stall and checksum
  NoAssignment,   \* the device has no active assignment
  CapturedUnder,  \* the assignment each tap was captured under
  OpenFolders,    \* the stall shares folders that every visitor may open
  GrantMayFail,   \* TRUE: a statement of autoGrantDocumentAccess may fail
  MaxFaults       \* bound on the faults of the environment

ASSUME TapAssumption ==
  /\ NoAssignment \notin Assignments
  /\ CapturedUnder \in [Keys -> Assignments]
  /\ OpenFolders \in BOOLEAN
  /\ GrantMayFail \in BOOLEAN
  /\ MaxFaults \in Nat

VARIABLES
  tapRows,     \* committed rows of tap_events, by key
  leadRows,    \* committed rows of interactions, by the key of their tap
  granted,     \* keys whose interaction has rows in stall_folder_access
  assignment,  \* the active assignment of the device
  pc,          \* where each client is
  req,         \* the taps each client walks through
  pos,         \* the index in req of the tap it is delivering
  upto,        \* the last index in req it has been given
  seen,        \* resources.assignment: the assignment it has read
  aborted,     \* its transaction has met a failed statement
  reply,       \* how its last delivery ended
  faults       \* faults so far

storeVars  == <<tapRows, leadRows, granted>>
clientVars == <<pc, req, pos, upto, seen, aborted, reply>>
ingestVars == <<storeVars, assignment, clientVars, faults>>

Replies == {"none", "created", "duplicate_existing", "rejected", "error"}
InTx    == {"recover", "interaction", "commit"}
Ingest  == {"resolve", "find", "insert"} \cup InTx

Key(c)    == req[c][pos[c]]
Stored(k) == tapRows[k] > 0

Goto(c, l)     == pc' = [pc EXCEPT ![c] = l]
Return(c, l, r) == Goto(c, l) /\ reply' = [reply EXCEPT ![c] = r]

(* The call is over and its locals are gone. *)
Leave(c) ==
  /\ Goto(c, "idle")
  /\ req'     = [req     EXCEPT ![c] = <<>>]
  /\ pos'     = [pos     EXCEPT ![c] = 1]
  /\ upto'    = [upto    EXCEPT ![c] = 0]
  /\ seen'    = [seen    EXCEPT ![c] = NoAssignment]
  /\ aborted' = [aborted EXCEPT ![c] = FALSE]
  /\ reply'   = [reply   EXCEPT ![c] = "none"]

Fault == faults < MaxFaults /\ faults' = faults + 1

IngestInit ==
  /\ tapRows  = [k \in Keys |-> 0]
  /\ leadRows = [k \in Keys |-> 0]
  /\ granted  = {}
  /\ assignment \in Assignments
  /\ pc      = [c \in Clients |-> "idle"]
  /\ req     = [c \in Clients |-> <<>>]
  /\ pos     = [c \in Clients |-> 1]
  /\ upto    = [c \in Clients |-> 0]
  /\ seen    = [c \in Clients |-> NoAssignment]
  /\ aborted = [c \in Clients |-> FALSE]
  /\ reply   = [c \in Clients |-> "none"]
  /\ faults  = 0

-----------------------------------------------------------------------------
(* The transactions that hold an uncommitted row of the key. *)
Holds(d, k)       == pc[d] \in {"interaction", "commit"} /\ ~aborted[d] /\ Key(d) = k
HeldByOther(c, k) == \E d \in Clients \ {c} : Holds(d, k)

(* The unique index on (device_id, local_event_id). *)
UniqueViolation_Absent(k) == FALSE
UniqueViolation(k)        == Stored(k)

(* The 403 and the 409 of ingestTapEvent: the tap must name the assignment. *)
Matches(c)         == seen[c] = CapturedUnder[Key(c)]

(* resolveResources of the routes, or the lookups of the sync item.  They  *)
(* throw when the device has no active assignment, which Reject models.    *)
Resolve(c) ==
  /\ pc[c] = "resolve"
  /\ seen' = [seen EXCEPT ![c] = assignment]
  /\ Goto(c, "find")
  /\ UNCHANGED <<storeVars, assignment, req, pos, upto, aborted, reply, faults>>

Reject(c) ==
  /\ pc[c] = "find"
  /\ ~Matches(c)
  /\ Return(c, "failed", "rejected")
  /\ UNCHANGED <<storeVars, assignment, req, pos, upto, seen, aborted, faults>>

FindExisting(c) ==
  /\ pc[c] = "find"
  /\ Matches(c)
  /\ IF Stored(Key(c)) THEN Return(c, "ingested", "duplicate_existing")
                       ELSE Goto(c, "insert") /\ UNCHANGED reply
  /\ UNCHANGED <<storeVars, assignment, req, pos, upto, seen, aborted, faults>>

(* BEGIN and tapEvents.create: the row is visible to its own transaction   *)
(* until the commit; error 23505 becomes the 409 duplicate_tap.            *)
InsertTap(c) ==
  /\ pc[c] = "insert"
  /\ ~HeldByOther(c, Key(c))
  /\ aborted' = [aborted EXCEPT ![c] = UniqueViolation(Key(c))]
  /\ Goto(c, IF UniqueViolation(Key(c)) THEN "recover" ELSE "interaction")
  /\ UNCHANGED <<storeVars, assignment, req, pos, upto, seen, reply, faults>>

(* The catch of duplicate_tap looks the winner up through txRepos, in the  *)
(* transaction the failed INSERT has aborted: the lookup is refused and    *)
(* its error leaves ingestTapEvent.                                        *)
RecoverDuplicate(c) ==
  /\ pc[c] = "recover"
  /\ Return(c, "failed", IF aborted[c] THEN "error" ELSE "duplicate_existing")
  /\ aborted' = [aborted EXCEPT ![c] = FALSE]
  /\ UNCHANGED <<storeVars, assignment, req, pos, upto, seen, faults>>

(* interactions.create and autoGrantDocumentAccess.  The latter swallows   *)
(* every error: a failed statement leaves the transaction aborted and the  *)
(* procedure going on.                                                     *)
GrantFailure_Any(c) == Fault /\ aborted' = [aborted EXCEPT ![c] = TRUE]
GrantFailure(c)     == GrantMayFail /\ Fault /\ aborted' = [aborted EXCEPT ![c] = TRUE]

CreateInteraction(c) ==
  /\ pc[c] = "interaction"
  /\ \/ UNCHANGED <<aborted, faults>>
     \/ GrantFailure(c)
  /\ Goto(c, "commit")
  /\ UNCHANGED <<storeVars, assignment, req, pos, upto, seen, reply>>

(* COMMIT: the rows of the transaction appear together, or not at all; the *)
(* code answers mode created in both cases.                                *)
Commit(c) ==
  /\ pc[c] = "commit"
  /\ IF aborted[c] THEN UNCHANGED storeVars
     ELSE /\ tapRows'  = [tapRows  EXCEPT ![Key(c)] = @ + 1]
          /\ leadRows' = [leadRows EXCEPT ![Key(c)] = @ + 1]
          /\ granted' = IF OpenFolders THEN granted \cup {Key(c)} ELSE granted
  /\ aborted' = [aborted EXCEPT ![c] = FALSE]
  /\ Return(c, "ingested", "created")
  /\ UNCHANGED <<assignment, req, pos, upto, seen, faults>>

IngestStep(c) ==
  \/ Resolve(c) \/ Reject(c) \/ FindExisting(c) \/ InsertTap(c)
  \/ RecoverDuplicate(c) \/ CreateInteraction(c) \/ Commit(c)

(* The process that serves the client dies: its transaction is rolled back *)
(* and nobody answers.                                                     *)
Crash(c) ==
  /\ pc[c] # "idle"
  /\ Fault
  /\ Leave(c)
  /\ UNCHANGED <<storeVars, assignment>>

(* POST /devices/:deviceId/unassign and /devices/:deviceId/assign: moving  *)
(* the device to another stall takes both.                                 *)
Unassign ==
  /\ assignment # NoAssignment
  /\ Fault
  /\ assignment' = NoAssignment
  /\ UNCHANGED <<storeVars, clientVars>>

Assign ==
  /\ assignment = NoAssignment
  /\ assignment' \in Assignments
  /\ UNCHANGED <<storeVars, clientVars, faults>>
=============================================================================
