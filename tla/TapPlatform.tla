---------------------------- MODULE TapPlatform ----------------------------
(***************************************************************************)
(* The platform's tap intake: kiosk requests and runs of the IoT sync      *)
(* deliver taps through ingestTapEvent into one database, while organizers *)
(* move the device and the environment crashes, drops and fails things.    *)
(***************************************************************************)
EXTENDS DeviceTapRoutes, IotTapSync

ASSUME ClientAssumption == Clients = Requests \cup Runs /\ Requests \cap Runs = {}

vars == <<ingestVars, deviceVars, iotVars>>

Init == IngestInit /\ DeviceInit /\ IotInit

Requesting(c) == (RequestStep(c) \/ RequestFault(c)) /\ UNCHANGED iotVars
Running(r)    == (RunStep(r) \/ RunFault(r)) /\ UNCHANGED deviceVars
Moving        == (Unassign \/ Assign) /\ UNCHANGED <<deviceVars, iotVars>>

Next ==
  \/ \E k \in Keys : Capture(k) /\ UNCHANGED iotVars
  \/ \E c \in Requests : Requesting(c)
  \/ \E r \in Runs : Running(r)
  \/ Publish /\ UNCHANGED deviceVars
  \/ Moving

Spec == Init /\ [][Next]_vars

(* A client that can take a step takes it; the device retries what is      *)
(* replayable and the sync is run again and again.  Nothing makes the      *)
(* environment publish, move the device or fail.                           *)
Fairness ==
  /\ \A c \in Requests : WF_vars(RequestStep(c) /\ UNCHANGED iotVars)
  /\ \A r \in Runs : WF_vars(RunStep(r) /\ UNCHANGED deviceVars)

FairSpec == Spec /\ Fairness

-----------------------------------------------------------------------------
TypeOk ==
  /\ tapRows \in [Keys -> Nat] /\ leadRows \in [Keys -> Nat]
  /\ granted \subseteq Keys /\ links \subseteq Keys
  /\ assignment \in Assignments \cup {NoAssignment}
  /\ pc \in [Clients -> {"idle", "list", "save", "ingested", "failed", "done"} \cup Ingest]
  /\ req \in [Clients -> Seq(Keys)]
  /\ pos \in [Clients -> Nat] /\ upto \in [Clients -> Nat]
  /\ seen \in [Clients -> Assignments \cup {NoAssignment}]
  /\ aborted \in [Clients -> BOOLEAN]
  /\ reply \in [Clients -> Replies]
  /\ faults \in 0 .. MaxFaults
  /\ queue \in [Keys -> Statuses]
  /\ checkpoint \in Checkpoints /\ snapshot \in [Runs -> Checkpoints]
  /\ pageStart \in [Runs -> Cursors] /\ more \in [Runs -> BOOLEAN]
  /\ published \in Cursors

(* However a tap is delivered - twice in the stream, by a kiosk and by the *)
(* stream at once, by a retry overtaking the request it repeats - it makes *)
(* one tap event and one interaction, never one without the other.         *)
OneLeadPerTap == \A k \in Keys : tapRows[k] <= 1 /\ leadRows[k] = tapRows[k]

(* The cursor that a later run starts from never gets past an item without *)
(* a stored tap: whatever runs overlap, fail or die, no item is skipped.   *)
CheckpointCovered == \A i \in 1 .. checkpoint.cursor : Stored(Feed[i])

(* A tap the device has marked synced, and so will not send again, is      *)
(* stored (baseline_ICD.md:986, "Server accepted").                        *)
SyncedIsStored == \A k \in Keys : queue[k] = "synced" => Stored(k)

(* A short link, which a visitor opens to give consent, and a document     *)
(* grant lead to an interaction that exists.                               *)
NoDanglingLink == \A k \in links \cup granted : leadRows[k] = 1

(* Tap delivery implements the ledger. *)
Ledger == INSTANCE TapLedger WITH
  leads  <- leadRows,
  synced <- {k \in Keys : queue[k] = "synced"},
  cursor <- checkpoint.cursor

LedgerSpec == Ledger!Spec

(* When nothing moves the device away from where its taps were captured,   *)
(* every tap in its queue is marked synced in the end.                     *)
InPlace == \A k \in Keys : assignment = CapturedUnder[k]

TapsAreDelivered == <>[]InPlace => \A k \in Keys : queue[k] = "queued" ~> queue[k] = "synced"

(* And the sync catches up with the stream, again and again. *)
StreamDrains == <>[]InPlace => []<>(checkpoint.cursor = published)

(* A stream whose next item keeps failing raises its failure count to the  *)
(* threshold of the health warning, although overlapping runs write the    *)
(* count from what each read at its start (README.md:193).                 *)
Blocked == assignment = NoAssignment /\ checkpoint.cursor < published

FailuresEscalate == <>[]Blocked => <>[](checkpoint.failures = CountLimit)

-----------------------------------------------------------------------------
(* What the documents say and the code does not do. *)

(* baseline_master_spec.md:967: "Duplicate items are treated as success":  *)
(* a delivery of a tap that is stored does not end in a database error.    *)
DuplicateIsSuccess ==
  \A c \in Clients : pc[c] = "failed" /\ reply[c] = "error" => ~Stored(Key(c))
=============================================================================
