------------------------- MODULE NotificationStore -------------------------
(***************************************************************************)
(* The rows of one follow-up message and of the notifications that carry   *)
(* it, and the transactions that change them.                              *)
(*                                                                         *)
(* Every handler has the same shape over repositories/postgres.mjs: inside *)
(* a transaction it reads a row, and updates it with a copy of all columns *)
(* of what it read.  Postgres is modelled at READ COMMITTED: a read sees   *)
(* committed rows, and the first UPDATE of a row waits for the transaction *)
(* that has updated it and holds the row until COMMIT or ROLLBACK.  What   *)
(* an actor has read, and then its uncommitted version, is in row[a] and   *)
(* frow[a].                                                                *)
(*                                                                         *)
(* Times are abstracted to whether next_attempt_at has passed.             *)
(***************************************************************************)
EXTENDS Naturals, FiniteSets, Sequences, SequencesExt

CONSTANTS
  Actors,       \* workers, requests and receipts under way
  Notes,        \* notifications of the follow-up, named after the request that queues them
  None,
  MaxAttempts,  \* NOTIFICATION_MAX_ATTEMPTS
  MaxFaults     \* bound on the faults of the environment

ASSUME StoreAssumption ==
  /\ Notes \subseteq Actors
  /\ None \notin Actors
  /\ MaxAttempts \in Nat \ {0}
  /\ MaxFaults \in Nat

VARIABLES
  note,        \* committed rows of notifications
  fup,         \* the committed row of followup_messages
  consent,     \* the interaction's vendor consent, and its channel's
  noteLine,    \* for each notification the transaction that has updated it,
               \* followed by those that wait to, in the order of their coming
  fupLine,     \* the same for the follow-up
  pc,          \* where each actor is
  act,         \* what it is doing
  on,          \* the notification it is doing it to
  row, frow,   \* its copies of the two rows
  sends,       \* messages that have left, as the provider or an organizer knows
  wins,        \* committed attempts with status sent
  faults       \* faults so far

rowVars   == <<note, fup, noteLine, fupLine>>
actorVars == <<pc, act, on, row, frow>>
storeVars == <<rowVars, consent, actorVars, sends, wins, faults>>

NoteStatuses == {"none", "queued", "sending", "sent", "failed", "cancelled"}
FupStatuses  == {"draft", "queued", "sent", "failed", "cancelled"}

(* attempts_count; retry_exhausted_at is set; next_attempt_at has passed   *)
(* or is null.                                                             *)
NoteRows == [status : NoteStatuses, tries : Nat, spent : BOOLEAN, due : BOOLEAN]
FupRows  == [status : FupStatuses, note : Notes \cup {None}]

NoNote  == [status |-> "none", tries |-> 0, spent |-> FALSE, due |-> TRUE]
NewNote == [NoNote EXCEPT !.status = "queued"]
Draft   == [status |-> "draft", note |-> None]

Valid == consent.vendor /\ consent.channel

Goto(a, l) == pc' = [pc EXCEPT ![a] = l]

(* The handler returns or throws, its connection is released. *)
Leave(a, l) ==
  /\ Goto(a, l)
  /\ act'  = [act  EXCEPT ![a] = "none"]
  /\ on'   = [on   EXCEPT ![a] = None]
  /\ row'  = [row  EXCEPT ![a] = NoNote]
  /\ frow' = [frow EXCEPT ![a] = Draft]

(* A row it holds goes to the first of those that wait.  A transaction is  *)
(* in a line at most once.                                                 *)
Without(line, a) ==
  IF Contains(line, a) THEN RemoveAt(line, CHOOSE i \in DOMAIN line : line[i] = a) ELSE line

Release(a) ==
  /\ noteLine' = [n \in Notes |-> Without(noteLine[n], a)]
  /\ fupLine'  = Without(fupLine, a)

Rollback(a) == Leave(a, "idle") /\ Release(a) /\ UNCHANGED <<note, fup>>

Fault == faults < MaxFaults /\ faults' = faults + 1

StoreInit ==
  /\ note = [n \in Notes |-> NoNote]
  /\ fup  = Draft
  /\ consent = [vendor |-> TRUE, channel |-> TRUE]
  /\ noteLine = [n \in Notes |-> <<>>]
  /\ fupLine  = <<>>
  /\ pc   = [a \in Actors |-> "idle"]
  /\ act  = [a \in Actors |-> "none"]
  /\ on   = [a \in Actors |-> None]
  /\ row  = [a \in Actors |-> NoNote]
  /\ frow = [a \in Actors |-> Draft]
  /\ sends = [n \in Notes |-> 0]
  /\ wins  = [n \in Notes |-> 0]
  /\ faults = 0

-----------------------------------------------------------------------------
(* deriveNotificationQueueState. *)
QueueState(r) ==
  IF r.spent THEN "dead_letter"
  ELSE IF r.status = "queued" /\ ~r.due THEN "temporary_failure" ELSE r.status

(* What completeNotificationSend{Success, TemporaryFailure, Failure} write. *)
Outcomes == {"sent", "temporary_failure", "failed"}

Exhausted(r) == r.tries + 1 >= MaxAttempts

Ended(r, outcome, status) ==
  [status |-> status,
   tries  |-> r.tries + 1,
   spent  |-> outcome = "temporary_failure" /\ Exhausted(r),
   due    |-> outcome # "temporary_failure" \/ Exhausted(r)]

Afterwards(r, outcome, again) ==
  IF outcome # "temporary_failure" THEN outcome ELSE IF Exhausted(r) THEN "failed" ELSE again

Completed_Optimist(r, outcome) ==
  Ended(r, outcome, IF Afterwards(r, outcome, "queued") = "queued" THEN "queued" ELSE "sent")
Completed_Uncounted(r, outcome) ==
  [Ended(r, outcome, Afterwards(r, outcome, "queued")) EXCEPT !.tries = r.tries]
Completed_Verbatim(r, outcome) == Ended(r, outcome, Afterwards(r, outcome, outcome))
Completed(r, outcome)          == Ended(r, outcome, Afterwards(r, outcome, "queued"))

(* What the other handlers write.  A cancellation leaves                   *)
(* retry_exhausted_at as it is, and a revocation next_attempt_at as well.  *)
ConsentActs == {"revoke", "optout"}
RequeueActs == {"retry", "requeue", "resend"}
CancelActs  == {"cancel", "void"}

Written_StillSpent(k, r) ==
  CASE k = "send"         -> [r EXCEPT !.status = "sending"]
    [] k \in RequeueActs  -> [r EXCEPT !.status = "queued", !.due = TRUE]
    [] k \in CancelActs   -> [r EXCEPT !.status = "cancelled", !.due = TRUE]
    [] k \in ConsentActs  -> [r EXCEPT !.status = "cancelled"]
Written(k, r) ==
  CASE k = "send"         -> [r EXCEPT !.status = "sending"]
    [] k \in RequeueActs  -> [r EXCEPT !.status = "queued", !.due = TRUE, !.spent = FALSE]
    [] k \in CancelActs   -> [r EXCEPT !.status = "cancelled", !.due = TRUE]
    [] k \in ConsentActs  -> [r EXCEPT !.status = "cancelled"]

-----------------------------------------------------------------------------
(* Transactions.  The last write of a transaction and its COMMIT are one   *)
(* step: between the two the transaction reads nothing, and what others    *)
(* read of its rows is what they could read before the write.              *)
Commit(a, l, newNote, newFup) ==
  /\ note' = [note EXCEPT ![on[a]] = newNote]
  /\ fup'  = newFup
  /\ wins' = IF act[a] \in {"send", "record"} /\ newNote.status = "sent"
             THEN [wins EXCEPT ![on[a]] = @ + 1] ELSE wins
  /\ Release(a)
  /\ Leave(a, l)
  /\ UNCHANGED <<sends, faults>>

(* All but those of ConsentActs and "queue" change the notification first  *)
(* and then the follow-up that points to it.  notifications.findById;      *)
(* claimQueuedNotification throws unless it reads queued.                  *)
Claimable(r) == r.status = "queued"

LoadNote(a) ==
  /\ pc[a] = "load"
  /\ act[a] = "send" => Claimable(note[on[a]])
  /\ row' = [row EXCEPT ![a] = note[on[a]]]
  /\ Goto(a, "nwrite")
  /\ UNCHANGED <<rowVars, consent, act, on, frow, sends, wins, faults>>

(* The 409 of the claim leaves the whole batch.  (The caller resets it.)   *)
ClaimRefused(a) ==
  /\ pc[a] = "load"
  /\ act[a] = "send" /\ ~Claimable(note[on[a]])
  /\ Rollback(a)
  /\ UNCHANGED <<consent, sends, wins, faults>>

(* An UPDATE of a row that another transaction has updated has to wait. *)
HeldBy(line, a) == line # <<>> /\ Head(line) = a
Free(line, a)   == \A b \in Actors \ {a} : ~HeldBy(line, b)
Joined(line, a) == IF Contains(line, a) THEN line ELSE Append(line, a)

NoteFree(a) == pc[a] = "nwrite" /\ Free(noteLine[on[a]], a)
FupFree(a)  == pc[a] = "fwrite" /\ Free(fupLine, a)

Wait(a) ==
  /\ \/ /\ pc[a] = "nwrite" /\ ~NoteFree(a) /\ ~Contains(noteLine[on[a]], a)
        /\ noteLine' = [noteLine EXCEPT ![on[a]] = Joined(@, a)]
        /\ UNCHANGED fupLine
     \/ /\ pc[a] = "fwrite" /\ ~FupFree(a) /\ ~Contains(fupLine, a)
        /\ fupLine' = Joined(fupLine, a)
        /\ UNCHANGED noteLine
  /\ UNCHANGED <<note, fup, consent, actorVars, sends, wins, faults>>

(* notifications.update. *)
WriteNote(a) ==
  /\ act[a] \notin ConsentActs \cup {"record"}
  /\ NoteFree(a)
  /\ noteLine' = [noteLine EXCEPT ![on[a]] = Joined(@, a)]
  /\ row' = [row EXCEPT ![a] = Written(act[a], @)]
  /\ Goto(a, IF act[a] = "send" THEN "send" ELSE "fload")
  /\ UNCHANGED <<note, fup, fupLine, consent, act, on, frow, sends, wins, faults>>

(* followupMessages.findByNotificationId. *)
LoadFup(a) ==
  /\ pc[a] = "fload"
  /\ act[a] \notin ConsentActs \cup {"queue"}
  /\ fup.note = on[a]
  /\ frow' = [frow EXCEPT ![a] = fup]
  /\ Goto(a, "fwrite")
  /\ UNCHANGED <<rowVars, consent, act, on, row, sends, wins, faults>>

CommitAlone(a, l) ==
  /\ pc[a] = "fload"
  /\ act[a] \notin ConsentActs \cup {"queue"}
  /\ fup.note # on[a]
  /\ Commit(a, l, row[a], fup)
  /\ UNCHANGED consent

(* followupMessages.update: the follow-up gets the notification's status. *)
FollowupStatus_Failed(a) == IF row[a].status = "queued" /\ row[a].tries > 0 THEN "failed" ELSE row[a].status
FollowupStatus(a)        == row[a].status

WriteFup(a, l) ==
  /\ act[a] \notin ConsentActs
  /\ FupFree(a)
  /\ Commit(a, l, row[a],
            [status |-> FollowupStatus(a), note |-> IF act[a] = "queue" THEN on[a] ELSE frow[a].note])
  /\ UNCHANGED consent

Transaction(a, l) ==
  LoadNote(a) \/ Wait(a) \/ WriteNote(a) \/ LoadFup(a) \/ CommitAlone(a, l) \/ WriteFup(a, l)

-----------------------------------------------------------------------------
(* A waits for a row that b has updated.  Only the follow-up and one       *)
(* notification are ever held together, so cycles have two transactions;   *)
(* Postgres aborts one of them.                                            *)
Waits(a, b) ==
  \/ pc[a] = "nwrite" /\ Contains(noteLine[on[a]], a) /\ HeldBy(noteLine[on[a]], b)
  \/ pc[a] = "fwrite" /\ Contains(fupLine, a) /\ HeldBy(fupLine, b)

Deadlocked(a) == \E b \in Actors \ {a} : Waits(a, b) /\ Waits(b, a)

BreakDeadlock(a) ==
  /\ Deadlocked(a)
  /\ Rollback(a)
  /\ UNCHANGED <<consent, sends, wins, faults>>

(* The process of the actor dies, or its connection does. *)
Crash(a) ==
  /\ pc[a] # "idle"
  /\ Fault
  /\ Rollback(a)
  /\ UNCHANGED <<consent, sends, wins>>

(* retry_delay_minutes pass. *)
TimePasses ==
  /\ \E n \in Notes : ~note[n].due
  /\ note' = [n \in Notes |-> [note[n] EXCEPT !.due = TRUE]]
  /\ row'  = [a \in Actors |-> [row[a] EXCEPT !.due = TRUE]]
  /\ UNCHANGED <<fup, noteLine, fupLine, consent, pc, act, on, frow, sends, wins, faults>>
=============================================================================
