--------------------------- MODULE FollowupRoutes ---------------------------
(***************************************************************************)
(* The requests that change a follow-up and its notifications              *)
(* (routes.mjs): a vendor queues the follow-up, an organizer retries,      *)
(* requeues, resends, cancels or records an attempt, an attendee withdraws *)
(* consent.  An organizer's request decides on a copy of the notification  *)
(* that it has read before its transaction.                                *)
(***************************************************************************)
EXTENDS NotificationReceipts

CONSTANTS
  Organizers,   \* organizers' requests under way
  Attendee,     \* the attendee's request
  MaxRequests,  \* bound on the organizers' and vendors' requests
  MaxChanges    \* bound on the changes of consent

ASSUME RouteAssumption ==
  /\ Organizers \subseteq Actors
  /\ Attendee \in Actors
  /\ MaxRequests \in Nat /\ MaxChanges \in Nat

VARIABLES
  saw,       \* what a request has read of the interaction's vendor consent
  requests,  \* requests so far
  changes    \* changes of consent so far

routeVars == <<saw, requests, changes>>

RouteInit ==
  /\ saw = [a \in Actors |-> "none"]
  /\ requests = 0
  /\ changes = 0

SawConsent == IF consent.vendor THEN "valid" ELSE "invalid"

Request == requests < MaxRequests /\ requests' = requests + 1

-----------------------------------------------------------------------------
(* POST /followups/:followupId/queue: the interaction is read first.       *)
StartQueue(q) ==
  /\ pc[q] = "idle"
  /\ note[q].status = "none"
  /\ Request
  /\ saw' = [saw EXCEPT ![q] = SawConsent]
  /\ act' = [act EXCEPT ![q] = "queue"]
  /\ on'  = [on EXCEPT ![q] = q]
  /\ Goto(q, "fload")
  /\ UNCHANGED <<rowVars, consent, row, frow, sends, wins, faults, changes>>

(* queueFollowupMessage: the follow-up is read in the transaction, the     *)
(* notification inserted.                                                  *)
Queueable(q) == fup.status = "draft" /\ saw[q] = "valid" /\ consent.channel

CreateNotification(q) ==
  /\ pc[q] = "fload"
  /\ Queueable(q)
  /\ row'  = [row EXCEPT ![q] = NewNote]
  /\ frow' = [frow EXCEPT ![q] = fup]
  /\ Goto(q, "fwrite")
  /\ UNCHANGED <<rowVars, consent, act, on, sends, wins, faults, routeVars>>

RefuseQueue(q) ==
  /\ pc[q] = "fload"
  /\ ~Queueable(q)
  /\ Rollback(q)
  /\ UNCHANGED <<consent, sends, wins, faults, routeVars>>

QueueStep(q) ==
  \/ CreateNotification(q) \/ RefuseQueue(q)
  \/ (Wait(q) \/ WriteFup(q, "idle")) /\ UNCHANGED routeVars

-----------------------------------------------------------------------------
(* resolveNotificationOperationResources. *)
StartOperation(o) ==
  /\ pc[o] = "idle"
  /\ Request
  /\ \E n \in Notes, k \in RequeueActs \cup {"cancel", "record"} :
       /\ note[n].status # "none"
       /\ act' = [act EXCEPT ![o] = k]
       /\ on'  = [on EXCEPT ![o] = n]
       /\ row' = [row EXCEPT ![o] = note[n]]
       /\ saw' = [saw EXCEPT ![o] = IF fup.note = n THEN SawConsent ELSE "none"]
  /\ Goto(o, "check")
  /\ UNCHANGED <<rowVars, consent, frow, sends, wins, faults, changes>>

(* The 409s of the handlers. *)
Permitted(k, r) ==
  \/ k = "retry"   /\ QueueState(r) = "temporary_failure"
  \/ k = "requeue" /\ QueueState(r) = "dead_letter"
  \/ k = "resend"  /\ r.status \notin {"sent", "cancelled", "queued"} /\ ~r.spent
  \/ k = "cancel"  /\ r.status \notin {"sent", "cancelled"}
  \/ k = "record"  /\ r.status \notin {"sent", "cancelled"}

(* assertNotificationConsentStillValid: without a follow-up it passes. *)
ConsentStillValid(o) ==
  \/ saw[o] = "none"
  \/ saw[o] = "valid" /\ consent.channel /\ <<on[o], "complained">> \notin receipts

Allowed(o) ==
  /\ Permitted(act[o], row[o])
  /\ act[o] \in RequeueActs => ConsentStillValid(o)

Check(o) ==
  /\ pc[o] = "check"
  /\ Allowed(o)
  /\ Goto(o, "load")
  /\ UNCHANGED <<rowVars, consent, act, on, row, frow, sends, wins, faults, routeVars>>

RefuseOperation(o) ==
  /\ pc[o] = "check"
  /\ ~Allowed(o)
  /\ Leave(o, "idle")
  /\ UNCHANGED <<rowVars, consent, sends, wins, faults, routeVars>>

(* POST /notifications/:notificationId/attempts completes the notification *)
(* as the organizer reports it.                                            *)
Record(o) ==
  /\ act[o] = "record"
  /\ NoteFree(o)
  /\ noteLine' = [noteLine EXCEPT ![on[o]] = Joined(@, o)]
  /\ \E outcome \in Outcomes :
       /\ row' = [row EXCEPT ![o] = Completed(@, outcome)]
       /\ sends' = IF outcome = "sent" THEN [sends EXCEPT ![on[o]] = @ + 1] ELSE sends
  /\ Goto(o, "fload")
  /\ UNCHANGED <<note, fup, fupLine, consent, act, on, frow, wins, faults, routeVars>>

OperationStep(o) ==
  \/ Check(o) \/ RefuseOperation(o) \/ Record(o)
  \/ Transaction(o, "idle") /\ UNCHANGED routeVars

-----------------------------------------------------------------------------
Change == changes < MaxChanges /\ changes' = changes + 1

(* POST /consents/revoke withdraws everything, POST /consents/capture may  *)
(* decline the channel; both cancel what is queued.                        *)
StartRevocation ==
  /\ pc[Attendee] = "idle"
  /\ Change
  /\ \E k \in ConsentActs : act' = [act EXCEPT ![Attendee] = k]
  /\ Goto(Attendee, "fload")
  /\ UNCHANGED <<rowVars, consent, on, row, frow, sends, wins, faults, saw, requests>>

(* cancelQueuedFollowupsForInteraction updates the follow-up before the    *)
(* notification, which it leaves when it reads it sent or cancelled.       *)
Withdrawals ==
  [vendor : IF act[Attendee] = "revoke" THEN {FALSE} ELSE BOOLEAN, channel : {FALSE}]

WithdrawOnly ==
  /\ pc[Attendee] = "fload"
  /\ fup.status # "queued"
  /\ consent' \in Withdrawals
  /\ Leave(Attendee, "idle")
  /\ UNCHANGED <<rowVars, sends, wins, faults, routeVars>>

ListFollowups ==
  /\ pc[Attendee] = "fload"
  /\ fup.status = "queued"
  /\ frow' = [frow EXCEPT ![Attendee] = [fup EXCEPT !.status = "cancelled"]]
  /\ on'   = [on EXCEPT ![Attendee] = fup.note]
  /\ Goto(Attendee, "fwrite")
  /\ UNCHANGED <<rowVars, consent, act, row, sends, wins, faults, routeVars>>

CancelFollowup ==
  /\ FupFree(Attendee)
  /\ fupLine' = Joined(fupLine, Attendee)
  /\ Goto(Attendee, "load")
  /\ UNCHANGED <<note, fup, noteLine, consent, act, on, row, frow, sends, wins, faults, routeVars>>

LeaveFinalNote ==
  /\ pc[Attendee] = "load"
  /\ note[on[Attendee]].status \in {"sent", "cancelled"}
  /\ consent' \in Withdrawals
  /\ Commit(Attendee, "idle", note[on[Attendee]], frow[Attendee])
  /\ UNCHANGED routeVars

ReadNote ==
  /\ note[on[Attendee]].status \notin {"sent", "cancelled"}
  /\ LoadNote(Attendee)
  /\ UNCHANGED routeVars

CancelNote ==
  /\ NoteFree(Attendee)
  /\ consent' \in Withdrawals
  /\ Commit(Attendee, "idle", Written(act[Attendee], row[Attendee]), frow[Attendee])
  /\ UNCHANGED routeVars

RevocationStep ==
  \/ WithdrawOnly \/ ListFollowups \/ CancelFollowup \/ LeaveFinalNote \/ CancelNote
  \/ on[Attendee] \in Notes /\ ReadNote
  \/ Wait(Attendee) /\ UNCHANGED routeVars

(* Without a word against the channel, either route only writes the        *)
(* consents: queued messages are left to the workers.                      *)
CaptureConsent ==
  /\ pc[Attendee] = "idle"
  /\ Change
  /\ consent' \in [vendor : BOOLEAN, channel : {TRUE, consent.channel}] \ {consent}
  /\ UNCHANGED <<rowVars, actorVars, sends, wins, faults, saw, requests>>
=============================================================================
