------------------------- MODULE NotificationReceipts -------------------------
(***************************************************************************)
(* ingestNotificationReceipt (notification-receipts.mjs): the provider's   *)
(* webhook reports what became of a message.  There is no transaction: the *)
(* receipt, the notification, the follow-up and the suppression are        *)
(* written one by one, the notification from the copy read at the start.   *)
(***************************************************************************)
EXTENDS NotificationStore

CONSTANTS
  Receivers,    \* webhook calls under way
  ReceiptKinds  \* a subset of the receipt types delivered, bounced, complained

ASSUME ReceiptAssumption ==
  /\ Receivers \subseteq Actors
  /\ ReceiptKinds \subseteq {"delivered", "bounced", "complained"}

VARIABLE receipts  \* rows of notification_receipts: the dedupe key is unique

ReceiptInit == receipts = {}

(* A provider that has accepted a message may report on it before the      *)
(* worker has committed.                                                   *)
StartReceipt(p) ==
  /\ pc[p] = "idle"
  /\ \E n \in Notes, k \in ReceiptKinds :
       /\ sends[n] > 0
       /\ note[n].status # "none"
       /\ <<n, k>> \notin receipts
       /\ receipts' = receipts \cup {<<n, k>>}
       /\ act' = [act EXCEPT ![p] = k]
       /\ on'  = [on EXCEPT ![p] = n]
       /\ row' = [row EXCEPT ![p] = note[n]]
  /\ Goto(p, "rload")
  /\ UNCHANGED <<rowVars, consent, frow, sends, wins, faults>>

(* reconcileNotificationReceipt.  The follow-up is read first; one that is *)
(* cancelled, or missing, is not written.                                  *)
FindFollowup(p) ==
  /\ pc[p] = "rload"
  /\ frow' = [frow EXCEPT ![p] = IF fup.note = on[p] THEN fup ELSE Draft]
  /\ Goto(p, "rwrite")
  /\ UNCHANGED <<rowVars, consent, act, on, row, sends, wins, faults, receipts>>

Reported(p) == IF act[p] = "delivered" THEN "sent" ELSE "failed"

(* A delivery keeps retry_exhausted_at, a failure resets it. *)
Reconciled(p) ==
  [row[p] EXCEPT !.status = IF @ = "cancelled" THEN @ ELSE Reported(p),
                 !.spent  = @ /\ act[p] = "delivered",
                 !.due    = @ \/ act[p] # "delivered"]

ReconcileNotification(p) ==
  /\ pc[p] = "rwrite"
  /\ noteLine[on[p]] = <<>>
  /\ note' = [note EXCEPT ![on[p]] = Reconciled(p)]
  /\ Goto(p, "rfup")
  /\ UNCHANGED <<fup, noteLine, fupLine, consent, act, on, row, frow, sends, wins, faults, receipts>>

ReconcileFollowup(p) ==
  /\ pc[p] = "rfup"
  /\ IF frow[p] = Draft \/ frow[p].status = "cancelled" THEN UNCHANGED fup
     ELSE /\ fupLine = <<>>
          /\ fup' = [frow[p] EXCEPT !.status = Reported(p)]
  /\ IF act[p] = "complained"
       THEN Goto(p, "suppress") /\ UNCHANGED <<act, on, row, frow>>
       ELSE Leave(p, "idle")
  /\ UNCHANGED <<note, noteLine, fupLine, consent, sends, wins, faults, receipts>>

Suppress(p) ==
  /\ pc[p] = "suppress"
  /\ consent' = [consent EXCEPT !.channel = FALSE]
  /\ Leave(p, "idle")
  /\ UNCHANGED <<rowVars, sends, wins, faults, receipts>>

ReceiptStep(p) ==
  \/ FindFollowup(p) \/ ReconcileNotification(p) \/ ReconcileFollowup(p) \/ Suppress(p)
=============================================================================
