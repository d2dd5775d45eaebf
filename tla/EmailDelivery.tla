--------------------------- MODULE EmailDelivery ---------------------------
(***************************************************************************)
(* The transactional e-mails of a tenant.  Every 30 s an interval starts a *)
(* batch that lists the queued notifications and sends those with a        *)
(* recipient one by one.  Nothing claims a notification and nothing waits  *)
(* for the batch before: a number of a process is one of the batches that  *)
(* run side by side.                                                       *)
(***************************************************************************)
EXTENDS Builds

CONSTANTS
  Emails,         \* notifications with a recipient_email
  MaxAttempts,    \* MAX_ATTEMPTS
  ListLimit       \* the limit of listQueued

ASSUME EmailAssumption == MaxAttempts \in Nat \ {0} /\ ListLimit \in Nat \ {0}

VARIABLES
  emails,    \* notifications: status and attempts_count
  ahead      \* older queued notifications of the tenant that are no e-mails

emailVars == <<emails, ahead>>

EmailInit ==
  /\ emails = [e \in Emails |-> [status |-> "queued", attempts |-> 0]]
  /\ ahead \in {0, ListLimit}

(* listQueued counts the others as well, oldest first. *)
Listed == {S \in SUBSET {e \in Emails : emails[e].status = "queued"} :
             /\ Cardinality(S) + ahead <= ListLimit
             /\ \A e \in Emails \ S : emails[e].status = "queued" =>
                  Cardinality(S) + ahead = ListLimit}

ListEmails(p) ==
  /\ At(p, "email-batch", "start")
  /\ \E S \in Listed : S # {} /\ Go(p, "io", [e \in S |-> emails[e]])
  /\ UNCHANGED emailVars

IsDead(attempts) == attempts >= MaxAttempts

Sent_Uncounted(row, ok) ==
  [status   |-> IF ok THEN "sent" ELSE IF IsDead(row.attempts + 1) THEN "dead_letter" ELSE "queued",
   attempts |-> IF ok THEN row.attempts + 1 ELSE row.attempts]

(* What becomes of the row as it was listed: update replaces it, also in   *)
(* the memory build.                                                       *)
Sent(row, ok) ==
  [status   |-> IF ok THEN "sent" ELSE IF IsDead(row.attempts + 1) THEN "dead_letter" ELSE "queued",
   attempts |-> row.attempts + 1]

(* processSend: the provider answers; the copy of the row goes back.       *)
SendEmail(p) ==
  /\ At(p, "email-batch", "io")
  /\ \E e \in DOMAIN copy[p], ok \in BOOLEAN :
       Go(p, "write", [row |-> Sent(copy[p][e], ok), id |-> e,
                       rest |-> [f \in DOMAIN copy[p] \ {e} |-> copy[p][f]]])
  /\ UNCHANGED emailVars

WriteEmail(p) ==
  /\ At(p, "email-batch", "write")
  /\ emails' = [emails EXCEPT ![copy[p].id] = copy[p].row]
  /\ IF DOMAIN copy[p].rest = {} THEN Go(p, "start", Nothing) ELSE Go(p, "io", copy[p].rest)
  /\ UNCHANGED ahead

EmailStep(p) == ListEmails(p) \/ SendEmail(p) \/ WriteEmail(p)
=============================================================================
