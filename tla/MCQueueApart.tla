--------------------------- MODULE MCQueueApart ---------------------------
EXTENDS MCOutboundQueue

(* Two instances in one run.  Either everybody is at work on one           *)
(* notification but the provider; or one worker, and nobody changes a      *)
(* consent, while the follow-up is queued twice and receipts come in.      *)
VARIABLE idle

Casts == {{n2, p1}} \cup {{w, attendee} : w \in Workers}

ApartNext ==
  /\ Next
  /\ \A a \in idle : pc'[a] = pc[a]
  /\ attendee \in idle => UNCHANGED consent
  /\ UNCHANGED idle

ApartSpec == Init /\ idle \in Casts /\ [][ApartNext]_<<vars, idle>>

=============================================================================
