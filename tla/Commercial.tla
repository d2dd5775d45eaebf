----------------------------- MODULE Commercial -----------------------------
(***************************************************************************)
(* The commercial records of a tenant: partners, deals that may belong to  *)
(* a partner, and the payouts to a partner, for a deal or for none.  Every *)
(* route looks up the rows that its body names and then creates a row or   *)
(* writes a copy back.                                                     *)
(***************************************************************************)
EXTENDS Builds

CONSTANTS
  Partners,   \* rows of commercial_partners
  Deals,      \* rows of commercial_deals
  Payouts     \* rows of commercial_partner_payouts

VARIABLES
  partners,   \* status, or "absent"
  deals,      \* whether there is one, and its partner or Nothing
  payouts     \* partner, deal, status and the stamps of its life

commercialVars == <<partners, deals, payouts>>

PayoutStatuses == {"pending", "approved", "paid", "cancelled"}

NoPayout == [status |-> "absent", partner |-> Nothing, deal |-> Nothing, received |-> FALSE,
             approved |-> FALSE, paid |-> FALSE]

(* Each body names a row or none. *)
SomePartners == {x \in Partners : partners[x] # "absent"}
SomeDeals    == {d \in Deals : deals[d].status # "absent"}

CommercialInit ==
  /\ partners = [x \in Partners |-> "active"]
  /\ deals = [d \in Deals |-> [status |-> "absent", partner |-> Nothing]]
  /\ payouts = [y \in Payouts |-> NoPayout]

WritePartner(p) ==
  \/ /\ At(p, "partner-update", "start")
     /\ Go(p, "write", partners[Row(p)])
     /\ UNCHANGED commercialVars
  \/ /\ At(p, "partner-update", "write")
     /\ \E status \in {copy[p], "active", "inactive"} :
          partners' = [partners EXCEPT ![Row(p)] = status]
     /\ Return(p)
     /\ UNCHANGED <<deals, payouts>>

CreateDeal(p) ==
  /\ At(p, "deal-create", "start") /\ deals[Row(p)].status = "absent"
  /\ \E x \in SomePartners \cup {Nothing} :
       deals' = [deals EXCEPT ![Row(p)] = [status |-> "open", partner |-> x]]
  /\ Return(p)
  /\ UNCHANGED <<partners, payouts>>

(* A deal may move to another partner, whatever was paid for it.           *)
MoveDeal(p) ==
  \/ /\ At(p, "deal-update", "start")
     /\ IF deals[Row(p)].status = "absent" THEN Return(p) ELSE Go(p, "write", deals[Row(p)])
     /\ UNCHANGED commercialVars
  \/ /\ At(p, "deal-update", "write")
     /\ \E x \in SomePartners \cup {Nothing} :
          deals' = [deals EXCEPT ![Row(p)] = [copy[p] EXCEPT !.partner = x]]
     /\ Return(p)
     /\ UNCHANGED <<partners, payouts>>

(* resolveCommercialPayoutResources, over the rows that the body names and *)
(* those that the payout keeps.                                            *)
Fits(partner, deal) ==
  deal # Nothing /\ deals[deal].partner # Nothing => deals[deal].partner = partner

(* What a body may ask for: "paid" needs the client's payment in the body. *)
Bodies == {b \in [status : PayoutStatuses \cup {Nothing}, partner : SomePartners \cup {Nothing},
                  deal : SomeDeals \cup {Nothing}, received : {TRUE, FALSE, Nothing}] :
             b.status = "paid" => b.received = TRUE}

Or(value, default) == IF value = Nothing THEN default ELSE value

(* The stamps of an approval and of a payment stay when the status goes    *)
(* back.                                                                   *)
Patched(row, b) ==
  LET status == Or(b.status, row.status)
  IN  [status   |-> status,
       partner  |-> Or(b.partner, row.partner),
       deal     |-> Or(b.deal, row.deal),
       received |-> Or(b.received, row.received),
       approved |-> row.approved \/ status \in {"approved", "paid"},
       paid     |-> row.paid \/ status = "paid"]

CreatePayout(p) ==
  /\ At(p, "payout-create", "start")
  /\ payouts[Row(p)] = NoPayout
  /\ \E b \in {c \in Bodies : c.partner # Nothing} :
       LET row == Patched([NoPayout EXCEPT !.status = "pending"], b)
       IN  IF Fits(row.partner, row.deal)
           THEN payouts' = [payouts EXCEPT ![Row(p)] = row] ELSE UNCHANGED payouts
  /\ Return(p)
  /\ UNCHANGED <<partners, deals>>

UpdatePayout(p) ==
  \/ /\ At(p, "payout-update", "start") /\ payouts[Row(p)] # NoPayout
     /\ \E b \in Bodies :
          LET row == Patched(payouts[Row(p)], b)
          IN  IF Fits(row.partner, row.deal) THEN Go(p, "write", row) ELSE Return(p)
     /\ UNCHANGED commercialVars
  \/ /\ At(p, "payout-update", "write")
     /\ payouts' = [payouts EXCEPT ![Row(p)] = copy[p]]
     /\ Return(p)
     /\ UNCHANGED <<partners, deals>>

CommercialStep(p) ==
  \/ WritePartner(p) \/ CreateDeal(p) \/ MoveDeal(p) \/ CreatePayout(p) \/ UpdatePayout(p)
=============================================================================
