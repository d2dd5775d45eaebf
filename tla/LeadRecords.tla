---------------------------- MODULE LeadRecords ----------------------------
(***************************************************************************)
(* The personal data of one event, its interactions with their consents    *)
(* and the profiles of the attendees, and the routes that write it: a tap, *)
(* the capture and the revocation of a consent, a classification.          *)
(*                                                                         *)
(* An interaction is read as a whole and written back as a whole: attendee *)
(* status and consent are columns of every update, also of one that only   *)
(* means to change the classification.  A route runs one session per lead, *)
(* so the row of its process is the interaction.                           *)
(***************************************************************************)
EXTENDS Builds

CONSTANTS
  Leads,      \* interactions of the event
  Attendees,  \* attendees with a profile
  Owner,      \* the attendee who tapped, by interaction
  Shared      \* attendees with live interactions in another event

(* The row of a route here is an interaction; one is made by one tap.      *)
ASSUME LeadsAssumption ==
  /\ Owner \in [Leads -> Attendees] /\ Shared \subseteq Attendees
  /\ {"nobody", "newcomer"} \cap Attendees = {}
  /\ \A c \in Casts :
       /\ \A p \in c : Op(p) \in {"tap", "capture", "revoke", "classify"} => Row(p) \in Leads
       /\ \A p, q \in c : Op(p) = "tap" /\ Op(q) = "tap" /\ Row(p) = Row(q) => p = q

VARIABLES
  leads,     \* interactions: attendee_id, status, consent_status; the consent's release
  profiles   \* attendee_profiles: what each holds

leadVars == <<leads, profiles>>

Nobody   == "nobody"     \* attendee_id is null
Newcomer == "newcomer"   \* an attendee made by a consent on a lead without one

Lead == [who: Attendees \cup {Nobody, Newcomer},
         status: {"absent", "consent_required", "active", "anonymized"},
         consent: {"unknown", "allowed", "declined"},
         release: BOOLEAN]

ProfileStates == {"kept", "nulled", "[deleted]"}

(* An interaction the event already has, with the owner's consent. *)
Consented(l) == [who |-> Owner[l], status |-> "active", consent |-> "allowed",
                 release |-> TRUE]
(* The row of a tap that has not arrived yet. *)
Untapped == [who |-> Nobody, status |-> "absent", consent |-> "unknown",
             release |-> FALSE]

LeadInit ==
  /\ leads = [l \in Leads |->
                IF \E p \in cast : Op(p) = "tap" /\ Row(p) = l
                THEN Untapped ELSE Consented(l)]
  /\ profiles = [a \in Attendees |-> "kept"]

Stored == {l \in Leads : leads[l].status # "absent"}

Anonymized_Misspelt(row, release) ==
  [row EXCEPT !.who = Nobody, !.status = "anonymised", !.consent = "declined",
              !.release = release]

(* What every erasure writes over an interaction it has read; the consent  *)
(* is another row.                                                         *)
Anonymized(row, release) == [row EXCEPT !.who = Nobody, !.status = "anonymized",
                                        !.consent = "declined", !.release = release]

(* A job lists interactions and writes those in todo back one by one. *)
Listing(S)   == [l \in S |-> leads[l]]
Linked(rows) == {rows[l].who : l \in DOMAIN rows} \cap Attendees

EraseNext(p) ==
  /\ \E l \in copy[p].todo :
       /\ leads' = [leads EXCEPT ![l] = Anonymized(copy[p].rows[l], @.release)]
       /\ Go(p, pc[p], [copy[p] EXCEPT !.todo = @ \ {l}])
  /\ UNCHANGED profiles

(* A tap of the owner's card arrives and makes its interaction. *)
Tap(p) ==
  /\ At(p, "tap", "start")
  /\ leads' = [leads EXCEPT ![Row(p)] =
                 [who |-> Owner[Row(p)], status |-> "consent_required",
                  consent |-> "unknown", release |-> FALSE]]
  /\ UNCHANGED profiles
  /\ Return(p)

(* A route reads the interaction of its session. *)
ReadLead(p) ==
  /\ \E op \in {"capture", "revoke", "classify"} : At(p, op, "start")
  /\ leads[Row(p)].status # "absent"
  /\ Go(p, "write", leads[Row(p)])
  /\ UNCHANGED leadVars

(* consent-capture: the attendee chooses, for the row that was read; a row *)
(* without an attendee gets a new one, and the form may bring a profile.   *)
Capture(p) ==
  /\ At(p, "capture", "write")
  /\ \E allowed, form \in BOOLEAN :
       LET who == IF copy[p].who = Nobody THEN Newcomer ELSE copy[p].who
       IN  /\ leads' = [leads EXCEPT ![Row(p)] =
                          [who |-> who,
                           status |-> IF allowed THEN "active" ELSE "anonymized",
                           consent |-> IF allowed THEN "allowed" ELSE "declined",
                           release |-> allowed]]
           /\ profiles' = IF form /\ who \in Attendees
                          THEN [profiles EXCEPT ![who] = "kept"] ELSE profiles
  /\ Return(p)

(* consent-revoke: all of the release or only the sponsor's part of it,    *)
(* which leaves the vendor what the consent row still allows.              *)
Revoke(p) ==
  /\ At(p, "revoke", "write")
  /\ \E all \in BOOLEAN :
       LET kept == leads[Row(p)].release /\ ~all
       IN  leads' = [leads EXCEPT ![Row(p)] =
                       [who |-> copy[p].who,
                        status |-> IF kept THEN "active" ELSE "anonymized",
                        consent |-> IF kept THEN "allowed" ELSE "declined",
                        release |-> kept]]
  /\ UNCHANGED profiles
  /\ Return(p)

(* classify-interaction: the classification changes; the whole row that    *)
(* resolveResources read goes back.                                        *)
Classify(p) ==
  /\ At(p, "classify", "write")
  /\ leads' = [leads EXCEPT ![Row(p)] = [copy[p] EXCEPT !.release = leads[Row(p)].release]]
  /\ UNCHANGED profiles
  /\ Return(p)

LeadStep(p) == Tap(p) \/ ReadLead(p) \/ Capture(p) \/ Revoke(p) \/ Classify(p)

LeadOps == {"tap", "capture", "revoke", "classify"}
=============================================================================
