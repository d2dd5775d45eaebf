----------------------------- MODULE Moderation -----------------------------
(***************************************************************************)
(* The profile of a vendor: edits collect in one pending item, which is    *)
(* submitted, claimed and decided; the approved item is what attendees     *)
(* see.  A payload is the set of the edits that made it.                   *)
(*                                                                         *)
(* Every route is a transaction that reads an item, checks its state and   *)
(* writes a copy of the row back; over Postgres nothing locks the row.     *)
(***************************************************************************)
EXTENDS Builds

CONSTANTS
  Items,       \* rows of moderation_items of the profile
  Editors,     \* users with vendor_content_editor
  Approvers    \* users with vendor_content_approver

ASSUME ModerationAssumption == IsFiniteSet(Approvers)

VARIABLES
  items,       \* moderation_items
  shown,       \* currently_published_item_id of the profile, or Nothing
  links        \* the payload whose social links were published last

moderationVars == <<items, shown, links>>

Transitions ==
  [draft             |-> {"submitted", "discarded"},
   submitted         |-> {"under_review", "withdrawn"},
   under_review      |-> {"approved", "changes_requested", "rejected", "submitted"},
   changes_requested |-> {"submitted", "discarded"},
   approved          |-> {"superseded"},
   absent |-> {}, rejected |-> {}, withdrawn |-> {}, superseded |-> {}, discarded |-> {}]

Pending == {"draft", "submitted", "under_review", "changes_requested"}

ModerationInit ==
  /\ items = [i \in Items |-> [state |-> "absent", payload |-> {}, editor |-> Nothing]]
  /\ shown = Nothing
  /\ links = {}

WithState(state) == {i \in Items : items[i].state = state}
PendingItems     == {i \in Items : items[i].state \in Pending}

(* Who may move an item: the approver is not the editor, but for a vendor  *)
(* with one approver alone.                                                *)
MayApprove(user, row) == user \in Approvers /\ user # row.editor

MayMove(user, row, to) ==
  /\ to \in Transitions[row.state]
  /\ to = "rejected" => MayApprove(user, row)
  /\ to = "approved" => \/ MayApprove(user, row)
                        \/ user \in Approvers /\ Cardinality(Approvers) <= 1
  /\ row.state = "under_review" /\ to = "submitted" => user \in Approvers
  /\ row.state = "changes_requested" /\ to = "submitted" => user \in Editors /\ user = row.editor

ReadItem(p) ==
  /\ At(p, "moderate", "start")
  /\ \E i \in Items, to \in DOMAIN Transitions :
       /\ MayMove(Row(p), items[i], to)
       /\ Go(p, "write", [id |-> i, row |-> [items[i] EXCEPT !.state = to]])
  /\ UNCHANGED moderationVars

(* Approving supersedes what was approved before and moves the pointer of  *)
(* the profile and its social links.                                       *)
Moved_Alone(id, row) == [items EXCEPT ![id] = row]

Moved(id, row) ==
  [i \in Items |-> IF i = id THEN row
                   ELSE IF row.state = "approved" /\ items[i].state = "approved"
                        THEN [items[i] EXCEPT !.state = "superseded"]
                        ELSE items[i]]

MoveItem(p) ==
  /\ At(p, "moderate", "write")
  /\ LET to == copy[p].row
     IN  /\ items' = Moved(copy[p].id, to)
         /\ shown' = IF to.state = "approved" THEN copy[p].id ELSE shown
         /\ links' = IF to.state = "approved" THEN to.payload ELSE links
  /\ Go(p, "start", Nothing)

(* vendor-profile-patch and the social links: an edit goes into the        *)
(* pending item, unless that is under review, or into a new one, which     *)
(* starts from what is published.  Edit is the number of the process.      *)
Locked_Review == {"under_review"}

Locked == {"submitted", "under_review"}

Edit(p) == p

Added(row, p) == [row EXCEPT !.payload = @ \cup {Edit(p)}]

ReadDraft(p) ==
  /\ At(p, "edit", "start") /\ Row(p) \in Editors
  /\ \/ /\ PendingItems # {}
        /\ \E i \in PendingItems :
             IF items[i].state \in Locked THEN Return(p)
             ELSE Go(p, "write", [id |-> i, row |-> Added(items[i], p)])
     \/ /\ PendingItems = {} /\ WithState("absent") # {}
        /\ Go(p, "write",
              [id  |-> CHOOSE i \in WithState("absent") : TRUE,
               row |-> Added([state |-> "draft", editor |-> Row(p),
                              payload |-> IF shown = Nothing THEN {} ELSE items[shown].payload], p)])
  /\ UNCHANGED moderationVars

(* The caller may ask to submit a draft at once. *)
WriteDraft(p) ==
  /\ At(p, "edit", "write")
  /\ LET row == copy[p].row
     IN  \E state \in {row.state} \cup (IF row.state = "draft" THEN {"submitted"} ELSE {}) :
           items' = [items EXCEPT ![copy[p].id] = [row EXCEPT !.state = state]]
  /\ Return(p)
  /\ UNCHANGED <<shown, links>>

ModerationStep(p) == ReadItem(p) \/ MoveItem(p) \/ ReadDraft(p) \/ WriteDraft(p)
=============================================================================
