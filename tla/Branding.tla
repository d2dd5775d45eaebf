------------------------------ MODULE Branding ------------------------------
(***************************************************************************)
(* The branding of an event: the organizer saves it, a platform admin      *)
(* approves it and the organizer publishes it.  Each route writes back a   *)
(* copy of the active row; saving merges whatever the body names into it.  *)
(***************************************************************************)
EXTENDS Builds, Sequences

CONSTANTS MaxBrandings   \* bound on the rows

VARIABLES brandings      \* branding_assets of the event: status, approval, content

brandingVars == <<brandings>>

BrandingInit == brandings = <<>>

ActiveRows == {i \in DOMAIN brandings : brandings[i].status = "active"}

FindBranding(p) ==
  /\ Op(p) \in {"branding-save", "branding-approve", "branding-publish"} /\ At(p, Op(p), "start")
  /\ \/ \E i \in ActiveRows :
          IF Op(p) = "branding-publish" /\ ~brandings[i].approved THEN Return(p)
          ELSE Go(p, "write", [id |-> i, row |-> brandings[i]])
     \/ /\ ActiveRows = {}
        /\ IF Op(p) = "branding-save" THEN Go(p, "create", Nothing) ELSE Return(p)
  /\ UNCHANGED brandings

(* The update statement of Postgres has no column for the approval.        *)
Stored(old, row) == IF build = "postgres" THEN [row EXCEPT !.approved = old.approved] ELSE row

(* A body may name the approval as well. *)
WriteBranding(p) ==
  /\ Op(p) \in {"branding-save", "branding-approve", "branding-publish"} /\ At(p, Op(p), "write")
  /\ LET row == copy[p].row
         old == brandings[copy[p].id]
     IN  \E new \in CASE Op(p) = "branding-save" ->
                           {[row EXCEPT !.approved = a, !.content = p] : a \in {row.approved, TRUE}}
                      [] Op(p) = "branding-approve" -> {[row EXCEPT !.approved = TRUE]}
                      [] Op(p) = "branding-publish" -> {[row EXCEPT !.status = "published"]} :
           brandings' = [brandings EXCEPT ![copy[p].id] = Stored(old, new)]
  /\ Return(p)

(* One active row for each event: a unique index over Postgres. *)
CreateBranding(p) ==
  /\ At(p, "branding-save", "create") /\ Len(brandings) < MaxBrandings
  /\ \E a \in BOOLEAN :
       brandings' = IF build = "postgres" /\ ActiveRows # {} THEN brandings
                    ELSE Append(brandings, [status |-> "active", content |-> p,
                                            approved |-> a /\ build = "memory"])
  /\ Return(p)

BrandingStep(p) == FindBranding(p) \/ WriteBranding(p) \/ CreateBranding(p)
=============================================================================
