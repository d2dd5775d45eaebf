----------------------------- MODULE BreakGlass -----------------------------
(***************************************************************************)
(* Break-glass sessions: a platform admin asks for a view of personal data *)
(* for a while, others approve it, and a job ends it.  Two families of     *)
(* routes share the rows: the older /break-glass, where the caller names   *)
(* the end and two approvals count, whosoever gives them, and              *)
(* /admin/break-glass, where another person approves and the end is        *)
(* counted from that moment.                                               *)
(*                                                                         *)
(* No migration creates the table: over Postgres every request fails.      *)
(* The number of a process is the person who sends the request.            *)
(***************************************************************************)
EXTENDS Builds

CONSTANTS Sessions   \* rows of break_glass_access

(* Each request for a session makes a row of its own. *)
ASSUME BreakGlassAssumption ==
  \A c \in Casts : \A p, q \in c :
    /\ Op(p) \in {"ask", "admin-ask"} => p[3] \in 1 .. 3
    /\ {Op(p), Op(q)} \subseteq {"ask", "admin-ask"} /\ Row(p) = Row(q) => p = q

VARIABLES sessions

breakGlassVars == <<sessions>>

Session == [status: {"absent", "requested", "partially_approved", "active", "rejected",
                     "revoked", "expired"},
            by: 0 .. 3, first: BOOLEAN, ends: {"never", "later", "past"}]

BreakGlassInit ==
  sessions = [s \in Sessions |-> [status |-> "absent", by |-> 0, first |-> FALSE, ends |-> "never"]]

Who(p) == p[3]

WriteSession(p, row) ==
  /\ sessions' = [sessions EXCEPT ![Row(p)] = row]
  /\ Return(p)

Missing(p) == sessions[Row(p)].status = "absent" /\ Return(p) /\ UNCHANGED sessions

Ask(p) ==
  /\ At(p, "ask", "start") \/ At(p, "admin-ask", "start")
  /\ IF build = "postgres" THEN Return(p) /\ UNCHANGED sessions
     ELSE WriteSession(p, [status |-> "requested", by |-> Who(p), first |-> FALSE,
                           ends |-> IF Op(p) = "ask" THEN "later" ELSE "never"])

(* break-glass-approve asks neither for the status nor for the person.     *)
Approve(p) ==
  /\ At(p, "bg-approve", "start")
  /\ LET row == sessions[Row(p)]
     IN  \/ Missing(p)
         \/ /\ row.status # "absent"
            /\ WriteSession(p, IF row.first THEN [row EXCEPT !.status = "active"]
                               ELSE [row EXCEPT !.first = TRUE, !.status = "partially_approved"])

Revoke(p) ==
  /\ At(p, "bg-revoke", "start")
  /\ \/ Missing(p)
     \/ /\ sessions[Row(p)].status # "absent"
        /\ WriteSession(p, [sessions[Row(p)] EXCEPT !.status = "revoked"])

MayDecide_Anytime(p) == sessions[Row(p)].status # "absent" /\ sessions[Row(p)].by # Who(p)

MayDecide(p) == sessions[Row(p)].status = "requested" /\ sessions[Row(p)].by # Who(p)

AdminDecide(p) ==
  \/ /\ At(p, "admin-approve", "start")
     /\ IF MayDecide(p)
        THEN WriteSession(p, [sessions[Row(p)] EXCEPT !.status = "active", !.ends = "later"])
        ELSE Return(p) /\ UNCHANGED sessions
  \/ /\ At(p, "admin-reject", "start")
     /\ IF MayDecide(p)
        THEN WriteSession(p, [sessions[Row(p)] EXCEPT !.status = "rejected"])
        ELSE Return(p) /\ UNCHANGED sessions
  \/ /\ At(p, "admin-revoke", "start")
     /\ IF sessions[Row(p)].status = "active"
        THEN WriteSession(p, [sessions[Row(p)] EXCEPT !.status = "revoked"])
        ELSE Return(p) /\ UNCHANGED sessions

(* A request that carries the session is refused once it is over.          *)
UseSession(p) ==
  /\ At(p, "bg-use", "start")
  /\ LET row == sessions[Row(p)]
     IN  IF row.status = "active" /\ row.ends = "past"
         THEN WriteSession(p, [row EXCEPT !.status = "expired"])
         ELSE Return(p) /\ UNCHANGED sessions

(* listApprovedExpired and the loop over it.                               *)
Overdue_Revoked == {s \in Sessions : sessions[s].status = "revoked" /\ sessions[s].ends = "past"}

Overdue == {s \in Sessions : sessions[s].status = "active" /\ sessions[s].ends = "past"}

ExpireSessions(p) ==
  /\ At(p, "bg-expiry", "start") /\ Overdue # {}
  /\ sessions' = [s \in Sessions |->
                    IF s \in Overdue THEN [sessions[s] EXCEPT !.status = "expired"] ELSE sessions[s]]
  /\ Go(p, "start", Nothing)

(* The end of a session passes. *)
EndPasses(s) ==
  /\ sessions[s].ends = "later"
  /\ sessions' = [sessions EXCEPT ![s].ends = "past"]
  /\ UNCHANGED procVars

BreakGlassStep(p) ==
  \/ Ask(p) \/ Approve(p) \/ Revoke(p) \/ AdminDecide(p) \/ UseSession(p) \/ ExpireSessions(p)
=============================================================================
