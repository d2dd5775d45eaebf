------------------------------ MODULE Accounts ------------------------------
(***************************************************************************)
(* The accounts of the platform: invitations, passwords, the lifecycle     *)
(* that administrators change, and the access scopes.                      *)
(*                                                                         *)
(* Every route reads a user and later writes a whole copy of it back.  The *)
(* password routes hash in between (scrypt, off the thread), so that even  *)
(* in the memory build anything may happen to the user meanwhile.          *)
(***************************************************************************)
EXTENDS Builds

CONSTANTS
  Users,      \* rows of the users table
  Addresses,  \* e-mail addresses, in lower case
  Address,    \* the one each user has at first, or is to be invited with
  Tenant,     \* the tenant of each
  Invitees    \* the users that do not exist yet

(* The accounts that a tenant has at first differ in their addresses.      *)
ASSUME AccountsAssumption ==
  /\ Invitees \subseteq Users
  /\ Address \in [Users -> Addresses]
  /\ \A u, v \in Users \ Invitees : Tenant[u] = Tenant[v] /\ Address[u] = Address[v] => u = v

VARIABLES
  users,    \* users: email, status, deleted_at, the two tokens, a password
  scopes,   \* how many rows of user_access_scopes each holds (of one scope)
  asked     \* reset mails asked for in this hour, by address

accountVars == <<users, scopes, asked>>

Token == {"none", "live", "lapsed"}

User == [email: Addresses,
         status: {"absent", "pending_invite", "active", "disabled", "suspended", "deleted"},
         gone: BOOLEAN, invite: Token, reset: Token, pw: BOOLEAN]

AccountInit ==
  /\ users = [u \in Users |->
                [email |-> Address[u],
                 status |-> IF u \in Invitees THEN "absent" ELSE "active", gone |-> FALSE,
                 invite |-> "none", reset |-> "none", pw |-> u \notin Invitees]]
  /\ scopes = [u \in Users |-> 0]
  /\ \E n \in {0, 2} : asked = [a \in Addresses |-> n]

(* users.update writes every column. *)
WriteUser(u, row) == users' = [users EXCEPT ![u] = row]

Edits == {"rename", "update", "visit", "disable", "admin-disable", "suspend", "enable", "activate"}

(* "visit" is any request of the user: it notes the time of the last one.  *)
Refused(op, row) ==
  \/ row.status = "absent"
  \/ op = "visit" /\ (row.gone \/ row.status # "active")
  \/ op = "disable" /\ row.status = "disabled"
  \/ op = "enable" /\ row.status = "active"
  \/ op = "activate" /\ row.status = "deleted"
  \/ op = "resend" /\ row.status # "pending_invite"

Edited_Restore(op, row) ==
  CASE op \in {"disable", "admin-disable"} -> [row EXCEPT !.status = "disabled"]
    [] op = "suspend"                      -> [row EXCEPT !.status = "suspended"]
    [] op \in {"enable", "activate"}       -> [row EXCEPT !.status = "active", !.gone = FALSE]
    [] OTHER                               -> row

Edited(op, row) ==
  CASE op \in {"disable", "admin-disable"} -> [row EXCEPT !.status = "disabled"]
    [] op = "suspend"                      -> [row EXCEPT !.status = "suspended"]
    [] op \in {"enable", "activate"}       -> [row EXCEPT !.status = "active"]
    [] OTHER                               -> row

ReadUser(p) ==
  /\ Op(p) \in Edits \cup {"delete-user", "resend"} /\ At(p, Op(p), "start")
  /\ IF Refused(Op(p), users[Row(p)]) THEN Return(p)
     ELSE Go(p, IF Op(p) = "update" THEN "look" ELSE "write", users[Row(p)])
  /\ UNCHANGED accountVars

(* Nothing but a look before the write keeps two rows from sharing an      *)
(* address: users-invite looks at every user, the routes of the platform   *)
(* administrators at those of their own tenant.                            *)
Holders_Active(a) == {v \in Users : users[v].status = "active" /\ users[v].email = a}

Holders(a) == {v \in Users : users[v].status # "absent" /\ users[v].email = a}

Colleagues(u) == {v \in Users \ {u} : Tenant[v] = Tenant[u]}

(* admin-user-update may change the address, and writes the row it read.   *)
Readdress(p) ==
  /\ At(p, "update", "look")
  /\ \E a \in Addresses :
       IF a # copy[p].email /\ Holders(a) \cap Colleagues(Row(p)) # {}
       THEN Return(p) ELSE Go(p, "write", [copy[p] EXCEPT !.email = a])
  /\ UNCHANGED accountVars

EditUser(p) ==
  /\ Op(p) \in Edits /\ At(p, Op(p), "write")
  /\ WriteUser(Row(p), Edited(Op(p), copy[p]))
  /\ Return(p)
  /\ UNCHANGED <<scopes, asked>>

(* admin-user-delete drops the scopes that it lists in its transaction ... *)
ListScopes(p) ==
  /\ At(p, "delete-user", "write")
  /\ Go(p, "commit", [user |-> copy[p], held |-> scopes[Row(p)]])
  /\ UNCHANGED accountVars

(* ... and keeps the row, marked.                                          *)
DeleteUser(p) ==
  /\ At(p, "delete-user", "commit")
  /\ scopes' = [scopes EXCEPT ![Row(p)] = IF @ > copy[p].held THEN @ - copy[p].held ELSE 0]
  /\ WriteUser(Row(p), [copy[p].user EXCEPT !.status = "deleted", !.gone = TRUE])
  /\ Return(p)
  /\ UNCHANGED asked

(* users-invite and admin-user-create: is the address in use?              *)
Taken(p) ==
  \E v \in Holders(users[Row(p)].email) : Op(p) = "invite" \/ v \in Colleagues(Row(p))

LookForAddress(p) ==
  /\ At(p, "invite", "start") \/ At(p, "create", "start")
  /\ IF Taken(p) THEN Return(p) ELSE Go(p, "write", Nothing)
  /\ UNCHANGED accountVars

CreateUser(p) ==
  /\ \/ /\ At(p, "invite", "write")
        /\ WriteUser(Row(p), [users[Row(p)] EXCEPT !.status = "pending_invite"])
        /\ Go(p, "token", Nothing)
     \/ /\ At(p, "create", "write")
        /\ \E status \in {"pending_invite", "active"} :
             WriteUser(Row(p), [users[Row(p)] EXCEPT !.status = status])
        /\ Return(p)
  /\ UNCHANGED <<scopes, asked>>

(* users-resend-invite drops the old token before it makes a new one.      *)
DropInvite(p) ==
  /\ At(p, "resend", "write")
  /\ WriteUser(Row(p), [copy[p] EXCEPT !.invite = "none"])
  /\ Go(p, "token", Nothing)
  /\ UNCHANGED <<scopes, asked>>

(* auth-forgot-password answers three mails an hour for one address.       *)
Forgot(p) ==
  LET address == users[Row(p)].email IN
  /\ At(p, "forgot", "start")
  /\ IF asked[address] >= 3 THEN Return(p) /\ UNCHANGED asked
     ELSE /\ asked' = [asked EXCEPT ![address] = @ + 1]
          /\ IF users[Row(p)].status = "absent" THEN Return(p) ELSE Go(p, "token", Nothing)
  /\ UNCHANGED <<users, scopes>>

(* generateInviteToken and generateResetToken read the user themselves.    *)
ReadForToken(p) ==
  /\ \E op \in {"invite", "resend", "forgot"} : At(p, op, "token")
  /\ Go(p, "stamp", users[Row(p)])
  /\ UNCHANGED accountVars

StampToken(p) ==
  /\ \/ /\ At(p, "invite", "stamp") \/ At(p, "resend", "stamp")
        /\ WriteUser(Row(p), [copy[p] EXCEPT !.invite = "live"])
     \/ /\ At(p, "forgot", "stamp")
        /\ WriteUser(Row(p), [copy[p] EXCEPT !.reset = "live"])
  /\ Return(p)
  /\ UNCHANGED <<scopes, asked>>

(* The routes that hash a password: what they need of the user they read.  *)
Hashers == {"login", "accept", "reset", "change"}

MayHash(op, row) ==
  CASE op = "accept" -> row.invite = "live"
    [] op = "reset"  -> row.reset = "live"
    [] OTHER         -> row.pw

StartHash(p) ==
  /\ Op(p) \in Hashers /\ At(p, Op(p), "start")
  /\ IF MayHash(Op(p), users[Row(p)]) THEN Go(p, "io", users[Row(p)]) ELSE Return(p)
  /\ UNCHANGED accountVars

(* auth-login writes the copy back for last_login_at; a wrong password or  *)
(* an account that was not active ends it.                                 *)
Hashed(p) ==
  /\ Op(p) \in Hashers /\ At(p, Op(p), "io")
  /\ \/ /\ Op(p) \in {"login", "change"} => copy[p].status = "active"
        /\ WriteUser(Row(p),
             CASE Op(p) = "accept" -> [copy[p] EXCEPT !.pw = TRUE, !.status = "active", !.invite = "none"]
               [] Op(p) = "reset"  -> [copy[p] EXCEPT !.pw = TRUE, !.reset = "none"]
               [] OTHER            -> copy[p])
     \/ Op(p) \in {"login", "change"} /\ UNCHANGED users
  /\ Return(p)
  /\ UNCHANGED <<scopes, asked>>

(* admin-user-scope-assign: not for the deleted, and not twice.            *)
ReadForScope(p) ==
  /\ At(p, "scope-assign", "start")
  /\ IF users[Row(p)].status = "deleted" \/ scopes[Row(p)] > 0
     THEN Return(p) ELSE Go(p, "write", Nothing)
  /\ UNCHANGED accountVars

AddScope(p) ==
  /\ At(p, "scope-assign", "write")
  /\ scopes' = [scopes EXCEPT ![Row(p)] = @ + 1]
  /\ Return(p)
  /\ UNCHANGED <<users, asked>>

RevokeScope(p) ==
  /\ At(p, "scope-revoke", "start")
  /\ scopes' = [scopes EXCEPT ![Row(p)] = IF @ > 0 THEN @ - 1 ELSE 0]
  /\ Return(p)
  /\ UNCHANGED <<users, asked>>

(* An invitation lasts 72 hours, a reset link one.                         *)
Lapse(u) ==
  /\ "live" \in {users[u].invite, users[u].reset}
  /\ users' = [users EXCEPT ![u].invite = IF @ = "live" THEN "lapsed" ELSE @,
                            ![u].reset = IF @ = "live" THEN "lapsed" ELSE @]
  /\ UNCHANGED <<procVars, scopes, asked>>

AccountStep(p) ==
  \/ ReadUser(p) \/ Readdress(p) \/ EditUser(p) \/ ListScopes(p) \/ DeleteUser(p)
  \/ LookForAddress(p) \/ CreateUser(p) \/ DropInvite(p) \/ Forgot(p)
  \/ ReadForToken(p) \/ StampToken(p) \/ StartHash(p) \/ Hashed(p)
  \/ ReadForScope(p) \/ AddScope(p) \/ RevokeScope(p)
=============================================================================
