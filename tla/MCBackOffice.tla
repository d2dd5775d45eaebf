--------------------------- MODULE MCBackOffice ---------------------------
(* Small instances of the back office, and the casts of processes that race. *)
EXTENDS BackOffice

UsersHere    == {"u1", "u2", "u3", "u4", "u5"}
InviteesHere == UsersHere \ {"u1"}
AddressHere  == [u \in UsersHere |-> IF u \in {"u2", "u3"} THEN "new" ELSE "old"]
TenantHere   == [u \in UsersHere |-> IF u = "u5" THEN "elsewhere" ELSE "here"]
StreamsHere  == <<"taps">>

All(ops, row) == {<<op, row, 1>> : op \in ops}

(* A user at work while administrators change the account.                 *)
Lifecycle   == All({"visit", "disable", "enable", "delete-user", "change"}, "u1")
Statuses    == All({"rename", "admin-disable", "suspend", "activate", "delete-user"}, "u1")
Passwords   == All({"login", "forgot", "reset", "suspend"}, "u1") \cup {<<"forgot", "u1", 2>>}
Invitation  == All({"invite", "resend", "accept", "forgot"}, "u2")
Access      == All({"scope-assign", "scope-revoke", "delete-user"}, "u1") \cup {<<"scope-assign", "u1", 2>>}
(* One address asked for twice. *)
OneAddress  == {<<"invite", "u2", 1>>, <<"invite", "u3", 1>>, <<"accept", "u2", 1>>,
                <<"create", "u3", 2>>, <<"resend", "u2", 1>>}
(* An address left and taken, one or the other, while a login hashes. *)
Readdressed == All({"update", "login"}, "u1")
               \cup {<<"create", "u2", 1>>, <<"invite", "u4", 1>>, <<"create", "u5", 1>>}
DeviceKeys  == All({"provision", "use", "revoke-token"}, "t1") \cup {<<"use", "t1", 2>>}
ClientKeys  == All({"create-client", "call", "rotate", "revoke-client"}, "c1")

Expiry      == {<<"bg-expiry", "", 1>>}
(* The routes under /admin alone, two admins deciding.                     *)
AdminAccess == Expiry \cup All({"admin-ask", "admin-revoke", "bg-use"}, "s1")
               \cup {<<op, "s1", 2>> : op \in {"admin-approve", "admin-reject"}}
               \cup {<<"admin-approve", "s1", 3>>, <<"ask", "s2", 2>>, <<"bg-revoke", "s2", 2>>}
(* Both families of routes on one session.                                 *)
BothAccess  == Expiry \cup {<<"admin-ask", "s1", 1>>, <<"bg-approve", "s1", 2>>,
                            <<"bg-approve", "s1", 3>>, <<"admin-reject", "s1", 2>>}

Building    == {<<"hall-create", "h2", 1>>, <<"hall-delete", "h1", 1>>, <<"stall-create", <<"b1", "h1">>, 1>>,
                <<"stall-patch", <<"b1", "h2">>, 1>>, <<"stall-delete", "b1", 1>>}
Sponsors    == {<<"package-create", "k1", 1>>, <<"package-delete", "k1", 1>>,
                <<"role-assign", <<"m1", "k1">>, 1>>, <<"role-delete", "m1", 1>>}
Hardwares   == {<<"device-create", "e1", 1>>, <<"device-patch", "e1", 1>>, <<"device-retire", "e1", 1>>,
                <<"assign", <<"e1", "b1">>, 1>>, <<"unassign", "e1", 1>>}
(* Two devices for one stall, and the stall goes. *)
Placing     == {<<"assign", <<"e1", "b1">>, 1>>, <<"assign", <<"e2", "b1">>, 1>>,
                <<"unassign", "e1", 1>>, <<"stall-delete", "b1", 1>>, <<"device-retire", "e2", 1>>}

Contents    == {<<"moderate", "ann", 1>>, <<"moderate", "bob", 1>>, <<"edit", "ann", 1>>,
                <<"edit", "ann", 2>>}
Brands      == {<<"branding-save", "", 1>>, <<"branding-save", "", 2>>, <<"branding-approve", "", 1>>,
                <<"branding-publish", "", 1>>}
Payment     == {<<"deal-create", "deal", 1>>, <<"payout-create", "payout", 1>>,
                <<"payout-update", "payout", 1>>, <<"partner-update", "x1", 1>>}
Moving      == {<<"deal-create", "deal", 1>>, <<"payout-create", "payout", 1>>,
                <<"deal-update", "deal", 1>>}
Connecting  == {<<"connect", "google_drive", 1>>, <<"connect", "google_drive", 2>>,
                <<"connect", "onedrive", 1>>, <<"disconnect", "", 1>>, <<"drive-refresh", "", 1>>}
Sharing     == {<<"connect", "google_drive", 1>>, <<"share", "f1", 1>>, <<"folder-patch", "f1", 1>>,
                <<"archive", "f1", 1>>, <<"grant", "f1", 1>>, <<"tap-grant", "", 1>>,
                <<"grant-status", "", 1>>}
Sending     == {<<"email-batch", "", 1>>, <<"email-batch", "", 2>>}
Operators   == {<<"iot-run", 2, 1>>}
Parities    == {<<"iot-parity", "", 1>>, <<"iot-parity", "", 2>>}

FirstTaps   == {<<"nfc-tap", <<"t1", "n1">>, 1>>, <<"nfc-tap", <<"t1", "n1">>, 2>>,
                <<"nfc-tap", <<"t2", "n1">>, 1>>, <<"register", <<Nothing, "vip">>, 1>>}
CardMoves   == {<<"nfc-tap", <<"t1", "n1">>, 1>>, <<"card-force", <<1, "n1">>, 1>>,
                <<"card-force", <<2, "n1">>, 1>>, <<"card-clear", 1, 1>>}
(* The pass of a card decides what a tap leaves. *)
Staff       == {<<"pass-create", <<"vip", "skip">>, 1>>, <<"pass-create", <<"vip", "access_only">>, 2>>,
                <<"register", <<"vip">>, 1>>, <<"card-set", <<3, "n1">>, 1>>, <<"card-set", <<1, "n1">>, 1>>,
                <<"nfc-tap", <<"t1", "n1">>, 1>>, <<"card-clear", 3, 1>>}
Wallet      == All({"wallet-create", "wallet-retry"}, "w1")
               \cup {<<"wallet-mark", <<"w1", "delivered">>, 1>>, <<"wallet-mark", <<"w1", "failed">>, 1>>,
                     <<"link-open", 1, 1>>, <<"link-revoke", 1, 1>>}
Cancelling  == All({"wallet-create", "wallet-retry"}, "w1")
               \cup {<<"wallet-mark", <<"w1", "cancelled">>, 1>>, <<"link-open", 1, 1>>, <<"link-open", 2, 1>>}
Incidents   == {<<"incident-sync", "r1", 1>>, <<"incident-sync", "r1", 2>>,
                <<"annotate", 1, 1>>, <<"resolve", 1, 2>>}
Escalation  == {<<"incident-sync", "r1", 1>>, <<"incident-sync", "r1", 2>>, <<"escalate", 1, 1>>}
Runbooks    == {<<"incident-sync", "r1", 1>>, <<"incident-sync", "r2", 2>>, <<"runbook", 1, 1>>}
Heartbeats  == {<<"beat-sync", "r1", 1>>, <<"beat-sync", "r1", 2>>, <<"beat", "", 1>>}

Stale       == {<<"login", "u1", 1>>, <<"delete-user", "u1", 1>>}

AllCasts == {Lifecycle, Statuses, Passwords, Invitation, Access, OneAddress, Readdressed,
             DeviceKeys, ClientKeys,
             AdminAccess, BothAccess, Building, Sponsors, Hardwares, Placing, Contents, Brands,
             Payment, Moving, Connecting, Sharing, Sending, Operators, Parities,
             FirstTaps, CardMoves, Staff, Wallet, Cancelling, Incidents, Escalation, Runbooks, Heartbeats}
StaleCasts == {Stale}
=============================================================================
