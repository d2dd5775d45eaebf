---------------------------- MODULE WalletPasses ----------------------------
(***************************************************************************)
(* The wallet passes of leads and the short links that open them.          *)
(*                                                                         *)
(* A pass is asked for, and asked for again after a failure; each time the *)
(* provider makes it, a new short link leads to it.  An organizer marks it *)
(* delivered, failed or cancelled.  Each route reads the pass before its   *)
(* transaction and writes the whole row back in it; a transaction shows    *)
(* all it has written at once.                                             *)
(***************************************************************************)
EXTENDS Builds, Sequences

CONSTANT Wallets   \* rows of wallet_passes

(* The route of a status refuses any other.                                *)
ASSUME WalletAssumption ==
  \A c \in Casts : \A p \in c :
    Op(p) = "wallet-mark" => Row(p)[2] \in {"delivered", "failed", "cancelled"}

VARIABLES
  walletMode,      \* what resolveWalletPassProviderOutcome makes of the environment
  wallets,         \* wallet_passes: status and short link of each, or "absent"
  walletAttempts,  \* wallet_pass_attempts of each pass: their statuses, in order
  shortLinks,      \* short_links: status, target, and whether its time is over
  opened           \* how often each link has been opened

walletVars == <<walletMode, wallets, walletAttempts, shortLinks, opened>>

WalletStatuses == {"absent", "disabled", "failed", "generated", "delivered", "cancelled"}
LinkStatuses   == {"active", "expired", "revoked"}

WalletInit ==
  /\ walletMode \in {"disabled", "failed", "generated"}
  /\ wallets = [w \in Wallets |-> [status |-> "absent", link |-> 0]]
  /\ walletAttempts = [w \in Wallets |-> <<>>]
  /\ shortLinks = <<>> /\ opened = <<>>

(* applyWalletPassProviderOutcome, with the row before it: a pass that is  *)
(* made gets a short link, any other has none.                             *)
ApplyOutcome(w) ==
  /\ wallets' = [wallets EXCEPT ![w] =
       [status |-> walletMode, link |-> IF walletMode = "generated" THEN Len(shortLinks) + 1 ELSE 0]]
  /\ shortLinks' = IF walletMode = "generated"
              THEN Append(shortLinks, [status |-> "active", target |-> w, over |-> FALSE]) ELSE shortLinks
  /\ opened' = IF walletMode = "generated" THEN Append(opened, 0) ELSE opened
  /\ walletAttempts' = [walletAttempts EXCEPT ![w] = Append(@, walletMode)]
  /\ UNCHANGED walletMode

(* attendee-wallet-pass-create.                                            *)
CreateWallet(p) ==
  /\ At(p, "wallet-create", "start")
  /\ wallets[Row(p)].status = "absent"
  /\ ApplyOutcome(Row(p))
  /\ Return(p)

(* resolveWalletPassResources, of a retry and of a status.                 *)
Final == {"delivered", "cancelled"}

MayMark(old, new) ==
  /\ old \notin Final \/ old = new
  /\ new = "delivered" => old \in {"generated", "delivered"}

WalletOf(p) == IF Op(p) = "wallet-retry" THEN Row(p) ELSE Row(p)[1]

ReadWallet(p) ==
  /\ \E op \in {"wallet-retry", "wallet-mark"} : At(p, op, "start")
  /\ LET row == wallets[WalletOf(p)]
         allowed == IF Op(p) = "wallet-retry" THEN row.status \notin Final
                    ELSE MayMark(row.status, Row(p)[2])
     IN  IF row.status # "absent" /\ allowed THEN Go(p, "write", row) ELSE Return(p)
  /\ UNCHANGED walletVars

(* wallet-pass-retry.                                                      *)
RetryWallet(p) ==
  /\ At(p, "wallet-retry", "write")
  /\ ApplyOutcome(Row(p))
  /\ Return(p)

(* wallet-pass-status-update keeps the link of the row it has read.        *)
MarkWallet(p) ==
  /\ At(p, "wallet-mark", "write")
  /\ wallets' = [wallets EXCEPT ![Row(p)[1]] = [copy[p] EXCEPT !.status = Row(p)[2]]]
  /\ Return(p)
  /\ UNCHANGED <<walletMode, walletAttempts, shortLinks, opened>>

(* short-link-resolve reads the link and what it leads to, ...             *)
ReadLink(p) ==
  /\ At(p, "link-open", "start")
  /\ IF Row(p) \in DOMAIN shortLinks
     THEN Go(p, "open", [link |-> shortLinks[Row(p)], wallet |-> wallets[shortLinks[Row(p)].target].status])
     ELSE Return(p)
  /\ UNCHANGED walletVars

(* ... and opens it, or notes that its time is over by writing back the    *)
(* row it has read.                                                        *)
Lapsed_Touched(row) == row

Lapsed(row) == [row EXCEPT !.status = "expired"]

WriteLink(i, row) ==
  /\ shortLinks' = [shortLinks EXCEPT ![i] = [row EXCEPT !.over = shortLinks[i].over]]
  /\ UNCHANGED <<walletMode, wallets, walletAttempts, opened>>

OpenLink(p) ==
  /\ At(p, "link-open", "open")
  /\ LET read == copy[p]
     IN  CASE read.link.status # "active" -> UNCHANGED walletVars
           [] read.link.status = "active" /\ read.link.over -> WriteLink(Row(p), Lapsed(read.link))
           [] OTHER ->
                /\ opened' = IF read.wallet \in {"generated", "delivered"}
                             THEN [opened EXCEPT ![Row(p)] = @ + 1] ELSE opened
                /\ UNCHANGED <<walletMode, wallets, walletAttempts, shortLinks>>
  /\ Return(p)

(* short-link-revoke. *)
RevokeLink(p) ==
  \/ /\ At(p, "link-revoke", "start")
     /\ IF Row(p) \in DOMAIN shortLinks /\ shortLinks[Row(p)].status = "active"
        THEN Go(p, "write", shortLinks[Row(p)]) ELSE Return(p)
     /\ UNCHANGED walletVars
  \/ /\ At(p, "link-revoke", "write")
     /\ WriteLink(Row(p), [copy[p] EXCEPT !.status = "revoked"])
     /\ Return(p)

(* A day after it was made the time of a link is over.                     *)
LinkLapses(i) ==
  /\ ~shortLinks[i].over
  /\ shortLinks' = [shortLinks EXCEPT ![i].over = TRUE]
  /\ UNCHANGED <<procVars, walletMode, wallets, walletAttempts, opened>>

WalletStep(p) ==
  \/ CreateWallet(p) \/ ReadWallet(p) \/ RetryWallet(p) \/ MarkWallet(p)
  \/ ReadLink(p) \/ OpenLink(p) \/ RevokeLink(p)
=============================================================================
