---------------------------- MODULE DriveAccess ----------------------------
(***************************************************************************)
(* The document drives of one stall: connections to a provider, the        *)
(* folders that are shared from them, and the grants that let attendees    *)
(* into a folder.  A new connection takes the place of the active one of   *)
(* its provider; the exchange of the code and the refresh of a token are   *)
(* answers of the provider.                                                *)
(***************************************************************************)
EXTENDS Builds, Sequences

CONSTANTS
  Providers,   \* google_drive, onedrive
  Folders      \* rows of stall_shared_folders

VARIABLES
  drives,    \* stall_drive_connections: provider and status, in order
  folders,   \* stall_shared_folders: status, default_access
  grants     \* stall_folder_access: by whom, for which folder, status

driveVars == <<drives, folders, grants>>

DriveInit ==
  /\ drives = <<>>
  /\ folders = [f \in Folders |-> [status |-> "absent", open |-> FALSE]]
  /\ grants = {}

Active == {i \in DOMAIN drives : drives[i].status = "active"}
ActiveOf(provider) == {i \in Active : drives[i].provider = provider}

SetStatus(i, status) == drives' = [drives EXCEPT ![i].status = status]

(* The callbacks of the OAuth flows: the code is exchanged first.          *)
Exchange(p) ==
  /\ At(p, "connect", "start")
  /\ Go(p, "io", ActiveOf(Row(p)))
  /\ UNCHANGED driveVars

Superseded_Before(p) == copy[p]

Superseded(p) == ActiveOf(Row(p))

FindActive(p) ==
  /\ At(p, "connect", "io")
  /\ Return(p) \/ Go(p, "drop", Superseded(p))
  /\ UNCHANGED driveVars

(* Connecting drops what it found and then creates; disconnecting drops.   *)
Drop(p) ==
  /\ At(p, "connect", "drop") \/ At(p, "disconnect", "drop")
  /\ \/ \E i \in copy[p] : SetStatus(i, "disconnected") /\ Go(p, "drop", copy[p] \ {i})
     \/ /\ copy[p] = {} /\ Return(p)
        /\ drives' = IF Op(p) = "disconnect" THEN drives
                     ELSE Append(drives, [provider |-> Row(p), status |-> "active"])
  /\ UNCHANGED <<folders, grants>>

(* stall-drive-disconnect: of one provider or of any, one connection.      *)
Disconnect(p) ==
  /\ At(p, "disconnect", "start")
  /\ IF Active = {} THEN Return(p) ELSE \E i \in Active : Go(p, "drop", {i})
  /\ UNCHANGED driveVars

(* runDriveTokenRefreshOnce: which tokens are about to expire is open.     *)
ListExpiring(p) ==
  /\ At(p, "drive-refresh", "start")
  /\ \E S \in SUBSET Active : S # {} /\ Go(p, "io", S)
  /\ UNCHANGED driveVars

Refresh(p) ==
  /\ At(p, "drive-refresh", "io")
  /\ \E i \in copy[p] :
       /\ SetStatus(i, "error") \/ UNCHANGED drives
       /\ IF copy[p] = {i} THEN Go(p, "start", Nothing) ELSE Go(p, "io", copy[p] \ {i})
  /\ UNCHANGED <<folders, grants>>

(* Sharing needs an active drive, of whichever provider.                   *)
ShareFolder(p) ==
  \/ /\ At(p, "share", "start")
     /\ IF Active = {} THEN Return(p) ELSE Go(p, "write", Nothing)
     /\ UNCHANGED driveVars
  \/ /\ At(p, "share", "write") /\ folders[Row(p)].status = "absent"
     /\ \E open \in BOOLEAN : folders' = [folders EXCEPT ![Row(p)] = [status |-> "active", open |-> open]]
     /\ Return(p)
     /\ UNCHANGED <<drives, grants>>

(* A patch may set any status, also bring back what was archived.          *)
PatchFolder(p) ==
  /\ At(p, "folder-patch", "start") \/ At(p, "archive", "start")
  /\ IF folders[Row(p)].status = "absent" THEN UNCHANGED folders
     ELSE \E status \in IF Op(p) = "archive" THEN {"archived"}
                        ELSE {"active", "suspended", "archived"} :
            folders' = [folders EXCEPT ![Row(p)].status = status]
  /\ Return(p)
  /\ UNCHANGED <<drives, grants>>

(* Grants by hand are for the folders that are not archived, those of a    *)
(* tap for the active ones open to all.                                    *)
Grantable(op) == {f \in Folders : IF op = "grant" THEN folders[f].status \in {"active", "suspended"}
                                  ELSE folders[f].status = "active" /\ folders[f].open}

GrantAccess(p) ==
  \/ /\ Op(p) \in {"grant", "tap-grant"} /\ At(p, Op(p), "start")
     /\ IF Grantable(Op(p)) = {} THEN Return(p) ELSE Go(p, "write", Grantable(Op(p)))
     /\ UNCHANGED driveVars
  \/ /\ Op(p) \in {"grant", "tap-grant"} /\ At(p, Op(p), "write")
     /\ grants' = grants \cup {[by |-> p, folder |-> f, status |-> "active"] : f \in copy[p]}
     /\ Return(p)
     /\ UNCHANGED <<drives, folders>>

(* Revoke, suspend and restore: from any status to any other. *)
SetGrant(p) ==
  /\ At(p, "grant-status", "start")
  /\ \/ \E g \in grants, status \in {"revoked", "suspended", "active"} :
          grants' = (grants \ {g}) \cup {[g EXCEPT !.status = status]}
     \/ grants = {} /\ UNCHANGED grants
  /\ Return(p)
  /\ UNCHANGED <<drives, folders>>

DriveStep(p) ==
  \/ Exchange(p) \/ FindActive(p) \/ Drop(p) \/ Disconnect(p) \/ ListExpiring(p) \/ Refresh(p)
  \/ ShareFolder(p) \/ PatchFolder(p) \/ GrantAccess(p) \/ SetGrant(p)
=============================================================================
