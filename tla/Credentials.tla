---------------------------- MODULE Credentials ----------------------------
(***************************************************************************)
(* The credentials of devices and of API clients: issued, used, rotated    *)
(* and revoked.  Each use notes its time by writing the row back that the  *)
(* lookup of the token returned.                                           *)
(***************************************************************************)
EXTENDS Builds

CONSTANTS
  Tokens,    \* rows of device_credentials
  Clients    \* rows of api_clients

VARIABLES
  tokens,    \* device_credentials: status
  clients    \* api_clients: status and the number of its secret

credentialVars == <<tokens, clients>>

CredentialInit ==
  /\ tokens = [t \in Tokens |-> "absent"]
  /\ clients = [c \in Clients |-> [status |-> "absent", secret |-> 0]]

(* device-credentials-provision and admin-api-clients-create.              *)
Issue(p) ==
  /\ \/ /\ At(p, "provision", "start")
        /\ tokens' = [tokens EXCEPT ![Row(p)] = "active"]
        /\ UNCHANGED clients
     \/ /\ At(p, "create-client", "start")
        /\ clients' = [clients EXCEPT ![Row(p)] = [status |-> "active", secret |-> 1]]
        /\ UNCHANGED tokens
  /\ Return(p)

(* authenticateDevicePrincipal finds only what is active ...               *)
FindToken(p) ==
  /\ At(p, "use", "start")
  /\ IF tokens[Row(p)] = "active" THEN Go(p, "write", tokens[Row(p)]) ELSE Return(p)
  /\ UNCHANGED credentialVars

(* ... and device-credentials-revoke whatever is there; both write it back. *)
FindToRevoke(p) ==
  /\ At(p, "revoke-token", "start")
  /\ IF tokens[Row(p)] = "absent" THEN Return(p) ELSE Go(p, "write", "revoked")
  /\ UNCHANGED credentialVars

WriteToken(p) ==
  /\ At(p, "use", "write") \/ At(p, "revoke-token", "write")
  /\ tokens' = [tokens EXCEPT ![Row(p)] = copy[p]]
  /\ Return(p)
  /\ UNCHANGED clients

(* authenticateApiClient finds the row of a secret; the holder of an       *)
(* earlier secret finds none.                                              *)
FindClient(p) ==
  /\ At(p, "call", "start") /\ clients[Row(p)].status # "absent"
  /\ IF clients[Row(p)].status = "revoked" THEN Return(p) ELSE Go(p, "write", clients[Row(p)])
  /\ UNCHANGED credentialVars

(* A revoked client may be revoked again, not rotated.                     *)
ReadClient(p) ==
  /\ At(p, "rotate", "start") \/ At(p, "revoke-client", "start")
  /\ LET row == clients[Row(p)]
     IN  IF row.status = "absent" \/ (row.status = "revoked" /\ Op(p) = "rotate")
         THEN Return(p)
         ELSE Go(p, "write", IF Op(p) = "rotate" THEN [row EXCEPT !.secret = @ + 1] ELSE [row EXCEPT !.status = "revoked"])
  /\ UNCHANGED credentialVars

WriteClient(p) ==
  /\ \E op \in {"call", "rotate", "revoke-client"} : At(p, op, "write")
  /\ clients' = [clients EXCEPT ![Row(p)] = copy[p]]
  /\ Return(p)
  /\ UNCHANGED tokens

CredentialStep(p) ==
  \/ Issue(p) \/ FindToken(p) \/ FindToRevoke(p) \/ WriteToken(p)
  \/ FindClient(p) \/ ReadClient(p) \/ WriteClient(p)
=============================================================================
