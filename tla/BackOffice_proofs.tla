-------------------------- MODULE BackOffice_proofs --------------------------
(***************************************************************************)
(* Theorems about BackOffice for every value of its constants.             *)
(***************************************************************************)
EXTENDS BackOffice, Builds_proofs

-----------------------------------------------------------------------------
(* The operations of each component: a process belongs to one.             *)
AccountOps    == Edits \cup Hashers
                   \cup {"delete-user", "resend", "invite", "create", "forgot",
                         "scope-assign", "scope-revoke"}
CredentialOps == {"provision", "create-client", "use", "revoke-token", "call", "rotate",
                  "revoke-client"}
BreakGlassOps == {"ask", "admin-ask", "bg-approve", "bg-revoke", "admin-approve",
                  "admin-reject", "admin-revoke", "bg-use", "bg-expiry"}
PlaceOps      == {"hall-create", "hall-delete", "stall-create", "stall-patch", "stall-delete",
                  "package-create", "package-delete", "role-assign", "role-delete",
                  "device-create", "device-patch", "device-retire", "assign", "unassign"}
ModerationOps == {"moderate", "edit"}
BrandingOps   == {"branding-save", "branding-approve", "branding-publish"}
CommercialOps == {"partner-update", "deal-create", "deal-update", "payout-create",
                  "payout-update"}
DriveOps      == {"connect", "disconnect", "drive-refresh", "share", "folder-patch", "archive",
                  "grant", "tap-grant", "grant-status"}
EmailOps      == {"email-batch"}
IotOps        == {"iot-run", "iot-parity"}
CardOps       == {"pass-create", "register", "nfc-tap", "card-set", "card-force", "card-clear"}
PassOps       == {"wallet-create", "wallet-retry", "wallet-mark", "link-open", "link-revoke"}
FieldOps      == Syncs \cup Organizing \cup {"beat"}

(* p takes one step of its own, which is one of ops.                       *)
Of(p, ops) == Op(p) \in ops /\ Acts(p)

LEMMA AccountActs ==
  ASSUME NEW p, AccountStep(p)
  PROVE  Of(p, AccountOps)
<1> USE DEF Of, Acts, AccountOps
<1>1. CASE ReadUser(p)
  BY <1>1, AtFacts DEF ReadUser, Return
<1>2. CASE EditUser(p)
  BY <1>2, AtFacts DEF EditUser, Return
<1>3. CASE ListScopes(p)
  BY <1>3, AtFacts DEF ListScopes
<1>4. CASE DeleteUser(p)
  BY <1>4, AtFacts DEF DeleteUser, Return
<1>5. CASE LookForAddress(p)
  BY <1>5, AtFacts DEF LookForAddress, Return
<1>6. CASE CreateUser(p)
  BY <1>6, AtFacts DEF CreateUser, Return
<1>7. CASE DropInvite(p)
  BY <1>7, AtFacts DEF DropInvite
<1>8. CASE Forgot(p)
  BY <1>8, AtFacts DEF Forgot, Return
<1>9. CASE ReadForToken(p)
  BY <1>9, AtFacts DEF ReadForToken
<1>10. CASE StampToken(p)
  BY <1>10, AtFacts DEF StampToken, Return
<1>11. CASE StartHash(p)
  BY <1>11, AtFacts DEF StartHash, Return
<1>12. CASE Hashed(p)
  BY <1>12, AtFacts DEF Hashed, Return
<1>13. CASE ReadForScope(p)
  BY <1>13, AtFacts DEF ReadForScope, Return
<1>14. CASE AddScope(p)
  BY <1>14, AtFacts DEF AddScope, Return
<1>15. CASE RevokeScope(p)
  BY <1>15, AtFacts DEF RevokeScope, Return
<1>16. CASE Readdress(p)
  BY <1>16, AtFacts DEF Readdress, Edits, Return
<1>17. QED
  BY <1>1, <1>2, <1>3, <1>4, <1>5, <1>6, <1>7, <1>8, <1>9, <1>10, <1>11, <1>12, <1>13, <1>14,
     <1>15, <1>16 DEF AccountStep

LEMMA CredentialActs ==
  ASSUME NEW p, CredentialStep(p)
  PROVE  Of(p, CredentialOps)
BY AtFacts DEF Of, Acts, CredentialOps, CredentialStep, Issue, FindToken, FindToRevoke,
   WriteToken, FindClient, ReadClient, WriteClient, Return

LEMMA BreakGlassActs ==
  ASSUME NEW p, BreakGlassStep(p)
  PROVE  Of(p, BreakGlassOps)
BY AtFacts DEF Of, Acts, BreakGlassOps, BreakGlassStep, Ask, Approve, Revoke, AdminDecide,
   UseSession, ExpireSessions, Missing, WriteSession, Return

LEMMA VenueActs ==
  ASSUME NEW p, VenueStep(p)
  PROVE  Of(p, PlaceOps)
<1> USE AtFacts DEF Of, Acts, PlaceOps, Look, Write, Return
<1>1. CASE CreateHall(p) \/ DeleteHall(p)
  BY <1>1 DEF CreateHall, DeleteHall
<1>2. CASE PutStall(p) \/ DeleteStall(p)
  BY <1>2 DEF PutStall, DeleteStall
<1>3. CASE CreatePackage(p) \/ DeletePackage(p)
  BY <1>3 DEF CreatePackage, DeletePackage
<1>4. CASE AssignRole(p) \/ DeleteRole(p)
  BY <1>4 DEF AssignRole, DeleteRole
<1>5. CASE RegisterDevice(p) \/ ReadDevice(p) \/ ChangeDevice(p)
  BY <1>5 DEF RegisterDevice, ReadDevice, ChangeDevice
<1>6. CASE AssignDevice(p) \/ UnassignDevice(p)
  BY <1>6 DEF AssignDevice, UnassignDevice
<1>7. QED
  BY <1>1, <1>2, <1>3, <1>4, <1>5, <1>6 DEF VenueStep

LEMMA ModerationActs ==
  ASSUME NEW p, ModerationStep(p)
  PROVE  Of(p, ModerationOps)
BY AtFacts DEF Of, Acts, ModerationOps, ModerationStep, ReadItem, MoveItem, ReadDraft,
   WriteDraft, Return

LEMMA BrandingActs ==
  ASSUME NEW p, BrandingStep(p)
  PROVE  Of(p, BrandingOps)
BY AtFacts DEF Of, Acts, BrandingOps, BrandingStep, FindBranding, WriteBranding,
   CreateBranding, Return

LEMMA CommercialActs ==
  ASSUME NEW p, CommercialStep(p)
  PROVE  Of(p, CommercialOps)
BY AtFacts DEF Of, Acts, CommercialOps, CommercialStep, WritePartner, CreateDeal, MoveDeal,
   CreatePayout, UpdatePayout, Return

LEMMA DriveActs ==
  ASSUME NEW p, DriveStep(p)
  PROVE  Of(p, DriveOps)
<1> USE AtFacts DEF Of, Acts, DriveOps, Return
<1>1. CASE Exchange(p) \/ FindActive(p) \/ Drop(p) \/ Disconnect(p)
  BY <1>1 DEF Exchange, FindActive, Drop, Disconnect
<1>2. CASE ListExpiring(p) \/ Refresh(p)
  BY <1>2 DEF ListExpiring, Refresh
<1>3. CASE ShareFolder(p) \/ PatchFolder(p)
  BY <1>3 DEF ShareFolder, PatchFolder
<1>4. CASE GrantAccess(p) \/ SetGrant(p)
  BY <1>4 DEF GrantAccess, SetGrant
<1>5. QED
  BY <1>1, <1>2, <1>3, <1>4 DEF DriveStep

LEMMA EmailActs ==
  ASSUME NEW p, EmailStep(p)
  PROVE  Of(p, EmailOps)
BY AtFacts DEF Of, Acts, EmailOps, EmailStep, ListEmails, SendEmail, WriteEmail

LEMMA IotActs ==
  ASSUME NEW p, IotStep(p)
  PROVE  Of(p, IotOps)
<1> USE AtFacts DEF Of, Acts, IotOps, Return
<1>1. CASE StartRun(p) \/ StartParity(p) \/ OpenStage(p) \/ AskPlatform(p)
  BY <1>1 DEF StartRun, StartParity, OpenStage, AskPlatform
<1>2. CASE SaveStage(p)
  BY <1>2 DEF SaveStage, AfterStage
<1>3. CASE FinishRun(p) \/ ResolveAlerts(p) \/ RaiseAlert(p) \/ DeliverAlert(p)
  BY <1>3 DEF FinishRun, ResolveAlerts, RaiseAlert, DeliverAlert
<1>4. QED
  BY <1>1, <1>2, <1>3 DEF IotStep

LEMMA CardActs ==
  ASSUME NEW p, CardStep(p)
  PROVE  Of(p, CardOps)
<1> USE AtFacts DEF Of, Acts, CardOps, Return
<1>1. CASE CreatePass(p) \/ Register(p) \/ ReadCard(p) \/ Enrol(p) \/ ReadPass(p) \/ RecordTap(p)
  BY <1>1 DEF CreatePass, Register, ReadCard, Enrol, ReadPass, RecordTap
<1>2. CASE FindAttendee(p) \/ TakeCard(p) \/ GiveCard(p) \/ ClearCard(p)
  BY <1>2 DEF FindAttendee, TakeCard, GiveCard, ClearCard
<1>3. QED
  BY <1>1, <1>2 DEF CardStep

LEMMA WalletActs ==
  ASSUME NEW p, WalletStep(p)
  PROVE  Of(p, PassOps)
BY AtFacts DEF Of, Acts, PassOps, WalletStep, CreateWallet, ReadWallet, RetryWallet,
   MarkWallet, ReadLink, OpenLink, RevokeLink, Return

LEMMA FieldActs ==
  ASSUME NEW p, FieldStep(p)
  PROVE  Of(p, FieldOps)
BY AtFacts DEF Of, Acts, FieldOps, Syncs, Organizing, FieldStep, FetchReport, FindReport,
   StoreReport, Beat, ReadIncident, WriteIncident, Return

(* p is at work in the component with these operations and rows, or leaves *)
(* it alone.                                                               *)
Mine(p, step, ops, rows) ==
  (step /\ Op(p) \in ops) \/ (UNCHANGED rows /\ Op(p) \notin ops)

(* A step is one of one component and leaves the rows of the others alone. *)
LEMMA StepCases ==
  ASSUME NEW p, Step(p)
  PROVE  /\ Acts(p)
         /\ Mine(p, AccountStep(p), AccountOps, accountVars)
         /\ Mine(p, CredentialStep(p), CredentialOps, credentialVars)
         /\ Mine(p, BreakGlassStep(p), BreakGlassOps, breakGlassVars)
         /\ Mine(p, VenueStep(p), PlaceOps, venueVars)
         /\ Mine(p, ModerationStep(p), ModerationOps, moderationVars)
         /\ Mine(p, BrandingStep(p), BrandingOps, brandingVars)
         /\ Mine(p, CommercialStep(p), CommercialOps, commercialVars)
         /\ Mine(p, DriveStep(p), DriveOps, driveVars)
         /\ Mine(p, EmailStep(p), EmailOps, emailVars)
         /\ Mine(p, IotStep(p), IotOps, iotVars)
         /\ Mine(p, CardStep(p), CardOps, cardVars)
         /\ Mine(p, WalletStep(p), PassOps, walletVars)
         /\ Mine(p, FieldStep(p), FieldOps, fieldVars)
<1> DEFINE Goal == /\ Acts(p)
                   /\ Mine(p, AccountStep(p), AccountOps, accountVars)
                   /\ Mine(p, CredentialStep(p), CredentialOps, credentialVars)
                   /\ Mine(p, BreakGlassStep(p), BreakGlassOps, breakGlassVars)
                   /\ Mine(p, VenueStep(p), PlaceOps, venueVars)
                   /\ Mine(p, ModerationStep(p), ModerationOps, moderationVars)
                   /\ Mine(p, BrandingStep(p), BrandingOps, brandingVars)
                   /\ Mine(p, CommercialStep(p), CommercialOps, commercialVars)
                   /\ Mine(p, DriveStep(p), DriveOps, driveVars)
                   /\ Mine(p, EmailStep(p), EmailOps, emailVars)
                   /\ Mine(p, IotStep(p), IotOps, iotVars)
                   /\ Mine(p, CardStep(p), CardOps, cardVars)
                   /\ Mine(p, WalletStep(p), PassOps, walletVars)
                   /\ Mine(p, FieldStep(p), FieldOps, fieldVars)
<1> USE DEF Of, Mine, AccountOps, CredentialOps, BreakGlassOps, PlaceOps, ModerationOps,
            BrandingOps, CommercialOps, DriveOps, EmailOps, IotOps, CardOps, PassOps, FieldOps,
            Edits, Hashers, Syncs, Organizing
<1>1. ASSUME AccountStep(p),
            UNCHANGED <<credentialVars, breakGlassVars, venueVars, contentVars, systemVars, groundVars>>
      PROVE  Goal
  BY <1>1, AccountActs DEF peopleVars, contentVars, systemVars, groundVars
<1>2. ASSUME CredentialStep(p),
            UNCHANGED <<accountVars, breakGlassVars, venueVars, contentVars, systemVars, groundVars>>
      PROVE  Goal
  BY <1>2, CredentialActs DEF peopleVars, contentVars, systemVars, groundVars
<1>3. ASSUME BreakGlassStep(p),
            UNCHANGED <<accountVars, credentialVars, venueVars, contentVars, systemVars, groundVars>>
      PROVE  Goal
  BY <1>3, BreakGlassActs DEF peopleVars, contentVars, systemVars, groundVars
<1>4. ASSUME VenueStep(p),
            UNCHANGED <<peopleVars, contentVars, systemVars, groundVars>>
      PROVE  Goal
  BY <1>4, VenueActs DEF peopleVars, contentVars, systemVars, groundVars
<1>5. ASSUME ModerationStep(p),
            UNCHANGED <<peopleVars, venueVars, brandingVars, commercialVars, driveVars, systemVars, groundVars>>
      PROVE  Goal
  BY <1>5, ModerationActs DEF peopleVars, contentVars, systemVars, groundVars
<1>6. ASSUME BrandingStep(p),
            UNCHANGED <<peopleVars, venueVars, moderationVars, commercialVars, driveVars, systemVars, groundVars>>
      PROVE  Goal
  BY <1>6, BrandingActs DEF peopleVars, contentVars, systemVars, groundVars
<1>7. ASSUME CommercialStep(p),
            UNCHANGED <<peopleVars, venueVars, moderationVars, brandingVars, driveVars, systemVars, groundVars>>
      PROVE  Goal
  BY <1>7, CommercialActs DEF peopleVars, contentVars, systemVars, groundVars
<1>8. ASSUME DriveStep(p),
            UNCHANGED <<peopleVars, venueVars, moderationVars, brandingVars, commercialVars, systemVars, groundVars>>
      PROVE  Goal
  BY <1>8, DriveActs DEF peopleVars, contentVars, systemVars, groundVars
<1>9. ASSUME EmailStep(p),
            UNCHANGED <<peopleVars, venueVars, contentVars, iotVars, groundVars>>
      PROVE  Goal
  BY <1>9, EmailActs DEF peopleVars, contentVars, systemVars, groundVars
<1>10. ASSUME IotStep(p),
            UNCHANGED <<peopleVars, venueVars, contentVars, emailVars, groundVars>>
      PROVE  Goal
  BY <1>10, IotActs DEF peopleVars, contentVars, systemVars, groundVars
<1>11. ASSUME CardStep(p),
            UNCHANGED <<peopleVars, venueVars, contentVars, systemVars, walletVars, fieldVars>>
      PROVE  Goal
  BY <1>11, CardActs DEF peopleVars, contentVars, systemVars, groundVars
<1>12. ASSUME WalletStep(p),
            UNCHANGED <<peopleVars, venueVars, contentVars, systemVars, cardVars, fieldVars>>
      PROVE  Goal
  BY <1>12, WalletActs DEF peopleVars, contentVars, systemVars, groundVars
<1>13. ASSUME FieldStep(p),
            UNCHANGED <<peopleVars, venueVars, contentVars, systemVars, cardVars, walletVars>>
      PROVE  Goal
  BY <1>13, FieldActs DEF peopleVars, contentVars, systemVars, groundVars
<1>14. QED
  BY <1>1, <1>2, <1>3, <1>4, <1>5, <1>6, <1>7, <1>8, <1>9, <1>10, <1>11, <1>12, <1>13 DEF Step, PeopleStep, ContentStep, GroundStep, Deliver

(* A step that leaves the component with these operations alone.           *)
Elsewhere(ops) ==
  \/ \E p \in cast : Op(p) \notin ops /\ Acts(p)
  \/ UNCHANGED procVars
  \/ Restart(Loops, {})

(* What a step is to the accounts, for the case splits below; the same for *)
(* the other components.                                                   *)
LEMMA AccountCases ==
  ASSUME [Next]_vars
  PROVE  \/ \E p \in cast : AccountStep(p) /\ Op(p) \in AccountOps /\ Acts(p)
         \/ \E u \in Users : Lapse(u)
         \/ UNCHANGED accountVars /\ Elsewhere(AccountOps)
BY StepCases DEF Mine, Next, SessionsEnd, OtherClocks, Restarted, EndPasses, GoStale, LinkLapses,
   vars, peopleVars, Elsewhere

LEMMA CredentialCases ==
  ASSUME [Next]_vars
  PROVE  \/ \E p \in cast : CredentialStep(p) /\ Op(p) \in CredentialOps /\ Acts(p)
         \/ UNCHANGED credentialVars /\ Elsewhere(CredentialOps)
BY StepCases DEF Mine, Next, SessionsEnd, OtherClocks, Restarted, EndPasses, Lapse, GoStale,
   LinkLapses, vars, peopleVars, Elsewhere

LEMMA BreakGlassCases ==
  ASSUME [Next]_vars
  PROVE  \/ \E p \in cast : BreakGlassStep(p) /\ Op(p) \in BreakGlassOps /\ Acts(p)
         \/ \E s \in Sessions : EndPasses(s)
         \/ UNCHANGED breakGlassVars /\ Elsewhere(BreakGlassOps)
BY StepCases DEF Mine, Next, SessionsEnd, OtherClocks, Restarted, Lapse, GoStale, LinkLapses,
   vars, peopleVars, Elsewhere

-----------------------------------------------------------------------------
(* The threads. *)
Office == ProcOk /\ Thread

LEMMA ThreadInit == Init => Office
BY ProcStart DEF Init, Office

LEMMA ThreadStep == Office /\ [Next]_vars => Office'
<1> SUFFICES ASSUME Office, [Next]_vars PROVE Office'
  OBVIOUS
<1>1. CASE \E p \in cast : Step(p)
  BY <1>1, StepCases, ThreadKept DEF Office
<1>2. CASE UNCHANGED procVars
  BY <1>2 DEF Office, ProcOk, Thread, procVars, Together, Op
<1>3. CASE Restarted
  BY <1>3, RestartFacts DEF Office, Restarted
<1>4. QED
  BY <1>1, <1>2, <1>3 DEF Next, SessionsEnd, OtherClocks, EndPasses, Lapse, GoStale, LinkLapses, vars

(* In the memory build whoever is under way and waits for nothing is the   *)
(* one that takes the next step.                                           *)
LEMMA Undisturbed ==
  ASSUME NEW p, NEW q \in cast, Acts(p), build = "memory", pc[q] \notin Outside,
         Op(q) \notin Immediate
  PROVE  q = p
BY NobodyElse DEF Acts, Together

(* Without a step of a process nothing of the threads changes.             *)
LEMMA Idle ==
  ASSUME Office, UNCHANGED procVars
  PROVE  Office' /\ build' = build /\ cast' = cast
BY DEF Office, ProcOk, Thread, procVars, Together, Op

(* A step of a process moves it and nobody else.                           *)
LEMMA ActsFacts ==
  ASSUME NEW p \in cast, Office, Acts(p)
  PROVE  /\ Office' /\ build' = build /\ cast' = cast /\ restarts' = restarts
         /\ \A q \in cast : q # p => pc'[q] = pc[q] /\ copy'[q] = copy[q]
<1>1. PICK l, c : Go(p, l, c)
  BY DEF Acts
<1>2. QED
  BY <1>1, GoFacts, ThreadKept DEF Office

LEMMA ElsewhereOffice ==
  ASSUME NEW ops, Office, Elsewhere(ops)
  PROVE  Office' /\ build' = build /\ cast' = cast
BY Idle, ActsFacts, RestartFacts DEF Elsewhere, Office

(* Nothing that the processes of a component hold changes while another    *)
(* component takes a step; a restart takes everything away.                *)
LEMMA ElsewhereFacts ==
  ASSUME NEW ops, Office, Elsewhere(ops), NEW p \in cast, Op(p) \in ops
  PROVE  /\ p \in cast' /\ build' = build
         /\ \/ pc'[p] = pc[p] /\ copy'[p] = copy[p] /\ restarts' = restarts
            \/ /\ build = "postgres" /\ restarts' # 0
               /\ pc'[p] \in {"asleep", "start", "done"} /\ copy'[p] = Nothing
<1>1. CASE \E q \in cast : Op(q) \notin ops /\ Acts(q)
  BY <1>1, ActsFacts
<1>2. CASE UNCHANGED procVars
  BY <1>2 DEF procVars
<1>3. CASE Restart(Loops, {})
  BY <1>3, RestartFacts DEF Office
<1>4. QED
  BY <1>1, <1>2, <1>3 DEF Elsewhere

-----------------------------------------------------------------------------
(* The accounts.  What a process holds of a user was read from a row that  *)
(* was there, and rows stay; so writing a copy back makes no account.      *)
Readers == Edits \cup {"delete-user", "resend"}
Minting == {"invite", "resend", "forgot"}

UserRow(p) == IF pc[p] = "commit" THEN copy[p].user ELSE copy[p]

HoldsUser(p) == \/ Op(p) \in Readers /\ pc[p] = "write"
                \/ Op(p) = "update" /\ pc[p] = "look"
                \/ Op(p) = "delete-user" /\ pc[p] = "commit"
                \/ Op(p) \in Minting /\ pc[p] = "stamp"
                \/ Op(p) \in Hashers /\ pc[p] = "io"

There(u) == users[u].status # "absent"

UserRows ==
  /\ users \in [Users -> User]
  /\ \A u \in Users : ~There(u) => ~users[u].pw /\ users[u].invite = "none" /\ users[u].reset = "none"

(* In the memory build, besides, nobody takes the address from the one     *)
(* that has looked for it, and a copy that waits for no hash is as the row *)
(* is, but for the address that admin-user-update has put into it.         *)
Vacant(u, a) == Holders(a) \cap Colleagues(u) = {}

AccountProc(p) ==
  /\ Row(p) \in Users =>
       /\ HoldsUser(p) => UserRow(p) \in User /\ UserRow(p).status # "absent" /\ There(Row(p))
       /\ Op(p) \in Minting /\ pc[p] = "token" => There(Row(p))
  /\ build = "memory" /\ Row(p) \in Users =>
       /\ Op(p) \in {"invite", "create"} /\ pc[p] = "write" => Vacant(Row(p), users[Row(p)].email)
       /\ HoldsUser(p) /\ pc[p] # "io" =>
            /\ UserRow(p).gone = users[Row(p)].gone
            /\ \/ UserRow(p).email = users[Row(p)].email
               \/ Op(p) = "update" /\ pc[p] = "write" /\ Vacant(Row(p), copy[p].email)

AccountInv == Office /\ UserRows /\ \A p \in cast : AccountProc(p)

LEMMA AccountStart == Init => AccountInv
<1> SUFFICES ASSUME Init PROVE AccountInv
  OBVIOUS
<1>1. Office /\ \A p \in cast : pc[p] \in {"asleep", "start"}
  BY ThreadInit, ProcStart DEF Init
<1>2. UserRows
  BY AccountsAssumption DEF Init, AccountInit, UserRows, User, Token, There
<1>3. QED
  BY <1>1, <1>2 DEF AccountInv, AccountProc, HoldsUser

(* What the others hold stays right whatever a process does, so long as no *)
(* account goes.                                                           *)
LEMMA AccountOthers ==
  ASSUME NEW p \in cast, AccountInv, Acts(p), \A u \in Users : There(u) => There(u)'
  PROVE  /\ Office'
         /\ \A q \in cast : q # p => AccountProc(q)'
         /\ build' = build /\ cast' = cast
<1>1. /\ Office' /\ build' = build /\ cast' = cast
      /\ \A q \in cast : q # p => pc'[q] = pc[q] /\ copy'[q] = copy[q]
  BY ActsFacts DEF AccountInv
<1>2. ASSUME NEW q \in cast, q # p
      PROVE  AccountProc(q)'
  <2>1. AccountProc(q) /\ pc'[q] = pc[q] /\ copy'[q] = copy[q]
    BY <1>1, <1>2 DEF AccountInv
  <2>2. HoldsUser(q)' = HoldsUser(q) /\ UserRow(q)' = UserRow(q)
    BY <2>1 DEF HoldsUser, UserRow
  <2>3. build = "memory" => ~(HoldsUser(q) /\ pc[q] # "io")
    BY <1>2, Undisturbed DEF HoldsUser, Outside, Immediate, Readers, Edits, Minting, Hashers
  <2>4. build = "memory" => ~(Op(q) \in {"invite", "create"} /\ pc[q] = "write")
    BY <1>2, Undisturbed DEF Outside, Immediate
  <2>5. QED
    BY <1>1, <2>1, <2>2, <2>3, <2>4 DEF AccountProc
<1>3. QED
  BY <1>1, <1>2

(* One step of one process: it is enough to look at the rows and at what   *)
(* this process has in hand.                                               *)
LEMMA AccountOne ==
  ASSUME NEW p \in cast, AccountInv, Acts(p), UserRows',
         \A u \in Users : There(u) => There(u)',
         AccountProc(p)'
  PROVE  AccountInv'
BY AccountOthers DEF AccountInv

(* A copy that is written back, changed or not, leaves an account where    *)
(* there was one, and marks none as deleted or restored on its own.        *)
LEMMA AccountWrite ==
  ASSUME AccountInv, NEW p, NEW new,
         WriteUser(Row(p), new),
         Row(p) \in Users => new \in User /\ new.status # "absent" /\ There(Row(p))
  PROVE  UserRows' /\ \A u \in Users : /\ There(u)' <=> There(u)
                                       /\ u # Row(p) => users'[u] = users[u]
BY DEF AccountInv, UserRows, WriteUser, There, User

GoneStay == build = "memory" /\ ~Hashing => \A u \in Users : users[u].gone => users'[u].gone

StayApart ==
  build = "memory" /\ Apart => Apart' \/ \E p \in cast : Hashed(p) /\ Outdated(p)

(* A row that keeps its address, or gets one that no colleague has, leaves *)
(* the accounts apart.                                                     *)
LEMMA ApartWrite ==
  ASSUME UserRows, Apart, NEW u, NEW new,
         WriteUser(u, new),
         u \in Users => (There(u) /\ new.email = users[u].email) \/ Vacant(u, new.email)
  PROVE  Apart'
<1> SUFFICES ASSUME NEW v \in Users, NEW w \in Users,
                    There(v)', There(w)', Tenant[v] = Tenant[w],
                    users'[v].email = users'[w].email
             PROVE  v = w
  BY DEF Apart, There
<1>1. /\ \A x \in Users : x # u => users'[x] = users[x]
      /\ u \in Users => users'[u] = new
  BY DEF WriteUser, UserRows
<1>2. ASSUME NEW x \in Users, x # u, u \in Users, There(x)', Tenant[x] = Tenant[u],
             users'[x].email = new.email
      PROVE  FALSE
  <2>1. There(x) /\ users[x].email = new.email
    BY <1>1, <1>2 DEF There
  <2>2. ~Vacant(u, new.email)
    BY <1>2, <2>1 DEF Vacant, Holders, Colleagues, There
  <2>3. QED
    BY <1>2, <2>1, <2>2 DEF Apart, There
<1>3. QED
  BY <1>1, <1>2 DEF Apart, There

(* Each operation on an account. *)
LEMMA AccountKept ==
  ASSUME NEW p \in cast, AccountInv, AccountStep(p), Acts(p)
  PROVE  AccountInv' /\ GoneStay /\ StayApart
<1> DEFINE u == Row(p)
<1>0. /\ AccountProc(p) /\ UserRows /\ ProcOk
      /\ build' = build /\ cast' = cast
      /\ u' = u /\ Op(p)' = Op(p)
  BY ActsFacts DEF AccountInv, Office, Row, Op
<1>1. ASSUME UNCHANGED users, AccountProc(p)'
      PROVE  AccountInv' /\ GoneStay /\ StayApart
  <2>1. AccountInv'
    BY <1>0, <1>1, AccountOne DEF UserRows, There
  <2>2. QED
    BY <1>1, <2>1 DEF GoneStay, StayApart, Apart
<1>2. ASSUME NEW new, WriteUser(u, new), AccountProc(p)',
             u \in Users => new \in User /\ new.status # "absent" /\ There(u),
             u \in Users /\ build = "memory" /\ ~Hashing => (users[u].gone => new.gone),
             u \in Users /\ build = "memory"
               => \/ new.email = users[u].email \/ Vacant(u, new.email)
                  \/ Hashed(p) /\ Outdated(p)
      PROVE  AccountInv' /\ GoneStay /\ StayApart
  <2>1. UserRows' /\ \A v \in Users : (There(v)' <=> There(v)) /\ (v # u => users'[v] = users[v])
    BY <1>2, AccountWrite
  <2>2. GoneStay
    BY <1>0, <1>2, <2>1 DEF GoneStay, WriteUser, UserRows
  <2>3. StayApart
    BY <1>0, <1>2, ApartWrite DEF StayApart
  <2>4. QED
    BY <1>2, <2>1, <2>2, <2>3, AccountOne
<1>3. CASE ReadUser(p)
  <2>1. UNCHANGED users /\ Op(p) \in Readers
    BY <1>3 DEF ReadUser, accountVars, Readers
  <2>2. \/ pc'[p] = "done"
        \/ pc'[p] \in {"write", "look"} /\ copy'[p] = users[u] /\ There(u)
           /\ (pc'[p] = "look" => Op(p) = "update")
    BY <1>0, <1>3, GoFacts DEF ReadUser, Return, Refused, There
  <2>3. AccountProc(p)'
    BY <1>0, <2>1, <2>2 DEF AccountProc, HoldsUser, UserRow, UserRows, There, Readers, Edits, Minting
  <2>4. QED
    BY <1>1, <2>1, <2>3
<1>4. CASE EditUser(p)
  <2>1. /\ Op(p) \in Edits /\ pc[p] = "write" /\ pc'[p] = "done"
        /\ WriteUser(u, Edited(Op(p), copy[p]))
    BY <1>0, <1>4, GoFacts DEF EditUser, Return, At
  <2>2. AccountProc(p)'
    BY <1>0, <2>1 DEF AccountProc, HoldsUser
  <2>3. /\ u \in Users => copy[p] \in User /\ copy[p].status # "absent" /\ There(u)
        /\ u \in Users /\ build = "memory" =>
             /\ copy[p].gone = users[u].gone
             /\ copy[p].email = users[u].email \/ Vacant(u, copy[p].email)
    BY <1>0, <2>1 DEF AccountProc, HoldsUser, UserRow, Readers
  <2>4. u \in Users => /\ Edited(Op(p), copy[p]) \in User
                       /\ Edited(Op(p), copy[p]).status # "absent"
                       /\ Edited(Op(p), copy[p]).gone = copy[p].gone
                       /\ Edited(Op(p), copy[p]).email = copy[p].email
    BY <2>3 DEF Edited, User
  <2>5. QED
    BY <1>2, <2>1, <2>2, <2>3, <2>4
<1>5. CASE ListScopes(p)
  <2>1. /\ UNCHANGED users /\ Op(p) = "delete-user" /\ pc[p] = "write"
        /\ pc'[p] = "commit" /\ copy'[p].user = copy[p]
    BY <1>0, <1>5, GoFacts DEF ListScopes, accountVars, At
  <2>2. AccountProc(p)'
    BY <1>0, <2>1 DEF AccountProc, HoldsUser, UserRow, There, Readers, Edits, Minting
  <2>3. QED
    BY <1>1, <2>1, <2>2
<1>6. CASE DeleteUser(p)
  <2>1. /\ Op(p) = "delete-user" /\ pc[p] = "commit" /\ pc'[p] = "done"
        /\ WriteUser(u, [copy[p].user EXCEPT !.status = "deleted", !.gone = TRUE])
    BY <1>0, <1>6, GoFacts DEF DeleteUser, Return, At
  <2>2. AccountProc(p)'
    BY <1>0, <2>1 DEF AccountProc, HoldsUser
  <2>3. u \in Users => /\ copy[p].user \in User /\ There(u)
                       /\ build = "memory" => copy[p].user.email = users[u].email
    BY <1>0, <2>1 DEF AccountProc, HoldsUser, UserRow
  <2>4. QED
    BY <1>2, <2>1, <2>2, <2>3 DEF User
<1>7. CASE LookForAddress(p)
  <2>1. UNCHANGED users /\ Op(p) \in {"invite", "create"}
    BY <1>7 DEF LookForAddress, accountVars, At
  <2>2. pc'[p] = "done" \/ (pc'[p] = "write" /\ ~Taken(p))
    BY <1>0, <1>7, GoFacts DEF LookForAddress, Return
  <2>3. ~Taken(p) => Vacant(u, users[u].email)
    BY <2>1 DEF Taken, Vacant
  <2>4. Vacant(u, users[u].email)' <=> Vacant(u, users[u].email)
    BY <1>0, <2>1 DEF Vacant, Holders
  <2>5. AccountProc(p)'
    BY <1>0, <2>1, <2>2, <2>3, <2>4 DEF AccountProc, HoldsUser, Readers, Edits, Hashers
  <2>6. QED
    BY <1>1, <2>1, <2>5
<1>8. CASE CreateUser(p)
  <2>1. PICK status \in {"pending_invite", "active"} :
          /\ Op(p) \in {"invite", "create"} /\ pc[p] = "write"
          /\ pc'[p] = "done" \/ (pc'[p] = "token" /\ Op(p) = "invite")
          /\ users' = [users EXCEPT ![u] = [users[u] EXCEPT !.status = status]]
    BY <1>0, <1>8, GoFacts DEF CreateUser, Return, At, WriteUser
  <2>2. /\ users' \in [Users -> User]
        /\ \A v \in Users : /\ v # u => users'[v] = users[v]
                            /\ v = u => There(v)' /\ users'[v].gone = users[v].gone
    BY <1>0, <2>1 DEF UserRows, There, User
  <2>3. UserRows' /\ GoneStay /\ \A v \in Users : There(v) => There(v)'
    BY <1>0, <2>2 DEF UserRows, GoneStay, There
  <2>4. AccountProc(p)'
    BY <1>0, <2>1, <2>2 DEF AccountProc, HoldsUser, Readers, Edits, Hashers, Minting
  <2>5. StayApart
    <3>1. /\ WriteUser(u, [users[u] EXCEPT !.status = status])
          /\ u \in Users => [users[u] EXCEPT !.status = status].email = users[u].email
      BY <1>0, <2>1 DEF WriteUser, UserRows, User
    <3>2. build = "memory" /\ u \in Users => Vacant(u, users[u].email)
      BY <1>0, <2>1 DEF AccountProc
    <3>3. QED
      BY <1>0, <3>1, <3>2, ApartWrite DEF StayApart
  <2>6. QED
    BY <2>3, <2>4, <2>5, AccountOthers DEF AccountInv
<1>9. CASE DropInvite(p)
  <2>1. /\ Op(p) = "resend" /\ pc[p] = "write" /\ pc'[p] = "token"
        /\ WriteUser(u, [copy[p] EXCEPT !.invite = "none"])
    BY <1>0, <1>9, GoFacts DEF DropInvite, At
  <2>2. /\ u \in Users => copy[p] \in User /\ copy[p].status # "absent" /\ There(u)
        /\ u \in Users /\ build = "memory"
             => copy[p].gone = users[u].gone /\ copy[p].email = users[u].email
    BY <1>0, <2>1 DEF AccountProc, HoldsUser, UserRow, Readers
  <2>3. u \in Users => There(u)'
    BY <1>0, <2>1, <2>2 DEF WriteUser, UserRows, There, User
  <2>4. AccountProc(p)'
    BY <1>0, <2>1, <2>3 DEF AccountProc, HoldsUser, Readers, Edits, Hashers, Minting
  <2>5. QED
    BY <1>2, <2>1, <2>2, <2>4 DEF User, Token
<1>10. CASE Forgot(p)
  <2>1. UNCHANGED users /\ Op(p) = "forgot"
    BY <1>10 DEF Forgot, At
  <2>2. pc'[p] = "done" \/ (pc'[p] = "token" /\ There(u))
    BY <1>0, <1>10, GoFacts DEF Forgot, Return, There
  <2>3. AccountProc(p)'
    BY <1>0, <2>1, <2>2 DEF AccountProc, HoldsUser, Readers, Edits, Hashers, There
  <2>4. QED
    BY <1>1, <2>1, <2>3
<1>11. CASE ReadForToken(p)
  <2>1. /\ UNCHANGED users /\ Op(p) \in Minting /\ pc[p] = "token"
        /\ pc'[p] = "stamp" /\ copy'[p] = users[u]
    BY <1>0, <1>11, GoFacts DEF ReadForToken, accountVars, Minting, At
  <2>2. AccountProc(p)'
    BY <1>0, <2>1 DEF AccountProc, HoldsUser, UserRow, UserRows, There, Readers, Edits, Hashers, Minting
  <2>3. QED
    BY <1>1, <2>1, <2>2
<1>12. CASE StampToken(p)
  <2>1. PICK new \in {[copy[p] EXCEPT !.invite = "live"], [copy[p] EXCEPT !.reset = "live"]} :
          /\ Op(p) \in Minting /\ pc[p] = "stamp" /\ pc'[p] = "done"
          /\ WriteUser(u, new)
    BY <1>0, <1>12, GoFacts DEF StampToken, Return, Minting, At
  <2>2. AccountProc(p)'
    BY <1>0, <2>1 DEF AccountProc, HoldsUser
  <2>3. /\ u \in Users => copy[p] \in User /\ copy[p].status # "absent" /\ There(u)
        /\ u \in Users /\ build = "memory"
             => copy[p].gone = users[u].gone /\ copy[p].email = users[u].email
    BY <1>0, <2>1 DEF AccountProc, HoldsUser, UserRow
  <2>4. QED
    BY <1>2, <2>1, <2>2, <2>3 DEF User, Token
<1>13. CASE StartHash(p)
  <2>1. UNCHANGED users /\ Op(p) \in Hashers
    BY <1>13 DEF StartHash, accountVars
  <2>2. pc'[p] = "done" \/ (pc'[p] = "io" /\ copy'[p] = users[u] /\ (u \in Users => There(u)))
    BY <1>0, <1>13, GoFacts DEF StartHash, Return, MayHash, Hashers, UserRows, There
  <2>3. AccountProc(p)'
    BY <1>0, <2>1, <2>2 DEF AccountProc, HoldsUser, UserRow, UserRows, There, Hashers, Minting
  <2>4. QED
    BY <1>1, <2>1, <2>3
<1>14. CASE Hashed(p)
  <2>1. /\ Op(p) \in Hashers /\ pc[p] = "io" /\ pc'[p] = "done" /\ Hashing
    BY <1>0, <1>14, GoFacts DEF Hashed, Return, At, Hashing
  <2>2. AccountProc(p)'
    BY <1>0, <2>1 DEF AccountProc, HoldsUser
  <2>3. CASE UNCHANGED users
    BY <1>1, <2>2, <2>3
  <2>4. CASE ~UNCHANGED users
    <3>1. PICK new \in {[copy[p] EXCEPT !.pw = TRUE, !.status = "active", !.invite = "none"],
                        [copy[p] EXCEPT !.pw = TRUE, !.reset = "none"], copy[p]} :
            WriteUser(u, new)
      BY <1>14, <2>4 DEF Hashed
    <3>2. u \in Users => copy[p] \in User /\ copy[p].status # "absent" /\ There(u)
      BY <1>0, <2>1 DEF AccountProc, HoldsUser, UserRow
    <3>3. u \in Users => new \in User /\ new.status # "absent" /\ new.email = copy[p].email
      BY <3>1, <3>2 DEF User, Token
    <3>4. u \in Users => new.email = users[u].email \/ (Hashed(p) /\ Outdated(p))
      BY <1>14, <3>3 DEF Outdated
    <3>5. QED
      BY <1>2, <2>1, <2>2, <3>1, <3>2, <3>3, <3>4
  <2>5. QED
    BY <2>3, <2>4
<1>15. CASE ReadForScope(p) \/ AddScope(p) \/ RevokeScope(p)
  <2>1. UNCHANGED users /\ Op(p) \in {"scope-assign", "scope-revoke"}
    BY <1>15 DEF ReadForScope, AddScope, RevokeScope, accountVars, At
  <2>2. AccountProc(p)'
    BY <1>0, <2>1 DEF AccountProc, HoldsUser, Readers, Edits, Hashers, Minting
  <2>3. QED
    BY <1>1, <2>1, <2>2
<1>16. CASE Readdress(p)
  <2>1. /\ UNCHANGED users /\ Op(p) = "update" /\ pc[p] = "look"
    BY <1>16 DEF Readdress, accountVars, At
  <2>2. PICK a \in Addresses :
          \/ pc'[p] = "done"
          \/ /\ pc'[p] = "write" /\ copy'[p] = [copy[p] EXCEPT !.email = a]
             /\ a = copy[p].email \/ Vacant(u, a)
    BY <1>0, <1>16, GoFacts DEF Readdress, Return, Vacant
  <2>3. u \in Users => /\ copy[p] \in User /\ copy[p].status # "absent" /\ There(u)
                       /\ build = "memory"
                            => copy[p].gone = users[u].gone /\ copy[p].email = users[u].email
    BY <1>0, <2>1 DEF AccountProc, HoldsUser, UserRow
  <2>4. u \in Users /\ pc'[p] = "write" =>
          /\ copy'[p] \in User /\ copy'[p].status # "absent" /\ copy'[p].email = a
          /\ copy'[p].gone = copy[p].gone
    BY <2>2, <2>3 DEF User
  <2>5. Vacant(u, a)' <=> Vacant(u, a)
    BY <1>0, <2>1 DEF Vacant, Holders
  <2>6. AccountProc(p)'
    <3>1. CASE pc'[p] = "done"
      BY <1>0, <2>1, <3>1 DEF AccountProc, HoldsUser
    <3>2. CASE pc'[p] = "write"
      BY <1>0, <2>1, <2>2, <2>3, <2>4, <2>5, <3>2
      DEF AccountProc, HoldsUser, UserRow, There, Minting
    <3>3. QED
      BY <2>2, <3>1, <3>2
  <2>7. QED
    BY <1>1, <2>1, <2>6
<1>17. QED
  BY <1>3, <1>4, <1>5, <1>6, <1>7, <1>8, <1>9, <1>10, <1>11, <1>12, <1>13, <1>14, <1>15, <1>16
  DEF AccountStep

(* What a process has in hand stays right while it rests and the rows keep *)
(* what matters to it.                                                     *)
LEMMA AccountAtRest ==
  ASSUME NEW p \in cast, AccountProc(p), build' = build, pc'[p] = pc[p], copy'[p] = copy[p],
         \A u \in Users : /\ users'[u].status = users[u].status
                          /\ users'[u].gone = users[u].gone
                          /\ users'[u].email = users[u].email
  PROVE  AccountProc(p)'
<1>1. HoldsUser(p)' = HoldsUser(p) /\ UserRow(p)' = UserRow(p)
  BY DEF HoldsUser, UserRow
<1>2. \A u : There(u)' = There(u) \/ u \notin Users
  BY DEF There
<1>3. ASSUME NEW u, NEW a PROVE Vacant(u, a)' = Vacant(u, a)
  BY DEF Vacant, Holders, Colleagues
<1>4. CASE Row(p) \in Users
  <2>1. users'[Row(p)].gone = users[Row(p)].gone /\ users'[Row(p)].email = users[Row(p)].email
    BY <1>4
  <2>2. QED
    BY <1>1, <1>2, <1>3, <1>4, <2>1 DEF AccountProc
<1>5. CASE Row(p) \notin Users
  BY <1>5 DEF AccountProc
<1>6. QED
  BY <1>4, <1>5

LEMMA AccountRest ==
  ASSUME AccountInv, \/ \E u \in Users : Lapse(u)
                     \/ UNCHANGED accountVars /\ Elsewhere(AccountOps)
  PROVE  AccountInv' /\ GoneStay /\ StayApart
<1>1. CASE \E u \in Users : Lapse(u)
  <2>1. /\ UNCHANGED procVars /\ users' \in [Users -> User]
        /\ \A u \in Users : /\ users'[u].status = users[u].status
                            /\ users'[u].gone = users[u].gone
                            /\ users'[u].email = users[u].email
        /\ \A u \in Users : ~There(u) => users'[u] = users[u]
    BY <1>1 DEF Lapse, AccountInv, UserRows, There, User, Token
  <2>2. Office' /\ StayApart
    BY <2>1, Idle DEF AccountInv, StayApart, Apart, procVars
  <2>3. UserRows'
    BY <2>1 DEF AccountInv, UserRows, There
  <2>4. ASSUME NEW p \in cast PROVE AccountProc(p)'
    BY <2>1, AccountAtRest DEF AccountInv, procVars
  <2>5. QED
    BY <2>1, <2>2, <2>3, <2>4 DEF AccountInv, GoneStay, procVars
<1>2. CASE UNCHANGED accountVars /\ Elsewhere(AccountOps)
  <2>1. Office' /\ build' = build /\ cast' = cast
    BY <1>2, ElsewhereOffice DEF AccountInv
  <2>2. ASSUME NEW p \in cast PROVE AccountProc(p)'
    <3>1. CASE Op(p) \in AccountOps
      <4>1. \/ pc'[p] = pc[p] /\ copy'[p] = copy[p]
            \/ pc'[p] \in {"asleep", "start", "done"}
        BY <1>2, <3>1, ElsewhereFacts DEF AccountInv
      <4>2. CASE pc'[p] = pc[p] /\ copy'[p] = copy[p]
        BY <1>2, <2>1, <4>2, AccountAtRest DEF AccountInv, accountVars
      <4>3. CASE pc'[p] \in {"asleep", "start", "done"}
        BY <1>2, <2>1, <4>3 DEF AccountProc, HoldsUser
      <4>4. QED
        BY <4>1, <4>2, <4>3
    <3>2. CASE Op(p) \notin AccountOps
      BY <3>2 DEF AccountProc, HoldsUser, AccountOps, Readers, Edits, Minting
    <3>3. QED
      BY <3>1, <3>2
  <2>3. QED
    BY <1>2, <2>1, <2>2 DEF AccountInv, UserRows, There, Apart, StayApart, GoneStay, accountVars
<1>3. QED
  BY <1>1, <1>2

LEMMA AccountsStep == AccountInv /\ [Next]_vars => AccountInv' /\ GoneStay /\ StayApart
BY AccountCases, AccountKept, AccountRest

(* Invitations, creations and changes of an address that race for one      *)
(* leave it with one account of the tenant in the memory build, whatever   *)
(* else runs meanwhile; only the end of a password hash that writes an     *)
(* outdated address back can give it a second one.                         *)
THEOREM OneAccount == Spec => OneAccountPerAddress
<1>1. AccountInv /\ [Next]_vars
        => [build = "memory" /\ Apart =>
              Apart' \/ \E p \in cast : Hashed(p) /\ Outdated(p)]_vars
  BY AccountsStep DEF StayApart
<1>2. QED
  BY <1>1, AccountStart, AccountsStep, PTL DEF Spec, OneAccountPerAddress

(* No step of the memory build takes the mark of a deletion from an        *)
(* account, but the end of a password hash that was under way.             *)
THEOREM DeletedAccountsStayOut == Spec => DeletedStaysOut
<1>1. AccountInv /\ [Next]_vars => [build = "memory" /\ ~Hashing =>
        \A u \in Users : users[u].gone => users'[u].gone]_vars
  BY AccountsStep DEF GoneStay
<1>2. QED
  BY <1>1, AccountStart, AccountsStep, PTL DEF Spec, DeletedStaysOut

-----------------------------------------------------------------------------
(* The credentials hold what their types say, and so do the copies.        *)
Client == [status : {"absent", "active", "revoked"}, secret : Nat]

CredentialProc(p) ==
  /\ Op(p) \in {"use", "revoke-token"} /\ pc[p] = "write" /\ Row(p) \in Tokens
       => copy[p] \in {"absent", "active", "revoked"}
  /\ Op(p) \in {"call", "rotate", "revoke-client"} /\ pc[p] = "write" /\ Row(p) \in Clients
       => copy[p] \in Client

CredentialInv ==
  /\ Office
  /\ tokens \in [Tokens -> {"absent", "active", "revoked"}] /\ clients \in [Clients -> Client]
  /\ \A p \in cast : CredentialProc(p)

LEMMA CredentialStart == Init => CredentialInv
<1> SUFFICES ASSUME Init PROVE CredentialInv
  OBVIOUS
<1>1. Office /\ \A p \in cast : pc[p] \in {"asleep", "start"}
  BY ThreadInit, ProcStart DEF Init
<1>2. QED
  BY <1>1 DEF Init, CredentialInit, CredentialInv, CredentialProc, Client

LEMMA CredentialsStep == CredentialInv /\ [Next]_vars => CredentialInv'
<1> SUFFICES ASSUME CredentialInv, [Next]_vars PROVE CredentialInv'
  OBVIOUS
<1>1. ASSUME NEW p \in cast, CredentialStep(p), Acts(p)
      PROVE  CredentialInv'
  <2>1. /\ Office' /\ cast' = cast /\ CredentialProc(p) /\ ProcOk
        /\ \A q \in cast : q # p => CredentialProc(q)'
    BY <1>1, ActsFacts DEF CredentialInv, CredentialProc, Office
  <2>2. ASSUME tokens' \in [Tokens -> {"absent", "active", "revoked"}], clients' \in [Clients -> Client],
               CredentialProc(p)'
        PROVE  CredentialInv'
    BY <2>1, <2>2 DEF CredentialInv
  <2>3. CASE Issue(p)
    <3>1. pc'[p] = "done"
      BY <2>1, <2>3, GoFacts DEF Issue, Return
    <3>2. QED
      BY <2>2, <2>3, <3>1 DEF Issue, CredentialInv, CredentialProc, Client
  <2>4. CASE FindToken(p) \/ FindToRevoke(p) \/ FindClient(p) \/ ReadClient(p)
    <3>1. UNCHANGED credentialVars
      BY <2>4 DEF FindToken, FindToRevoke, FindClient, ReadClient
    <3>2. \/ pc'[p] = "done"
          \/ Op(p) \in {"use", "revoke-token"} /\ copy'[p] \in {tokens[Row(p)], "revoked"}
          \/ /\ Op(p) \in {"call", "rotate", "revoke-client"}
             /\ LET row == clients[Row(p)]
                IN  copy'[p] \in {row, [row EXCEPT !.secret = @ + 1], [row EXCEPT !.status = "revoked"]}
      BY <2>1, <2>4, GoFacts DEF FindToken, FindToRevoke, FindClient, ReadClient, Return, At
    <3>3. CredentialProc(p)'
      BY <3>1, <3>2 DEF CredentialProc, CredentialInv, Client
    <3>4. QED
      BY <2>2, <3>1, <3>3 DEF CredentialInv, credentialVars
  <2>5. CASE WriteToken(p) \/ WriteClient(p)
    <3>1. pc'[p] = "done"
      BY <2>1, <2>5, GoFacts DEF WriteToken, WriteClient, Return
    <3>2. tokens' \in [Tokens -> {"absent", "active", "revoked"}] /\ clients' \in [Clients -> Client]
      BY <2>1, <2>5 DEF WriteToken, WriteClient, CredentialInv, CredentialProc, At
    <3>3. QED
      BY <2>2, <3>1, <3>2 DEF CredentialProc
  <2>6. QED
    BY <1>1, <2>3, <2>4, <2>5 DEF CredentialStep
<1>2. CASE UNCHANGED credentialVars /\ Elsewhere(CredentialOps)
  <2>1. Office' /\ cast' = cast
    BY <1>2, ElsewhereOffice DEF CredentialInv
  <2>2. ASSUME NEW p \in cast PROVE CredentialProc(p)'
    BY <1>2, <2>1, ElsewhereFacts DEF CredentialInv, CredentialProc, CredentialOps
  <2>3. QED
    BY <1>2, <2>1, <2>2 DEF CredentialInv, credentialVars
<1>3. QED
  BY <1>1, <1>2, CredentialCases

-----------------------------------------------------------------------------
(* Break-glass access.  There are sessions in the memory build alone, and  *)
(* who has asked for one does not ask again.                               *)
BreakGlassInv ==
  /\ Office /\ sessions \in [Sessions -> Session]
  /\ \A s \in Sessions : sessions[s].status # "absent" =>
       /\ build = "memory"
       /\ \A p \in cast : Op(p) \in {"ask", "admin-ask"} /\ Row(p) = s => pc[p] = "done"

LEMMA BreakGlassStart == Init => BreakGlassInv
BY ThreadInit DEF Init, BreakGlassInit, BreakGlassInv, Session

NotBack ==
  (\A p \in cast : Op(p) # "bg-approve") =>
    \A s \in Sessions : sessions[s].status \in {"rejected", "revoked", "expired"}
                          => sessions'[s].status \notin {"requested", "active"}

LEMMA BreakGlassKept ==
  ASSUME NEW p \in cast, BreakGlassInv, BreakGlassStep(p), Acts(p)
  PROVE  BreakGlassInv' /\ NotBack
<1> DEFINE s == Row(p)
<1>1. /\ Office' /\ build' = build /\ cast' = cast /\ ProcOk
      /\ \A q \in cast : q # p => pc'[q] = pc[q]
  BY ActsFacts DEF BreakGlassInv, Office
<1>2. ASSUME NEW new, sessions' = [sessions EXCEPT ![s] = new],
             s \in Sessions => new \in Session /\ sessions[s].status # "absent",
             Op(p) \notin {"ask", "admin-ask"}
      PROVE  BreakGlassInv'
  BY <1>1, <1>2 DEF BreakGlassInv
<1>3. ASSUME UNCHANGED sessions, Op(p) \notin {"ask", "admin-ask"} \/ pc'[p] = "done"
      PROVE  BreakGlassInv' /\ NotBack
  BY <1>1, <1>3 DEF BreakGlassInv, NotBack, Session
<1>4. CASE Ask(p)
  <2>1. /\ Op(p) \in {"ask", "admin-ask"} /\ pc[p] = "start" /\ pc'[p] = "done"
        /\ \/ UNCHANGED sessions
           \/ /\ build # "postgres"
              /\ \E ends \in {"later", "never"} :
                   sessions' = [sessions EXCEPT ![s] = [status |-> "requested", by |-> p[3],
                                                        first |-> FALSE, ends |-> ends]]
    BY <1>1, <1>4, GoFacts DEF Ask, WriteSession, Return, At, Who
  <2>2. /\ p[3] \in 0 .. 3
        /\ \A q \in cast : Op(q) \in {"ask", "admin-ask"} /\ Row(q) = s => q = p
    BY <1>1, <2>1, BreakGlassAssumption DEF ProcOk
  <2>3. build \in {"memory", "postgres"}
    BY <1>1, BuildsAssumption DEF ProcOk
  <2>4. s \in Sessions => sessions[s].status = "absent"
    BY <2>1 DEF BreakGlassInv
  <2>5. CASE UNCHANGED sessions
    BY <1>3, <2>1, <2>5
  <2>6. CASE ~UNCHANGED sessions
    <3>1. PICK ends \in {"later", "never"} :
                   sessions' = [sessions EXCEPT ![s] = [status |-> "requested", by |-> p[3],
                                                        first |-> FALSE, ends |-> ends]]
      BY <2>1, <2>6
    <3>2. BreakGlassInv'
      BY <1>1, <2>1, <2>2, <2>3, <2>6, <3>1 DEF BreakGlassInv, Session
    <3>3. NotBack
      BY <2>4, <3>1 DEF NotBack, BreakGlassInv
    <3>4. QED
      BY <3>2, <3>3
  <2>7. QED
    BY <2>5, <2>6
<1>5. CASE Approve(p)
  <2>1. Op(p) = "bg-approve"
    BY <1>5 DEF Approve, At
  <2>2. BreakGlassInv'
    <3>1. CASE Missing(p)
      BY <1>3, <2>1, <3>1 DEF Missing
    <3>2. CASE ~Missing(p)
      <4>1. PICK new \in {[sessions[s] EXCEPT !.status = "active"],
                          [sessions[s] EXCEPT !.first = TRUE, !.status = "partially_approved"]} :
              sessions[s].status # "absent" /\ sessions' = [sessions EXCEPT ![s] = new]
        BY <1>5, <3>2 DEF Approve, WriteSession
      <4>2. s \in Sessions => new \in Session
        BY <4>1 DEF BreakGlassInv, Session
      <4>3. QED
        BY <1>2, <2>1, <4>1, <4>2
    <3>3. QED
      BY <3>1, <3>2
  <2>3. QED
    BY <2>1, <2>2 DEF NotBack
<1>6. CASE Revoke(p)
  <2>1. Op(p) = "bg-revoke"
    BY <1>6 DEF Revoke, At
  <2>2. BreakGlassInv'
    BY <1>2, <1>3, <1>6, <2>1 DEF Revoke, Missing, WriteSession, BreakGlassInv, Session
  <2>3. NotBack
    BY <1>6 DEF Revoke, Missing, WriteSession, BreakGlassInv, Session, NotBack
  <2>4. QED
    BY <2>2, <2>3
<1>7. CASE AdminDecide(p)
  <2>1. Op(p) \in {"admin-approve", "admin-reject", "admin-revoke"}
    BY <1>7 DEF AdminDecide, At
  <2>2. CASE UNCHANGED sessions
    BY <1>3, <2>1, <2>2
  <2>3. CASE ~UNCHANGED sessions
    <3>1. PICK new \in {[sessions[s] EXCEPT !.status = "active", !.ends = "later"],
                        [sessions[s] EXCEPT !.status = "rejected"],
                        [sessions[s] EXCEPT !.status = "revoked"]} :
            /\ sessions' = [sessions EXCEPT ![s] = new]
            /\ sessions[s].status \in {"requested", "active"}
      BY <1>7, <2>3 DEF AdminDecide, MayDecide, WriteSession
    <3>2. s \in Sessions => new \in Session
      BY <3>1 DEF BreakGlassInv, Session
    <3>3. BreakGlassInv'
      BY <1>2, <2>1, <3>1, <3>2
    <3>4. NotBack
      BY <3>1 DEF NotBack, BreakGlassInv, Session
    <3>5. QED
      BY <3>3, <3>4
  <2>4. QED
    BY <2>2, <2>3
<1>8. CASE UseSession(p)
  <2>1. Op(p) = "bg-use"
    BY <1>8 DEF UseSession, At
  <2>2. BreakGlassInv'
    BY <1>2, <1>3, <1>8, <2>1 DEF UseSession, WriteSession, BreakGlassInv, Session
  <2>3. NotBack
    BY <1>8 DEF UseSession, WriteSession, BreakGlassInv, Session, NotBack
  <2>4. QED
    BY <2>2, <2>3
<1>9. CASE ExpireSessions(p)
  <2>1. Op(p) = "bg-expiry"
    BY <1>9 DEF ExpireSessions, At
  <2>2. /\ sessions' \in [Sessions -> Session]
        /\ \A t \in Sessions : /\ sessions[t].status = "absent" <=> sessions'[t].status = "absent"
                               /\ sessions'[t].status \in {sessions[t].status, "expired"}
    BY <1>9 DEF ExpireSessions, Overdue, BreakGlassInv, Session
  <2>3. QED
    BY <1>1, <2>1, <2>2 DEF BreakGlassInv, NotBack
<1>10. QED
  BY <1>4, <1>5, <1>6, <1>7, <1>8, <1>9 DEF BreakGlassStep

LEMMA BreakGlassesStep == BreakGlassInv /\ [Next]_vars => BreakGlassInv' /\ NotBack
<1> SUFFICES ASSUME BreakGlassInv, [Next]_vars PROVE BreakGlassInv' /\ NotBack
  OBVIOUS
<1>1. CASE \E s \in Sessions : EndPasses(s)
  <2>1. /\ UNCHANGED procVars /\ sessions' \in [Sessions -> Session]
        /\ \A t \in Sessions : sessions'[t].status = sessions[t].status
    BY <1>1 DEF EndPasses, BreakGlassInv, Session
  <2>2. QED
    BY <2>1, Idle DEF BreakGlassInv, NotBack, procVars
<1>2. CASE UNCHANGED breakGlassVars /\ Elsewhere(BreakGlassOps)
  <2>1. Office' /\ build' = build /\ cast' = cast
    BY <1>2, ElsewhereOffice DEF BreakGlassInv
  <2>2. \A p \in cast : Op(p) \in BreakGlassOps => pc'[p] = pc[p] \/ build = "postgres"
    BY <1>2, ElsewhereFacts DEF BreakGlassInv
  <2>3. QED
    BY <1>2, <2>1, <2>2 DEF BreakGlassInv, NotBack, breakGlassVars, BreakGlassOps
<1>3. QED
  BY <1>1, <1>2, BreakGlassKept, BreakGlassCases

(* Under /admin/break-glass a session that was rejected, revoked or has    *)
(* expired never comes back, whoever decides, revokes or asks when.        *)
THEOREM TakenBackForGood == Spec => TakenBack
<1>1. BreakGlassInv /\ [Next]_vars => [(\A p \in cast : Op(p) # "bg-approve") =>
        \A s \in Sessions : sessions[s].status \in {"rejected", "revoked", "expired"}
                              => sessions'[s].status \notin {"requested", "active"}]_vars
  BY BreakGlassesStep DEF NotBack
<1>2. QED
  BY <1>1, BreakGlassStart, BreakGlassesStep, PTL DEF Spec, TakenBack
=============================================================================
