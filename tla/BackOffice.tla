----------------------------- MODULE BackOffice -----------------------------
(***************************************************************************)
(* The routes and jobs behind the scenes of an event: accounts and         *)
(* credentials, break-glass access, the venue and its hardware, the        *)
(* content of vendors and the branding, shared documents, commercial       *)
(* records, transactional e-mail, the operations of the IoT integration,   *)
(* and on the ground cards, wallet passes and incidents.  The components   *)
(* touch each other's rows only as far as the modules say; a cast names    *)
(* the processes of one of them, or of several.                            *)
(***************************************************************************)
EXTENDS Accounts, Credentials, BreakGlass, Venue, Moderation, Branding, Commercial,
        DriveAccess, EmailDelivery, IotOperations, Cards, WalletPasses, FieldReports
SeqX == INSTANCE SequencesExt

contentVars == <<moderationVars, brandingVars, commercialVars, driveVars>>
systemVars  == <<emailVars, iotVars>>
peopleVars  == <<accountVars, credentialVars, breakGlassVars>>
groundVars  == <<cardVars, walletVars, fieldVars>>

vars == <<procVars, peopleVars, venueVars, contentVars, systemVars, groundVars>>

(* What goes round again: the jobs, and those who try again. *)
Loops == {"bg-expiry", "drive-refresh", "email-batch", "iot-run"}

Has(ops) == \E p \in cast : Op(p) \in ops

VenueOps == {"hall-create", "package-create", "device-create", "assign"}

WalletOps == {"wallet-create", "wallet-retry"}

VenueDefault == halls = {} /\ stage = "draft" /\ \A d \in Devices : devices[d] = "absent"

(* What a cast never asks about starts in one way only, and a process with *)
(* nobody beside it in one build.                                          *)
Init ==
  /\ ProcInit({}) /\ (Cardinality(cast) > 1 \/ build = "memory")
  /\ AccountInit /\ (Has({"forgot"}) \/ \A a \in Addresses : asked[a] = 0)
  /\ CredentialInit /\ BreakGlassInit
  /\ VenueInit /\ (Has(VenueOps) \/ VenueDefault)
  /\ ModerationInit /\ BrandingInit /\ CommercialInit /\ DriveInit
  /\ EmailInit /\ (Has({"email-batch"}) \/ ahead = 0)
  /\ IotInit
  /\ CardsInit /\ FieldInit
  /\ WalletInit /\ (Has(WalletOps) \/ walletMode = "disabled")

PeopleStep(p) ==
  \/ AccountStep(p) /\ UNCHANGED <<credentialVars, breakGlassVars>>
  \/ CredentialStep(p) /\ UNCHANGED <<accountVars, breakGlassVars>>
  \/ BreakGlassStep(p) /\ UNCHANGED <<accountVars, credentialVars>>

ContentStep(p) ==
  \/ ModerationStep(p) /\ UNCHANGED <<brandingVars, commercialVars, driveVars>>
  \/ BrandingStep(p) /\ UNCHANGED <<moderationVars, commercialVars, driveVars>>
  \/ CommercialStep(p) /\ UNCHANGED <<moderationVars, brandingVars, driveVars>>
  \/ DriveStep(p) /\ UNCHANGED <<moderationVars, brandingVars, commercialVars>>

GroundStep(p) ==
  \/ CardStep(p) /\ UNCHANGED <<walletVars, fieldVars>>
  \/ WalletStep(p) /\ UNCHANGED <<cardVars, fieldVars>>
  \/ FieldStep(p) /\ UNCHANGED <<cardVars, walletVars>>

Expire(p) ==
  BreakGlassStep(p) /\ UNCHANGED <<accountVars, credentialVars, venueVars, contentVars, systemVars, groundVars>>

Deliver(p) ==
  EmailStep(p) /\ UNCHANGED <<peopleVars, venueVars, contentVars, iotVars, groundVars>>

Step(p) ==
  \/ PeopleStep(p) /\ UNCHANGED <<venueVars, contentVars, systemVars, groundVars>>
  \/ VenueStep(p) /\ UNCHANGED <<peopleVars, contentVars, systemVars, groundVars>>
  \/ ContentStep(p) /\ UNCHANGED <<peopleVars, venueVars, systemVars, groundVars>>
  \/ Deliver(p)
  \/ IotStep(p) /\ UNCHANGED <<peopleVars, venueVars, contentVars, emailVars, groundVars>>
  \/ GroundStep(p) /\ UNCHANGED <<peopleVars, venueVars, contentVars, systemVars>>

SessionsEnd ==
  /\ \E s \in Sessions : EndPasses(s)
  /\ UNCHANGED <<accountVars, credentialVars, venueVars, contentVars, systemVars, groundVars>>

OtherClocks ==
  \/ /\ \E u \in Users : Lapse(u)
     /\ UNCHANGED <<credentialVars, breakGlassVars, venueVars, contentVars, systemVars, groundVars>>
  \/ /\ \E s \in DOMAIN points : GoStale(s)
     /\ UNCHANGED <<peopleVars, venueVars, contentVars, emailVars, groundVars>>
  \/ /\ \E i \in DOMAIN shortLinks : LinkLapses(i)
     /\ UNCHANGED <<peopleVars, venueVars, contentVars, systemVars, cardVars, fieldVars>>

(* A restart ends what is under way; it is looked at where jobs go on.     *)
Restarted ==
  /\ Has(Loops) /\ Restart(Loops, {})
  /\ UNCHANGED <<peopleVars, venueVars, contentVars, systemVars, groundVars>>

Next == SessionsEnd \/ OtherClocks \/ Restarted \/ \E p \in cast : Step(p)

(* The jobs come round.  The e-mail batches of the memory build keep the   *)
(* thread from each other again and again: the event loop serves each in   *)
(* its turn.                                                               *)
Batches == {p \in UNION Casts : Op(p) = "email-batch"}

Fairness == /\ WF_vars(SessionsEnd)
            /\ WF_vars(\E p \in cast : Op(p) = "bg-expiry" /\ Expire(p))
            /\ \A p \in Batches : SF_vars(p \in cast /\ Deliver(p))

Spec == Init /\ [][Next]_vars /\ Fairness
-----------------------------------------------------------------------------
OfficeTypeOk ==
  /\ build \in Backends /\ cast \in Casts /\ restarts \in 0 .. MaxRestarts
  /\ users \in [Users -> User] /\ scopes \in [Users -> Nat] /\ asked \in [Addresses -> 0 .. 3]
  /\ tokens \in [Tokens -> {"absent", "active", "revoked"}]
  /\ clients \in [Clients -> [status : {"absent", "active", "revoked"}, secret : Nat]]
  /\ sessions \in [Sessions -> Session]
  /\ halls \subseteq Halls /\ stalls \in [Stalls -> Halls \cup {Nothing}]
  /\ packages \subseteq Packages /\ members \in [Members -> Packages \cup {Nothing}]
  /\ devices \in [Devices -> Hardware] /\ placed \cup former \subseteq Devices \X Stalls
  /\ \A i \in Items : items[i].state \in DOMAIN Transitions
  /\ shown \in Items \cup {Nothing}
  /\ \A i \in DOMAIN brandings : brandings[i].status \in {"active", "published"}
  /\ partners \in [Partners -> {"active", "inactive"}]
  /\ \A y \in Payouts : payouts[y].status \in PayoutStatuses \cup {"absent"}
  /\ \A i \in DOMAIN drives : drives[i].status \in {"active", "disconnected", "error"}
  /\ \A e \in Emails : emails[e].attempts <= MaxAttempts
  /\ \A i \in DOMAIN runs : runs[i] \in RunStatuses
  /\ health \in {Levels[i] : i \in 1 .. 4} \cup {Nothing}
  /\ parity \in {"passed", "failed", Nothing}
  /\ passes \in [PassTypes -> Behaviours \cup {"absent"}]
  /\ \A t \in cardTaps : t.holder \in DOMAIN attendees
  /\ \A w \in Wallets : wallets[w].status \in WalletStatuses /\ wallets[w].link \in 0 .. Len(shortLinks)
  /\ \A i \in DOMAIN shortLinks : shortLinks[i].status \in LinkStatuses

(* A deleted account stays deleted: no route takes the mark away again, as *)
(* long as nobody who read the account before is still hashing a password. *)
Hashing == \E p \in cast : Op(p) \in Hashers /\ pc[p] = "io"

DeletedStaysOut ==
  [][build = "memory" /\ ~Hashing =>
       \A u \in Users : users[u].gone => users'[u].gone]_vars

(* What activate answers, "Deleted users cannot be reactivated", said of   *)
(* every route.                                                            *)
DeletedIsFinal ==
  [][build = "memory" => \A u \in Users : users[u].gone => users'[u].gone]_vars

(* In the memory build one step alone gives two accounts of a tenant the   *)
(* same e-mail address, however many invitations, creations and changes of *)
(* an address ask for it: a login, or another route that hashed a password *)
(* meanwhile, writes back an address that admin-user-update has changed,   *)
(* and that somebody else may have taken since.                            *)
Apart ==
  \A u, v \in Users : users[u].status # "absent" /\ users[v].status # "absent"
                        /\ Tenant[u] = Tenant[v] /\ users[u].email = users[v].email => u = v

Outdated(p) == copy[p].email # users[Row(p)].email

OneAccountPerAddress ==
  [][build = "memory" /\ Apart => Apart' \/ \E p \in cast : Hashed(p) /\ Outdated(p)]_vars

(* A session that was rejected or revoked over /admin/break-glass stays    *)
(* so: the older approval is what brings one back.                         *)
TakenBack ==
  [][(\A p \in cast : Op(p) # "bg-approve") =>
       \A s \in Sessions : sessions[s].status \in {"rejected", "revoked", "expired"}
                             => sessions'[s].status \notin {"requested", "active"}]_vars

(* A session whose end was set ends, though nobody asks for it again.      *)
BreakGlassEnds ==
  \A s \in Sessions :
    sessions[s].status = "active" /\ sessions[s].ends # "never" /\ <<"bg-expiry", "", 1>> \in cast
      ~> sessions[s].status # "active"

(* The venue hangs together, whatever races: a stall stands in a hall that *)
(* exists, an active assignment is at a stall that exists, and no device   *)
(* has two.  In the memory build, besides, no stall has two, and a device  *)
(* is marked as assigned while it has an assignment and no longer.         *)
VenueInStep ==
  /\ \A s \in Stalls : stalls[s] \in halls \cup {Nothing}
  /\ \A a \in placed : stalls[a[2]] # Nothing
  /\ \A a, b \in placed : a[1] = b[1] => a = b
  /\ build = "memory" =>
       /\ \A a, b \in placed : a[2] = b[2] => a = b
       /\ (\A p \in cast : pc[p] # "mark") =>
            \A d \in Devices : devices[d] \in {"assigned", "live"} <=> \E a \in placed : a[1] = d

(* In the memory build a profile has one item in the making and at most    *)
(* one approved, which is the one it shows; the links are those of what is *)
(* shown, even after somebody has superseded it by hand.                   *)
ModerationInStep ==
  build = "memory" =>
    /\ Cardinality(PendingItems) <= 1
    /\ WithState("approved") \subseteq {shown}
    /\ shown # Nothing => /\ items[shown].state \in {"approved", "superseded"}
                          /\ links = items[shown].payload

(* In the memory build what a reviewer decides on is what was submitted:   *)
(* from the submission to the decision the payload stays.                  *)
ReviewedContentKept ==
  [][build = "memory" =>
       \A i \in Items : items[i].state \in {"submitted", "under_review"}
                          => items'[i].payload = items[i].payload]_vars

(* A stall has one active drive of each provider in the memory build,      *)
(* however many flows come back at once.                                   *)
OneDrivePerProvider ==
  build = "memory" => \A x \in Providers : Cardinality(ActiveOf(x)) <= 1

(* Every e-mail at the head of the queue is sent or given up, for good:    *)
(* batches that overlap may send it again and write old counts back, but   *)
(* not for ever.                                                           *)
EmailSettles ==
  \A e \in Emails :
    emails[e].status = "queued" /\ ahead = 0 /\ <<"email-batch", "", 1>> \in cast
      ~> [](emails[e].status # "queued")

(* Whatever its steps throw, a run is closed before its caller gets an     *)
(* answer, but for a restart of the server.                                *)
RunsAreClosed ==
  restarts = 0 /\ (\A p \in cast : Op(p) = "iot-run" => pc[p] \in {"start", "done"})
    => \A i \in DOMAIN runs : runs[i] # "running"

(* After a run, if nothing else routed alerts, there is an open alert for  *)
(* each thing that is wrong now, and for nothing else.                     *)
OpenFor(code) == \E i \in DOMAIN alerts : alerts[i].open /\ alerts[i].code = code

Alone == /\ restarts = 0
         /\ \E p \in cast : /\ Op(p) = "iot-run" /\ pc[p] = "start"
                            /\ \A q \in cast \ {p} : Op(q) \notin {"iot-run", "iot-parity"}

AlertsMatchLastRun ==
  Alone /\ runs # <<>> =>
    /\ OpenFor("IOT_RUN_FAILED") <=> runs[Len(runs)] = "failed"
    /\ OpenFor("IOT_HEALTH_CRITICAL") <=> health \in {"critical", "failed"}
    /\ OpenFor("IOT_PARITY_FAILED") <=> parity = "failed"

(* A card has one holder, as long as nobody gives it away in the memory    *)
(* build without force; and as long as no card changes hands, all its taps *)
(* are recorded on one attendee, the first taps included.                  *)
NoneOf(ops) == \A p \in cast : Op(p) \notin ops

CardsInStep ==
  /\ build = "postgres" \/ NoneOf({"card-set"}) => \A c \in Cards : Cardinality(HoldersOf(c)) <= 1
  /\ NoneOf({"card-set", "card-force", "card-clear"}) =>
       \A t, u \in cardTaps : t.card = u.card => t.holder = u.holder

(* A short link that is revoked, or whose time is over, never works again, *)
(* whichever stale row is written back.                                    *)
LinksEndForGood ==
  [][\A i \in DOMAIN shortLinks :
       shortLinks[i].status # "active" => shortLinks'[i].status # "active"]_vars

(* However often the platform delivers an incident there is one of it, and *)
(* what an organizer wrote on it stays; over Postgres as long as no two    *)
(* organizers write at a time.                                             *)
OneOrganizer == Cardinality({p \in cast : Op(p) \in Organizing}) <= 1

IncidentsKept ==
  [][/\ \A i, j \in DOMAIN incidents' : incidents'[i].cursor = incidents'[j].cursor => i = j
     /\ build = "memory" \/ OneOrganizer =>
          \A i \in DOMAIN incidents :
            /\ incidents[i].notes \subseteq incidents'[i].notes
            /\ SeqX!IsPrefix(incidents[i].history, incidents'[i].history)]_vars
=============================================================================
