SPECIFICATION Spec
CONSTANTS
  Backends = {"memory", "postgres"}
  Casts <- AllCasts
  MaxRestarts = 1
  Nothing = Nothing
  Users <- UsersHere
  Addresses = {"old", "new"}
  Address <- AddressHere
  Tenant <- TenantHere
  Invitees <- InviteesHere
  Tokens = {"t1"}
  Clients = {"c1"}
  Sessions = {"s1", "s2"}
  Halls = {"h1", "h2"}
  Stalls = {"b1"}
  Packages = {"k1"}
  Devices = {"e1", "e2"}
  Members = {"m1"}
  Items = {"i1", "i2"}
  Editors = {"ann"}
  Approvers = {"ann", "bob"}
  MaxBrandings = 2
  Partners = {"x1", "x2"}
  Deals = {"deal"}
  Payouts = {"payout"}
  Providers = {"google_drive", "onedrive"}
  Folders = {"f1"}
  Emails = {"m1", "m2"}
  MaxAttempts = 3
  ListLimit = 2
  Streams <- StreamsHere
  Repeated = 2
  Cards = {"n1"}
  PassTypes = {"vip"}
  Wallets = {"w1"}
  Reports = {"r1", "r2"}
INVARIANTS OfficeTypeOk VenueInStep ModerationInStep OneDrivePerProvider RunsAreClosed AlertsMatchLastRun CardsInStep
PROPERTIES OneAccountPerAddress DeletedStaysOut TakenBack BreakGlassEnds ReviewedContentKept EmailSettles LinksEndForGood IncidentsKept
CHECK_DEADLOCK FALSE
