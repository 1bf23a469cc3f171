SPECIFICATION ServicesSpec
CONSTANTS
  c1 = c1  c2 = c2  c3 = c3  c4 = c4  buying = buying  paying = paying  m1 = m1  m2 = m2  m3 = m3  k1 = k1  k2 = k2
  None = None
  Call = {c1, c2, c3, c4}
  Endpoint = {buying, paying}
  EndpointOf <- TwoRoutes
  MaxCrashes = 2
  Mover = {m1, m2, m3}
  LedgerKey = {k1, k2}
  LedgerKeyOf <- KeyOfMover
  LedgerAmounts <- Amounts
  BIG_INTEGER_MAX = 2
  MaxLedgerDeaths = 1
  SchemaTables <- Sorted
  FreshSchema <- Declared
  Filling <- Fill
  InPlace <- AnyOlder
  SiteBrand = {"b1", "b2"}
  DefaultBrand = "b2"
  SiteTag = {"t1", "t2"}
  SiteLanguage = {"en", "pt"}
  DefaultLanguage = "en"
  SiteKind = {"content", "gallery", "product", "plan", "banner"}
  SiteRow = {1, 2}
  SiteReader = {"r1", "r2"}
  MaxSiteEdits = 1
  SiteContents <- Contents
  SiteQuestions <- Questions
  View = {"v1", "v2"}
  MaxForms = 3
  MaxVersions = 2
  MaxDays = 2
  Submit = {"s1", "s2", "s3"}
  AddressClick = {"a1", "a2"}
  MaxHours = 1
  MaxSubmitDeaths = 1
  LimitedClient = {"p1", "p2", "p3"}
  Capacity = 3
  IpLimit = 2
  TotalLimit = 4
  MaxWindows = 1
  MaxRequests = 7
  SecretRow = {1, 2, 3}
  BATCH_SIZE = 2
  MaxSaves = 2
  MaxRewrites = 2
  Dialect = "mysql"
  Copy = {"x1", "x2", "x3"}
  OwnedTables = {"t1", "t2"}
  MaxCopyDeaths = 1
  MaxVisits = 3
  MaxClicks = 7
  MaxTurns = 1
  LAST_PAGE = 5
  ListTables <- Tables
  ListQueries <- Queries
  Anchors <- AnchorDays
  IntervalValues = {0, 1, 5, 101}
  INTERVAL_CEILING_YEARS = 100
  MAXYEAR = 9999
  MaxIntervals = 14
  ApiAccount = {"u1", "u2"}
  ApiBrand = {"b1", "b2"}
  BrandOf <- BrandsOfAccounts
  Purpose = {"main"}
  ApiCall = {"k1", "k2", "k3"}
  ApiWishes <- ThreeCalls
  Held <- HeldRecords
INVARIANTS IdempotencyInv SchemaInv SiteInv VisitorsInv WindowsHold RotationInv StartupInv BrowserInv ListingInv ApiInv
PROPERTIES LedgerKeeps CalendarKeeps
CHECK_DEADLOCK FALSE
