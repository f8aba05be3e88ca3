SPECIFICATION ServicesSpec
CONSTANTS
  NoPhone = NoPhone
  Phones = {d1, d2}
  RouteFaults = {"load", "sudo", "tunnel", "proxy", "stuck", "disk", "flush"}
  MaxRecoveries = 1
  MaxEvents = 2
  Names = {boss, ann}
  MainHost = boss
  Reviews = {1, 2}
  NoKey = NoKey
  MaxChanges = 2
  MaxAsks = 2
  StoreFails = TRUE
  Letters = {1, 2}
  Deliveries = {1, 2}
  NoLetter = NoLetter
  MaxAttempts = 2
  MaxLapses = 2
  OutboxFails = TRUE
  Sessions = {1, 2}
  Askers = {1, 2}
  Processors = {1, 2}
  NoOne = NoOne
  MaxRequests = 2
  MaxMoves = 6
  DeletionFaults = {"store", "crash"}
  SiteCalls = {c1}
  Viewers = {v1}
  Silence = Silence
  MaxLinks = 2
  MaxSiteEvents = 2
  Setters = {1, 2}
  Getters = {1}
  Ttl = 2
  MaxTime = 3
  MaxDeaths = 1
  Handsets = {h1, h2}
  ByHand = {h2}
  Cables = {e1, e2}
  NoCable = NoCable
  Clerks = {1, 2}
  MaxRequested = 2
  MaxPlugs = 2
  Handhelds = {u1, u2}
  Nothing = Nothing
  Proxies = {x1, x2}
  Checks = {1}
  MaxTurns = 1
  Slots = {s1, s2}
  NoSlotUsed = NoSlotUsed
  MaxBorn = 2
  MaxAppRuns = 2
  Screens = {t1, t2}
  NoScreen = NoScreen
  MaxClicks = 3
  MaxUpsets = 1
  Work = {w1, w2}
  People = {va1, va2}
  Bookable = {b1}
  Unset = Unset
  StartHours = {1}
  Long = 2
  Steps = {0, 3}
  LastHour = 4
  MaxChangesOfWork = 3
  FailureThreshold = 2
  MaxBoots = 2
  MaxProbes = 2
  Doers = {b1, b2}
  Posts = {p1}
  Texts = {k1, k2}
  NoText = NoText
  GatedKinds = {"like"}
  MaxActSteps = 3
  MaxMishaps = 1
  Humans = {j1, j2, j3, j4}
  Founders = {j1, j2}
  Leftovers = {j3}
  Invites = {i1}
  Resets = {q1, q2}
  WebCalls = {g1, g2}
  NoCall = NoCall
  MaxCalls = 3
  TableRows = {r1, r2}
  Subjects = {m1, m2}
  Holders = {o1, o2}
  Connections = {l1, l2}
  NoHolder = NoHolder
  Keep = Keep
  MaxTableCalls = 4
  PostIds = {y1}
  PostUrls = {z1, z2}
  Finds = {1, 2}
  Runs = {1, 2}
  NoRun = NoRun
  Deeds = {a1}
  Savers = {tx1, tx2}
  MaxRecordings = 4
  MaxLoads = 2
INVARIANTS
  ServicesTypeOK
  QuarantinedIsSilent
  AdministratorRemains
  NoNeedlessMail
  ErasureIsReal
  SiteIsCurrent
  DestroyedIsGone
  EgressIsOwn
  ChildrenAreOurs
  ConsoleIsTrue
  BeliefIsFounded
  SeenOnce
  AccessIsCurrent
  PromisesKept
  ReviewsStick
PROPERTIES
  LiftedOnlyWhenSafe
  MailFollowsDecision
  PairingIsCurrent
  BoardIsHonest
CHECK_DEADLOCK FALSE
