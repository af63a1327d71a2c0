SPECIFICATION ServicesSpec
CONSTANTS
  Users = {i1, i2}
  Handlers = {c1, c2, h3}
  Rooms = {r1, r2, r3}
  NoUser = NoUser
  NoRoom = NoRoom
  Foreign = TRUE
  Posters = {c1, c2}
  Moderators = {i1, i2}
  Travellers = {"t1", "t2", "t3"}
  Attendance <- ServicesAttendance
  Submissions = {c1, c2}
  Reviewer = "me"
  Members = {"me", i1, i2}
  Bits <- MapBits
  Events <- MapEvents
  Queries <- MapQueries
  Categories = {"food", "trek"}
  CandidateLimit = 4
  Edge <- MapEdge
  Candidates = {1, 2, 3}
  People <- FeedPeople
  Viewers <- FeedViewers
  Filters <- FeedFilters
  Radius = 2
  Breadth = 1
  Cap = 2
  Limit = 1
  MaxChanges = 1
  Callers = {c1, c2}
  NoCaller = NoCaller
  MaxTime = 2
  MaxVersion = 2
  MaxDecisions = 2
  Clients = {c1, c2}
  Births = {20080229}
  Identities <- ServicesIdentities
  Days <- ServicesDays
  Devices = {c1, c2}
  NoOne = NoOne
  InterestIds = {i1, i2}
  Editors = {c1, c2}
  Nobody = Nobody
  SegmentIds = {1, 2, 3}
  LastDay = 2
SYMMETRY ServicesSymmetry
CONSTRAINT ServicesLoad
INVARIANTS
  NoMissedMatch
  OneMutualMatch
  MatchesAreWhole
  ReviewsAreSound
  FeedbackIsSound
  MapTellsAll
  ExactMeansExact
  QueriesAgree
  DiscoveryIsHonest
  AccountsAreWhole
  AgeRulesAgree
  InterestsAgree
PROPERTIES
  OnlyNamedFieldsChange
  TripEditsAreSound
CHECK_DEADLOCK FALSE
