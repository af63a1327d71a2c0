SPECIFICATION Spec
CONSTANTS
  Users = {u1, u2}
  ClientIds = {c1, c2, c3}
  Handlers = {h1, h2}
  NoHandler = NoHandler
  NoUser = NoUser
  NoId = NoId
  Marks = {m1, m2}
  Readers = {u1}
  RoomType = "EVENT"
  Limit = 1
CONSTRAINT Workload
SYMMETRY ChatSymmetry
INVARIANTS
  SentOnce
  SeqIsGapless
  NothingAfterMembership
  PagesHaveNoHoles
PROPERTIES
  ReadCursorIsSound
