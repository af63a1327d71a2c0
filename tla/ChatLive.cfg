SPECIFICATION LiveSpec
CONSTANTS
  Users = {u1}
  ClientIds = {c1, c2}
  Handlers = {h1, h2}
  NoHandler = NoHandler
  NoUser = NoUser
  NoId = NoId
  Marks = {}
  Readers = {u1}
  RoomType = "EVENT"
  Limit = 1
PROPERTIES
  MembersCatchUp
  SendsAreAnswered
