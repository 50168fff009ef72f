SPECIFICATION FairSpec
CONSTANTS
  m1 = m1
  m2 = m2
  m3 = m3
  a1 = a1
  NoClient = NoClient
  Msg <- ThreeMsgs
  App <- OneApp
  AppOf <- AppOfThree
  Key <- OneKey
  Char = {"a", "u"}
  Version <- Versions
  Usable = {1}
  MaxSize = 1
  TTL = 1
  MaxTime = 2
  UsersOf <- UsersOfOne
  RoomOf <- Rooms
INVARIANTS
  WorkersHaveRoom
PROPERTIES
  OutdatedClientServedBriefly
  EveryMessageEnds
