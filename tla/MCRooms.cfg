SPECIFICATION OrderlySpec
CONSTANTS
  Socket = {s1, s2}
  Room = {r1, r2}
  User <- MCUser
  userName <- MCUserName
  Garbled = Garbled
  NoPacket = NoPacket
  Kinds = {"JOIN", "LEAVE", "SEND"}
  BufLen = 3
  Width <- TwoCells
  AnswerWidth = 1
  FdSetSize = 64
  Faults = {"exit"}
  MaxPackets = 2
  Careful = {}
  MaxLog = 9
PROPERTY RefinesRoomService
SYMMETRY Symmetry
