SPECIFICATION OrderlySpec
CONSTANTS
  Socket = {s1, s2, s3}
  Room = {r1}
  User <- SharedUser
  userName <- SharedName
  Garbled = Garbled
  NoPacket = NoPacket
  Kinds = {"JOIN", "LEAVE", "SEND"}
  BufLen = 3
  Width <- TwoCells
  AnswerWidth = 1
  FdSetSize = 64
  Faults = {}
  MaxPackets = 2
  Careful = {}
  MaxLog = 9
PROPERTY RefinesRoomService
SYMMETRY NamesakeSymmetry
