SPECIFICATION PacedSpec
CONSTANTS
  Socket = {s1, s2}
  Room = {r1}
  User <- MCUser
  userName <- MCUserName
  Garbled = Garbled
  NoPacket = NoPacket
  Kinds = {"JOIN", "CREATE"}
  BufLen = 3
  Width <- TwoCells
  AnswerWidth = 2
  FdSetSize = 64
  Faults = {"exit"}
  MaxPackets = 3
  Careful = {s1}
  MaxLog = 6
INVARIANTS RequestsOnceInOrder AnswersAreOwn
