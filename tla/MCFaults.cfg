SPECIFICATION Spec
CONSTANTS
  Socket = {s1, s2}
  Room = {r1}
  User <- MCUser
  userName <- MCUserName
  Garbled = Garbled
  NoPacket = NoPacket
  Kinds = {"JOIN", "CREATE"}
  BufLen = 3
  Width <- TwoCells
  AnswerWidth = 1
  FdSetSize = 64
  Faults = {"exit", "rst", "kill", "authloss", "unparsed", "repeat"}
  MaxPackets = 2
  Careful = {}
  MaxLog = 3
INVARIANTS TypeOK StopsOnlyForCause 
PROPERTY DisconnectionIsFinal
SYMMETRY Symmetry
