SPECIFICATION LiveSpec
CONSTANTS
  Room = {r1}
  BufLen = 3
  LineWidth = 2
  Faults = {"refused", "malformed", "letter", "full", "serverEnd", "kill"}
  MaxSent = 2
  MaxRooms = 2
  MaxLines = 3
INVARIANTS TypeOK  OneLateLine
PROPERTIES RefinesClientEnd ExitTakesEffect
