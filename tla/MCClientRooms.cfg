SPECIFICATION Spec
CONSTANTS
  Room = {r1, r2}
  BufLen = 3
  LineWidth = 2
  Faults = {}
  MaxSent = 3
  MaxRooms = 3
  MaxLines = 0
INVARIANT ListsRooms
