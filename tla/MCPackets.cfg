SPECIFICATION Spec
CONSTANTS
  Typed <- MCTyped
  Beyond = {0, 1, 2, 255}
INVARIANTS TakenAsTyped HandledTwice  WaitsForEver AnsweredWhole PrintedOnce
