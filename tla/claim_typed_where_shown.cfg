SPECIFICATION ChatSpec
CONSTANTS
  Members = {"s","a","b"}
  PairMembers = {"s","b"}
  Panes = {"s","a"}
  ByOrder = {"s"}
  Texts = {"t1"}
  MAX_TRIES = 2
  MAX_TURNS = 1
CHECK_DEADLOCK FALSE
INVARIANTS
    TypedWhereShown
