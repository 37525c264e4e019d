SPECIFICATION TreeSpec
CONSTANTS
  Uuids = {1, 2, 4}
  Prefabs = {4}
  Fields = {0, 1}
  First = 0
  Edited = {1, 2}
  NoNode = NoNode
  Generations = {0, 1}
INVARIANTS DestroyTakesTheSubtree
CHECK_DEADLOCK FALSE
