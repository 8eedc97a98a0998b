\* Object numbers at the offset the comments give.
SPECIFICATION Spec
CONSTANTS
  Pds = {pd1}
  Cqs = {}
  Mrs = {}
  Clients = {c1}
  MaxCalls = 1
  Numbers = {1}
  KeySpace = 4
  IdOffset = 8
INVARIANT HandleNamesObject
CHECK_DEADLOCK FALSE
