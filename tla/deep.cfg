(* Trees of three levels.                                                  *)
CONSTANTS
  MXKEY = 3
  THRES = 0
  MAXBLK = 14
  Key = {1, 2, 3, 4, 5, 6, 7, 8, 9, 10, 11, 12, 13, 14}
  Val = {1}
  Limits = {14}
  LongKey = {}
  StrictClient = TRUE
  Fewest = 11
  NoEnt = NoEnt
  NoKey = NoKey
  NoVal = NoVal
SPECIFICATION DeepSpec
INVARIANTS NoUnderflow SearchTree Balanced NoInternalError ScansComplete
PROPERTIES OnlyItsKeyUnlessSpoiled CallsReturn
CHECK_DEADLOCK FALSE
