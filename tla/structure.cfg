(* Every behaviour of a client with seven keys, of which one is longer     *)
(* than a stored key.                                                      *)
CONSTANTS
  MXKEY = 4
  THRES = 1
  MAXBLK = 5
  Key = {1, 2, 3, 4, 5, 6, 7}
  Val = {1, 2}
  Limits = {2, 3, 4, 5}
  LongKey = {7}
  StrictClient = TRUE
  NoEnt = NoEnt
  NoKey = NoKey
  NoVal = NoVal
SPECIFICATION MarkedSpec
INVARIANTS TypeOK StackIsPath FreeListSound CursorExact WalkComplete
PROPERTIES LostOnlyWhenFull Implements NextIsNext PrevIsPrevious
