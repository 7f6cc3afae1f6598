(* Every sorted block of at most five keys out of six, and every key.      *)
CONSTANTS
  MXKEY = 5
  THRES = 0
  MAXBLK = 2
  Key = {1, 2, 3, 4, 5, 6}
  Val = {1}
  NoEnt = NoEnt
SPECIFICATION BSFairSpec
INVARIANTS BSTypeOK SearchRight
PROPERTIES SearchEnds
CHECK_DEADLOCK FALSE
