(* A client that calls bupdky(NULL) whether or not it has a current key.   *)
CONSTANTS
  MXKEY = 3
  THRES = 0
  MAXBLK = 5
  Key = {1, 2, 3}
  Val = {1, 2}
  Limits = {5}
  LongKey = {}
  StrictClient = FALSE
  NoEnt = NoEnt
  NoKey = NoKey
  NoVal = NoVal
SPECIFICATION Spec
PROPERTIES UpdatesCurrentKey
