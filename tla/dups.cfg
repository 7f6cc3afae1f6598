(* Two processes, two keys; blocks of two entries.                         *)
CONSTANTS
  MAXBLK = 4
  ZBLKSZ = 8
  CAP = 4
  ZDOVRH = 1
  ZDSGMN = 1
  DKEYSZ = 1
  Limits = {3, 4}
  NoData = NoData
  Proc = {p, q}
  Key = {2, 4}
  Val = {a, b}
  MaxVals = 3
  MaxLost = 1
SPECIFICATION MCSpec
SYMMETRY Alike
INVARIANTS DupTypeOK ChainsSound DupSpaceExact MovesRight
PROPERTIES ImplementsMultiMap
