(* As the run of the cache; a write through the threshold may fail.        *)
CONSTANTS
  NSLOT = 3
  NBLK = 4
  Threshold = 1
  MaxWrites = 2
  MaxFails = 1
  Wirable = {1, 2}
SPECIFICATION Spec
INVARIANT LossIsReported
