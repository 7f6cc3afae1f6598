(* Three slots, a file that grows from two blocks to four, one failure.    *)
CONSTANTS
  NSLOT = 3
  NBLK = 4
  Threshold = 1
  MaxWrites = 2
  MaxFails = 1
  Wirable = {1, 2}
SPECIFICATION Spec
INVARIANTS CacheTypeOK Coherent QueueSound SuperKept HeadFound
PROPERTIES WiredStays
