(* A client that creates a root whose name may exist.                      *)
CONSTANTS
  MAXBLK = 5
  Limits = {3, 5}
  Name = {d, a}
  Default = d
  Proc = {p, q}
  Nobody = Nobody
  NoMem = NoMem
  MaxNest = 2
  StrictClient = FALSE
SPECIFICATION MCSpec
INVARIANTS NoDuplicateRoots
