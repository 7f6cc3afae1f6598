(* A client that creates roots only as it should.                          *)
CONSTANTS
  MAXBLK = 5
  Limits = {3, 5}
  Name = {d, a}
  Default = d
  Proc = {p, q}
  Nobody = Nobody
  NoMem = NoMem
  MaxNest = 2
  StrictClient = TRUE
SPECIFICATION MCSpec
INVARIANT NothingLeftBehind
