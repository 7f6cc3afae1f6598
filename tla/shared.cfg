(* Two processes and two roots: a file of three blocks, or of five.        *)
CONSTANTS
  MAXBLK = 5
  Limits = {3, 5}
  Name = {d, a}
  Default = d
  Proc = {p, q}
  Nobody = Nobody
  NoMem = NoMem
  MaxNest = 2
  StrictClient = TRUE
SPECIFICATION MCSpec
INVARIANTS LockSound RootsSound
PROPERTIES ImplementsWholeCalls CallsReturn
