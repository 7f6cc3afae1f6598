(* Blocks of six bytes, three of them in front of each segment: three      *)
(* blocks, of which the tree may take one; the largest record needs two.   *)
CONSTANTS
  MAXBLK = 5
  ZBLKSZ = 8
  CAP = 6
  ZDOVRH = 3
  ZDSGMN = 1
  DKEYSZ = 2
  Limits = {5}
  Key = {1, 2}
  Sizes <- MCSizes
  Space = {4}
  MaxTree = 1
  MaxLost = 1
  NoData = NoData
  NoKey = NoKey
  NoRec = NoRec
SPECIFICATION FairSpec
INVARIANTS RecTypeOK SpaceExact ListsSound
PROPERTIES ChainLostOnlyWithHead DataCallsReturn ImplementsRecords
