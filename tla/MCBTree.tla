------------------------------- MODULE MCBTree -------------------------------
(* All behaviours of the index core on small files.                        *)
EXTENDS Navigate

(* A second value is stored with one key only, one that splits move up and *)
(* joins move down: enough to tell its entry from the others.              *)
Marked == 4
MarkedVal == 2
ValOf(k) == IF k = Marked THEN Val ELSE Val \ {MarkedVal}

MarkedCall ==
  \/ \E k \in Key : Bfndky(k) \/ Bdelky(k)
  \/ \E k \in Key : \E v \in ValOf(k) : Binsky(k, v) \/ Bupdky(k, v)
  \/ BdelkyCurrent
  \/ \E v \in ValOf(lf.key) : BupdkyCurrent(v)

MarkedSpec == Init /\ [][MarkedCall \/ Step \/ Nav]_vars
=============================================================================
