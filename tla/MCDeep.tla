-------------------------------- MODULE MCDeep --------------------------------
(***************************************************************************)
(* The index core on trees of three levels.  All call sequences that reach *)
(* such trees are too many, so the client follows a pattern: it inserts    *)
(* the keys in ascending or in descending order until all are stored, may  *)
(* look for any of them (which splits the full blocks on the way), and     *)
(* then deletes in any order.  When it has deleted some of the smallest or *)
(* of the largest keys and no block is free, it may insert them again.     *)
(***************************************************************************)
EXTENDS Navigate

CONSTANT Fewest   (* the client deletes down to this number of keys        *)

ASSUME DeepConstants == Fewest \in Nat

(* The keys the client may insert next.                                    *)
NextLoad ==
  {k \in Key \ Stored :
     /\ super.nfree = 0
     /\ \/ Stored = {j \in Key : j < k}
        \/ Stored = {j \in Key : j > k}}

Loading ==
  /\ pc = "idle"
  /\ \E k \in NextLoad, v \in Val : Binsky(k, v)

Looking ==
  /\ pc = "idle" /\ Stored = Key
  /\ \E k \in Key : Bfndky(k)

Deleting ==
  /\ pc = "idle" /\ NextLoad = {} /\ Cardinality(Stored) > Fewest
  /\ \E k \in Stored : Bdelky(k)

DeepNext == Loading \/ Looking \/ Deleting \/ Step

DeepSpec == Init /\ [][DeepNext]_vars /\ WF_vars(Step)
=============================================================================
