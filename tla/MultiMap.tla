------------------------------- MODULE MultiMap -------------------------------
(***************************************************************************)
(* What an index with duplicate keys is to its clients: every key has a    *)
(* sequence of values, in the order in which they were inserted.           *)
(***************************************************************************)
EXTENDS Integers, Sequences

CONSTANTS Key, Val

VARIABLES
  vals,     (* the values of each key                                      *)
  allowed   (* a key may have more than one value                          *)

Init == vals = [k \in Key |-> <<>>] /\ allowed = FALSE

Allow == allowed' \in BOOLEAN /\ UNCHANGED vals

(* What a call makes of the values s of a key.  A new value goes behind    *)
(* the others; the value at n is taken out, or replaced, and the order of  *)
(* the rest stays.                                                         *)
Insert(s) ==
  IF allowed \/ s = <<>> THEN {Append(s, v) : v \in Val} ELSE {}
Delete(s) ==
  {SubSeq(s, 1, n - 1) \o SubSeq(s, n + 1, Len(s)) : n \in DOMAIN s}
Update(s) == {[s EXCEPT ![n] = v] : n \in DOMAIN s, v \in Val}

Call(k) ==
  /\ UNCHANGED allowed
  /\ LET old == vals
     IN  vals' \in {[old EXCEPT ![k] = s] :
                      s \in Insert(old[k]) \cup Delete(old[k]) \cup Update(old[k])}

Next == Allow \/ \E k \in Key : Call(k)

Spec == Init /\ [][Next]_<<vals, allowed>>
=============================================================================
