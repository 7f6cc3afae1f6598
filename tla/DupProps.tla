------------------------------- MODULE DupProps -------------------------------
(***************************************************************************)
(* The properties of duplicate keys.                                       *)
(***************************************************************************)
EXTENDS DupKeys

(* The type invariant.  What was deleted keeps its bytes, so a slot of an  *)
(* address once used holds an entry for good.                              *)
DupTypeOK ==
  /\ idx.n \in 0 .. Cardinality(Key)
  /\ \A i \in Slot : idx.slot[i] \in KeyEnt \cup {NoEnt}
  /\ \A i \in 0 .. idx.n - 1 : idx.slot[i] \in KeyEnt
  /\ \A b \in Blk, o \in Offset :
       LET s == st.blk[b].seg[o]
       IN  s = NoSeg \/ (s.size = DKEYSZ /\ s.data \in Dkey)
  /\ st.head["data"] = ZNULL /\ st.head["dup"] \in Blk \cup {ZNULL}
  /\ dups \in BOOLEAN
  /\ \A p \in Proc :
       /\ lf[p].pos \in -1 .. Cardinality(Key)
       /\ lf[p].exct => lf[p].on /\ lf[p].pos \in Slot
       /\ lf[p].draddr \in Link

(* The addresses of the chain of the key in slot i.                        *)
Chained(i) == LET c == ChainOf(idx.slot[i]) IN {c[n] : n \in DOMAIN c}
Chains == UNION {Chained(i) : i \in 0 .. idx.n - 1}

(* A chain is what btduppos takes it for: from keyent.val to keyent.dup,   *)
(* forward links the mirror of backward links, its entries those of the    *)
(* key, none deleted, and no entry in two chains.  (btdupkey and btdeldup  *)
(* write the entry, its neighbours and the ends of the chain one by one.)  *)
ChainsSound ==
  /\ \A i \in 0 .. idx.n - 1 :
       LET c == ChainOf(idx.slot[i])  e(n) == getdkey(st, c[n])
       IN  /\ \A n \in DOMAIN c :
                /\ IsDup(st, c[n]) /\ ~e(n).del /\ e(n).key = idx.slot[i].key
                /\ e(n).blink = IF n = 1 THEN ZNULL ELSE c[n - 1]
                /\ \A m \in DOMAIN c : c[n] = c[m] => n = m
           /\ c # <<>> => c[Len(c)] = idx.slot[i].dup
  /\ \A i, j \in 0 .. idx.n - 1 :
       i # j => Chained(i) \cap Chained(j) = {}

(* The free bytes counted for a dup block are those without an entry of a  *)
(* chain (or one that a failed insert lost), so that deldat frees a block  *)
(* with the last of its entries and no earlier; the active block and the   *)
(* free list are sound.                                                    *)
Live == lost \cup Chains
DupSpaceExact ==
  LET live == Live IN
  /\ \A b \in BlocksOf(st, "dup") :
       LET n == Cardinality({d \in live : BlkOf(d) = b})
       IN  n > 0 /\ st.blk[b].free = CAP - n * (DKEYSZ + ZDOVRH)
  /\ \A d \in live : IsDup(st, d)
  /\ st.head["dup"] # ZNULL => Type(st, st.head["dup"]) = "dup"
  /\ FreeList(st) = BlocksOf(st, "free")
  /\ Cardinality(FreeList(st)) = st.nfree

(* The entries of key k, in order.                                         *)
Values(k) == IF Hit(k) THEN ValsOf(idx.slot[Below(k)]) ELSE <<>>

(* The index is what a client of duplicate keys relies on: an insert adds  *)
(* a value behind those the key has, or fails and changes nothing, a       *)
(* delete and an update take the first, or the current one; no other key   *)
(* is touched.                                                             *)
MM == INSTANCE MultiMap WITH
        Key <- Key, Val <- Val,
        vals <- [k \in Key |-> Values(k)], allowed <- dups

ImplementsMultiMap == MM!Spec

(* bnxtky returns the entry behind the place of the process, bprvky the    *)
(* one before it, through chains and over their ends, also after a delete; *)
(* and QNOKEY when there is none.                                          *)
MovesRight ==
  LET flat == Flat IN
  \A p \in Proc :
    LET a == place[p]
        next == IF a.at THEN a.n + 2 ELSE a.n + 1
        returns(m, j) == IF j \in DOMAIN flat
                         THEN m.err = "OK" /\ m.out = flat[j]
                         ELSE m.err = "QNOKEY"
    IN  a.known => returns(Moved(p, TRUE), next) /\ returns(Moved(p, FALSE), a.n)
=============================================================================
