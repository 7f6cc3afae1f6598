-------------------------------- MODULE Index --------------------------------
(***************************************************************************)
(* What the key functions of the API promise for one root: a dictionary    *)
(* from keys to values with a current key (doc/btlib.adoc, API chapter).   *)
(* No blocks, no splits, no joins: a call is invoked, takes effect at one  *)
(* instant and returns.  BTreeProps shows that BTree implements this.      *)
(***************************************************************************)
EXTENDS Integers

CONSTANTS
  Key, Val, NoKey, NoVal,
  LongKey   (* the keys a client names by a string longer than a stored key *)

VARIABLES
  dict,   (* the stored keys, each with its value                          *)
  cur,    (* the current key, NoKey when there is none                     *)
  call,   (* the call under way; its name is "none" between calls          *)
  done,   (* the call has deleted its key and has not returned             *)
  err,    (* the return value of the last call                             *)
  out     (* the value the last call found                                 *)

vars == <<dict, cur, call, done, err, out>>

NoCall == [name |-> "none", key |-> NoKey, val |-> NoVal]
Entry(k, v) == [key |-> k, val |-> v]
Stored(k) == \E e \in dict : e.key = k
Without(k) == {e \in dict : e.key # k}

Init ==
  /\ dict = {}
  /\ cur = NoKey /\ call = NoCall /\ done = FALSE
  /\ err = "OK" /\ out = NoVal

(* A call that names a key gives up the current key.                       *)
Invoke ==
  /\ call = NoCall
  /\ call' \in [name : {"find", "ins", "del", "upd"},
               key : Key \cup {NoKey}, val : Val \cup {NoVal}]
  /\ cur' = IF call'.key = NoKey THEN cur ELSE NoKey
  /\ err' = "OK" /\ out' = NoVal
  /\ UNCHANGED <<dict, done>>

Return(e) == call' = NoCall /\ done' = FALSE /\ err' = e

(* bdelky and bupdky find their key before they act on it.                 *)
Select ==
  /\ call.name \in {"del", "upd"} /\ ~done
  /\ call.key # NoKey /\ Stored(call.key)
  /\ cur' = call.key
  /\ UNCHANGED <<dict, call, done, err, out>>

Find ==
  /\ call.name = "find"
  /\ \E e \in dict : e.key = call.key /\ out' = e.val
  /\ cur' = call.key
  /\ Return("OK") /\ UNCHANGED dict

Insert ==
  /\ call.name = "ins" /\ ~Stored(call.key)
  /\ dict' = dict \cup {Entry(call.key, call.val)}
  /\ Return("OK") /\ UNCHANGED <<cur, out>>

Duplicate ==
  /\ call.name = "ins" /\ Stored(call.key)
  /\ cur' = call.key
  /\ Return("QDUP") /\ UNCHANGED <<dict, out>>

Missing ==
  /\ call.name \in {"find", "del", "upd"} /\ ~done
  /\ call.key # NoKey /\ ~Stored(call.key)
  /\ Return("QNOKEY") /\ UNCHANGED <<dict, cur, out>>

Update ==
  /\ call.name = "upd" /\ cur # NoKey /\ Stored(cur)
  /\ dict' = Without(cur) \cup {Entry(cur, call.val)}
  /\ Return("OK") /\ UNCHANGED <<cur, out>>

(* The deleted key stays the current key until the context is renewed.     *)
Delete ==
  /\ call.name = "del" /\ ~done /\ cur # NoKey /\ Stored(cur)
  /\ call.key \notin LongKey
  /\ dict' = Without(cur)
  /\ cur' \in {cur, NoKey}
  /\ done' = TRUE
  /\ UNCHANGED <<call, err, out>>

Deselect ==
  /\ done /\ cur' = NoKey
  /\ UNCHANGED <<dict, call, done, err, out>>

DeleteReturn ==
  /\ done /\ cur = NoKey
  /\ Return("OK") /\ UNCHANGED <<dict, cur, out>>

NoCurrent ==
  /\ call.name = "del" /\ ~done /\ call.key = NoKey /\ cur = NoKey
  /\ Return("QDELEX") /\ UNCHANGED <<dict, cur, out>>

(* bdelk1 compares the key it is given with the stored key, truncated.     *)
Refuse ==
  /\ call.name = "del" /\ ~done /\ call.key \in LongKey /\ Stored(call.key)
  /\ cur = call.key
  /\ Return("QDELER") /\ UNCHANGED <<dict, cur, out>>

(* The file cannot grow.  A key deleted by the call stays deleted.         *)
NoSpace ==
  /\ call # NoCall /\ cur = NoKey
  /\ Return("QF2BIG") /\ UNCHANGED <<dict, cur, out>>

(* No stored key lies between a and b.                                     *)
NextTo(a, b) ==
  /\ a # b
  /\ \A e \in dict : ~(a < e.key /\ e.key < b) /\ ~(b < e.key /\ e.key < a)

(* bnxtky and bprvky: from the current key to a key next to it; without    *)
(* one the dictionary does not say to which (Navigate does) ...            *)
Move ==
  /\ call = NoCall
  /\ \E e \in dict :
       /\ cur = NoKey \/ NextTo(cur, e.key)
       /\ cur' = e.key /\ out' = e.val
  /\ err' = "OK" /\ UNCHANGED <<dict, call, done>>

(* ... or past the first or the last key, where no key is current.         *)
PastEnd ==
  /\ call = NoCall
  /\ \/ cur = NoKey
     \/ \A e \in dict : e.key <= cur
     \/ \A e \in dict : e.key >= cur
  /\ cur' = NoKey /\ err' = "QNOKEY" /\ out' = NoVal
  /\ UNCHANGED <<dict, call, done>>

(* btpos: to the start or the end of the index.                            *)
Position ==
  /\ call = NoCall
  /\ cur' = NoKey /\ err' = "OK" /\ out' = NoVal
  /\ UNCHANGED <<dict, call, done>>

Next ==
  \/ Invoke \/ Move \/ PastEnd \/ Position
  \/ Select \/ Find \/ Insert \/ Duplicate \/ Missing \/ Update
  \/ Delete \/ Deselect \/ DeleteReturn \/ NoCurrent \/ Refuse \/ NoSpace

Spec == Init /\ [][Next]_vars
=============================================================================
