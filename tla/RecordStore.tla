----------------------------- MODULE RecordStore -----------------------------
(***************************************************************************)
(* What the data functions of the API promise for one root: a record, a    *)
(* sequence of bytes, for each key (doc/btlib.adoc, API chapter).  A call  *)
(* is invoked, takes effect at one instant and returns.  DataRecords       *)
(* implements this with chains of segments in data blocks.                 *)
(***************************************************************************)
EXTENDS Integers, Sequences

CONSTANTS Key, Record, Space, NoKey, NoRec

VARIABLES
  recs,   (* the record of each key, NoRec for a key that is not stored    *)
  lf,     (* the key of the last find and whether it was found             *)
  call,   (* the call under way; its name is "none" between calls          *)
  err,    (* the return value of the last call                             *)
  out,    (* the bytes the last call returned                              *)
  rsize   (* their number, or the size btrecs returned                     *)

vars == <<recs, lf, call, err, out, rsize>>

NoCall == [name |-> "none", key |-> NoKey, rec |-> <<>>, size |-> 0]
Stored == {k \in Key : recs[k] # NoRec}
Before(s) == {SubSeq(s, 1, n) : n \in 0 .. Len(s)}

Init ==
  /\ recs = [k \in Key |-> NoRec]
  /\ lf = [key |-> NoKey, exct |-> FALSE]
  /\ call = NoCall /\ err = "OK" /\ out = <<>> /\ rsize = 0

(* The keys bnxtky and bprvky have to choose from.                         *)
After == {k \in Stored : k > lf.key \/ (k = lf.key /\ ~lf.exct)}
Ahead == {k \in Stored : k < lf.key}

(* A call of which the key is stored: named, the current one, or for a     *)
(* select the next or the previous one.                                    *)
Invoke ==
  /\ call = NoCall
  /\ call' \in [name : {"upd", "del", "sel", "recs"}, key : Stored,
                rec : Record \cup {<<>>}, size : Space \cup {0}]
  /\ lf' = [key |-> call'.key, exct |-> TRUE]
  /\ err' = "OK" /\ out' = <<>> /\ rsize' = 0
  /\ UNCHANGED recs

(* An insert stores the record before it looks for the key.                *)
InvokeInsert ==
  /\ call = NoCall
  /\ call' \in [name : {"ins"}, key : Key, rec : Record, size : {0}]
  /\ err' = "OK" /\ out' = <<>> /\ rsize' = 0
  /\ UNCHANGED <<recs, lf>>

(* A call that has no key to work on: the one named is not stored, there   *)
(* is no current one, no next or no previous one.                          *)
Refuse ==
  /\ call = NoCall /\ UNCHANGED <<call, recs>>
  /\ \/ err' = "QNOKEY"
        /\ lf' \in [key : Key \ Stored, exct : {FALSE}]
     \/ err' = "QBADCTXT" /\ ~lf.exct /\ UNCHANGED lf
     \/ err' = "QNOKEY" /\ lf' = [key |-> NoKey, exct |-> FALSE]
        /\ lf.key # NoKey => (After = {} \/ Ahead = {})
  /\ out' = <<>> /\ rsize' = 0

Return(e) == call' = NoCall /\ err' = e

Insert ==
  /\ call.name = "ins" /\ call.key \notin Stored
  /\ recs' = [recs EXCEPT ![call.key] = call.rec]
  /\ lf' = [key |-> call.key, exct |-> FALSE]
  /\ Return("OK") /\ UNCHANGED <<out, rsize>>

(* An insert that will fail has looked for its key before it returns.      *)
LookUp ==
  /\ call.name = "ins"
  /\ lf' \in {[key |-> call.key, exct |-> FALSE],
               [key |-> call.key, exct |-> call.key \in Stored]}
  /\ UNCHANGED <<recs, call, err, out, rsize>>

(* The key is there; its record stays as it is.                            *)
Duplicate ==
  /\ call.name = "ins" /\ call.key \in Stored
  /\ lf = [key |-> call.key, exct |-> TRUE]
  /\ Return("QDUP") /\ UNCHANGED <<recs, lf, out, rsize>>

(* An insert or a delete for which the file cannot grow.  A delete finds   *)
(* that out after it has removed the record.                               *)
NoSpace ==
  /\ call.name \in {"ins", "del"}
  /\ \/ call.name = "ins" /\ UNCHANGED <<recs, lf>>
     \/ /\ call.name = "del"
        /\ recs' = [recs EXCEPT ![call.key] = NoRec]
        /\ lf' = [key |-> call.key, exct |-> FALSE]
  /\ Return("QF2BIG") /\ UNCHANGED <<out, rsize>>

Update ==
  /\ call.name = "upd" /\ call.key \in Stored
  /\ recs' = [recs EXCEPT ![call.key] = call.rec]
  /\ Return("OK") /\ UNCHANGED <<lf, out, rsize>>

(* An update for which the file cannot grow leaves the front of the new    *)
(* record and says so.                                                     *)
Truncate ==
  /\ call.name = "upd" /\ call.key \in Stored
  /\ \E r \in Before(call.rec) \ {call.rec} :
       recs' = [recs EXCEPT ![call.key] = r]
  /\ Return("QF2BIG") /\ UNCHANGED <<lf, out, rsize>>

Delete ==
  /\ call.name = "del" /\ call.key \in Stored
  /\ recs' = [recs EXCEPT ![call.key] = NoRec]
  /\ lf' = [key |-> call.key, exct |-> FALSE]
  /\ Return("OK") /\ UNCHANGED <<out, rsize>>

(* btsel, btseln, btselp: as much of the record as the caller has room for.*)
Select ==
  /\ call.name = "sel" /\ call.key \in Stored
  /\ LET r == recs[call.key]
         n == IF Len(r) < call.size THEN Len(r) ELSE call.size
     IN  out' = SubSeq(r, 1, n) /\ rsize' = n
  /\ Return("OK") /\ UNCHANGED <<recs, lf>>

Size ==
  /\ call.name = "recs" /\ call.key \in Stored
  /\ rsize' = Len(recs[call.key])
  /\ Return("OK") /\ UNCHANGED <<recs, lf, out>>

Next ==
  \/ Invoke \/ InvokeInsert \/ Refuse \/ Insert \/ LookUp \/ Duplicate \/ NoSpace
  \/ Update \/ Truncate \/ Delete \/ Select \/ Size

Spec == Init /\ [][Next]_vars
=============================================================================
