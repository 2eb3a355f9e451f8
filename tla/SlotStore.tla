------------------------------ MODULE SlotStore ------------------------------
(***************************************************************************)
(* AstrBotKVStateStore (src/storage.py) as the attention and the access     *)
(* service see it: two slots of the host's key-value store, the backup      *)
(* written first.  A document is whatever the service makes of it.          *)
(***************************************************************************)

(* _put_verified: the put is made and believed; or it raises, and the       *)
(* read-back finds the old document, or raises as well, so that nobody      *)
(* knows.  A read-back that finds the new document counts as made.          *)
PutResults(old, new, mayFail) ==
  {[slot |-> new, verdict |-> "ok"]} \cup
    (IF mayFail THEN {[slot |-> s, verdict |-> "unknown"] : s \in {old, new}} ELSE {}) \cup
    (IF mayFail /\ old # new THEN {[slot |-> old, verdict |-> "failed"]} ELSE {})

(* Deviation: the backup slot is preferred.                                 *)
SelectBackupFirst(primary, backup, readable, none) ==
  IF "backup" \in readable /\ backup # none THEN backup
  ELSE IF "primary" \in readable THEN primary ELSE none

(* The document a service starts from: the primary slot if it can be read   *)
(* and was ever written, else the backup slot; none otherwise.              *)
Select(primary, backup, readable, none) ==
  IF "primary" \in readable /\ primary # none THEN primary
  ELSE IF "backup" \in readable THEN backup ELSE none
=============================================================================
