---------------------------- MODULE MC_QueueUsage ----------------------------
(* Instances of QueueUsage for TLC.  In the first, both freezers hold the   *)
(* sysfs_lock (elevator switch, nr_requests); in the second, one holds the  *)
(* tag_list_lock (another queue joins the tag set).                         *)
EXTENDS QueueUsage, TLC

CONSTANTS s1, s2, f1, f2

OneLock == [f \in {f1, f2} |-> "sysfs_lock"]
TwoLocks == (f1 :> "sysfs_lock") @@ (f2 :> "tag_list_lock")
BothLocks == {"sysfs_lock", "tag_list_lock"}
====
