-------------------------- MODULE MCPriorityBucket --------------------------
(* Three threads of two priorities.  A header may halve the capacity, empty  *)
(* the bucket, or both; a thread may ask for nothing or for all of it.       *)
EXTENDS PriorityBucket, TLC

Absent == -1

HeaderLimits == {Absent, 1}

HeaderRemains == {Absent, 0}
=============================================================================
