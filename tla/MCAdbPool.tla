----------------------------- MODULE MCAdbPool -----------------------------
(* Three threads, one of which stores bugs; pools of one connection; one tunnel
   more than there may rightly be. *)
EXTENDS AdbPool

CONSTANTS t1, t2, t3, n1, n2
=============================================================================
