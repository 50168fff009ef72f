------------------------------ MODULE MCRetry -------------------------------
EXTENDS Retry

(* 0 stands for the default, one value makes the loop empty, and with the  *)
(* last one the delays would leave the range of six bits.                  *)
RetryCounts == {-1, 0, 1, 7}
FewCounts == {-1, 1}

(* In a unit of two: negative, not configured, usual, and too large.       *)
DelayValues == {-1, 0, 1, 20}
=============================================================================
