----------------------------- MODULE MCDispatch -----------------------------
EXTENDS Dispatch

CONSTANTS m1, m2, m3, a1

(* Three messages compete for one app. *)
ThreeMsgs == {m1, m2, m3}
OneApp == {a1}
AppOfThree == [m \in ThreeMsgs |-> a1]

(* An unusable limit, one that makes two messages wait for one, one that   *)
(* lets two run.                                                           *)
Limits == {-1, 1, 2}
=============================================================================
