----------------------------- MODULE MCGateway ------------------------------
EXTENDS Gateway

CONSTANTS m1, m2, m3, a1

(* Three messages of one user, the fewest that show a client living on by  *)
(* its hits: one has it built, one could prolong its life, one is served.  *)
ThreeMsgs == {m1, m2, m3}
OneApp == {a1}
AppOfThree == [m \in ThreeMsgs |-> a1]
OneKey == {[appName |-> <<"a">>, userID |-> <<"u">>]}
UsersOfOne == [a \in OneApp |-> OneKey]

(* The first configuration lets one message run, the second, from which no *)
(* client can be built, two.                                               *)
Versions == {1, 2}
Rooms == [v \in Versions |-> v]
=============================================================================
