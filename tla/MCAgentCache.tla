---------------------------- MODULE MCAgentCache ----------------------------
EXTENDS AgentCache

CONSTANTS x, y, z, j1, j2

Chars == {x, y, z, "u", "|"}

(* One key more than the cache has room for. *)
ThreeApps == {[appName |-> <<n>>, userID |-> <<"u">>] : n \in {x, y, z}}

(* The first two keys share their string, "x|y|z", and the third shares    *)
(* the user of one and the app of the other; room for one of the strings.  *)
Colliding == {[appName |-> <<x>>, userID |-> <<y, "|", z>>],
              [appName |-> <<x, "|", y>>, userID |-> <<z>>],
              [appName |-> <<x>>, userID |-> <<z>>]}

TwoJobs == {j1, j2}
SymmetricJobs == Permutations(TwoJobs)
Symmetry == SymmetricJobs \cup Permutations({x, y, z})
=============================================================================
