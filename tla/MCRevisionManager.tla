------------------------- MODULE MCRevisionManager -------------------------
(* Model values, and the symmetry of keys, for RevisionManager.             *)
EXTENDS RevisionManager, TLC

CONSTANTS k1, k2, v1, v2

TwoKeys == {k1, k2}
OneKey == {k1}
OneVal == {v1}
TwoVals == {v1, v2}

NoContents == {}
Empty == {EmptyTrie}
Full == {[k \in Keys |-> v1]}
EmptyOrFull == Empty \cup Full

KeySymmetry == Permutations(TwoKeys)
ValSymmetry == Permutations(TwoVals)
=============================================================================
