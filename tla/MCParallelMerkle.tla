-------------------------- MODULE MCParallelMerkle --------------------------
(* Two subtries, one of them with two keys, and the value of the root.     *)
EXTENDS ParallelMerkle

MCNibbles == {0, 1}
MCKeys == {<<>>, <<0, 0>>, <<0, 1>>, <<1, 0>>}
MCStoredKeys == {<<>>, <<0, 0>>, <<1, 0>>}
=============================================================================
