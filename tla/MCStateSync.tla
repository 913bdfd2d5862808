---------------------------- MODULE MCStateSync ----------------------------
(***************************************************************************)
(* A small instance of StateSync: paths over two nibbles, and keys of      *)
(* zero, one and two bytes: prefixes of each other, keys that share a      *)
(* nibble, a byte and a half, or nothing.  Some bounds are no key.         *)
(***************************************************************************)
EXTENDS StateSync

MCNibbles == 0..1
MCKeys == {<<>>, <<0, 0>>, <<0, 1, 0, 0>>, <<0, 1, 0, 1>>}
MCStartKeys == {Unbounded, <<0, 0>>, <<0, 1>>, <<1, 0>>}
MCEndKeys == {Unbounded, <<0, 0>>, <<0, 1, 0, 0>>, <<1, 0, 0, 0>>}
=============================================================================
