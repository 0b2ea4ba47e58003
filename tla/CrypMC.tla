------------------------------- MODULE CrypMC -------------------------------
(***************************************************************************)
(* An instance of Cryp for TLC: words of three bits, so that the rotations  *)
(* by 0, 4 and 8 are three different ones.                                  *)
(***************************************************************************)
EXTENDS Cryp

SaltBits == {0, 2}
SomeWords == {{}, {0, 1}}
SomeMagics == SUBSET (0 .. 2)
=============================================================================
