------------------------------ MODULE MCBmpOut -------------------------------
(***************************************************************************)
(* BmpOut for TLC.  Prefixes are interchangeable, peers are not: some are  *)
(* BGP sessions and the others are monitored over BMP.                     *)
(***************************************************************************)
EXTENDS BmpOut, TLC

PrefixSymmetry == Permutations(Prefixes)
=============================================================================
