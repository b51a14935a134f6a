------------------------------ MODULE MCStreamMux ------------------------------
(***************************************************************************)
(* StreamMux for TLC.                                                      *)
(***************************************************************************)
EXTENDS StreamMux, TLC

\* The pads are interchangeable: no constant and no property tells them apart.
PadSymmetry == Permutations(Pads)
================================================================================
