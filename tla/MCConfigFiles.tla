---------------------------- MODULE MCConfigFiles ----------------------------
(***************************************************************************)
(* Names for the model checking of ConfigFiles: none begins with another,  *)
(* but a buffer in which one has left its tail can make <<chB>> longer.    *)
(***************************************************************************)
EXTENDS ConfigFiles, TLC

CONSTANTS chA, chB, chC

SomeChars == {chA, chB, chC}
SomeNames == {<<chA, chC>>, <<chB>>, <<chC>>}
Two       == {<<chA, chC>>, <<chB>>}
Symmetric == Permutations(Uploads) \cup Permutations(Threads)
=============================================================================
