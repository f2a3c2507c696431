---------------------------- MODULE MCCellWrites ----------------------------
(* Instances of CellWrites for TLC: record ids are small numbers, handlers *)
(* are interchangeable model values.                                       *)
EXTENDS CellWrites, TLC

Handlers == Permutations(Proc)

(* Values that make rows meet: links each way and a self link, two targets *)
(* that other rows share, a target the stored value does not name.         *)
MutualLinks == {{}, {1, 2}}
SharedLinks == {{}, {2, 3}}
ApartLinks == {{1}, {2, 3}}
OtherLinks == {{2}, {3}}
=============================================================================
