------------------------------ MODULE MCBtree ------------------------------
(***************************************************************************)
(* A small instance of Btree for TLC: keys of which one is a prefix of     *)
(* others and one is empty, a value that is too large and two that are     *)
(* not.                                                                    *)
(***************************************************************************)
EXTENDS Btree, TLC

CONSTANTS va, vb, b1, b2, b3

\* Leaves are interchangeable.
Symmetry == Permutations(Leaves)

SmallKeys == {<< >>, << 0 >>, << 1 >>, << 1, 0 >>}
SmallValues == {[size |-> 0, data |-> va], [size |-> 4, data |-> vb], [size |-> 9, data |-> vb]}
=============================================================================
