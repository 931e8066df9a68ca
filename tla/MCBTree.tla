------------------------------ MODULE MCBTree -------------------------------
(* Instances of BTree for TLC. *)
EXTENDS BTree

CONSTANT MaxKey

KeyRange == 0..MaxKey
=============================================================================
