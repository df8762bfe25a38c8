-------------------------- MODULE MCBitmapReclaim --------------------------
(* An instance of BitmapReclaim for TLC. *)
EXTENDS BitmapReclaim

CONSTANTS o1, o2, o3

(* A block of two objects with user data and one of an object without. *)
TwoTyped == {o1, o2}

TwoBlocks == {TwoTyped, {o3}}

OneTyped == {TwoTyped}
=============================================================================
