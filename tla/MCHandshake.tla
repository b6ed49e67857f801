---------------------------- MODULE MCHandshake ----------------------------
(***************************************************************************)
(* Small instances of Handshake: two cubes that a user swaps and that have *)
(* no power of their own, or one that has.  An arm that starts with either *)
(* of the two plugged is the same, and so is one of the two to be plugged. *)
(***************************************************************************)
EXTENDS Handshake

CONSTANTS u, a, b

Pair == {a, b}
Kit(cubes, own, plugged, lossy) ==
    [cubes |-> cubes, own |-> own, plugged |-> plugged, lossy |-> lossy]
SwapOrOwnPower == {Kit({a, b}, {}, a, TRUE), Kit({a}, {}, None, TRUE),
                   Kit({a}, {a}, a, FALSE), Kit({a}, {a}, None, TRUE)}

Single == {a}
OneCube == {Kit({a}, {}, a, FALSE), Kit({a}, {}, None, FALSE)}
=============================================================================
