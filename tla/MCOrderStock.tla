---------------------------- MODULE MCOrderStock ----------------------------
(* Two orders over one scarce row and one that only the first needs.        *)
EXTENDS OrderStock, TLC

CONSTANTS oa, ob, a1, a2, b1, b2, r1, r2, up, down, t1, t2

MCLines == oa :> <<a1, a2>> @@ ob :> <<b1, b2>>
MCRowOf == a1 :> r1 @@ a2 :> r2 @@ b1 :> r1 @@ b2 :> r1 @@ up :> r2 @@ down :> r1
MCQty == a1 :> 1 @@ a2 :> 1 @@ b1 :> 1 @@ b2 :> 1 @@ up :> 1 @@ down :> 1
MCOpening == r1 :> 2 @@ r2 :> 1
MCFigures == r1 :> {1} @@ r2 :> {}
Symmetry == Permutations({t1, t2})
=============================================================================
