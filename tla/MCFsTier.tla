------------------------------- MODULE MCFsTier -------------------------------
(* Instances of FsTier for TLC. *)
EXTENDS FsTier, TLC

CONSTANTS p1, p2, j1, j2, s1

OneEach    == j1 :> p1 @@ j2 :> p2
OneShard   == j1 :> s1 @@ j2 :> s1
===============================================================================
