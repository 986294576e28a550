---------------------------- MODULE MCInboundQueue ----------------------------
(* Instances of the inbound path for TLC: a few texts to one or two portals. *)
EXTENDS InboundProperties, TLC

CONSTANTS a1, a2, b1, A, B

(* Two texts to one portal, and one to another.                             *)
TwoPortals == [t \in Texts |-> IF t = b1 THEN B ELSE A]

(* The texts of one portal may be exchanged where only safety is checked.   *)
Exchanged == Permutations({a1, a2})
==============================================================================
