------------------------------- MODULE MCCalls -------------------------------
(* Instances of the call subsystem for TLC: two calls of one number.        *)
EXTENDS CallProperties

CONSTANTS c1, c2, u1, u2, conf

(* Both calls are in the conference of the one number ... *)
OneConference == [c \in Calls |-> conf]

(* ... each in the room of its own user: two legs of one phone call, ...    *)
OwnRooms == [c \in Calls |-> IF c = c1 THEN u1 ELSE u2]

(* ... or both in the same user's room.                                     *)
SameRoom == [c \in Calls |-> u1]

(* A room has its owner only, or another user beside him.                   *)
Alone == [u \in Users |-> {u}]
Together == [u \in Users |-> Users]
==============================================================================
