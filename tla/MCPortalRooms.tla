--------------------------- MODULE MCPortalRooms ---------------------------
(* Two calls, a text and a login by hand of a user who may log in, and a   *)
(* text for one who may not.                                               *)
EXTENDS PortalRooms

CONSTANTS u1, u2, call1, call2, text1, text2, login1

Named  == [r \in Requests |-> IF r = text2 THEN u2 ELSE u1]
KindOf ==
  [r \in Requests |-> IF r \in {call1, call2} THEN "call"
                      ELSE IF r = login1 THEN "login" ELSE "text"]
=============================================================================
