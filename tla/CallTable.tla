------------------------------ MODULE CallTable ------------------------------
(***************************************************************************)
(* The sip_call table and the SQL statements the bridge runs on it         *)
(* (pkg/database/call.go).  A row is created ringing, is bridged by one of *)
(* two compare-and-swap statements, and is ended by a third.  Each         *)
(* statement is atomic; what a caller does with its result is not, and is  *)
(* the subject of module Calls.                                            *)
(***************************************************************************)
EXTENDS Naturals, FiniteSets

CONSTANTS
  Calls,          \* the call IDs a behaviour may use
  Inbound,        \* those that are inbound legs; the others are outbound
  Users,          \* Matrix users
  NoUser,         \* the empty matrix_user column
  Conferences,    \* conference names, one per portal ID
  ConferenceOf,   \* the conference column of each call
  ReceiverOf      \* the receiver column of each call

ASSUME CallTableAssumption ==
  /\ IsFiniteSet(Calls)
  /\ Inbound \subseteq Calls
  /\ ConferenceOf \in [Calls -> Conferences]
  /\ ReceiverOf \in [Calls -> Users]
  /\ NoUser \notin Users

VARIABLE row  \* call ID -> the row, "none" while there is none

Outbound == Calls \ Inbound

RowStates == {"none", "ringing", "bridged", "ended"}

(* at: position in created_at order.  old: the calls created more than      *)
(* RingTimeout + ringSetupGrace before this one (see AnsweredElsewhere).    *)
Rows == [state : RowStates, user : Users \cup {NoUser}, at : Nat,
         old : SUBSET Calls]

NoRow == [state |-> "none", user |-> NoUser, at |-> 0, old |-> {}]

(* A portal is a portal ID and its owner, and has one room: the room_id     *)
(* column is determined by the conference and the receiver.                 *)
RoomOf(c) == <<ConferenceOf[c], ReceiverOf[c]>>

Active == {c \in Calls : row[c].state \in {"ringing", "bridged"}}

ActiveIn(room) == {c \in Active : RoomOf(c) = room}

(* ORDER BY created_at DESC LIMIT 1: the row it returns, if there is one.   *)
Newest(S) == {c \in S : \A d \in S : row[d].at <= row[c].at}

Peers(c) == {o \in Calls : ConferenceOf[o] = ConferenceOf[c]}

(* What the guards below would be without the condition each exists for,    *)
(* and a claim that does not record who made it: mistakes the properties    *)
(* of the calls are checked to notice.                                      *)
TransitionRevives(c) == row[c].state \in {"ringing", "ended"}

AnswerIgnoresPeers(c) == row[c].state = "ringing"

EndAgain(c) == row[c].state # "none"

(* The guards of the compare-and-swap statements: a caller learns from      *)
(* RowsAffected whether its guard held.                                     *)
TransitionWins(c) == row[c].state = "ringing"

AnswerWins(c) ==
  /\ row[c].state = "ringing"
  /\ \A o \in Peers(c) : row[o].state # "bridged"

EndWins(c) == row[c].state \in {"ringing", "bridged"}

AnsweredElsewhere(c) ==
  \E o \in Peers(c) \ {c} :
    /\ o \in Inbound
    /\ row[o].state = "bridged"
    /\ row[o].user # NoUser
    /\ o \notin row[c].old

InsertRow(c, u, older) ==
  row' = [row EXCEPT ![c] =
    [state |-> "ringing", user |-> u, old |-> older,
     at |-> Cardinality({d \in Calls : row[d].state # "none"}) + 1]]

TransitionRow(c) ==
  row' = IF TransitionWins(c) THEN [row EXCEPT ![c].state = "bridged"] ELSE row

AnswerAnonymously(c, u) ==
  row' = IF AnswerWins(c) THEN [row EXCEPT ![c].state = "bridged"] ELSE row

AnswerRow(c, u) ==
  row' = IF AnswerWins(c)
         THEN [row EXCEPT ![c].state = "bridged", ![c].user = u]
         ELSE row

EndRow(c) ==
  row' = IF EndWins(c) THEN [row EXCEPT ![c].state = "ended"] ELSE row

EndAllRows ==
  row' = [c \in Calls |-> IF c \in Active THEN [row[c] EXCEPT !.state = "ended"]
                                          ELSE row[c]]
==============================================================================
