---------------------------- MODULE CallLifecycle ----------------------------
(***************************************************************************)
(* What the call table promises its readers: a call rings, may be          *)
(* answered, and ends, never going back; whoever is on a call stays on it; *)
(* and of the inbound legs that share a conference at most one is up at a  *)
(* time.  How many goroutines it takes to keep that promise, and in what   *)
(* order they run, is left to module Calls, which implements this one.     *)
(***************************************************************************)
CONSTANTS Calls, Inbound, Users, NoUser, ConferenceOf

VARIABLES phase, who

Init ==
  /\ phase = [c \in Calls |-> "none"]
  /\ who = [c \in Calls |-> NoUser]

(* An inbound call rings for nobody in particular, an outbound one is the   *)
(* call of the user who dialled it.                                         *)
Ring(c) ==
  /\ phase[c] = "none"
  /\ phase' = [phase EXCEPT ![c] = "ringing"]
  /\ IF c \in Inbound
     THEN who' = who
     ELSE \E u \in Users : who' = [who EXCEPT ![c] = u]

(* An inbound call is taken by the user who joins it, if no other leg of    *)
(* its conference is up.                                                    *)
Take(c) ==
  /\ c \in Inbound
  /\ phase[c] = "ringing"
  /\ \A o \in Inbound : ConferenceOf[o] = ConferenceOf[c] => phase[o] # "bridged"
  /\ phase' = [phase EXCEPT ![c] = "bridged"]
  /\ \E u \in Users : who' = [who EXCEPT ![c] = u]

Connect(c) ==
  /\ c \notin Inbound
  /\ phase[c] = "ringing"
  /\ phase' = [phase EXCEPT ![c] = "bridged"]
  /\ who' = who

(* Calls end one at a time, except that a restart ends all of them.         *)
Finish(S) ==
  /\ \A c \in S : phase[c] \in {"ringing", "bridged"}
  /\ phase' = [c \in Calls |-> IF c \in S THEN "ended" ELSE phase[c]]
  /\ who' = who

Next ==
  \/ \E c \in Calls : Ring(c) \/ Take(c) \/ Connect(c)
  \/ \E S \in SUBSET Calls : Finish(S)

vars == <<phase, who>>

Spec == Init /\ [][Next]_vars
==============================================================================
