---------------------------- MODULE SignalChannel ----------------------------
(***************************************************************************)
(* What the signal relay promises to the two ends of one direction of a    *)
(* signal connection: the messages that were accepted arrive in order,     *)
(* without gaps or repetitions, until the connection breaks, and when it   *)
(* ends in an orderly way all of them have arrived.                        *)
(***************************************************************************)
EXTENDS Naturals

VARIABLES accepted,   \* number of messages accepted; message i is the i-th
          arrived,    \* the messages that arrived, in order
          end         \* "open", "ended" in order, or "broken"

chanVars == <<accepted, arrived, end>>

(* The first n messages.                                                    *)
FirstMessages(n) == [i \in 1..n |-> i]

ChanInit == accepted = 0 /\ arrived = FirstMessages(0) /\ end = "open"

Accept == accepted' = accepted + 1 /\ UNCHANGED <<arrived, end>>

Arrive ==
  /\ end = "open"
  /\ \E n \in 1..accepted : arrived = FirstMessages(n - 1) /\ arrived' = FirstMessages(n)
  /\ UNCHANGED <<accepted, end>>

EndInOrder == /\ end = "open" /\ arrived = FirstMessages(accepted)
              /\ end' = "ended"
              /\ UNCHANGED <<accepted, arrived>>

Break == end = "open" /\ end' = "broken" /\ UNCHANGED <<accepted, arrived>>

ChanNext == Accept \/ Arrive \/ EndInOrder \/ Break

ChanSpec == ChanInit /\ [][ChanNext]_chanVars
=============================================================================
