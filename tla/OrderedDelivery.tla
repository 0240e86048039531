-------------------------- MODULE OrderedDelivery --------------------------
(* What every sending layer of the router promises to the one above it: on  *)
(* each channel messages are accepted, wait in order, and are handed on in  *)
(* that order, each at most once.  A layer may lose what waits (a peer or a *)
(* session goes away), and never reorders, repeats or invents a message.    *)
(* The messages of a channel are numbered as they are accepted.             *)
EXTENDS Naturals, Sequences

CONSTANT Channels

VARIABLES
  accepted,   \* per channel: how many messages the layer was given
  pending,    \* those that still wait in it
  handed      \* those it has handed on, in order

vars == <<accepted, pending, handed>>

Init == \A c \in Channels : accepted[c] = 0 /\ pending[c] = {} /\ handed[c] = <<>>

(* One step may accept messages, hand on the oldest of those that wait and  *)
(* lose any of the others.                                                  *)
Step(c) ==
  LET all == pending[c] \cup (accepted[c] + 1)..accepted'[c]
      new == (Len(handed[c]) + 1)..Len(handed'[c])
      out == {handed'[c][k] : k \in new}
  IN /\ accepted[c] <= accepted'[c]
     /\ Len(handed[c]) <= Len(handed'[c])
     /\ \A k \in 1..Len(handed[c]) : handed'[c][k] = handed[c][k]
     /\ \A j, k \in new : j < k => handed'[c][j] < handed'[c][k]
     /\ out \subseteq all
     /\ \A m \in all, x \in out : m < x => m \in out
     /\ pending'[c] \subseteq all \ out

Next == \A c \in Channels : Step(c)

Spec == Init /\ [][Next]_vars
=============================================================================
