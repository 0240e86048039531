--------------------------- MODULE MCDestination ---------------------------
(* A client destination's LeaseSet requests and publication, and its garlic *)
(* routing towards one remote destination.  HandleDataMessage and           *)
(* WrapMessage touch none of the state of the requests, so a behaviour      *)
(* follows one of the two.                                                  *)
EXTENDS Destination, Garlic
CONSTANT d1
VARIABLE part

MCWants == [c \in Callers |-> d1]

Init ==
  /\ part \in {"requests", "garlic"}
  /\ DestInit /\ GarlicInit
  /\ part = "requests" \/ (inNetDb = {} /\ floodfills = {})

Next ==
  /\ UNCHANGED part
  /\ \/ part = "requests" /\ DestNext /\ UNCHANGED garlicVars
     \/ part = "garlic" /\ GarlicNext /\ UNCHANGED destVars

Spec == Init /\ [][Next]_<<part, destVars, garlicVars>>
=============================================================================
