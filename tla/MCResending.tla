---------------------------- MODULE MCResending ----------------------------
(* The two protocols that resend until they are acknowledged: streams       *)
(* between destinations and SSU data between routers.  They run in          *)
(* different layers and share no state, so a behaviour follows one, and     *)
(* fairness is asked of that one.                                           *)
EXTENDS Streaming, SSUData

CONSTANTS alice, bob, status, storeA, storeB, d1
VARIABLE part

MCOneIncoming == {2}
MCAccepting == {TRUE}
MCAnyAcceptor == BOOLEAN
MCStore == [x \in {alice, bob} |-> IF x = alice THEN storeA ELSE storeB]
MCData == {d1}

MCInit ==
  /\ Init
  /\ \/ part = "stream" /\ InitSession(FALSE)
     \/ part = "ssu" /\ SSUDataInit
MCNext ==
  /\ UNCHANGED part
  /\ \/ part = "stream" /\ Next /\ UNCHANGED ssuDataVars
     \/ part = "ssu" /\ SSUDataNext /\ UNCHANGED vars

(* Fairness of Streaming and SSUDataFairness, each for its part.            *)
MCFairness ==
  /\ \A s \in StreamIDs : /\ WF_vars(part = "stream" /\ RunPosted(s))
                          /\ WF_vars(part = "stream" /\ ResendTimer(s))
  /\ SF_ssuDataVars(part = "ssu" /\ Tick)
  /\ \A x \in Sides :
       /\ WF_ssuDataVars(part = "ssu" /\ HandleSSUResendTimer(x))
       /\ WF_ssuDataVars(part = "ssu" /\ HandleIncompleteMessagesCleanupTimer(x))

MCSpec == MCInit /\ [][MCNext]_<<part, vars, ssuDataVars>> /\ MCFairness
=============================================================================
