-------------------------------- MODULE Gateway --------------------------------
(***************************************************************************)
(* The orchestrator of the voice gateway: the commands, events and         *)
(* reconnects of a node's connection to FreeSWITCH (EslClient), and the    *)
(* store of calls that all nodes share (CallStore).  A behaviour watches   *)
(* one of the two.                                                         *)
(***************************************************************************)
EXTENDS EslClient, CallStore

VARIABLE side     \* bound: "esl" or "store"

gatewayVars == <<side, eslVars, vars>>

GatewayInit ==
    /\ side \in {"esl", "store"} /\ EslInit /\ Init
    /\ side = "esl" => /\ owner = [c \in Calls |-> CHOOSE n \in Nodes : TRUE]
                       /\ store = [n \in Nodes |-> Redis]

\* A of the connection, beside which the store does nothing, while the process lives.
OnLink(A) == side = "esl" /\ ~panicked /\ A /\ UNCHANGED <<side, vars>>

GatewayNext ==
    \/ OnLink(EslNext)
    \/ side = "store" /\ Next /\ UNCHANGED <<side, eslVars>>

\* The goroutines run, FreeSWITCH answers and can be reached again after a lost
\* connection, timers fire, and Go's mutex does not starve a waiter.  Nothing
\* obliges a call to start or end or the connection to drop.
GatewaySpec ==
    /\ GatewayInit /\ [][GatewayNext]_gatewayVars
    /\ WF_gatewayVars(OnLink(RouteReply \/ onChannelCreate \/ onChannelHangup \/ LoopExit))
    /\ WF_gatewayVars(OnLink(Close \/ Dial)) /\ SF_gatewayVars(OnLink(Authenticate))
    /\ SF_gatewayVars(OnLink(Reconnected)) /\ WF_gatewayVars(OnLink(Serve))
    /\ \A p \in Procs : /\ SF_gatewayVars(OnLink(Send(p) \/ SendFails(p) \/ SendPanics(p)))
                        /\ WF_gatewayVars(OnLink(Receive(p) \/ Timeout(p)))
                        /\ WF_gatewayVars(OnLink(ReleaseOrphans(p)))

===============================================================================
