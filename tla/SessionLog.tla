------------------------------ MODULE SessionLog ------------------------------
(***************************************************************************)
(* What the lease and the session repository together promise: a session   *)
(* is a log of turns with one writer at a time, closed once, and nothing   *)
(* is appended to it afterwards.  The promise holds while the lease does:  *)
(* once it is void, nothing is promised any more.                          *)
(***************************************************************************)
EXTENDS Sequences

CONSTANTS Conns, NoConn

VARIABLES
    owner,   \* the connection that holds the session, or NoConn
    log,     \* the turns saved so far, by the connection that saved them
    closed,  \* "open" or "closed"
    void     \* the exclusive lease has been lost, or there never was one

Init == owner = NoConn /\ log = << >> /\ closed = "open" /\ void \in BOOLEAN

Open(c) == owner = NoConn /\ owner' = c /\ UNCHANGED <<log, closed>>
AppendTurn(c) == /\ owner = c /\ closed = "open"
                 /\ log' = Append(log, c) /\ UNCHANGED <<owner, closed>>
Close(c) == owner = c /\ closed' = "closed" /\ UNCHANGED <<owner, log>>
CloseIdle == owner = NoConn /\ closed' = "closed" /\ UNCHANGED <<owner, log>>
Leave(c) == owner = c /\ owner' = NoConn /\ UNCHANGED <<log, closed>>

Next == \/ /\ \/ CloseIdle
              \/ \E c \in Conns : Open(c) \/ AppendTurn(c) \/ Close(c) \/ Leave(c)
           /\ UNCHANGED void
        \/ void'      \* whatever happens to the log

Spec == Init /\ [][Next]_<<owner, log, closed, void>>

===============================================================================
