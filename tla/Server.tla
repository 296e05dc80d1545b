------------------------------- MODULE Server --------------------------------
(***************************************************************************)
(* The process as a whole: it starts (Startup), and then serves requests   *)
(* that share its connection pool (ConnPool).  It may die at any time, and *)
(* be started again; the locks of its database sessions outlive it.        *)
(***************************************************************************)
EXTENDS ConnPool, Startup

serverVars == <<poolVars, bootVars>>

ServerInit == PoolInit /\ BootInit

Starting == (Start \/ BootStep \/ StartFails \/ EditTables) /\ UNCHANGED poolVars

Serving == phase = "serving" /\ PoolStep /\ UNCHANGED bootVars

Rollbacks == DatabaseStep /\ UNCHANGED bootVars

Crash ==
  /\ phase = "serving"
  /\ Fatal
  /\ PoolCrash

ServerNext == Starting \/ Serving \/ Rollbacks \/ Crash

ServerSpec == ServerInit /\ [][ServerNext]_serverVars

(***************************************************************************)
(* Goroutines are scheduled, statements without a lock to wait for come to *)
(* an end, the server notices closed connections, and what main does comes *)
(* to an end or fails at its deadline of ten seconds.  Nobody has to start *)
(* the process, make a request, go away or let a deadline pass.            *)
(***************************************************************************)
FairServer ==
  /\ ServerSpec
  /\ WF_serverVars(BootStep /\ UNCHANGED poolVars)
  /\ \A r \in Requests :
       WF_serverVars(phase = "serving" /\ Progress(r) /\ UNCHANGED bootVars)
  /\ \A l \in Locks : WF_serverVars(ServerRollsBack(l) /\ UNCHANGED bootVars)
=============================================================================
