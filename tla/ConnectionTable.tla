--------------------------- MODULE ConnectionTable ---------------------------
(***************************************************************************)
(* What a connection manager that only connects promises about its table   *)
(* of connections: which remote end each connection talks to.  Both ends   *)
(* change together, one connection at a time: a connection is opened to a  *)
(* remote end that has none, nothing but its own close ends it, and a      *)
(* remote end is free again as soon as its connection is closed, whether   *)
(* it had hung up or not, unless a reset keeps its socket from being       *)
(* closed.                                                                 *)
(***************************************************************************)
CONSTANTS
  Ids,    \* the connections
  Peers,  \* the remote ends
  None    \* of a connection that is not open

VARIABLES
  conn,   \* the remote end of each connection
  peer    \* "idle", "open", "hup", "reset" or "lost", for each remote end

Init ==
  /\ conn = [c \in Ids |-> None]
  /\ peer = [p \in Peers |-> "idle"]

Open(c, p) ==
  /\ conn[c] = None /\ peer[p] = "idle"
  /\ conn' = [conn EXCEPT ![c] = p]
  /\ peer' = [peer EXCEPT ![p] = "open"]

HangUp(p) ==
  /\ peer[p] = "open"
  /\ peer' = [peer EXCEPT ![p] = "hup"]
  /\ UNCHANGED conn

Reset(p) ==
  /\ peer[p] \in {"open", "hup"}
  /\ peer' = [peer EXCEPT ![p] = "reset"]
  /\ UNCHANGED conn

\* The removal that a reset calls for fails half way: with its error read,
\* the connection goes on like one whose remote end has hung up.
Linger(p) ==
  /\ peer[p] = "reset"
  /\ peer' = [peer EXCEPT ![p] = "hup"]
  /\ UNCHANGED conn

Close(c) ==
  /\ conn[c] # None
  /\ conn' = [conn EXCEPT ![c] = None]
  /\ \/ peer' = [peer EXCEPT ![conn[c]] = "idle"]
     \/ peer[conn[c]] = "reset" /\ peer' = [peer EXCEPT ![conn[c]] = "lost"]

Next ==
  \/ \E c \in Ids, p \in Peers : Open(c, p)
  \/ \E p \in Peers : HangUp(p) \/ Reset(p) \/ Linger(p)
  \/ \E c \in Ids : Close(c)

Spec == Init /\ [][Next]_<<conn, peer>>
=============================================================================
