---------------------------- MODULE MCCollector -----------------------------
(***************************************************************************)
(* The collector for TLC, and what the UI makes of the rows it stores:     *)
(* traffic ranges and visits; and the rows of relay sessions, which a      *)
(* second thread stores.  They are modelled without common state; scene    *)
(* chooses the one that a behaviour is about.  The collector has two: one  *)
(* connection with everything that can happen to it, and several ones      *)
(* while the logs cannot be read.                                          *)
(***************************************************************************)
EXTENDS Collector, Traffic, Visits, RelayHistory

VARIABLE scene

statisticsVars == <<vars, trafficVars, visitVars, historyVars, scene>>

StatisticsInit ==
    /\ scene \in {"connection", "polls", "traffic", "visits", "relay"}
    /\ Init /\ TrafficInit /\ VisitInit /\ HistoryInit

Rejections == {i \in DOMAIN log : log[i].kind = "rejected"}

(* The bounds of the two scenes of the collector.  No count of bytes       *)
(* depends on a rejected attempt, so the two are combined only in part.    *)
OneConnection ==
    LET one == CHOOSE p \in Peer : TRUE
    IN /\ \A p \in Peer \ {one} : conn[p] = "new"
       /\ Rejections # {} => bytes[one] = 0
LogsUnread ==
    /\ read = {} /\ pending = {} /\ old = {} /\ rotations = 0 /\ Rejections = {}
    /\ \A p \in Peer : bytes[p] <= 1

StatisticsNext ==
    \/ /\ \/ scene = "connection" /\ Next /\ OneConnection'
          \/ scene = "polls" /\ Next /\ LogsUnread'
       /\ UNCHANGED <<trafficVars, visitVars, historyVars, scene>>
    \/ scene = "traffic" /\ TrafficNext /\ UNCHANGED <<vars, visitVars, historyVars, scene>>
    \/ scene = "visits" /\ VisitNext /\ UNCHANGED <<vars, trafficVars, historyVars, scene>>
    \/ scene = "relay" /\ HistoryNext /\ UNCHANGED <<vars, trafficVars, visitVars, scene>>
    \/ scene \notin {"connection", "polls"} /\ UNCHANGED statisticsVars      \* at a bound

StatisticsSpec == StatisticsInit /\ [][StatisticsNext]_statisticsVars
=============================================================================
