------------------------------- MODULE Visits -------------------------------
(***************************************************************************)
(* Sessions grouped into visits (ui/app/db.py).  A new session looks up    *)
(* the visit it continues (session_group); rows of earlier releases are    *)
(* grouped in one pass (group_sessions); visits() lists the groups.        *)
(* A session is [ip, from, to]; a row's number is its place.               *)
(* A definition in front of one of the same form is a seeded fault.        *)
(***************************************************************************)
EXTENDS Integers, Sequences, FiniteSets, FiniteSetsExt

CONSTANTS
    Ip,
    MergeGap,
    Looked,         \* how many of the newest rows session_group looks at
    MaxRows, MaxStart, MaxLength

VARIABLES
    visitRows,      \* vpn_sessions of one client, in the order of their ids
    grp             \* grp[i]: the visit of row i, set when it was inserted

visitVars == <<visitRows, grp>>

VisitInit == visitRows = <<>> /\ grp = <<>>

(* ORDER BY connected_at, id.                                              *)
Later(i, j) ==
    \/ visitRows[i].from > visitRows[j].from
    \/ visitRows[i].from = visitRows[j].from /\ i > j
Last(S) == CHOOSE i \in S : \A j \in S \ {i} : Later(i, j)

(* session_group: of the last connections, the last one from this address  *)
(* decides.                                                                *)
session_groupAnyIp(ip, from) ==
    LET same == DOMAIN visitRows
    IN IF same # {} /\ from - visitRows[Last(same)].to <= MergeGap
       THEN {grp[Last(same)]} ELSE {}
session_group(ip, from) ==
    LET looked == {i \in DOMAIN visitRows :
                     Cardinality({j \in DOMAIN visitRows : Later(j, i)}) < Looked}
        same == {i \in looked : visitRows[i].ip = ip}
    IN IF same # {} /\ from - visitRows[Last(same)].to <= MergeGap
       THEN {grp[Last(same)]} ELSE {}

(* insert_session, in whatever order poll and read_logs come to know of    *)
(* connections: a session that continues no visit begins one.              *)
insert_session ==
    /\ Len(visitRows) < MaxRows
    /\ \E ip \in Ip, from \in 0..MaxStart, length \in 0..MaxLength :
        /\ visitRows' = Append(visitRows, [ip |-> ip, from |-> from, to |-> from + length])
        /\ grp' = Append(grp, LET found == session_group(ip, from)
                              IN IF found = {} THEN Len(visitRows) + 1 ELSE CHOOSE g \in found : TRUE)

VisitNext == insert_session
VisitSpec == VisitInit /\ [][VisitNext]_visitVars

(* group_sessions: the same from the rows alone, with the latest end of    *)
(* the address so far.                                                     *)
Earlier(i) == {j \in DOMAIN visitRows : visitRows[j].ip = visitRows[i].ip /\ Later(i, j)}
group_sessions ==
    LET g[i \in DOMAIN visitRows] ==
            IF \/ Earlier(i) = {}
               \/ visitRows[i].from - Max({visitRows[j].to : j \in Earlier(i)}) > MergeGap
            THEN i ELSE g[Last(Earlier(i))]
    IN g

(* visits: one entry a group, from its first connection to its last end.   *)
Members(v) == {i \in DOMAIN visitRows : grp[i] = v}
visits == {[ip |-> visitRows[Max(Members(v))].ip,
            from |-> Min({visitRows[i].from : i \in Members(v)}),
            to |-> Max({visitRows[i].to : i \in Members(v)}),
            last |-> Max(Members(v)), connections |-> Cardinality(Members(v))]
             : v \in {grp[i] : i \in DOMAIN visitRows}}

-----------------------------------------------------------------------------
VisitTypeOK == Len(visitRows) = Len(grp) /\ \A i \in DOMAIN grp : grp[i] \in 1..i

(* Sessions of one address are stored in the order of their connections    *)
(* and do not overlap, and none of them had more than Looked - 1 later     *)
(* ones of other addresses when the next was stored.                       *)
InTurn ==
    \A i, j \in DOMAIN visitRows : i < j /\ visitRows[i].ip = visitRows[j].ip =>
        /\ visitRows[i].to <= visitRows[j].from
        /\ i = Last(Earlier(j)) => Cardinality({k \in 1..(j - 1) : Later(k, i)}) < Looked

(* Grouping a session when it is stored gives the visits that grouping all *)
(* rows at once gives, when the sessions of an address are stored in turn, *)
(* in whatever order those of other addresses come in between, so the      *)
(* visits of before and after the upgrade to 1.5 mean the same; and the    *)
(* visits listed for one address are more than the gap apart.  Sessions of *)
(* different addresses are never in one visit.                             *)
VisitsAgree ==
    /\ \A i, j \in DOMAIN visitRows : grp[i] = grp[j] => visitRows[i].ip = visitRows[j].ip
    /\ InTurn =>
        /\ \A i \in DOMAIN visitRows : grp[i] = group_sessions[i]
        /\ \A v, w \in visits : v # w /\ v.ip = w.ip =>
            v.from - w.to > MergeGap \/ w.from - v.to > MergeGap

(* "Sessions of one client from one address that follow each other within  *)
(* this gap are one visit" (db.py:154): a session of a visit follows an    *)
(* earlier one of it within the gap, unless it is the first.               *)
VisitsWithinGap ==
    \A i \in DOMAIN visitRows :
        LET before == {j \in Members(grp[i]) : Later(i, j)}
        IN before # {} => \E j \in before : visitRows[i].from - visitRows[j].to <= MergeGap
=============================================================================
