------------------------------ MODULE MCAccess ------------------------------
(***************************************************************************)
(* Access to the VPN for TLC: how long a relay flow outlives its           *)
(* permission, the addresses that connecting devices get, and the one-time *)
(* codes they present.  The three are modelled without common state; scene *)
(* chooses the one that a behaviour is about.                              *)
(***************************************************************************)
EXTENDS RelayWatch, ClientAccess, OneTimeCode

VARIABLE scene

mcVars == <<watchVars, accessVars, codeVars, scene>>

MCInit ==
    /\ scene \in {"flows", "devices", "codes"}
    /\ WatchInit /\ AccessInit /\ CodeInit
    /\ scene # "flows" => \A t \in WellFormed : permitted[t]
    /\ scene # "devices" => guests = {}

MCNext ==
    /\ \/ scene = "flows" /\ WatchNext /\ UNCHANGED <<accessVars, codeVars>>
       \/ scene = "devices" /\ AccessNext /\ UNCHANGED <<watchVars, codeVars>>
       \/ scene = "codes" /\ CodeNext /\ UNCHANGED <<watchVars, accessVars>>
       \/ scene = "codes" /\ UNCHANGED mcVars      \* at the time bound
    /\ UNCHANGED scene

In(s, A) == scene = s /\ A

(* WatchFairness and AccessFairness, for the behaviours they are about.    *)
MCFairness ==
    /\ SF_watchVars(In("flows", Advance))
    /\ \A c \in Caller : /\ WF_watchVars(In("flows", Authorized(c)))
                         /\ WF_watchVars(In("flows", Admit(c) \/ Reject(c) \/ Keep(c) \/ Close(c)))
                         /\ WF_watchVars(In("flows", Fire(c)))
                         /\ WF_watchVars(In("flows", End(c) /\ flow[c].state = "setup"))
    /\ WF_accessVars(In("devices", AccessTick)) /\ WF_accessVars(In("devices", OpenVPNStarts))
    /\ WF_accessVars(In("devices", WriteStatus))
    /\ SF_accessVars(In("devices", ReapLeases))
    /\ \A a \in Address : WF_accessVars(In("devices", Release(a)))

MCSpec == MCInit /\ [][MCNext]_mcVars /\ MCFairness
=============================================================================
