-------------------------- MODULE MCAdministration --------------------------
(***************************************************************************)
(* The UI's requests for TLC: those on clients, on their profiles, on the  *)
(* plan with its static addresses, the sessions with their live-data       *)
(* streams, and the sign-in throttle.  They are modelled without common    *)
(* state; scene chooses the one that a behaviour is about.  The handlers   *)
(* of ClientLifecycle are interchangeable; the editors of Profiles, the    *)
(* savers of AddressPlan, and the requests, tokens and visitors of the     *)
(* last two are given the same model values, and so are they.              *)
(***************************************************************************)
EXTENDS ClientLifecycle, Profiles, AddressPlan, WebSessions, LoginLimiter, TLC

VARIABLE scene

signInVars == <<sessionVars, limiterVars>>
adminVars == <<vars, profileVars, addressVars, signInVars, scene>>

HandlerSymmetry == Permutations(Handler)

Subnet(b, s) == [base |-> b, size |-> s]

(* Two sound plans whose pools and guest ranges exclude each other's       *)
(* static addresses, and one whose pool overlaps its guest range.          *)
Plans == {[net |-> Subnet(0, 16), first |-> 2, last |-> 4, guest |-> Subnet(8, 8)],
          [net |-> Subnet(0, 16), first |-> 5, last |-> 7, guest |-> Subnet(12, 4)],
          [net |-> Subnet(0, 16), first |-> 7, last |-> 9, guest |-> Subnet(8, 8)]}

AdminInit ==
    /\ scene \in {"clients", "profiles", "plan", "sessions", "sign-in"}
    /\ Init /\ ProfileInit /\ AddressInit /\ SessionInit /\ LimiterInit
    /\ scene # "plan" => conf.first = 2
    /\ scene # "sessions" => user.role = "admin" /\ user.old

(* A bound: a race and a fault are combined only without links and access. *)
(* What is claimed of access ends with a race, and no certificate depends  *)
(* on it, so only links with both are left out.                            *)
OneTrouble ==
    raced /\ faults > 0 => link = NoLink /\ grant = Nothing /\ account = Nothing

SettingsNext ==
    \/ /\ scene = "clients" /\ Next /\ OneTrouble'
       /\ UNCHANGED <<profileVars, addressVars>>
    \/ scene = "profiles" /\ ProfileNext /\ UNCHANGED <<vars, addressVars>>
    \/ scene = "plan" /\ AddressNext /\ UNCHANGED <<vars, profileVars>>

SignInNext ==
    \/ scene = "sessions" /\ SessionNext /\ UNCHANGED limiterVars
    \/ scene = "sign-in" /\ LimiterNext /\ UNCHANGED sessionVars
    \/ scene \in {"sessions", "sign-in"} /\ UNCHANGED signInVars      \* at a time bound

AdminNext ==
    /\ \/ SettingsNext /\ UNCHANGED signInVars
       \/ SignInNext /\ UNCHANGED <<vars, profileVars, addressVars>>
    /\ UNCHANGED scene

AdminSpec == AdminInit /\ [][AdminNext]_adminVars
=============================================================================
