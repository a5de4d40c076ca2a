---------------------------- MODULE ClientAccess ----------------------------
(***************************************************************************)
(* One VPN address per device: the lease files that client-access.sh keeps *)
(* for OpenVPN's connect and disconnect hooks, the reaper of the           *)
(* supervisor (docker-entrypoint.sh) that releases forgotten ones, and the *)
(* administrator's choice of guests and static addresses (ui/app/pki.py).  *)
(*                                                                         *)
(* OpenVPN runs its hooks one at a time, so each is one step.  The reaper  *)
(* is another process: it reads the client list once, decides, and then    *)
(* removes lease files one after the other while devices come and go.      *)
(*                                                                         *)
(* A definition in front of one of the same form (ScanAnyAge before Scan)  *)
(* is a seeded fault that the specification does not use.                  *)
(***************************************************************************)
EXTENDS Integers, FiniteSets

CONSTANTS
    Device,
    Cert,                    \* common names; any device may hold any profile
    GuestFirst, GuestLast,   \* the guest range, addresses as integers
    Static,                  \* addresses that may be given out as static IPs
    Pool,                    \* OpenVPN's dynamic pool
    NoAddress,
    Nobody,                  \* the owner of a lease whose device was turned away
    MaxDevices,              \* OVPN_MAX_DEVICES, 0 for no limit
    Minute                   \* clock units in a minute

GuestRange == GuestFirst..GuestLast
Address == GuestRange \cup Static \cup Pool

(* static_ip_problem keeps static IPs out of the pool and the guest range; *)
(* the pool lies outside the guest range (server.conf).                    *)
ASSUME ClientAccessAssumption ==
    /\ GuestFirst \in Nat /\ GuestLast \in Nat
    /\ Static \subseteq Nat /\ Pool \subseteq Nat
    /\ Static \cap Pool = {} /\ GuestRange \cap (Static \cup Pool) = {}
    /\ NoAddress \notin Address
    /\ Nobody \notin Device \cup Cert
    /\ MaxDevices \in Nat
    /\ Minute \in Nat \ {0}

VARIABLES
    up,        \* OpenVPN runs
    guests,    \* certificates with a file guests/<name>
    static,    \* static[n]: the address in staticclients/<name>
    conn,      \* conn[d]: the certificate and address of the device's connection
    lease,     \* lease[a]: the file <a> in /tmp/openvpn-leases
    status,    \* OpenVPN's status file: connected addresses, and its age
    doomed     \* lease files the reaper is about to remove

accessVars == <<up, guests, static, conn, lease, status, doomed>>

Old == Minute + 1   \* ages are told apart up to here

Off == [cn |-> Nobody, addr |-> NoAddress]
Conn == [cn : Cert \cup {Nobody}, addr : Address \cup {NoAddress}]
NoLease == [cn |-> Nobody, owner |-> Nobody, age |-> 0]
Lease == [cn : Cert \cup {Nobody}, owner : Device \cup {Nobody}, age : 0..Old]

Leased(a) == lease[a].cn # Nobody
On(d) == conn[d].addr # NoAddress
ConnectedAddresses == {conn[d].addr : d \in {e \in Device : On(e)}}

AccessInit ==
    /\ up = TRUE
    /\ guests \in SUBSET Cert
    /\ static = [n \in Cert |-> NoAddress]
    /\ conn = [d \in Device |-> Off]
    /\ lease = [a \in Address |-> NoLease]
    /\ status = [clients |-> {}, age |-> 0]
    /\ doomed = {}

-----------------------------------------------------------------------------
(* client-connect.                                                         *)
TooManyDevices(n) ==
    MaxDevices > 0 /\ Cardinality({a \in Address : lease[a].cn = n}) >= MaxDevices

(* A guest gets the first free address of the range; a static IP goes to   *)
(* the first device; otherwise OpenVPN has offered one of its pool.        *)
Grants(n, a) ==
    \/ /\ n \in guests
       /\ a \in GuestRange
       /\ ~Leased(a)
       /\ \A b \in GuestRange : b < a => Leased(b)
    \/ /\ n \notin guests
       /\ a = static[n]
       /\ ~Leased(a)
    \/ /\ n \notin guests
       /\ static[n] # NoAddress => Leased(static[n])
       /\ a \in Pool \ ConnectedAddresses

Connect(d, n) ==
    /\ up
    /\ ~On(d)
    /\ ~TooManyDevices(n)
    /\ \E a \in Address :
        /\ Grants(n, a)
        /\ lease' = [lease EXCEPT ![a] = [cn |-> n, owner |-> d, age |-> 0]]
        /\ conn' = [conn EXCEPT ![d] = [cn |-> n, addr |-> a]]
    /\ UNCHANGED <<up, guests, static, status, doomed>>

(* OpenVPN turns the client away after the hook (no common cipher) and     *)
(* does not run client-disconnect.                                         *)
TurnAway(n) ==
    /\ up
    /\ ~TooManyDevices(n)
    /\ \E a \in Address :
        /\ Grants(n, a)
        /\ lease' = [lease EXCEPT ![a] = [cn |-> n, owner |-> Nobody, age |-> 0]]
    /\ UNCHANGED <<up, guests, static, conn, status, doomed>>

(* client-disconnect releases what this connection (name, address, port)   *)
(* holds.                                                                  *)
Disconnect(d) ==
    /\ up
    /\ On(d)
    /\ lease' = [a \in Address |-> IF lease[a].owner = d THEN NoLease ELSE lease[a]]
    /\ conn' = [conn EXCEPT ![d] = Off]
    /\ UNCHANGED <<up, guests, static, status, doomed>>

-----------------------------------------------------------------------------
(* OpenVPN rewrites its status file every few seconds.                     *)
WriteStatus ==
    /\ up
    /\ status' = [clients |-> ConnectedAddresses, age |-> 0]
    /\ UNCHANGED <<up, guests, static, conn, lease, doomed>>

(* reap_leases: only against a current list, only leases older than it.    *)
ScanAnyAge ==
    /\ status.age < Minute
    /\ doomed' = {a \in Address : Leased(a) /\ a \notin status.clients}
ScanListed ==
    /\ status.age < Minute
    /\ doomed' = {a \in Address : Leased(a) /\ lease[a].age > Minute /\ a \in status.clients}
Scan ==
    /\ status.age < Minute
    /\ doomed' = {a \in Address : Leased(a) /\ lease[a].age > Minute /\ a \notin status.clients}

ReapLeases ==
    /\ up
    /\ doomed = {}
    /\ Scan
    /\ UNCHANGED <<up, guests, static, conn, lease, status>>

Release(a) ==
    /\ a \in doomed
    /\ lease' = [lease EXCEPT ![a] = NoLease]
    /\ doomed' = doomed \ {a}
    /\ UNCHANGED <<up, guests, static, conn, status>>

(* OpenVPN exits; the supervisor finishes what it is doing, clears the     *)
(* leases (prepare_access) and starts it again.                            *)
OpenVPNExits ==
    /\ up
    /\ up' = FALSE
    /\ conn' = [d \in Device |-> Off]
    /\ UNCHANGED <<guests, static, lease, status, doomed>>

OpenVPNStarts ==
    /\ ~up
    /\ doomed = {}
    /\ lease' = [a \in Address |-> NoLease]
    /\ up' = TRUE
    /\ UNCHANGED <<guests, static, conn, status, doomed>>

-----------------------------------------------------------------------------
(* The administrator, at any time; it applies to the next connection.      *)
SetGuest(n, guest) ==
    /\ guests' = IF guest THEN guests \cup {n} ELSE guests \ {n}
    /\ static' = IF guest THEN [static EXCEPT ![n] = NoAddress] ELSE static
    /\ UNCHANGED <<up, conn, lease, status, doomed>>

SetStaticIP(n, a) ==
    /\ a = NoAddress \/ (n \notin guests /\ \A m \in Cert \ {n} : static[m] # a)
    /\ static' = [static EXCEPT ![n] = a]
    /\ UNCHANGED <<up, guests, conn, lease, status, doomed>>

Aged(age) == IF age < Old THEN age + 1 ELSE Old

AccessTick ==
    /\ lease' = [a \in Address |->
                    IF Leased(a) THEN [lease[a] EXCEPT !.age = Aged(@)] ELSE NoLease]
    /\ status' = [status EXCEPT !.age = Aged(@)]
    /\ UNCHANGED <<up, guests, static, conn, doomed>>

AccessNext ==
    \/ \E d \in Device, n \in Cert : Connect(d, n)
    \/ \E d \in Device : Disconnect(d)
    \/ \E n \in Cert : \/ TurnAway(n)
                       \/ \E guest \in BOOLEAN : SetGuest(n, guest)
                       \/ \E a \in Static \cup {NoAddress} : SetStaticIP(n, a)
    \/ \E a \in Address : Release(a)
    \/ WriteStatus \/ ReapLeases \/ OpenVPNExits \/ OpenVPNStarts \/ AccessTick

AccessSpec == AccessInit /\ [][AccessNext]_accessVars

(* Time passes, OpenVPN writes its status file while it runs, and the      *)
(* supervisor restarts it when it exits and runs the reaper every minute,  *)
(* in which the status file is fresh time and again.                       *)
AccessFairness ==
    /\ WF_accessVars(AccessTick) /\ WF_accessVars(OpenVPNStarts) /\ WF_accessVars(WriteStatus)
    /\ SF_accessVars(ReapLeases)
    /\ \A a \in Address : WF_accessVars(Release(a))

AccessFairSpec == AccessSpec /\ AccessFairness

-----------------------------------------------------------------------------
AccessTypeOK ==
    /\ up \in BOOLEAN
    /\ guests \subseteq Cert
    /\ static \in [Cert -> Static \cup {NoAddress}]
    /\ conn \in [Device -> Conn]
    /\ lease \in [Address -> Lease]
    /\ status \in [clients : SUBSET Address, age : 0..Old]
    /\ doomed \subseteq Address

(* No two connected devices have the same address, although the reaper     *)
(* removes leases from a list it made earlier and static addresses move    *)
(* from one certificate to another.                                        *)
NoSharedAddress ==
    \A d, e \in Device : On(d) /\ conn[d].addr = conn[e].addr => d = e

(* README: one certificate gets at most OVPN_MAX_DEVICES connections.      *)
DeviceLimit ==
    \A n \in Cert : MaxDevices > 0 =>
        Cardinality({d \in Device : On(d) /\ conn[d].cn = n}) <= MaxDevices

(* A lease without a device is released in the end, or taken over by a     *)
(* newer connection: it does not count against its certificate for ever.   *)
Forgotten(a) == Leased(a) /\ a \notin ConnectedAddresses /\ lease[a].age > 0
LeasesReleased == \A a \in Address : Forgotten(a) ~> ~Forgotten(a)
=============================================================================
