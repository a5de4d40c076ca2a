---------------------------- MODULE AddressPlan -----------------------------
(***************************************************************************)
(* Who may have which VPN address: the subnet and pool in server.conf, the *)
(* guest range in settings.conf, static IPs and guest markers              *)
(* (ui/app/pki.py, ui/app/network.py and the handlers that call them).     *)
(*                                                                         *)
(* Saving the network settings validates them against the static IPs of    *)
(* the moment, then takes pki.lock and replaces three files one after the  *)
(* other.  An address is an integer, a block [base, size] a subnet.        *)
(* A definition in front of one of the same form is a seeded fault.        *)
(***************************************************************************)
EXTENDS Integers, FiniteSets

CONSTANTS
    Client,
    Plan,           \* [net, guest : blocks, first, last : the pool]
    Wanted,         \* addresses that administrators ask for
    NoStatic,
    Saver,          \* requests to save the network settings
    MaxAddressFaults       \* handlers or processes cut short

VARIABLES
    conf,           \* server.conf: the plan whose subnet and pool it has
    confOK, bakOK,  \* server.conf and server.conf.bak are complete
    netfile,        \* settings.conf: the plan whose guest range it has
    proxies,        \* proxies.conf: the plan it was written for
    staticIp,       \* staticclients/<name>
    marked,         \* guests/<name>
    save,           \* save[h]: the plan being saved, and how far
    making,         \* the client being created, under pki.lock
    edited,         \* server.conf was changed in the editor
    overtaken,      \* a static IP was given out after a plan was validated
    addrFaults

addressVars == <<conf, confOK, bakOK, netfile, proxies, staticIp, marked, save,
                 making, edited, overtaken, addrFaults>>
files == <<conf, confOK, bakOK, netfile, proxies>>

NoPlan == [net |-> [base |-> 0, size |-> 0], first |-> 0, last |-> 0,
           guest |-> [base |-> 0, size |-> 0]]
Unsaved == [plan |-> NoPlan, form |-> "none", at |-> "idle"]

Block(b) == b.base..(b.base + b.size - 1)
Reserved(p) == {p.net.base, p.net.base + 1, p.net.base + p.net.size - 1}

(* guest_sub: the saved range, before that the upper half of the subnet;   *)
(* without either a built-in range, which is no part of these plans.       *)
guest_sub ==
    IF netfile # NoPlan THEN Block(netfile.guest)
    ELSE IF ~confOK THEN {}
    ELSE (conf.net.base + conf.net.size \div 2)..(conf.net.base + conf.net.size - 1)

(* Why OpenVPN could not hand out address a (static_ip_problem).           *)
ProblemIn(p, guest, a) ==
    \/ a \notin Block(p.net) \ Reserved(p)
    \/ a \in p.first..p.last
    \/ a \in guest
static_ip_problemNoPool(n, a) ==
    \/ confOK /\ a \notin Block(conf.net) \ Reserved(conf)
    \/ a \in guest_sub
    \/ \E m \in Client \ {n} : staticIp[m] = a
static_ip_problem(n, a) ==
    \/ confOK /\ ProblemIn(conf, guest_sub, a)
    \/ a \in guest_sub
    \/ \E m \in Client \ {n} : staticIp[m] = a

(* validate_addressing: the plan in itself, and the static IPs of now.     *)
Sound(p) ==
    /\ Block(p.guest) \subseteq Block(p.net)
    /\ p.net.base + 1 < p.first /\ p.first <= p.last
    /\ p.last < p.net.base + p.net.size - 1
    /\ p.first..p.last \cap Block(p.guest) = {}
    /\ p.net.base + 1 \notin Block(p.guest)
validate_addressing(p) ==
    /\ Sound(p)
    /\ \A n \in Client : staticIp[n] # NoStatic => ~ProblemIn(p, Block(p.guest), staticIp[n])

AddressInit ==
    /\ conf \in {p \in Plan : Sound(p) /\ p.last < p.net.base + p.net.size \div 2}
    /\ confOK = TRUE /\ bakOK = FALSE
    /\ netfile = NoPlan /\ proxies = NoPlan
    /\ staticIp = [n \in Client |-> NoStatic]
    /\ marked = {}
    /\ save = [h \in Saver |-> Unsaved]
    /\ making = {}
    /\ edited = FALSE /\ overtaken = FALSE
    /\ addrFaults = 0

-----------------------------------------------------------------------------
(* pki.lock is held while a client is created and while files are written. *)
Locked == making # {} \/ \E h \in Saver : save[h].at \notin {"idle", "validated"}
Pending == \E h \in Saver : save[h].at # "idle"

AddressFault == addrFaults < MaxAddressFaults /\ addrFaults' = addrFaults + 1

(* Under the lock; guests have no static IP.                               *)
set_static_ip(n) ==
    /\ ~Locked
    /\ \/ staticIp' = [staticIp EXCEPT ![n] = NoStatic] /\ UNCHANGED overtaken
       \/ \E a \in Wanted :
            /\ n \notin marked
            /\ ~static_ip_problem(n, a)
            /\ staticIp' = [staticIp EXCEPT ![n] = a]
            /\ overtaken' = (overtaken \/ Pending)
    /\ UNCHANGED <<files, marked, save, making, edited, addrFaults>>

MakeGuests(ns) ==
    /\ staticIp' = [n \in Client |-> IF n \in ns THEN NoStatic ELSE staticIp[n]]
    /\ marked' = marked \cup ns

set_guest(n) ==
    /\ ~Locked
    /\ \/ MakeGuests({n})
       \/ marked' = marked \ {n} /\ UNCHANGED staticIp
    /\ UNCHANGED <<files, save, making, edited, overtaken, addrFaults>>

(* Creating a client: genclient.sh writes its static IP, and what an       *)
(* earlier client of this name had is overwritten after that.              *)
create_address(n) ==
    /\ ~Locked
    /\ \E a \in Wanted \cup {NoStatic} :
        /\ a # NoStatic => ~static_ip_problem(n, a)
        /\ staticIp' = IF a = NoStatic THEN staticIp ELSE [staticIp EXCEPT ![n] = a]
        /\ overtaken' = (overtaken \/ (a # NoStatic /\ Pending))
        /\ making' = {[name |-> n, static |-> a # NoStatic]}
    /\ UNCHANGED <<files, marked, save, edited, addrFaults>>

create_access ==
    /\ \E m \in making :
        \/ m.static /\ marked' = marked \ {m.name} /\ UNCHANGED staticIp
        \/ ~m.static /\ MakeGuests({m.name})
        \/ /\ ~m.static
           /\ marked' = marked \ {m.name}
           /\ staticIp' = [staticIp EXCEPT ![m.name] = NoStatic]
    /\ making' = {}
    /\ UNCHANGED <<files, save, edited, overtaken, addrFaults>>

(* rmcert.sh.                                                              *)
remove_address(n) ==
    /\ ~Locked
    /\ staticIp' = [staticIp EXCEPT ![n] = NoStatic]
    /\ marked' = marked \ {n}
    /\ UNCHANGED <<files, save, making, edited, overtaken, addrFaults>>

-----------------------------------------------------------------------------
(* write_config keeps the old text in server.conf.bak, then writes the     *)
(* file in place: opening it empties it.                                   *)
SaveAt(h, step) == save' = [save EXCEPT ![h].at = step]

write_config(h) ==
    \/ /\ save[h].at = "backup"
       /\ bakOK' = FALSE
       /\ SaveAt(h, "copied") /\ UNCHANGED <<conf, confOK>>
    \/ /\ save[h].at = "copied"
       /\ bakOK' = confOK /\ confOK' = FALSE
       /\ SaveAt(h, "open") /\ UNCHANGED conf
    \/ /\ save[h].at = "open"
       /\ conf' = save[h].plan /\ confOK' = TRUE
       /\ SaveAt(h, "written") /\ UNCHANGED bakOK

(* save_settings: validated first, then the lock and the three files.      *)
(* Without its management line server.conf is not rewritten.               *)
save_settingsUnlocked(h) ==
    /\ \/ \E p \in Plan :
            /\ save[h].at = "idle" /\ validate_addressing(p)
            /\ save' = [save EXCEPT ![h] = [plan |-> p, form |-> "network", at |-> "validated"]]
            /\ UNCHANGED <<files, edited>>
       \/ /\ save[h].at = "validated" /\ confOK
          /\ conf' = save[h].plan /\ SaveAt(h, "written")
          /\ UNCHANGED <<confOK, bakOK, netfile, proxies, edited>>
       \/ /\ save[h].at = "written" /\ save[h].form = "network"
          /\ netfile' = save[h].plan
          /\ SaveAt(h, "settings") /\ UNCHANGED <<conf, confOK, bakOK, proxies, edited>>
       \/ /\ save[h].at = "settings"
          /\ proxies' = save[h].plan /\ edited' = FALSE
          /\ save' = [save EXCEPT ![h] = Unsaved]
          /\ UNCHANGED <<conf, confOK, bakOK, netfile>>
    /\ UNCHANGED <<staticIp, marked, making, overtaken, addrFaults>>
save_settings(h) ==
    /\ \/ \E p \in Plan :
            /\ save[h].at = "idle" /\ validate_addressing(p)
            /\ save' = [save EXCEPT ![h] = [plan |-> p, form |-> "network", at |-> "validated"]]
            /\ UNCHANGED <<files, edited>>
       \/ /\ save[h].at = "validated" /\ ~Locked
          /\ save' = [save EXCEPT ![h] = IF confOK THEN [@ EXCEPT !.at = "backup"] ELSE Unsaved]
          /\ UNCHANGED <<files, edited>>
       \/ save[h].form = "network" /\ write_config(h) /\ UNCHANGED <<netfile, proxies, edited>>
       \/ /\ save[h].at = "written" /\ save[h].form = "network"
          /\ netfile' = save[h].plan
          /\ SaveAt(h, "settings") /\ UNCHANGED <<conf, confOK, bakOK, proxies, edited>>
       \/ /\ save[h].at = "settings"
          /\ proxies' = save[h].plan /\ edited' = FALSE
          /\ save' = [save EXCEPT ![h] = Unsaved]
          /\ UNCHANGED <<conf, confOK, bakOK, netfile>>
    /\ UNCHANGED <<staticIp, marked, making, overtaken, addrFaults>>

(* The editor may put any subnet and pool into server.conf.                *)
edit_network(h) ==
    /\ \/ \E p \in Plan :
            /\ save[h].at = "idle" /\ ~Locked
            /\ save' = [save EXCEPT ![h] = [plan |-> p, form |-> "editor", at |-> "backup"]]
            /\ UNCHANGED files
       \/ save[h].form = "editor" /\ write_config(h) /\ UNCHANGED <<netfile, proxies>>
       \/ /\ save[h].at = "written" /\ save[h].form = "editor"
          /\ save' = [save EXCEPT ![h] = Unsaved]
          /\ UNCHANGED files
    /\ edited' = TRUE
    /\ UNCHANGED <<staticIp, marked, making, overtaken, addrFaults>>

(* The UI starts again; migrate_guest_static_ips turns static IPs in the   *)
(* guest range into guest markers.                                         *)
restart_ui ==
    /\ IF Locked THEN AddressFault ELSE UNCHANGED addrFaults
    /\ save' = [h \in Saver |-> Unsaved] /\ making' = {}
    /\ MakeGuests({n \in Client : staticIp[n] \in guest_sub})
    /\ UNCHANGED <<files, edited, overtaken>>

AddressNext ==
    \/ \E n \in Client :
        set_static_ip(n) \/ set_guest(n) \/ create_address(n) \/ remove_address(n)
    \/ \E h \in Saver : save_settings(h) \/ edit_network(h)
    \/ create_access
    \/ restart_ui

AddressSpec == AddressInit /\ [][AddressNext]_addressVars

-----------------------------------------------------------------------------
AddressTypeOK ==
    /\ conf \in Plan /\ netfile \in Plan \cup {NoPlan} /\ proxies \in Plan \cup {NoPlan}
    /\ staticIp \in [Client -> Wanted \cup {NoStatic}]
    /\ marked \subseteq Client
    /\ \A h \in Saver : save[h].plan \in Plan \cup {NoPlan}
    /\ {confOK, bakOK, edited, overtaken} \subseteq BOOLEAN
    /\ addrFaults \in 0..MaxAddressFaults

(* Every static IP is one that OpenVPN can hand out and nothing else uses: *)
(* a client address of the subnet, outside the pool and the guest range,   *)
(* of one client only, and of no guest.  It holds for any order of the     *)
(* requests and after a crash, unless the editor changed the subnet since  *)
(* the settings were saved, or an address was given out between a plan's   *)
(* validation and its writing (save_settings validates before it locks).   *)
StaticsUsable ==
    ~Locked /\ confOK /\ ~edited /\ ~overtaken =>
        \A n \in {m \in Client : staticIp[m] # NoStatic} :
            /\ ~ProblemIn(conf, guest_sub, staticIp[n])
            /\ \A m \in Client \ {n} : staticIp[m] # staticIp[n]
            /\ addrFaults = 0 => n \notin marked

(* server.conf, settings.conf and proxies.conf are three writes of one     *)
(* save: outside the lock they are always of the same save, however many   *)
(* requests save at once.                                                  *)
FilesAgree ==
    ~Locked /\ addrFaults = 0 /\ ~edited /\ netfile # NoPlan =>
        netfile = conf /\ proxies = conf

(* server.conf is written in place.  Wherever one crash falls, it or its   *)
(* .bak is complete once the UI runs again (write_config's backup).  The   *)
(* edit that repairs an empty server.conf first copies the empty file over *)
(* the .bak, so a second crash may leave neither.                          *)
ConfigSurvives == ~Locked /\ addrFaults <= 1 => confOK \/ bakOK

(* The configuration written by concurrent saves is of one save, and a     *)
(* crash in the middle of one loses no more than that save: both of the    *)
(* above.                                                                  *)
ConfigKept == FilesAgree /\ ConfigSurvives
=============================================================================
