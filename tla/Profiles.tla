------------------------------ MODULE Profiles ------------------------------
(***************************************************************************)
(* The .ovpn profiles kept on disk and what they are built from: the       *)
(* listening protocols and the control channel of server.conf, the remotes *)
(* of client.conf, and each client's 2FA secret (ui/app/pki.py,            *)
(* bin/mkovpn.sh and the settings handlers of ui/app/main.py).             *)
(*                                                                         *)
(* Handlers change a file under pki.lock and rebuild the profiles after    *)
(* it, some of them without the lock, one profile at a time.               *)
(* A definition in front of one of the same form is a seeded fault.        *)
(***************************************************************************)
EXTENDS Integers, FiniteSets

CONSTANTS
    Holder,         \* clients with a certificate
    Editor,         \* requests of administrators
    Listens,        \* the sets of protocols that server.conf may list
    MaxStops        \* restarts of the UI, profiles that cannot be built

(* A server.conf without a second listener has UDP alone.                  *)
ASSUME ProfilesAssumption == {"udp"} \in Listens

VARIABLES
    serverConf,     \* [listen, channel] of server.conf
    clientConf,     \* [host, remotes] of client.conf
    keyed,          \* tc2-server.key exists
    remembered,     \* setting remote_from_env is the configured host
    secret,         \* clients with a line in oath.secrets
    profile,        \* profile[n]: what <n>.ovpn was built from
    request,        \* request[e]: what e still has to do
    byHand,         \* the editor changed: "remotes", "channel"
    stops

profileVars == <<serverConf, clientConf, keyed, remembered, secret, profile, request, byHand, stops>>

Channel == {"tls-crypt", "tls-crypt-v2"}
Host == {"placeholder", "public"}
Done == [todo |-> {}, next |-> "idle"]

(* mkovpn.sh; a key of the client's own needs the server's.                *)
BuiltFrom(conf, client, n) ==
    [remotes |-> client.remotes, channel |-> conf.channel, tfa |-> n \in secret]
CanBuild(conf, key) == conf.channel = "tls-crypt-v2" => key
mkovpn(n) ==
    profile' = [profile EXCEPT ![n] =
                  IF CanBuild(serverConf, keyed) THEN BuiltFrom(serverConf, clientConf, n) ELSE @]

ProfileInit ==
    /\ serverConf = [listen |-> {"udp"}, channel |-> "tls-crypt"]
    /\ clientConf = [host |-> "placeholder", remotes |-> {"udp"}]
    /\ keyed = FALSE /\ remembered = FALSE
    /\ secret = {}
    /\ profile = [n \in Holder |-> BuiltFrom(serverConf, clientConf, n)]
    /\ request = [e \in Editor |-> Done]
    /\ byHand = {}
    /\ stops = 0

-----------------------------------------------------------------------------
Stop == stops < MaxStops /\ stops' = stops + 1

(* regenerate_profiles goes on after a profile that cannot be built.       *)
(* Under pki.lock no other script runs between two profiles.               *)
BuildAll(conf, client, key) ==
    \E built \in SUBSET Holder :
        /\ IF built = Holder THEN UNCHANGED stops ELSE Stop
        /\ profile' = [n \in Holder |-> IF n \in built /\ CanBuild(conf, key)
                                       THEN BuiltFrom(conf, client, n) ELSE profile[n]]
AfterAll(conf, key) == IF CanBuild(conf, key) THEN {"remotes", "channel"} ELSE {"remotes"}

(* Without the lock, one script a step.                                    *)
regenerate_profiles(e) ==
    /\ request[e].next = "regenerate"
    /\ \E n \in request[e].todo :
        /\ \/ mkovpn(n) /\ UNCHANGED stops
           \/ Stop /\ UNCHANGED profile
        /\ request' = [request EXCEPT ![e] =
                        IF @.todo = {n} THEN Done ELSE [request[e] EXCEPT !.todo = @ \ {n}]]
    /\ UNCHANGED <<serverConf, clientConf, keyed, remembered, secret, byHand>>

Regenerate(e) == request' = [request EXCEPT ![e] = [todo |-> Holder, next |-> "regenerate"]]

(* validate_remote, set_remote: one remote for each listening protocol.    *)
RemoteFor(host) == [host |-> host, remotes |-> serverConf.listen]
set_remote(host) ==
    /\ clientConf' = RemoteFor(host)
    /\ byHand' = byHand \ AfterAll(serverConf, keyed)
    /\ BuildAll(serverConf, clientConf', keyed)

(* put_settings, and put_network_settings when the address changed.        *)
put_settings(e) ==
    /\ request[e] = Done
    /\ set_remote("public")
    /\ UNCHANGED <<serverConf, keyed, remembered, secret, request>>

(* sync_remotes compares without the lock and then calls set_remote.       *)
NeedsSync == clientConf.remotes # serverConf.listen
sync_remotes(e) ==
    /\ \/ /\ request[e].next = "sync"
          /\ request' = [request EXCEPT ![e].next = IF NeedsSync THEN clientConf.host ELSE "idle"]
          /\ UNCHANGED <<clientConf, profile, byHand, stops>>
       \/ /\ request[e].next \in Host
          /\ set_remote(request[e].next)
          /\ request' = [request EXCEPT ![e] = Done]
    /\ UNCHANGED <<serverConf, keyed, remembered, secret>>

(* put_config: the check and the write are one step under pki.lock.        *)
put_config_server(e) ==
    /\ request[e] = Done
    /\ \E new \in [listen : Listens, channel : Channel] :
        /\ serverConf' = new
        /\ byHand' = IF new.channel = serverConf.channel THEN byHand ELSE byHand \cup {"channel"}
    /\ request' = [request EXCEPT ![e].next = "sync"]
    /\ UNCHANGED <<clientConf, keyed, remembered, secret, profile, stops>>

put_config_client(e) ==
    /\ request[e] = Done
    /\ \E remotes \in Listens : clientConf' = [clientConf EXCEPT !.remotes = remotes]
    /\ byHand' = byHand \cup {"remotes"}
    /\ Regenerate(e)
    /\ UNCHANGED <<serverConf, keyed, remembered, secret, profile, stops>>

set_control_channel(e) ==
    /\ request[e] = Done
    /\ \E channel \in Channel :
        /\ keyed' = (keyed \/ channel = "tls-crypt-v2")
        /\ serverConf' = [serverConf EXCEPT !.channel = channel]
        /\ BuildAll(serverConf', clientConf, keyed')
    /\ byHand' = byHand \ {"channel"}
    /\ UNCHANGED <<clientConf, remembered, secret, request>>

(* The switch in server.conf, on which no profile depends, and then the    *)
(* profiles without the lock.                                              *)
enforce_tfa(e) ==
    /\ request[e] = Done
    /\ Regenerate(e)
    /\ UNCHANGED <<serverConf, clientConf, keyed, remembered, secret, profile, byHand, stops>>

(* enable_tfa and disable_tfa: the secret, then the profile.               *)
set_tfaSecretOnly(e) ==
    /\ request[e] = Done
    /\ \E n \in Holder : secret' \in {secret \cup {n}, secret \ {n}}
    /\ UNCHANGED <<serverConf, clientConf, keyed, remembered, profile, request, byHand, stops>>
set_tfa(e) ==
    /\ request[e] = Done
    /\ \E n \in Holder :
        /\ secret' \in {secret \cup {n}, secret \ {n}}
        /\ request' = [request EXCEPT ![e] = [todo |-> {n}, next |-> "regenerate"]]
    /\ UNCHANGED <<serverConf, clientConf, keyed, remembered, profile, byHand, stops>>

(* build_profile: every download builds the profile anew.                  *)
download_profile(n) ==
    /\ mkovpn(n)
    /\ UNCHANGED <<serverConf, clientConf, keyed, remembered, secret, request, byHand, stops>>

(* bootstrap: the configured host replaces the template's placeholder, and *)
(* once any other; otherwise the remotes follow server.conf.               *)
bootstrap ==
    LET first == clientConf.host = "placeholder" \/ ~remembered
    IN /\ IF \E e \in Editor : request[e] # Done THEN Stop ELSE UNCHANGED stops
       /\ request' = [e \in Editor |-> Done]
       /\ remembered' = (remembered \/ first)
       /\ IF first \/ NeedsSync
          THEN /\ clientConf' = RemoteFor(IF first THEN "public" ELSE clientConf.host)
               /\ byHand' = byHand \ AfterAll(serverConf, keyed)
               /\ profile' = [n \in Holder |-> IF CanBuild(serverConf, keyed)
                                              THEN BuiltFrom(serverConf, clientConf', n)
                                              ELSE profile[n]]
          ELSE UNCHANGED <<clientConf, byHand, profile>>
       /\ UNCHANGED <<serverConf, keyed, secret>>

ProfileNext ==
    \/ \E e \in Editor :
        \/ regenerate_profiles(e) \/ put_settings(e) \/ sync_remotes(e)
        \/ put_config_server(e) \/ put_config_client(e)
        \/ set_control_channel(e) \/ enforce_tfa(e) \/ set_tfa(e)
    \/ \E n \in Holder : download_profile(n)
    \/ bootstrap

ProfileSpec == ProfileInit /\ [][ProfileNext]_profileVars

-----------------------------------------------------------------------------
ProfileTypeOK ==
    /\ serverConf \in [listen : Listens, channel : Channel]
    /\ clientConf \in [host : Host, remotes : Listens]
    /\ {keyed, remembered} \subseteq BOOLEAN
    /\ secret \subseteq Holder
    /\ profile \in [Holder -> [remotes : Listens, channel : Channel, tfa : BOOLEAN]]
    /\ \A e \in Editor : request[e].next \in {"idle", "regenerate", "sync"} \cup Host
    /\ byHand \subseteq {"remotes", "channel"}
    /\ stops \in 0..MaxStops

AllDone == \A e \in Editor : request[e] = Done

(* When no request is being served and none was cut short, every profile   *)
(* on disk is what mkovpn.sh would build now, in whatever order requests   *)
(* changed client.conf, the control channel and the 2FA secrets and        *)
(* rebuilt the profiles one by one.  A control channel changed in the      *)
(* editor is the exception: put_config rebuilds only for the protocols.    *)
ProfilesCurrent ==
    AllDone /\ stops = 0 /\ "channel" \notin byHand =>
        \A n \in Holder : profile[n] = BuiltFrom(serverConf, clientConf, n)

(* The profiles list every protocol OpenVPN listens on and no other        *)
(* (sync_remotes), however edits of server.conf and changes of the public  *)
(* address overlap and wherever a restart falls, unless client.conf's      *)
(* remotes were edited by hand.                                            *)
RemotesFollow ==
    AllDone /\ "remotes" \notin byHand => clientConf.remotes = serverConf.listen

(* A profile a client downloads is of the settings in force: both of the   *)
(* above.                                                                  *)
ProfilesFollow == ProfilesCurrent /\ RemotesFollow
=============================================================================
