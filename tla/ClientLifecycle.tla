-------------------------- MODULE ClientLifecycle ---------------------------
(***************************************************************************)
(* One client of the VPN from its creation to its deletion, and all that   *)
(* hangs on its name: certificates (bin/*.sh, ui/app/pki.py), the relay    *)
(* credential (ui/app/relay.py), the portal account and the one-time link  *)
(* for the profile, as the handlers of ui/app/main.py change them.         *)
(*                                                                         *)
(* A handler reads, calls scripts under pki.lock and writes the database   *)
(* in separate steps, so two requests interleave and any step may be the   *)
(* last: a script fails or times out, the database raises, the process is  *)
(* killed.  Serial numbers count certificates of this name; the person a   *)
(* certificate was made for is the serial of the first one with its key.   *)
(*                                                                         *)
(* A definition in front of one of the same form is a seeded fault that    *)
(* the specification does not use.                                         *)
(***************************************************************************)
EXTENDS Integers, Sequences

CONSTANTS
    Handler,      \* requests served at the same time
    MaxSerial,    \* certificates issued
    MaxLinks,     \* one-time links created
    MaxFaults     \* handlers and scripts that are cut short

ASSUME ClientLifecycleAssumption ==
    /\ Handler # {}
    /\ MaxSerial \in Nat /\ MaxLinks \in Nat /\ MaxFaults \in Nat

VARIABLES
    issued,      \* the serial in pki/issued/<name>.crt, 0 for no file
    renewed,     \* the serial in pki/renewed/issued/<name>.crt
    index,       \* pki/index.txt: "-" not issued, "V" valid, "R" revoked
    person,      \* whose key a certificate carries
    crl,         \* the serials in pki/crl.pem
    expired,     \* the certificate in issued/, if it is past its not_after
    hidden,      \* table hidden_certs
    grant,       \* the setting relay_client:<name>, and who holds the secret
    account,     \* the row of users with this client_name, and whose it is
    link,        \* the row of share_tokens; left: a creation that ends it was cut short
    req,         \* the handlers
    raced,       \* a certificate changed while another handler was at work
    astray,      \* a profile or a secret went to somebody else, before any race
    delivered,   \* how often the profile was handed out, for every link made
    cutShort,    \* a revocation stopped before gen-crl, and none ran since
    faults

pkiVars == <<issued, renewed, index, person, crl>>
dbVars == <<hidden, grant, account, link>>
history == <<astray, delivered>>
vars == <<pkiVars, expired, dbVars, req, raced, history, cutShort, faults>>

Serial == 1..MaxSerial
Person == 0..MaxSerial      \* 0: nobody
Link == 1..MaxLinks
Nothing == [serial |-> 0, owner |-> 0]
NoLink == [id |-> 0, owner |-> 0, used |-> FALSE, left |-> FALSE]
Idle == [op |-> "idle", at |-> "none", serial |-> 0, who |-> 0, content |-> 0]

\* Serial numbers are given out in order; the last one in index.txt.
Newest == CHOOSE n \in 0..MaxSerial : \A s \in Serial : index[s] # "-" <=> s <= n
Current == IF Newest = 0 THEN 0 ELSE person[Newest]
Revoked == {s \in Serial : index[s] = "R"}

Init ==
    /\ issued = 0 /\ renewed = 0
    /\ index = [s \in Serial |-> "-"]
    /\ person = [s \in Serial |-> 0]
    /\ crl = {} /\ expired = {} /\ hidden = {}
    /\ grant = Nothing /\ account = Nothing /\ link = NoLink
    /\ req = [h \in Handler |-> Idle]
    /\ raced = FALSE /\ astray = FALSE /\ cutShort = FALSE
    /\ delivered = <<>>
    /\ faults = 0

-----------------------------------------------------------------------------
(* What a handler reads.                                                   *)

(* list_clients: the file in issued/, else a revoked certificate that is   *)
(* not hidden.                                                             *)
State(hide) ==
    IF issued # 0 THEN IF issued \in expired THEN "expired" ELSE "valid"
    ELSE IF Revoked \ hide # {} THEN "revoked" ELSE "none"

find_client == State(hidden)

(* eligible: the serial of the current certificate, 0 for none.            *)
eligible ==
    IF issued # 0 /\ index[issued] = "V" /\ issued \notin expired THEN issued ELSE 0

(* signed_in_user lets a portal account in while its certificate is the    *)
(* current one; authorize does the same for a relay credential.            *)
AccountWorks == account.serial # 0 /\ account.serial = eligible
CredentialWorks == grant.serial # 0 /\ grant.serial = eligible

(* shared_client: an unused link, and the certificate file exists.         *)
LinkWorks(id) == link.id = id /\ ~link.used /\ issued # 0

-----------------------------------------------------------------------------
(* The progress of a handler.                                              *)
At(h, op, step) == req[h].op = op /\ req[h].at = step
Goto(h, step) == req' = [req EXCEPT ![h].at = step]
End(h) == req' = [req EXCEPT ![h] = Idle]

Begin(h, op, step, serial, who) ==
    /\ req[h] = Idle
    /\ req' = [req EXCEPT ![h] = [op |-> op, at |-> step, serial |-> serial,
                                    who |-> who, content |-> 0]]
    /\ UNCHANGED <<pkiVars, expired, dbVars, raced, history, cutShort, faults>>

(* script() and easyrsa() take pki.lock; create_client keeps it to its end.*)
script(h) == \A g \in Handler \ {h} : req[g].op # "create"

(* A script that changes certificates under another handler's feet.        *)
Overtakes(h) == raced' = (raced \/ \E g \in Handler \ {h} : req[g] # Idle)

Fault == faults < MaxFaults /\ faults' = faults + 1

(* A script that refuses to work: the handler answers with the error.      *)
Refused(h) ==
    /\ End(h)
    /\ UNCHANGED <<pkiVars, expired, dbVars, raced, history, cutShort, faults>>

-----------------------------------------------------------------------------
(* The statements that several handlers share.                             *)
drop_share_links == link' = NoLink /\ UNCHANGED <<hidden, grant, account>>
relay_revoke == grant' = Nothing /\ UNCHANGED <<hidden, account, link>>
disable_portal == account' = Nothing /\ UNCHANGED <<hidden, grant, link>>

(* A step of handler h that only writes the database.                      *)
Database(h, op, step, next) ==
    /\ At(h, op, step)
    /\ IF next = "end" THEN End(h) ELSE Goto(h, next)
    /\ UNCHANGED <<pkiVars, expired, raced, history, cutShort, faults>>

-----------------------------------------------------------------------------
(* create_client holds pki.lock throughout.  A name with a valid or an     *)
(* expired certificate is taken; genclient.sh makes a new key.             *)
genclient(h) ==
    /\ req[h] = Idle
    /\ script(h)
    /\ State({}) \notin {"valid", "expired"}
    /\ Newest < MaxSerial
    /\ LET s == Newest + 1 IN
        /\ issued' = s
        /\ index' = [index EXCEPT ![s] = "V"]
        /\ person' = [person EXCEPT ![s] = s]
        /\ req' = [req EXCEPT ![h] = [op |-> "create", at |-> "links", serial |-> 0,
                                        who |-> 0, content |-> 0]]
    /\ Overtakes(h)
    /\ UNCHANGED <<renewed, crl, expired, dbVars, history, cutShort, faults>>

(* "A new certificate is a new client": the links of an earlier one go;    *)
(* then the guest marker, static IP and 2FA of the name are set (modules   *)
(* AddressPlan and Profiles).                                              *)
create_client(h) ==
    \/ genclient(h)
    \/ Database(h, "create", "links", "end") /\ drop_share_links

-----------------------------------------------------------------------------
(* revoke.sh: the previous certificate, the current one, the CRL; a script *)
(* that is cut short leaves the later parts undone.                        *)
RevokesCurrentFirst(s, n) == s \in {issued} \cup (IF n > 1 THEN {renewed} ELSE {})
Revokes(s, n) == s \in {renewed} \cup (IF n > 1 THEN {issued} ELSE {})

MarkRevoked(n) ==
    /\ index' = [s \in Serial |-> IF Revokes(s, n) THEN "R" ELSE index[s]]
    /\ issued' = IF Revokes(issued, n) THEN 0 ELSE issued
    /\ renewed' = IF Revokes(renewed, n) THEN 0 ELSE renewed
    /\ expired' = {s \in expired : ~Revokes(s, n)}
    /\ UNCHANGED person

(* gen-crl lists what index.txt has as revoked.                            *)
gen_crl ==
    /\ crl' = {s \in Serial : index'[s] = "R"}
    /\ cutShort' = FALSE

revoke_client(h) ==
    /\ At(h, "revoke", "script")
    /\ script(h)
    /\ issued # 0
    /\ \/ /\ MarkRevoked(2)
          /\ gen_crl
          /\ Goto(h, "relay")
          /\ UNCHANGED faults
       \/ /\ Fault
          /\ \E n \in 1..2 : MarkRevoked(n)
          /\ cutShort' = TRUE
          /\ End(h)
          /\ UNCHANGED crl
    /\ Overtakes(h)
    /\ UNCHANGED <<dbVars, history>>

(* The portal account stays; it no longer works.                           *)
revoke(h) ==
    \/ issued # 0 /\ Begin(h, "revoke", "script", 0, 0)
    \/ At(h, "revoke", "script") /\ script(h) /\ issued = 0 /\ Refused(h)
    \/ revoke_client(h)
    \/ Database(h, "revoke", "relay", "links") /\ relay_revoke
    \/ Database(h, "revoke", "links", "end") /\ drop_share_links

(* revoke.sh --renewed.                                                    *)
revoke_previous(h) ==
    \/ /\ issued # 0 /\ renewed # 0
       /\ Begin(h, "previous", "script", 0, 0)
    \/ At(h, "previous", "script") /\ script(h) /\ renewed = 0 /\ Refused(h)
    \/ /\ At(h, "previous", "script") /\ script(h) /\ renewed # 0
       /\ MarkRevoked(1)
       /\ \/ gen_crl /\ UNCHANGED faults
          \/ Fault /\ cutShort' = TRUE /\ UNCHANGED crl
       /\ End(h)
       /\ Overtakes(h)
       /\ UNCHANGED <<dbVars, history>>

-----------------------------------------------------------------------------
(* renew.sh: a new certificate for the same key; one previous certificate  *)
(* at a time.                                                              *)
renew_client(h) ==
    /\ At(h, "renew", "script")
    /\ script(h)
    /\ issued # 0 /\ renewed = 0
    /\ Newest < MaxSerial
    /\ LET s == Newest + 1 IN
        /\ issued' = s
        /\ renewed' = issued
        /\ index' = [index EXCEPT ![s] = "V"]
        /\ person' = [person EXCEPT ![s] = person[issued]]
    /\ expired' = {}
    /\ Goto(h, "relay")
    /\ Overtakes(h)
    /\ UNCHANGED <<crl, dbVars, history, cutShort, faults>>

(* renewed() and the UPDATE of users carry the credential and the account  *)
(* over from the serial that the handler read before the script ran.       *)
Rebind(binding, previous) ==
    IF eligible # 0 /\ binding.serial = previous
    THEN [binding EXCEPT !.serial = eligible] ELSE binding

renewForgetsPortal(h) ==
    \/ issued # 0 /\ Begin(h, "renew", "script", issued, 0)
    \/ renew_client(h)
    \/ /\ Database(h, "renew", "relay", "end")
       /\ grant' = Rebind(grant, req[h].serial)
       /\ UNCHANGED <<hidden, account, link>>
renew(h) ==
    \/ issued # 0 /\ Begin(h, "renew", "script", issued, 0)
    \/ /\ At(h, "renew", "script") /\ script(h)
       /\ issued = 0 \/ renewed # 0
       /\ Refused(h)
    \/ renew_client(h)
    \/ /\ Database(h, "renew", "relay", "portal")
       /\ grant' = Rebind(grant, req[h].serial)
       /\ UNCHANGED <<hidden, account, link>>
    \/ /\ Database(h, "renew", "portal", "end")
       /\ account' = Rebind(account, req[h].serial)
       /\ UNCHANGED <<hidden, grant, link>>

-----------------------------------------------------------------------------
(* rmcert.sh refuses while a certificate that has not expired is there.    *)
remove_client(h) ==
    /\ At(h, "delete", "script")
    /\ script(h)
    /\ issued = 0 \/ issued \in expired
    /\ Goto(h, "portal")
    /\ UNCHANGED <<pkiVars, expired, dbVars, raced, history, cutShort, faults>>

(* A revoked client: its certificates are those up to the newest at the    *)
(* time of the read.                                                       *)
delete_client(h) ==
    \/ find_client = "revoked" /\ Begin(h, "delete", "script", Newest, 0)
    \/ /\ At(h, "delete", "script") /\ script(h)
       /\ issued # 0 /\ issued \notin expired
       /\ Refused(h)
    \/ remove_client(h)
    \/ Database(h, "delete", "portal", "relay") /\ disable_portal
    \/ Database(h, "delete", "relay", "links") /\ relay_revoke
    \/ Database(h, "delete", "links", "hide") /\ drop_share_links
    \/ /\ Database(h, "delete", "hide", "end")
       /\ hidden' = hidden \cup 1..req[h].serial
       /\ UNCHANGED <<grant, account, link>>

-----------------------------------------------------------------------------
(* A one-time link for the profile of a valid client.                      *)
share_profile(h) ==
    \/ find_client = "valid" /\ Begin(h, "share", "insert", 0, Current)
    \/ /\ At(h, "share", "insert")
       /\ link = NoLink \/ link.used
       /\ Len(delivered) < MaxLinks
       /\ link' = [id |-> Len(delivered) + 1, owner |-> req[h].who, used |-> FALSE,
                   left |-> FALSE]
       /\ delivered' = Append(delivered, 0)
       /\ End(h)
       /\ UNCHANGED <<pkiVars, expired, hidden, grant, account, raced, astray,
                      cutShort, faults>>

(* mkovpn.sh puts the certificate of the moment into the profile.          *)
build_profile(h) ==
    /\ At(h, "download", "build")
    /\ script(h)
    /\ issued # 0
    /\ req' = [req EXCEPT ![h].content = person[issued], ![h].at = "spend"]
    /\ UNCHANGED <<pkiVars, expired, dbVars, raced, history, cutShort, faults>>

(* The profile is built first; the UPDATE that spends the link decides who *)
(* of several gets it.                                                     *)
SpendAny(h) == TRUE
Spend(h) == link.id = req[h].serial /\ ~link.used

shared_profile(h) ==
    \/ \E id \in Link : LinkWorks(id) /\ Begin(h, "download", "build", id, link.owner)
    \/ At(h, "download", "build") /\ script(h) /\ issued = 0 /\ Refused(h)
    \/ build_profile(h)
    \/ At(h, "download", "spend") /\ ~Spend(h) /\ Refused(h)
    \/ /\ At(h, "download", "spend")
       /\ Spend(h)
       /\ link' = IF link.id = req[h].serial THEN [link EXCEPT !.used = TRUE] ELSE link
       /\ delivered' = [delivered EXCEPT ![req[h].serial] = @ + 1]
       /\ astray' = (astray \/ (~raced /\ ~link.left /\ req[h].content # req[h].who))
       /\ End(h)
       /\ UNCHANGED <<pkiVars, expired, hidden, grant, account, raced, cutShort, faults>>

-----------------------------------------------------------------------------
(* The portal account of a client with a current certificate.              *)
set_portal_account(h) ==
    \/ eligible # 0 /\ Begin(h, "portal", "write", eligible, Current)
    \/ /\ Database(h, "portal", "write", "end")
       /\ account' = [serial |-> req[h].serial, owner |-> req[h].who]
       /\ UNCHANGED <<hidden, grant, link>>

(* own_openvpn_profile: signed_in_user has checked the account.            *)
own_openvpn_profile(h) ==
    \/ AccountWorks /\ Begin(h, "own", "build", 0, account.owner)
    \/ At(h, "own", "build") /\ script(h) /\ issued = 0 /\ Refused(h)
    \/ /\ At(h, "own", "build")
       /\ script(h)
       /\ issued # 0
       /\ astray' = (astray \/ (~raced /\ person[issued] # req[h].who))
       /\ End(h)
       /\ UNCHANGED <<pkiVars, expired, dbVars, delivered, raced, cutShort, faults>>

(* profile(): the credential of the current certificate, a new secret if   *)
(* the certificate is not the one the credential was made for.             *)
GrantForAnySerial(h) ==
    IF grant = Nothing THEN [serial |-> req[h].serial, owner |-> req[h].who]
    ELSE [grant EXCEPT !.serial = req[h].serial]
GrantFor(h) ==
    IF grant.serial = req[h].serial THEN grant
    ELSE [serial |-> req[h].serial, owner |-> req[h].who]

(* Asked for by the administrator, or by the client in the portal.         *)
relay_profile(h) ==
    \/ find_client # "none" /\ Begin(h, "relay", "cert", 0, Current)
    \/ AccountWorks /\ Begin(h, "relay", "cert", 0, account.owner)
    \/ /\ At(h, "relay", "cert")
       /\ IF eligible = 0 THEN End(h)
          ELSE req' = [req EXCEPT ![h].serial = eligible, ![h].at = "grant"]
       /\ UNCHANGED <<pkiVars, expired, dbVars, raced, history, cutShort, faults>>
    \/ /\ At(h, "relay", "grant")
       /\ grant' = GrantFor(h)
       /\ astray' = (astray \/ (~raced /\ grant'.owner # req[h].who))
       /\ End(h)
       /\ UNCHANGED <<pkiVars, expired, hidden, account, link, delivered, raced,
                      cutShort, faults>>

-----------------------------------------------------------------------------
(* Handlers of one statement.                                              *)
remove_portal_account ==
    /\ find_client # "none"
    /\ disable_portal
    /\ UNCHANGED <<pkiVars, expired, req, raced, history, cutShort, faults>>

revoke_relay ==
    /\ find_client # "none"
    /\ relay_revoke
    /\ UNCHANGED <<pkiVars, expired, req, raced, history, cutShort, faults>>

(* The button of the Server page, and ensure_crl_fresh when the CRL nears  *)
(* its end.                                                                *)
regenerate_crl ==
    /\ \A g \in Handler : req[g].op # "create"
    /\ UNCHANGED <<issued, renewed, index, person>>
    /\ gen_crl
    /\ UNCHANGED <<expired, dbVars, req, raced, history, faults>>

(* A certificate lasts a day or more, longer than the handler that made it.*)
Expire ==
    /\ \A h \in Handler : req[h].op \in {"create", "renew"} => At(h, "renew", "script")
    /\ issued # 0 /\ expired = {} /\ expired' = {issued}
    /\ UNCHANGED <<pkiVars, dbVars, req, raced, history, cutShort, faults>>

(* A handler ends where it is (an exception), or all do (the process).     *)
Abort ==
    /\ Fault
    /\ \/ \E h \in Handler : req[h] # Idle /\ End(h)
       \/ req # [h \in Handler |-> Idle] /\ req' = [h \in Handler |-> Idle]
    /\ link' = IF link # NoLink /\ \E h \in Handler : req[h].op = "create" /\ req'[h] = Idle
               THEN [link EXCEPT !.left = TRUE] ELSE link
    /\ UNCHANGED <<pkiVars, expired, hidden, grant, account, raced, history, cutShort>>

Next ==
    \/ \E h \in Handler :
        \/ create_client(h) \/ revoke(h) \/ revoke_previous(h) \/ renew(h)
        \/ delete_client(h) \/ share_profile(h) \/ shared_profile(h)
        \/ set_portal_account(h) \/ own_openvpn_profile(h) \/ relay_profile(h)
    \/ remove_portal_account \/ revoke_relay \/ regenerate_crl
    \/ Expire \/ Abort

Spec == Init /\ [][Next]_vars

-----------------------------------------------------------------------------
(* Types.  The certificate in issued/ is always the newest one.            *)
TypeOK ==
    /\ issued \in {0, Newest} /\ renewed \in 0..MaxSerial
    /\ index \in [Serial -> {"-", "V", "R"}]
    /\ person \in [Serial -> Person]
    /\ crl \subseteq Serial /\ expired \subseteq {issued} /\ hidden \subseteq Serial
    /\ \A b \in {grant, account} : b \in [serial : 0..MaxSerial, owner : Person]
    /\ link \in [id : 0..MaxLinks, owner : Person, used : BOOLEAN, left : BOOLEAN]
    /\ \A h \in Handler : req[h].who \in Person /\ req[h].content \in Person
    /\ Len(delivered) \in 0..MaxLinks
    /\ raced \in BOOLEAN /\ astray \in BOOLEAN /\ cutShort \in BOOLEAN
    /\ faults \in 0..MaxFaults

Creating == \E h \in Handler : req[h].op = "create"

(* The comment in _create_client: "access ... of an earlier one with this  *)
(* name stay behind".  A portal account made for one client does not work  *)
(* for the next one of the same name.                                      *)
PortalStaysBehind == AccountWorks => account.owner = Current

(* Whoever held the name before gets nothing of the client who has it now: *)
(* no profile and no relay secret went to another person, and neither an   *)
(* account, a credential nor a link of an earlier client works for the     *)
(* present one.  The exception is a link that a revocation cut short and   *)
(* then a creation cut short have both left in place (link.left): it still *)
(* opens the profile of the new client, until the next of them removes it. *)
NothingInherited ==
    /\ ~astray
    /\ PortalStaysBehind
    /\ CredentialWorks => grant.owner = Current
    /\ ~Creating /\ ~link.left => \A id \in Link : LinkWorks(id) => link.owner = Current

(* This holds across any interleaving and any fault in which no handler    *)
(* had its certificate revoked, renewed or made anew while it was at work. *)
AccessStaysBehind == ~raced => NothingInherited

(* A one-time link yields the profile at most once, however many requests  *)
(* for it are under way (shared_profile).                                  *)
LinkSpentOnce == \A id \in DOMAIN delivered : delivered[id] <= 1

(* No certificate that OpenVPN accepts is missing from the client list:    *)
(* each is in issued/, or in renewed/ beside one in issued/, and none is   *)
(* hidden, also after a revocation cut short or a deletion that raced; and *)
(* OpenVPN refuses every revoked one, unless revoke.sh was cut short and   *)
(* no CRL was made since.                                                  *)
CertificatesAccounted ==
    /\ \A s \in Serial : index[s] = "V" => issued # 0 /\ s \in {issued, renewed}
    /\ hidden \subseteq Revoked
    /\ ~cutShort => crl = Revoked

(* Renewals leave the relay credential and the portal account working,     *)
(* when none was cut short or overtaken.                                   *)
RenewalKeepsAccess ==
    ~raced /\ faults = 0 /\ issued # 0 /\ (\A h \in Handler : req[h] = Idle) =>
        /\ grant # Nothing => grant.serial = issued
        /\ account.owner = Current => account.serial = issued
=============================================================================
