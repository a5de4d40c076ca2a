--------------------------- MODULE ProfileSigner ----------------------------
(***************************************************************************)
(* Signed relay profiles: the signing service beside Traefik               *)
(* (signer/service.py), which takes its certificate from Traefik's ACME    *)
(* store and keeps it for a minute, and the UI that asks it and verifies   *)
(* the answer (ui/app/relay_services.py).                                  *)
(*                                                                         *)
(* Traefik rewrites the store at any time, also between the moment the     *)
(* service looks at its signature (inode, time, size) and reads it.        *)
(* A definition in front of one of the same form is a seeded fault.        *)
(***************************************************************************)
EXTENDS Integers, FiniteSets

CONSTANTS
    Asker,          \* requests
    Connections,    \* connections that the service takes at once
    Slots,          \* requests that it serves at once
    KeptFor,        \* for which a certificate is kept
    Life,           \* of a certificate
    MaxWrites,      \* of the store
    MaxNow

VARIABLES
    acme,           \* [sig, cert]: the store; cert 0 in the middle of a write
    issuedAt,       \* issuedAt[c]
    cached,         \* the set of the cached identity, {} at first
    freeSlots,      \* free slots
    connections,    \* free connections
    asker,          \* asker[a]: what is done for a
    signing,        \* the saved settings: see save_signing
    outcome,        \* what the UI returned last
    wall            \* the clock

signerVars == <<acme, issuedAt, cached, freeSlots, connections, asker, signing, outcome, wall>>

NoRequest == [at |-> "idle", sig |-> 0, atLeast |-> 0, cert |-> 0, left |-> FALSE]
Certificate == 1..MaxWrites
Unexpired(c) == c # 0 /\ wall < issuedAt[c] + Life

SignerInit ==
    /\ acme = [sig |-> 1, cert |-> 1]
    /\ issuedAt = [c \in Certificate |-> 0]
    /\ cached = {}
    /\ freeSlots = Slots /\ connections = Connections
    /\ asker = [a \in Asker |-> NoRequest]
    /\ signing = "on"
    /\ outcome = [kind |-> "none", cert |-> 0, atLeast |-> 0]
    /\ wall = 0

-----------------------------------------------------------------------------
Returns(kind) == outcome' = [kind |-> kind, cert |-> 0, atLeast |-> 0]

(* sign_profile reads the settings and asks; the service shuts a request   *)
(* without a connection and refuses one without the token or a slot.  A    *)
(* status request takes the same way.                                      *)
sign_profile(a) ==
    /\ asker[a] = NoRequest
    /\ \/ /\ signing \in {"unsigned", "blocked"}
          /\ Returns(IF signing = "blocked" THEN "refused" ELSE "unsigned")
          /\ UNCHANGED <<freeSlots, connections, asker>>
       \/ /\ signing \in {"on", "wrong token"} /\ connections = 0
          /\ Returns("refused")
          /\ UNCHANGED <<freeSlots, connections, asker>>
       \/ /\ signing \in {"on", "wrong token"} /\ connections > 0
          /\ connections' = connections - 1
          /\ LET granted == signing = "on" /\ freeSlots > 0 IN
              /\ freeSlots' = IF granted THEN freeSlots - 1 ELSE freeSlots
              /\ asker' = [asker EXCEPT ![a].at = IF granted THEN "sign" ELSE "denied",
                                        ![a].atLeast = acme.cert]
          /\ UNCHANGED outcome
    /\ UNCHANGED <<acme, issuedAt, cached, signing, wall>>

(* Under its lock identity takes the store's signature, then the cached    *)
(* certificate if it belongs to that signature, was loaded within a minute *)
(* and has not expired, else the store.                                    *)
identityStatsLast(a) ==
    \/ /\ asker[a].at = "sign" /\ \A b \in Asker : asker[b].at # "locked"
       /\ asker' = [asker EXCEPT ![a].at = "locked", ![a].cert = acme.cert]
       /\ UNCHANGED cached
    \/ /\ asker[a].at = "locked"
       /\ LET hit == {c \in cached : c.sig = acme.sig /\ wall < c.until /\ Unexpired(c.cert)}
              read == {[sig |-> acme.sig, until |-> wall + KeptFor, cert |-> asker[a].cert]} IN
           /\ cached' = IF hit # {} \/ ~Unexpired(asker[a].cert) THEN cached ELSE read
           /\ asker' = [asker EXCEPT ![a].at = "signed",
                                     ![a].cert = IF hit = {} THEN @ ELSE (CHOOSE c \in hit : TRUE).cert]
identity(a) ==
    \/ /\ asker[a].at = "sign" /\ \A b \in Asker : asker[b].at # "locked"
       /\ asker' = [asker EXCEPT ![a].at = "locked", ![a].sig = acme.sig]
       /\ UNCHANGED cached
    \/ /\ asker[a].at = "locked"
       /\ LET hit == {c \in cached : c.sig = asker[a].sig /\ wall < c.until /\ Unexpired(c.cert)}
              read == IF Unexpired(acme.cert)
                      THEN {[sig |-> asker[a].sig, until |-> wall + KeptFor, cert |-> acme.cert]}
                      ELSE {} IN
           \/ /\ \E c \in IF hit # {} THEN hit ELSE read :
                   /\ cached' = {c}
                   /\ asker' = [asker EXCEPT ![a].at = "signed", ![a].cert = c.cert]
           \/ /\ hit = {} /\ read = {}
              /\ asker' = [asker EXCEPT ![a].at = "invalid"]
              /\ UNCHANGED cached

(* sign refuses a profile that is not the UI's, or signs with the identity.*)
sign(a) ==
    /\ \/ identity(a)
       \/ asker[a].at = "sign" /\ asker' = [asker EXCEPT ![a].at = "invalid"] /\ UNCHANGED cached
    /\ UNCHANGED <<acme, issuedAt, freeSlots, connections, signing, outcome, wall>>

(* The answer; the UI returns a profile whose signature verifies now.      *)
dispatch(a) ==
    /\ asker[a].at \in {"signed", "invalid", "denied"}
    /\ LET verified == asker[a].at = "signed" /\ Unexpired(asker[a].cert) IN
        \/ /\ ~asker[a].left /\ verified
           /\ outcome' = [kind |-> "signed", cert |-> asker[a].cert, atLeast |-> asker[a].atLeast]
        \/ ~asker[a].left /\ ~verified /\ Returns("refused")
        \/ asker[a].left /\ UNCHANGED outcome
    /\ asker' = [asker EXCEPT ![a] = [NoRequest EXCEPT
                    !.at = IF asker[a].at = "denied" THEN "close" ELSE "release"]]
    /\ UNCHANGED <<acme, issuedAt, cached, freeSlots, connections, signing, wall>>

(* The UI stops waiting after ten seconds; the service goes on.            *)
TimesOut(a) ==
    /\ asker[a].at \in {"sign", "locked", "signed"} /\ ~asker[a].left
    /\ asker' = [asker EXCEPT ![a].left = TRUE]
    /\ Returns("refused")
    /\ UNCHANGED <<acme, issuedAt, cached, freeSlots, connections, signing, wall>>

(* The finally clauses, after the answer.                                  *)
release(a) ==
    /\ asker[a].at \in {"release", "close"}
    /\ freeSlots' = IF asker[a].at = "release" THEN freeSlots + 1 ELSE freeSlots
    /\ connections' = connections + 1
    /\ asker' = [asker EXCEPT ![a] = NoRequest]
    /\ UNCHANGED <<acme, issuedAt, cached, signing, outcome, wall>>

(* With a signer's address and its token or another, or without an         *)
(* address, unsigned profiles being allowed or not; of two saves at once   *)
(* one may bring back a token.                                             *)
save_signing ==
    /\ signing' \in {"on", "wrong token", "unsigned", "blocked"}
    /\ UNCHANGED <<acme, issuedAt, cached, freeSlots, connections, asker, outcome, wall>>

-----------------------------------------------------------------------------
(* Traefik renews a certificate: the file is emptied and written.          *)
Renew ==
    /\ \/ /\ acme.cert # 0 /\ acme.sig < 2 * MaxWrites - 1
          /\ acme' = [sig |-> acme.sig + 1, cert |-> 0]
          /\ UNCHANGED issuedAt
       \/ /\ acme.cert = 0
          /\ acme' = [sig |-> acme.sig + 1, cert |-> acme.sig \div 2 + 1]
          /\ issuedAt' = [issuedAt EXCEPT ![acme.sig \div 2 + 1] = wall]
    /\ UNCHANGED <<cached, freeSlots, connections, asker, signing, outcome, wall>>

SignerTick ==
    /\ wall < MaxNow /\ wall' = wall + 1
    /\ UNCHANGED <<acme, issuedAt, cached, freeSlots, connections, asker, signing, outcome>>

SignerNext ==
    \/ \E a \in Asker : sign_profile(a) \/ sign(a) \/ dispatch(a) \/ TimesOut(a) \/ release(a)
    \/ save_signing \/ Renew \/ SignerTick

SignerSpec == SignerInit /\ [][SignerNext]_signerVars

-----------------------------------------------------------------------------
SignerTypeOK ==
    /\ acme.cert \in Certificate \cup {0}
    /\ freeSlots \in 0..Slots /\ connections \in 0..Connections
    /\ Cardinality(cached) <= 1
    /\ outcome.kind \in {"none", "signed", "unsigned", "refused"}
    /\ wall \in 0..MaxNow

(* A profile is signed with the certificate that was in the store when it  *)
(* was asked for or a later one, never with one from before a renewal      *)
(* ("reload immediately after renewal").                                   *)
SignedFresh == outcome.kind = "signed" => outcome.cert >= outcome.atLeast
=============================================================================
