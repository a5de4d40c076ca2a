-------------------------- MODULE LifecycleProofs ---------------------------
(***************************************************************************)
(* What module ClientLifecycle promises, proved for any number of requests *)
(* at the same time, of certificates, of links and of faults.              *)
(*                                                                         *)
(* The invariant has a part for each kind of state: the certificates       *)
(* (PkiInv), the one-time link (LinkInv), whom a binding or a request is   *)
(* for while no certificate changed under a request (AccessInv), and where *)
(* a renewal is on its way (RenewalInv).                                   *)
(***************************************************************************)
EXTENDS ClientLifecycle, TLAPS

Operation == {"idle", "create", "revoke", "previous", "renew", "delete", "share",
              "download", "portal", "own", "relay"}
Place == {"none", "links", "script", "relay", "portal", "hide", "insert", "build", "spend",
          "write", "cert", "grant"}
Binding == [serial : Nat, owner : Nat]
Request == [op : Operation, at : Place, serial : Nat, who : Nat, content : Nat]

(* Serial numbers are given out in order; the certificate in issued/ is    *)
(* the newest, one in renewed/ is older and only beside it, these two are  *)
(* the valid ones, and a deletion only knows revoked certificates.         *)
PkiInv ==
    /\ index \in [Serial -> {"-", "V", "R"}]
    /\ Newest \in 0..MaxSerial
    /\ \A s \in Serial : index[s] # "-" <=> s <= Newest
    /\ issued \in {0, Newest} /\ renewed \in 0..Newest
    /\ renewed # 0 => issued # 0 /\ renewed < issued
    /\ \A s \in Serial : index[s] = "V" <=> s \in {issued, renewed}
    /\ expired \subseteq {issued} \ {0}
    /\ person \in [Serial -> Nat]
    /\ \A s \in 1..Newest : person[s] \in 1..s
    /\ hidden \subseteq Revoked
    /\ ~cutShort => crl = Revoked
    /\ req \in [Handler -> Request]
    /\ \A h \in Handler : req[h].op = "delete" => 1..req[h].serial \subseteq Revoked

(* A link that was not used has not yielded the profile; the serial of a   *)
(* download is the number of the link it came with.                        *)
LinkInv ==
    /\ delivered \in Seq(Nat)
    /\ link \in [id : Nat, owner : Nat, used : BOOLEAN, left : BOOLEAN]
    /\ link.id <= Len(delivered)
    /\ LinkSpentOnce
    /\ link.id # 0 /\ ~link.used => delivered[link.id] = 0
    /\ \A h \in Handler : req[h].op = "download" =>
        /\ req[h].serial \in 1..Len(delivered)
        /\ link.id = req[h].serial => req[h].who = link.owner

(* A binding of a certificate belongs to the one the certificate is for.   *)
Own(b) ==
    /\ b \in Binding
    /\ b.serial <= Newest /\ b.owner <= Newest
    /\ b.serial # 0 => b.owner = person[b.serial]

(* What a request holds is of the present client.                          *)
Present(r) ==
    /\ r.op \in {"share", "portal", "own", "relay"} => r.who = Current
    /\ r.op = "portal" \/ (r.op = "relay" /\ r.at = "grant") =>
        issued # 0 /\ r.serial = issued
    /\ r.op = "download" /\ r.at = "spend" =>
        r.content = Current /\ issued # 0 /\ ~Creating
    /\ r.op = "renew" =>
        /\ issued # 0 /\ r.serial \in 1..Newest /\ person[r.serial] = Current
        /\ r.at = "script" => r.serial = issued
        /\ r.at \in {"relay", "portal"} => expired = {}

AccessInv ==
    ~raced =>
        /\ ~astray
        /\ Own(grant) /\ Own(account)
        /\ \A h \in Handler : Present(req[h])
        /\ ~Creating /\ ~link.left /\ issued # 0 /\ link.id # 0 /\ ~link.used =>
            link.owner = Current

(* A credential or account of an older certificate of the present client   *)
(* is the one that a renewal under way is about to carry over; without a   *)
(* certificate there is no credential, but for a revocation under way.     *)
RenewalInv ==
    ~raced /\ faults = 0 =>
        /\ issued # 0 /\ grant # Nothing => \/ grant.serial = issued
                                            \/ \E h \in Handler : /\ At(h, "renew", "relay")
                                                                  /\ grant.serial = req[h].serial
        /\ issued # 0 /\ account.owner = Current =>
            \/ account.serial = issued
            \/ \E h \in Handler : /\ At(h, "renew", "relay") \/ At(h, "renew", "portal")
                                  /\ account.serial = req[h].serial
        /\ issued = 0 /\ grant # Nothing => \E h \in Handler : At(h, "revoke", "relay")

LifecycleInv ==
    /\ PkiInv /\ LinkInv /\ AccessInv /\ RenewalInv
    /\ faults \in Nat /\ grant \in Binding /\ account \in Binding

-----------------------------------------------------------------------------
(* The certificates.                                                       *)

(* The numbers in use determine the last one.                              *)
LEMMA OneLast ==
    ASSUME NEW f, NEW n \in 0..MaxSerial, \A s \in Serial : f[s] # "-" <=> s <= n
    PROVE  n = CHOOSE m \in 0..MaxSerial : \A s \in Serial : f[s] # "-" <=> s <= m
  <1>1. \A m \in 0..MaxSerial : (\A s \in Serial : f[s] # "-" <=> s <= m) => m = n
    BY DEF Serial
  <1>2. QED
    OBVIOUS

LEMMA NewestIs ==
    ASSUME NEW n \in 0..MaxSerial, \A s \in Serial : index[s] # "-" <=> s <= n
    PROVE  Newest = n
  BY DEF Newest

(* Revoking keeps the numbers in use.                                      *)
LEMMA NewestKept ==
    ASSUME PkiInv, \A s \in Serial : index'[s] # "-" <=> index[s] # "-"
    PROVE  Newest' = Newest
  <1>1. Newest \in 0..MaxSerial /\ \A s \in Serial : index'[s] # "-" <=> s <= Newest
    BY Zenon DEF PkiInv
  <1>2. Newest' = CHOOSE m \in 0..MaxSerial : \A s \in Serial : index'[s] # "-" <=> s <= m
    BY Zenon DEF Newest
  <1>3. QED
    BY <1>1, <1>2

(* A new certificate takes the next one.                                   *)
LEMMA NewestGrows ==
    ASSUME PkiInv, Newest < MaxSerial, index' = [index EXCEPT ![Newest + 1] = "V"]
    PROVE  Newest' = Newest + 1
  <1>1. Newest + 1 \in 0..MaxSerial /\ \A s \in Serial : index'[s] # "-" <=> s <= Newest + 1
    BY ClientLifecycleAssumption DEF PkiInv, Serial
  <1>2. Newest' = CHOOSE m \in 0..MaxSerial : \A s \in Serial : index'[s] # "-" <=> s <= m
    BY Zenon DEF Newest
  <1>3. QED
    BY <1>1, <1>2

(* What a request that runs no script keeps; at most it hides revoked      *)
(* certificates.                                                           *)
Quiet ==
    /\ UNCHANGED <<pkiVars, expired, cutShort>>
    /\ hidden' = hidden \/ hidden' \subseteq Revoked

LEMMA QuietPki ==
    ASSUME PkiInv, Quiet, NEW h \in Handler, NEW r \in Request,
           req' = [req EXCEPT ![h] = r],
           r.op = "delete" => 1..r.serial \subseteq Revoked
    PROVE  PkiInv'
  <1>1. Newest' = Newest /\ Revoked' = Revoked
    BY Zenon DEF Quiet, pkiVars, Newest, Revoked
  <1>2. QED
    BY <1>1 DEF PkiInv, Quiet, pkiVars

(* A step of a request that neither starts nor ends a creation, and what   *)
(* the request knows after it.                                             *)
Acts(h, r) ==
    /\ r \in Request
    /\ req' = [req EXCEPT ![h] = r]
    /\ r.op = "create" <=> req[h].op = "create"
    /\ r.op = "delete" => 1..r.serial \subseteq Revoked
    /\ r.op = "download" => /\ r.serial \in 1..Len(delivered)
                            /\ link.id = r.serial => r.who = link.owner
    /\ ~raced => Present(r)

(* If it leaves certificates and links alone, and writes a credential or   *)
(* an account only for the one its certificate is for, it keeps all but    *)
(* RenewalInv.                                                             *)
LEMMA ActsInv ==
    ASSUME LifecycleInv, NEW h \in Handler, NEW r, Acts(h, r),
           Quiet, UNCHANGED <<link, raced, delivered>>,
           ~raced => ~astray' /\ Own(grant') /\ Own(account')
    PROVE  /\ PkiInv' /\ LinkInv' /\ AccessInv'
           /\ Newest' = Newest /\ Current' = Current
  <1> USE DEF LifecycleInv
  <1>0. req \in [Handler -> Request]
    BY Zenon DEF PkiInv
  <1>1. PkiInv'
    BY QuietPki, Zenon DEF Acts
  <1>2. LinkInv'
    BY DEF LinkInv, LinkSpentOnce, Acts
  <1>3. Newest' = Newest /\ Current' = Current /\ Creating' = Creating
    <2>1. Newest' = Newest
      BY Zenon DEF Quiet, pkiVars, Newest
    <2>2. Current' = Current
      BY <2>1, Zenon DEF Quiet, Current, pkiVars
    <2>3. QED
      BY <2>1, <2>2 DEF Creating, Acts
  <1>4. AccessInv'
    <2> SUFFICES ASSUME ~raced PROVE AccessInv'
      BY Zenon DEF AccessInv
    <2>1. (Own(grant) /\ Own(account))'
      BY <1>3, Zenon DEF Quiet, Own, pkiVars
    <2>2. ASSUME NEW g \in Handler PROVE Present(req[g])'
      <3>1. Present(req'[g])
        BY DEF Acts, AccessInv
      <3>2. QED
        BY <3>1, <1>3, Zenon DEF Quiet, Present, pkiVars
    <2>3. QED
      BY <2>1, <2>2, <1>3, Zenon DEF Quiet, AccessInv, pkiVars
  <1>5. QED
    BY <1>1, <1>2, <1>3, <1>4, Zenon

(* A request that waits for a renewal or a revocation to reach the         *)
(* credential or the account.                                              *)
Waits(h) == At(h, "renew", "relay") \/ At(h, "renew", "portal") \/ At(h, "revoke", "relay")

LEMMA RenewalKept ==
    ASSUME RenewalInv, UNCHANGED <<issued, grant, account, raced, faults>>, Current' = Current,
           \A g \in Handler : Waits(g) => req'[g] = req[g]
    PROVE  RenewalInv'
  BY DEF RenewalInv, Waits, At

(* A request that only reads, and is not about to carry a credential or an *)
(* account over or to drop one.                                            *)
Reads == UNCHANGED <<pkiVars, expired, dbVars, raced, history, cutShort, faults>>

LEMMA ReadsInv ==
    ASSUME LifecycleInv, Reads, NEW h \in Handler, NEW r, Acts(h, r), ~Waits(h) \/ r = req[h]
    PROVE  LifecycleInv'
  <1> USE DEF LifecycleInv
  <1>1. ~raced => ~astray' /\ Own(grant') /\ Own(account')
    BY Zenon DEF AccessInv, Reads, dbVars, history
  <1>2. PkiInv' /\ LinkInv' /\ AccessInv' /\ Current' = Current
    BY <1>1, ActsInv, Zenon DEF Quiet, Reads, dbVars, history
  <1>3. RenewalInv'
    <2>1. \A g \in Handler : Waits(g) => req'[g] = req[g]
      BY Zenon DEF Acts, PkiInv
    <2>2. QED
      BY <2>1, <1>2, RenewalKept, Zenon DEF Reads, pkiVars, dbVars
  <1>4. QED
    BY <1>2, <1>3, Zenon DEF Reads, dbVars

(* A request whose script refuses is over, and has changed nothing.        *)
LEMMA RefusedInv ==
    ASSUME LifecycleInv, NEW h \in Handler, Refused(h), req[h].op # "create",
           ~Waits(h)
    PROVE  LifecycleInv'
  <1>1. Acts(h, Idle)
    BY Zenon DEF Acts, Refused, End, Idle, Request, Operation, Place, Present
  <1>2. QED
    BY <1>1, ReadsInv, Zenon DEF Refused, Reads

-----------------------------------------------------------------------------
(* Steps that change certificates.  Unless another request is at work all  *)
(* others are idle.                                                        *)
LEMMA Undisturbed ==
    ASSUME NEW h \in Handler, Overtakes(h), ~raced'
    PROVE  ~raced /\ \A g \in Handler \ {h} : req[g] = Idle
  BY Zenon DEF Overtakes

LEMMA genclientInv ==
    ASSUME LifecycleInv, NEW h \in Handler, genclient(h)
    PROVE  LifecycleInv'
  <1> USE DEF LifecycleInv
  <1> DEFINE r == [op |-> "create", at |-> "links", serial |-> 0, who |-> 0, content |-> 0]
  <1>0. req \in [Handler -> Request] /\ r \in Request /\ req' = [req EXCEPT ![h] = r]
    BY Zenon DEF PkiInv, Request, Operation, Place, genclient
  <1>1. issued = 0 /\ renewed = 0 /\ expired = {} /\ Newest < MaxSerial
    BY Zenon DEF genclient, State, PkiInv
  <1>2. Newest' = Newest + 1
    BY NewestGrows, Zenon DEF genclient
  <1>3. /\ Newest \in Nat /\ Newest + 1 \in Serial
        /\ issued' = Newest + 1 /\ renewed' = 0 /\ expired' = {}
        /\ index' = [index EXCEPT ![Newest + 1] = "V"]
        /\ person' = [person EXCEPT ![Newest + 1] = Newest + 1]
        /\ UNCHANGED <<crl, dbVars, history, cutShort, faults>>
    BY <1>1, ClientLifecycleAssumption DEF genclient, PkiInv, Serial
  <1>4. Revoked' = Revoked
    BY <1>3 DEF Revoked, PkiInv, Serial
  <1> HIDE DEF r
  <1>5. PkiInv'
    <2>1. \A g \in Handler : req'[g].op = "delete" => req'[g] = req[g]
      BY <1>0, Zenon DEF r
    <2>2. QED
      BY <1>0, <1>1, <1>2, <1>3, <1>4, <2>1 DEF PkiInv, Serial, dbVars
  <1>6. LinkInv'
    BY <1>0, <1>3, Zenon DEF LinkInv, LinkSpentOnce, dbVars, history, r
  <1>7. Current' = Newest + 1
    BY <1>2, <1>3, Zenon DEF Current, PkiInv
  <1>8. AccessInv'
    <2> SUFFICES ASSUME ~raced' PROVE AccessInv'
      BY Zenon DEF AccessInv
    <2>1. ~raced /\ \A g \in Handler \ {h} : req[g] = Idle
      BY Undisturbed, Zenon DEF genclient
    <2>2. (Own(grant) /\ Own(account))'
      <3>1. \A s \in Nat : s # 0 /\ s <= Newest => person'[s] = person[s]
        BY <1>3 DEF PkiInv, Serial
      <3>2. QED
        BY <2>1, <1>2, <1>3 DEF AccessInv, Own, Binding, dbVars
    <2>3. \A g \in Handler : Present(req[g])'
      <3>1. \A g \in Handler : req'[g].op \in {"idle", "create"}
        BY <2>1, <1>0 DEF r, Idle
      <3>2. QED
        BY <3>1, Zenon DEF Present
    <2>4. Creating'
      BY <1>0, Zenon DEF Creating, r
    <2>5. QED
      BY <2>1, <2>2, <2>3, <2>4, <1>3, Zenon DEF AccessInv, history
  <1>9. RenewalInv'
    <2> SUFFICES ASSUME ~raced', faults = 0 PROVE RenewalInv'
      BY <1>3, Zenon DEF RenewalInv
    <2>0. req[h] = Idle
      BY Zenon DEF genclient
    <2>1. ~raced /\ \A g \in Handler : req[g] = Idle
      BY Undisturbed DEF genclient
    <2>2. grant' = Nothing
      BY <2>1, <1>1, <1>3 DEF RenewalInv, At, Idle, dbVars
    <2>3. account'.owner # Current'
      BY <2>1, <1>3, <1>7 DEF AccessInv, Own, dbVars
    <2>4. QED
      BY <2>2, <2>3, Zenon DEF RenewalInv
  <1>10. QED
    BY <1>3, <1>5, <1>6, <1>8, <1>9, Zenon DEF dbVars

LEMMA renew_clientInv ==
    ASSUME LifecycleInv, NEW h \in Handler, renew_client(h)
    PROVE  LifecycleInv'
  <1> USE DEF LifecycleInv
  <1> DEFINE r == [req[h] EXCEPT !.at = "relay"]
  <1>0. /\ req \in [Handler -> Request] /\ r \in Request /\ req' = [req EXCEPT ![h] = r]
        /\ r.op = "renew" /\ r.at = "relay" /\ r.serial = req[h].serial
        /\ req[h].op = "renew" /\ req[h].at = "script"
    BY DEF PkiInv, Request, Place, renew_client, Goto, At
  <1> HIDE DEF r
  <1>1. issued = Newest /\ issued # 0 /\ renewed = 0 /\ Newest < MaxSerial
    BY Zenon DEF renew_client, PkiInv
  <1>2. Newest' = Newest + 1
    BY NewestGrows, Zenon DEF renew_client
  <1>3. /\ Newest \in Nat /\ Newest + 1 \in Serial /\ Newest \in Serial
        /\ issued' = Newest + 1 /\ renewed' = Newest /\ expired' = {}
        /\ index' = [index EXCEPT ![Newest + 1] = "V"]
        /\ person' = [person EXCEPT ![Newest + 1] = person[Newest]]
        /\ UNCHANGED <<crl, dbVars, history, cutShort, faults>>
    BY <1>1, ClientLifecycleAssumption DEF renew_client, PkiInv, Serial
  <1>4. Revoked' = Revoked
    BY <1>3 DEF Revoked, PkiInv, Serial
  <1>5. PkiInv'
    <2>1. \A g \in Handler : req'[g].op = "delete" => req'[g] = req[g]
      BY <1>0, Zenon
    <2>2. person' \in [Serial -> Nat] /\ \A s \in 1..Newest' : person'[s] \in 1..s
      BY <1>2, <1>3 DEF PkiInv, Serial
    <2>3. QED
      BY <1>0, <1>1, <1>2, <1>3, <1>4 DEF PkiInv, Serial, dbVars
  <1>6. LinkInv'
    BY <1>0, <1>3, Zenon DEF LinkInv, LinkSpentOnce, dbVars, history
  <1>7. Current' = Current /\ Current = person[Newest]
    BY <1>1, <1>2, <1>3 DEF Current, PkiInv
  <1>8. AccessInv'
    <2> SUFFICES ASSUME ~raced' PROVE AccessInv'
      BY Zenon DEF AccessInv
    <2>1. ~raced /\ \A g \in Handler \ {h} : req[g] = Idle
      BY Undisturbed, Zenon DEF renew_client
    <2>2. \A s \in Nat : s # 0 /\ s <= Newest => person'[s] = person[s]
      BY <1>3 DEF PkiInv, Serial
    <2>3. (Own(grant) /\ Own(account))'
      BY <2>1, <1>2, <1>3 DEF AccessInv, Own, Binding, dbVars
    <2>4. req[h].serial = Newest
      BY <2>1, <1>0, <1>1, Zenon DEF AccessInv, Present
    <2>5. \A g \in Handler : Present(req[g])'
      <3>1. Present(req[h])'
        BY <2>4, <1>0, <1>1, <1>2, <1>3, <1>7 DEF Present
      <3>2. \A g \in Handler \ {h} : req'[g].op = "idle"
        BY <2>1, <1>0 DEF Idle
      <3>3. QED
        BY <3>1, <3>2, Zenon DEF Present
    <2>6. ~Creating
      BY <2>1, <1>0 DEF Creating, Idle
    <2>7. QED
      BY <2>1, <2>3, <2>5, <2>6, <1>1, <1>3, <1>7, Zenon DEF AccessInv, history, dbVars
  <1>9. RenewalInv'
    <2> SUFFICES ASSUME ~raced', faults = 0 PROVE RenewalInv'
      BY <1>3, Zenon DEF RenewalInv
    <2>1. ~raced /\ \A g \in Handler \ {h} : req[g] = Idle
      BY Undisturbed, Zenon DEF renew_client
    <2>2. req[h].serial = Newest /\ At(h, "renew", "relay")'
      BY <2>1, <1>0, <1>1, Zenon DEF AccessInv, Present, At
    <2>3. \A g \in Handler : ~At(g, "renew", "relay") /\ ~At(g, "renew", "portal")
      BY <2>1, <1>0 DEF At, Idle
    <2>4. (grant # Nothing => grant.serial = Newest) /\ (account.owner = Current => account.serial = Newest)
      BY <2>1, <2>3, <1>1, Zenon DEF RenewalInv
    <2>5. req'[h].serial = Newest
      BY <2>2, <1>0, Zenon
    <2>6. QED
      BY <2>2, <2>4, <2>5, <1>3, <1>7 DEF RenewalInv, dbVars
  <1>10. QED
    BY <1>3, <1>5, <1>6, <1>8, <1>9, Zenon DEF dbVars

(* revoke.sh: the previous certificate goes first, then the current one.   *)
LEMMA MarkRevokedGives ==
    ASSUME PkiInv, NEW n \in 1..2, issued # 0, MarkRevoked(n)
    PROVE  /\ index' \in [Serial -> {"-", "V", "R"}]
           /\ \A s \in Serial : index'[s] # "-" <=> index[s] # "-"
           /\ Newest' = Newest /\ person' = person /\ Current' = Current
           /\ renewed' = 0 /\ issued' = IF n = 1 THEN issued ELSE 0
           /\ \A s \in Serial : index'[s] = "V" <=> s \in {issued', renewed'}
           /\ expired' \subseteq {issued'} \ {0} /\ expired' \subseteq expired
           /\ Revoked \subseteq Revoked'
  <1>1. /\ index' \in [Serial -> {"-", "V", "R"}]
        /\ \A s \in Serial : index'[s] = IF Revokes(s, n) THEN "R" ELSE index[s]
    BY Zenon DEF MarkRevoked, PkiInv
  <1>2. \A s \in Nat : Revokes(s, n) <=> s = renewed \/ (n = 2 /\ s = issued)
    BY DEF Revokes
  <1>3. issued \in Nat /\ renewed \in Nat /\ renewed # issued
    BY DEF PkiInv
  <1>4. /\ renewed' = 0 /\ issued' = IF n = 1 THEN issued ELSE 0
        /\ expired' \subseteq {issued'} \ {0} /\ expired' \subseteq expired
    <2>1. (Revokes(renewed, n) <=> TRUE) /\ (Revokes(issued, n) <=> n = 2)
      BY <1>2, <1>3, Zenon
    <2>2. renewed' = 0 /\ issued' = IF n = 1 THEN issued ELSE 0
      BY <2>1 DEF MarkRevoked
    <2>3. expired' = {s \in expired : ~Revokes(s, n)} /\ expired \subseteq {issued} \ {0}
      BY Zenon DEF MarkRevoked, PkiInv
    <2>4. QED
      BY <2>1, <2>2, <2>3
  <1>5. Serial \subseteq Nat /\ \A s \in Serial : s # 0
    BY DEF Serial
  <1>6. /\ \A s \in Serial : index'[s] # "-" <=> index[s] # "-"
        /\ \A s \in Serial : index'[s] = "V" <=> s \in {issued', renewed'}
    BY <1>1, <1>2, <1>4, <1>5 DEF PkiInv
  <1>7. Newest' = Newest
    BY <1>6, NewestKept, Zenon
  <1>8. Current' = Current /\ Revoked \subseteq Revoked'
    BY <1>7, Zenon DEF Current, Revoked, MarkRevoked
  <1>9. QED
    BY <1>1, <1>4, <1>6, <1>7, <1>8, Zenon DEF MarkRevoked

(* A revocation by request h, which is then at r; nothing but the          *)
(* certificates and the CRL change.                                        *)
LEMMA RevocationInv ==
    ASSUME LifecycleInv, NEW h \in Handler, NEW r \in Request, NEW n \in 1..2,
           issued # 0, MarkRevoked(n), Overtakes(h),
           req' = [req EXCEPT ![h] = r],
           r = Idle \/ (r.op = "revoke" /\ r.at = "relay"),
           req[h].op \in {"revoke", "previous"},
           gen_crl \/ cutShort' = TRUE,
           faults' \in Nat, faults' = 0 => faults = 0,
           faults' # 0 \/ n = 1 \/ r.op = "revoke",
           UNCHANGED <<dbVars, history>>
    PROVE  LifecycleInv'
  <1> USE DEF LifecycleInv
  <1>0. req \in [Handler -> Request] /\ r.op \in {"idle", "revoke"}
    BY DEF PkiInv, Idle
  <1>1. /\ index' \in [Serial -> {"-", "V", "R"}]
        /\ \A s \in Serial : index'[s] # "-" <=> index[s] # "-"
        /\ Newest' = Newest /\ person' = person /\ Current' = Current
        /\ renewed' = 0 /\ issued' = IF n = 1 THEN issued ELSE 0
        /\ \A s \in Serial : index'[s] = "V" <=> s \in {issued', renewed'}
        /\ expired' \subseteq {issued'} \ {0} /\ expired' \subseteq expired
        /\ Revoked \subseteq Revoked'
    BY MarkRevokedGives, Zenon
  <1>2. PkiInv'
    <2>1. \A g \in Handler : req'[g].op = "delete" => req'[g] = req[g]
      BY <1>0, Zenon
    <2>2. (~cutShort => crl = Revoked)'
      BY Zenon DEF gen_crl, Revoked
    <2>3. hidden' \subseteq Revoked'
      BY <1>1, Zenon DEF PkiInv, dbVars
    <2>4. (\A g \in Handler : req[g].op = "delete" => 1..req[g].serial \subseteq Revoked)'
      BY <2>1, <1>1 DEF PkiInv
    <2>5. QED
      BY <1>0, <1>1, <2>2, <2>3 DEF PkiInv
  <1>3. LinkInv'
    BY <1>0, Zenon DEF LinkInv, LinkSpentOnce, dbVars, history
  <1>4. AccessInv'
    <2> SUFFICES ASSUME ~raced' PROVE AccessInv'
      BY Zenon DEF AccessInv
    <2>1. ~raced /\ \A g \in Handler \ {h} : req[g] = Idle
      BY Undisturbed, Zenon
    <2>2. (Own(grant) /\ Own(account))'
      BY <2>1, <1>1, Zenon DEF AccessInv, Own, dbVars
    <2>3. \A g \in Handler : req'[g].op \in {"idle", "revoke"}
      BY <2>1, <1>0 DEF Idle
    <2>4. (\A g \in Handler : Present(req[g]))'
      BY <2>3, Zenon DEF Present
    <2>5. ~Creating
      BY <2>1 DEF Creating, Idle
    <2>6. QED
      BY <2>1, <2>2, <2>4, <2>5, <1>1, Zenon DEF AccessInv, history, dbVars
  <1>5. RenewalInv'
    <2> SUFFICES ASSUME ~raced', faults' = 0 PROVE RenewalInv'
      BY Zenon DEF RenewalInv
    <2>1. ~raced /\ faults = 0 /\ \A g \in Handler \ {h} : req[g] = Idle
      BY Undisturbed, Zenon
    <2>2. \A g \in Handler : ~At(g, "renew", "relay") /\ ~At(g, "renew", "portal")
      BY <2>1 DEF At, Idle
    <2>3. (grant # Nothing => grant.serial = issued) /\ (account.owner = Current => account.serial = issued)
      BY <2>1, <2>2, Zenon DEF RenewalInv
    <2>4. CASE n = 1
      BY <2>3, <2>4, <1>1, Zenon DEF RenewalInv, dbVars
    <2>5. CASE n = 2
      <3>1. At(h, "revoke", "relay")'
        BY <2>5, <1>0 DEF At, Idle
      <3>2. QED
        BY <3>1, <2>5, <1>1 DEF RenewalInv
    <2>6. QED
      BY <2>4, <2>5
  <1>6. QED
    BY <1>2, <1>3, <1>4, <1>5, Zenon DEF dbVars

-----------------------------------------------------------------------------
(* Steps that write the database.                                          *)
LEMMA DropLinksInv ==
    ASSUME LifecycleInv, NEW h \in Handler, drop_share_links, req[h].at = "links",
           UNCHANGED <<pkiVars, expired, raced, history, cutShort, faults>>,
           \/ End(h)
           \/ req[h].op = "delete" /\ Goto(h, "hide")
    PROVE  LifecycleInv'
  <1> USE DEF LifecycleInv
  <1>0. PICK r \in Request :
            /\ req' = [req EXCEPT ![h] = r]
            /\ r.op = "idle" \/ (r.op = "delete" /\ 1..r.serial \subseteq Revoked)
    <2>1. CASE End(h)
      BY <2>1, Idle \in Request, Zenon DEF End, Idle, Request, Operation, Place
    <2>2. CASE req[h].op = "delete" /\ Goto(h, "hide")
      <3> DEFINE r == [req[h] EXCEPT !.at = "hide"]
      <3>1. r \in Request /\ req' = [req EXCEPT ![h] = r] /\ r.op = "delete"
            /\ r.serial = req[h].serial
        BY <2>2 DEF Goto, PkiInv, Request, Place
      <3>2. QED
        BY <2>2, <3>1, Zenon DEF PkiInv
    <2>3. QED
      BY <2>1, <2>2, Zenon
  <1>1. req \in [Handler -> Request] /\ link'.id = 0
    BY Zenon DEF PkiInv, drop_share_links, NoLink
  <1>2. PkiInv'
    BY <1>0, QuietPki, Zenon DEF Quiet, drop_share_links
  <1>3. LinkInv'
    BY <1>0 DEF LinkInv, LinkSpentOnce, drop_share_links, NoLink, history
  <1>4. Newest' = Newest /\ Current' = Current /\ (Creating' => Creating)
    <2>1. Newest' = Newest
      BY Zenon DEF pkiVars, Newest
    <2>2. Current' = Current
      BY <2>1, Zenon DEF Current, pkiVars
    <2>3. QED
      BY <1>0, <2>1, <2>2 DEF Creating
  <1>5. AccessInv'
    <2> SUFFICES ASSUME ~raced PROVE AccessInv'
      BY Zenon DEF AccessInv
    <2>1. (Own(grant) /\ Own(account))'
      BY <1>4, Zenon DEF AccessInv, Own, pkiVars, drop_share_links
    <2>2. ASSUME NEW g \in Handler PROVE Present(req[g])'
      <3>1. CASE g = h
        BY <3>1, <1>0, <1>1, Zenon DEF Present
      <3>2. CASE g # h
        <4>1. Present(req[g]) /\ req'[g] = req[g]
          BY <3>2, <1>0, SMTT(30) DEF AccessInv
        <4>2. QED
          BY <4>1, <1>4, Zenon DEF Present, pkiVars
      <3>3. QED
        BY <3>1, <3>2, Zenon
    <2>3. QED
      BY <2>1, <2>2, <1>1, Zenon DEF AccessInv, history
  <1>6. RenewalInv'
    <2>1. \A g \in Handler : Waits(g) => req'[g] = req[g]
      BY <1>0 DEF Waits, At
    <2>2. QED
      BY <2>1, <1>4, RenewalKept, Zenon DEF pkiVars, drop_share_links
  <1>7. QED
    BY <1>2, <1>3, <1>5, <1>6, Zenon DEF drop_share_links

LEMMA create_clientInv ==
    ASSUME LifecycleInv, NEW h \in Handler, create_client(h)
    PROVE  LifecycleInv'
  <1>1. CASE genclient(h)
    BY <1>1, genclientInv, Zenon
  <1>2. CASE Database(h, "create", "links", "end") /\ drop_share_links
    BY <1>2, DropLinksInv, Zenon DEF Database, At
  <1>3. QED
    BY <1>1, <1>2, Zenon DEF create_client

(* relay.revoke: a request that stops to wait for it, or none.             *)
LEMMA RelayRevokeInv ==
    ASSUME LifecycleInv, relay_revoke, NEW h \in Handler, NEW r, Acts(h, r),
           (~At(h, "renew", "relay") /\ ~At(h, "renew", "portal")) \/ r = req[h],
           UNCHANGED <<pkiVars, expired, raced, history, cutShort, faults>>
    PROVE  LifecycleInv'
  <1> USE DEF LifecycleInv
  <1>1. ~raced => ~astray' /\ Own(grant') /\ Own(account')
    BY DEF AccessInv, relay_revoke, history, Own, Nothing, Binding, PkiInv
  <1>2. PkiInv' /\ LinkInv' /\ AccessInv' /\ Current' = Current
    BY <1>1, ActsInv, Zenon DEF Quiet, relay_revoke, history
  <1>3. RenewalInv'
    <2>1. \A g \in Handler : At(g, "renew", "relay") \/ At(g, "renew", "portal") => req'[g] = req[g]
      BY Zenon DEF Acts, PkiInv
    <2>2. QED
      BY <2>1, <1>2 DEF RenewalInv, At, pkiVars, relay_revoke
  <1>4. QED
    BY <1>2, <1>3, Zenon DEF relay_revoke, Nothing, Binding

LEMMA revokeInv ==
    ASSUME LifecycleInv, NEW h \in Handler, revoke(h)
    PROVE  LifecycleInv'
  <1>0. req \in [Handler -> Request] /\ Idle \in Request /\ faults \in Nat
    BY Zenon DEF LifecycleInv, PkiInv, Idle, Request, Operation, Place
  <1>1. CASE issued # 0 /\ Begin(h, "revoke", "script", 0, 0)
    <2>1. Acts(h, [op |-> "revoke", at |-> "script", serial |-> 0, who |-> 0, content |-> 0])
      BY <1>1 DEF Begin, Acts, Idle, Request, Operation, Place, Present
    <2>2. Reads /\ ~Waits(h)
      BY <1>1 DEF Begin, Reads, Waits, At, Idle
    <2>3. QED
      BY <2>1, <2>2, ReadsInv, Zenon
  <1>2. CASE At(h, "revoke", "script") /\ Refused(h)
    BY <1>2, RefusedInv, Zenon DEF At, Waits
  <1>3. CASE revoke_client(h)
    <2>1. CASE MarkRevoked(2) /\ gen_crl /\ Goto(h, "relay") /\ UNCHANGED faults
      <3> DEFINE r == [req[h] EXCEPT !.at = "relay"]
      <3>1. r \in Request /\ req' = [req EXCEPT ![h] = r] /\ r.op = "revoke" /\ r.at = "relay"
        BY <1>0, <1>3, <2>1, Zenon DEF revoke_client, Goto, At, Request, Place
      <3> HIDE DEF r
      <3>2. PICK n \in 1..2 : n = 2 /\ MarkRevoked(n)
        BY <2>1
      <3>3. QED
        BY <1>0, <1>3, <2>1, <3>1, <3>2, RevocationInv, Zenon DEF revoke_client, At
    <2>2. CASE Fault /\ (\E n \in 1..2 : MarkRevoked(n)) /\ cutShort' = TRUE /\ End(h)
      <3>1. PICK n \in 1..2 : MarkRevoked(n)
        BY <2>2, Zenon
      <3>2. faults' \in Nat /\ faults' # 0 /\ req' = [req EXCEPT ![h] = Idle]
        BY <1>0, <2>2 DEF Fault, End
      <3>3. QED
        BY <1>0, <1>3, <2>2, <3>2, RevocationInv, Zenon DEF revoke_client, At
    <2>3. QED
      BY <1>3, <2>1, <2>2, Zenon DEF revoke_client
  <1>4. CASE Database(h, "revoke", "relay", "links") /\ relay_revoke
    <2>1. Acts(h, [req[h] EXCEPT !.at = "links"])
      BY <1>0, <1>4, Zenon DEF Database, At, Goto, Acts, Request, Place, Present
    <2>2. QED
      BY <1>4, <2>1, RelayRevokeInv, Zenon DEF Database, At
  <1>5. CASE Database(h, "revoke", "links", "end") /\ drop_share_links
    BY <1>5, DropLinksInv, Zenon DEF Database, At
  <1>6. QED
    BY <1>1, <1>2, <1>3, <1>4, <1>5, Zenon DEF revoke

LEMMA revoke_previousInv ==
    ASSUME LifecycleInv, NEW h \in Handler, revoke_previous(h)
    PROVE  LifecycleInv'
  <1>0. req \in [Handler -> Request] /\ Idle \in Request /\ faults \in Nat
    BY Zenon DEF LifecycleInv, PkiInv, Idle, Request, Operation, Place
  <1>1. CASE Begin(h, "previous", "script", 0, 0)
    <2>1. Acts(h, [op |-> "previous", at |-> "script", serial |-> 0, who |-> 0, content |-> 0])
      BY <1>1 DEF Begin, Acts, Idle, Request, Operation, Place, Present
    <2>2. Reads /\ ~Waits(h)
      BY <1>1 DEF Begin, Reads, Waits, At, Idle
    <2>3. QED
      BY <2>1, <2>2, ReadsInv, Zenon
  <1>2. CASE At(h, "previous", "script") /\ Refused(h)
    BY <1>2, RefusedInv, Zenon DEF At, Waits
  <1>3. CASE /\ At(h, "previous", "script") /\ renewed # 0 /\ MarkRevoked(1)
             /\ \/ gen_crl /\ UNCHANGED faults
                \/ Fault /\ cutShort' = TRUE /\ UNCHANGED crl
             /\ End(h) /\ Overtakes(h) /\ UNCHANGED <<dbVars, history>>
    <2>1. issued # 0 /\ req[h].op = "previous" /\ req' = [req EXCEPT ![h] = Idle]
      BY <1>3, Zenon DEF LifecycleInv, PkiInv, At, End
    <2>2. faults' \in Nat /\ (faults' = 0 => faults = 0) /\ (gen_crl \/ cutShort' = TRUE)
      BY <1>0, <1>3 DEF Fault
    <2>3. PICK n \in 1..2 : n = 1 /\ MarkRevoked(n)
      BY <1>3
    <2>4. QED
      BY <1>0, <1>3, <2>1, <2>2, <2>3, RevocationInv, Zenon
  <1>4. QED
    BY <1>1, <1>2, <1>3, Zenon DEF revoke_previous

LEMMA renewInv ==
    ASSUME LifecycleInv, NEW h \in Handler, renew(h)
    PROVE  LifecycleInv'
  <1>0. /\ req \in [Handler -> Request] /\ Idle \in Request
        /\ issued \in Nat /\ Newest \in Nat /\ issued \in {0, Newest}
        /\ Newest # 0 => Newest \in Serial
    BY DEF LifecycleInv, PkiInv, Idle, Request, Operation, Place, Serial
  <1>1. CASE issued # 0 /\ Begin(h, "renew", "script", issued, 0)
    <2>1. person[issued] = Current
      BY <1>0, <1>1, Zenon DEF Current
    <2>2. Acts(h, [op |-> "renew", at |-> "script", serial |-> issued, who |-> 0, content |-> 0])
      BY <1>0, <1>1, <2>1 DEF Begin, Acts, Idle, Request, Operation, Place, Present
    <2>3. Reads /\ ~Waits(h)
      BY <1>1 DEF Begin, Reads, Waits, At, Idle
    <2>4. QED
      BY <2>2, <2>3, ReadsInv, Zenon
  <1>2. CASE At(h, "renew", "script") /\ Refused(h)
    BY <1>2, RefusedInv, Zenon DEF At, Waits
  <1>3. CASE renew_client(h)
    BY <1>3, renew_clientInv, Zenon
  <1>4. CASE /\ Database(h, "renew", "relay", "portal")
             /\ grant' = Rebind(grant, req[h].serial)
             /\ UNCHANGED <<hidden, account, link>>
    <2> DEFINE r == [req[h] EXCEPT !.at = "portal"]
    <2>1. /\ r \in Request /\ req' = [req EXCEPT ![h] = r] /\ r.op = "renew" /\ r.at = "portal"
          /\ req[h].op = "renew" /\ req[h].at = "relay" /\ r.serial = req[h].serial
          /\ UNCHANGED <<pkiVars, expired, raced, history, cutShort, faults>>
      BY <1>0, <1>4, Zenon DEF Database, At, Goto, Request, Place
    <2> HIDE DEF r
    <2>2. Acts(h, r)
      BY <2>1, Zenon DEF Acts, LifecycleInv, AccessInv, Present
    <2>3. ~raced => /\ eligible = issued /\ issued # 0 /\ req[h].serial # 0
                    /\ person[issued] = Current /\ person[req[h].serial] = Current
      <3>1. ASSUME ~raced PROVE Present(req[h])
        BY <3>1, Zenon DEF LifecycleInv, AccessInv
      <3>2. ASSUME ~raced PROVE issued # 0 /\ expired = {} /\ req[h].serial # 0 /\ person[req[h].serial] = Current
        BY <2>1, <3>1, <3>2 DEF Present
      <3>3. QED
        BY <1>0, <3>2, Zenon DEF eligible, LifecycleInv, PkiInv, Current
    <2>4. ~raced => ~astray' /\ Own(grant') /\ Own(account')
      BY <1>0, <1>4, <2>1, <2>3, SMTT(30) DEF LifecycleInv, AccessInv, Own, Binding, Rebind, history
    <2>5. PkiInv' /\ LinkInv' /\ AccessInv' /\ Current' = Current
      BY <1>4, <2>1, <2>2, <2>4, ActsInv, Zenon DEF Quiet, history
    <2>6. RenewalInv'
      <3> SUFFICES ASSUME ~raced, faults = 0 PROVE RenewalInv'
        BY <2>1, Zenon DEF RenewalInv
      <3>1. /\ \A g \in Handler \ {h} : req'[g] = req[g]
            /\ At(h, "renew", "portal")' /\ req'[h].serial = req[h].serial
        BY <1>0, <2>1, Zenon DEF At
      <3>2. grant' = grant \/ grant'.serial = issued
        BY <1>4, <2>3, Zenon DEF Rebind, LifecycleInv, AccessInv, Own, Binding
      <3>3. grant # Nothing /\ grant' = grant => \/ grant.serial = issued
                                                \/ \E g \in Handler \ {h} :
                                                     /\ At(g, "renew", "relay")
                                                     /\ grant.serial = req[g].serial
        <4>1. grant.serial = req[h].serial => grant'.serial = issued
          BY <1>4, <2>3, Zenon DEF Rebind, LifecycleInv, AccessInv, Own, Binding
        <4>2. QED
          BY <2>3, <4>1, Zenon DEF LifecycleInv, RenewalInv
      <3>4. account.owner = Current => \/ account.serial = issued
                                       \/ \E g \in Handler : /\ \/ At(g, "renew", "relay")'
                                                               \/ At(g, "renew", "portal")'
                                                            /\ account.serial = req'[g].serial
        BY <2>3, <3>1 DEF LifecycleInv, RenewalInv, At
      <3>5. QED
        BY <1>4, <2>1, <2>3, <2>5, <3>2, <3>3, <3>4 DEF RenewalInv, At, pkiVars
    <2>7. grant' \in Binding
      <3>1. eligible \in Nat /\ grant \in Binding
        BY <1>0, Zenon DEF eligible, LifecycleInv
      <3>2. QED
        BY <1>4, <3>1, Zenon DEF Rebind, Binding
    <2>8. QED
      BY <1>4, <2>1, <2>5, <2>6, <2>7, Zenon DEF LifecycleInv
  <1>5. CASE /\ Database(h, "renew", "portal", "end")
             /\ account' = Rebind(account, req[h].serial)
             /\ UNCHANGED <<hidden, grant, link>>
    <2>1. /\ req' = [req EXCEPT ![h] = Idle]
          /\ req[h].op = "renew" /\ req[h].at = "portal"
          /\ UNCHANGED <<pkiVars, expired, raced, history, cutShort, faults>>
      BY <1>5, Zenon DEF Database, At, End
    <2>2. Acts(h, Idle)
      BY <1>0, <2>1, Zenon DEF Acts, Present, Idle
    <2>3. ~raced => /\ eligible = issued /\ issued # 0 /\ req[h].serial # 0
                    /\ person[issued] = Current /\ person[req[h].serial] = Current
      <3>1. ASSUME ~raced PROVE Present(req[h])
        BY <3>1, Zenon DEF LifecycleInv, AccessInv
      <3>2. ASSUME ~raced PROVE issued # 0 /\ expired = {} /\ req[h].serial # 0 /\ person[req[h].serial] = Current
        BY <2>1, <3>1, <3>2 DEF Present
      <3>3. QED
        BY <1>0, <3>2, Zenon DEF eligible, LifecycleInv, PkiInv, Current
    <2>4. ~raced => ~astray' /\ Own(grant') /\ Own(account')
      BY <1>0, <1>5, <2>1, <2>3 DEF LifecycleInv, AccessInv, Own, Binding, Rebind, history
    <2>5. PkiInv' /\ LinkInv' /\ AccessInv' /\ Current' = Current
      BY <1>5, <2>1, <2>2, <2>4, ActsInv, SMTT(30) DEF Quiet, history
    <2>6. RenewalInv'
      <3> SUFFICES ASSUME ~raced, faults = 0 PROVE RenewalInv'
        BY <2>1, Zenon DEF RenewalInv
      <3>1. \A g \in Handler \ {h} : req'[g] = req[g]
        BY <2>1
      <3>2. account' = account \/ account'.serial = issued
        BY <1>5, <2>3, Zenon DEF Rebind, LifecycleInv, AccessInv, Own, Binding
      <3>3. account.owner = Current /\ account' = account =>
                \/ account.serial = issued
                \/ \E g \in Handler \ {h} : /\ At(g, "renew", "relay") \/ At(g, "renew", "portal")
                                            /\ account.serial = req[g].serial
        <4>1. account.serial = req[h].serial => account'.serial = issued
          BY <1>5, <2>3, Zenon DEF Rebind, LifecycleInv, AccessInv, Own, Binding
        <4>2. QED
          BY <2>3, <4>1, Zenon DEF LifecycleInv, RenewalInv
      <3>4. grant # Nothing => \/ grant.serial = issued
                               \/ \E g \in Handler \ {h} : /\ At(g, "renew", "relay")
                                                           /\ grant.serial = req[g].serial
        BY <2>1, <2>3, Zenon DEF LifecycleInv, RenewalInv, At
      <3>5. QED
        BY <1>5, <2>1, <2>3, <2>5, <3>2, <3>3, <3>4 DEF RenewalInv, At, pkiVars
    <2>7. account' \in Binding
      <3>1. eligible \in Nat /\ account \in Binding
        BY <1>0, Zenon DEF eligible, LifecycleInv
      <3>2. QED
        BY <1>5, <3>1, Zenon DEF Rebind, Binding
    <2>8. QED
      BY <1>5, <2>1, <2>5, <2>6, <2>7, Zenon DEF LifecycleInv
  <1>6. QED
    BY <1>1, <1>2, <1>3, <1>4, <1>5, Zenon DEF renew

(* disable_portal: the account goes.                                       *)
LEMMA DisablePortalInv ==
    ASSUME LifecycleInv, disable_portal, NEW h \in Handler, NEW r, Acts(h, r),
           ~Waits(h) \/ r = req[h],
           UNCHANGED <<pkiVars, expired, raced, history, cutShort, faults>>
    PROVE  LifecycleInv'
  <1> USE DEF LifecycleInv
  <1>1. ~raced => ~astray' /\ Own(grant') /\ Own(account')
    BY DEF AccessInv, disable_portal, history, Own, Nothing, Binding, PkiInv
  <1>2. PkiInv' /\ LinkInv' /\ AccessInv' /\ Current' = Current
    BY <1>1, ActsInv, Zenon DEF Quiet, disable_portal, history
  <1>3. RenewalInv'
    <2>1. \A g \in Handler : Waits(g) => req'[g] = req[g]
      BY Zenon DEF Acts, PkiInv
    <2>2. issued # 0 => Current # 0
      BY DEF Current, PkiInv
    <2>3. QED
      BY <2>1, <2>2, <1>2 DEF RenewalInv, Waits, At, pkiVars, disable_portal, Nothing
  <1>4. QED
    BY <1>2, <1>3, Zenon DEF disable_portal, Nothing, Binding

LEMMA delete_clientInv ==
    ASSUME LifecycleInv, NEW h \in Handler, delete_client(h)
    PROVE  LifecycleInv'
  <1>0. /\ req \in [Handler -> Request] /\ Idle \in Request /\ Newest \in Nat
        /\ req[h].op = "delete" => 1..req[h].serial \subseteq Revoked
    BY DEF LifecycleInv, PkiInv, Idle, Request, Operation, Place
  <1>1. CASE find_client = "revoked" /\ Begin(h, "delete", "script", Newest, 0)
    <2>1. issued = 0 /\ renewed = 0
      BY <1>1, Zenon DEF find_client, State, LifecycleInv, PkiInv
    <2>2. 1..Newest \subseteq Revoked
      BY <2>1, ClientLifecycleAssumption DEF Revoked, LifecycleInv, PkiInv, Serial
    <2>3. Acts(h, [op |-> "delete", at |-> "script", serial |-> Newest, who |-> 0, content |-> 0])
      BY <1>0, <1>1, <2>2, Zenon DEF Begin, Acts, Idle, Request, Operation, Place, Present
    <2>4. Reads /\ ~Waits(h)
      BY <1>1 DEF Begin, Reads, Waits, At, Idle
    <2>5. QED
      BY <2>3, <2>4, ReadsInv, Zenon
  <1>2. CASE At(h, "delete", "script") /\ Refused(h)
    BY <1>2, RefusedInv, Zenon DEF At, Waits
  <1>3. CASE remove_client(h)
    <2>1. Acts(h, [req[h] EXCEPT !.at = "portal"])
      BY <1>0, <1>3, Zenon DEF remove_client, At, Goto, Acts, Request, Place, Present
    <2>2. QED
      BY <1>3, <2>1, ReadsInv, Zenon DEF remove_client, At, Waits, Reads
  <1>4. CASE Database(h, "delete", "portal", "relay") /\ disable_portal
    <2>1. Acts(h, [req[h] EXCEPT !.at = "relay"])
      BY <1>0, <1>4, Zenon DEF Database, At, Goto, Acts, Request, Place, Present
    <2>2. QED
      BY <1>4, <2>1, DisablePortalInv, Zenon DEF Database, At, Waits
  <1>5. CASE Database(h, "delete", "relay", "links") /\ relay_revoke
    <2>1. Acts(h, [req[h] EXCEPT !.at = "links"])
      BY <1>0, <1>5, Zenon DEF Database, At, Goto, Acts, Request, Place, Present
    <2>2. QED
      BY <1>5, <2>1, RelayRevokeInv, Zenon DEF Database, At
  <1>6. CASE Database(h, "delete", "links", "hide") /\ drop_share_links
    BY <1>6, DropLinksInv, Zenon DEF Database, At
  <1>7. CASE /\ Database(h, "delete", "hide", "end")
             /\ hidden' = hidden \cup 1..req[h].serial
             /\ UNCHANGED <<grant, account, link>>
    <2>1. /\ req' = [req EXCEPT ![h] = Idle] /\ req[h].op = "delete"
          /\ UNCHANGED <<pkiVars, expired, grant, account, link, raced, history, cutShort, faults>>
      BY <1>7, Zenon DEF Database, At, End
    <2>2. Acts(h, Idle) /\ hidden' \subseteq Revoked
      BY <1>0, <1>7, <2>1, Zenon DEF Acts, Present, Idle, LifecycleInv, PkiInv
    <2>3. ~raced => ~astray' /\ Own(grant') /\ Own(account')
      BY <2>1, Zenon DEF LifecycleInv, AccessInv, history
    <2>4. PkiInv' /\ LinkInv' /\ AccessInv' /\ Current' = Current
      BY <2>1, <2>2, <2>3, ActsInv, Zenon DEF Quiet, history
    <2>5. RenewalInv'
      <3>1. \A g \in Handler : Waits(g) => req'[g] = req[g]
        BY <2>1 DEF Waits, At
      <3>2. QED
        BY <2>1, <2>4, <3>1, RenewalKept, Zenon DEF LifecycleInv, pkiVars
    <2>6. QED
      BY <2>1, <2>4, <2>5, Zenon DEF LifecycleInv
  <1>8. QED
    BY <1>1, <1>2, <1>3, <1>4, <1>5, <1>6, <1>7, Zenon DEF delete_client

-----------------------------------------------------------------------------
(* The one-time link.                                                      *)
LEMMA LinkStepInv ==
    ASSUME LifecycleInv, NEW h \in Handler, req[h].op \in {"share", "download"}, End(h), LinkInv',
           ~raced => ~astray',
           ~raced /\ ~Creating /\ ~link'.left /\ issued # 0 /\ ~link'.used => link'.owner = Current,
           UNCHANGED <<pkiVars, expired, hidden, grant, account, raced, cutShort, faults>>
    PROVE  LifecycleInv'
  <1> USE DEF LifecycleInv
  <1>0. req \in [Handler -> Request] /\ Idle \in Request /\ req' = [req EXCEPT ![h] = Idle]
    BY Zenon DEF PkiInv, End, Idle, Request, Operation, Place
  <1>1. PkiInv'
    BY <1>0, QuietPki, Zenon DEF Quiet, Idle
  <1>2. Newest' = Newest /\ Current' = Current /\ Creating' = Creating
    <2>1. Newest' = Newest
      BY Zenon DEF pkiVars, Newest
    <2>2. Current' = Current
      BY <2>1, Zenon DEF Current, pkiVars
    <2>3. QED
      BY <1>0, <2>1, <2>2, Zenon DEF Creating, Idle
  <1>3. AccessInv'
    <2> SUFFICES ASSUME ~raced PROVE AccessInv'
      BY ZenonT(30) DEF AccessInv
    <2>1. (Own(grant) /\ Own(account))'
      BY <1>2, Zenon DEF AccessInv, Own, pkiVars
    <2>2. ASSUME NEW g \in Handler PROVE Present(req[g])'
      <3>1. Present(Idle) /\ Present(req[g])
        BY Zenon DEF AccessInv, Present, Idle
      <3>2. Present(req'[g])
        BY <3>1, <1>0, Zenon
      <3>3. QED
        BY <3>2, <1>2, Zenon DEF Present, pkiVars
    <2>3. QED
      BY <2>1, <2>2, <1>2, Zenon DEF AccessInv, pkiVars
  <1>4. RenewalInv'
    <2>1. \A g \in Handler : Waits(g) => req'[g] = req[g]
      BY <1>0, Zenon DEF Waits, At
    <2>2. QED
      BY <2>1, <1>2, RenewalKept, Zenon DEF pkiVars
  <1>5. QED
    BY <1>1, <1>3, <1>4, Zenon

LEMMA CurrentType == ASSUME PkiInv PROVE Current \in Nat /\ (issued # 0 => Current = person[issued])
  <1>1. Newest \in 1..MaxSerial => person[Newest] \in Nat
    BY Zenon DEF PkiInv, Serial
  <1>2. QED
    BY DEF PkiInv, Current

LEMMA share_profileInv ==
    ASSUME LifecycleInv, NEW h \in Handler, share_profile(h)
    PROVE  LifecycleInv'
  <1>0. req \in [Handler -> Request] /\ Idle \in Request /\ Current \in Nat
    BY CurrentType, Zenon DEF LifecycleInv, PkiInv, Idle, Request, Operation, Place
  <1>1. CASE Begin(h, "share", "insert", 0, Current)
    <2>1. Acts(h, [op |-> "share", at |-> "insert", serial |-> 0, who |-> Current, content |-> 0])
      BY <1>0, <1>1, Zenon DEF Begin, Acts, Idle, Request, Operation, Place, Present
    <2>2. Reads /\ ~Waits(h)
      BY <1>1 DEF Begin, Reads, Waits, At, Idle
    <2>3. QED
      BY <2>1, <2>2, ReadsInv, Zenon
  <1>2. CASE /\ At(h, "share", "insert")
             /\ link' = [id |-> Len(delivered) + 1, owner |-> req[h].who, used |-> FALSE,
                         left |-> FALSE]
             /\ delivered' = Append(delivered, 0)
             /\ End(h)
             /\ UNCHANGED <<pkiVars, expired, hidden, grant, account, raced, astray, cutShort, faults>>
    <2>1. LinkInv'
      <3>1. /\ delivered \in Seq(Nat) /\ delivered' \in Seq(Nat)
            /\ Len(delivered') = Len(delivered) + 1 /\ delivered'[Len(delivered) + 1] = 0
            /\ \A id \in 1..Len(delivered) : delivered'[id] = delivered[id]
        BY <1>2 DEF LifecycleInv, LinkInv
      <3>2. LinkSpentOnce'
        BY <3>1 DEF LifecycleInv, LinkInv, LinkSpentOnce
      <3>3. req[h].who \in Nat /\ req' = [req EXCEPT ![h] = Idle]
        BY <1>0, <1>2, Zenon DEF Request, End
      <3>4. QED
        BY <1>2, <3>2, <3>3 DEF LifecycleInv, LinkInv, Idle
    <2>2. ~raced => ~astray' /\ link'.owner = Current
      BY <1>2, Zenon DEF LifecycleInv, AccessInv, Present, At
    <2>3. /\ req[h].op \in {"share", "download"} /\ End(h)
          /\ UNCHANGED <<pkiVars, expired, hidden, grant, account, raced, cutShort, faults>>
      BY <1>2, Zenon DEF At
    <2>4. QED
      BY <2>1, <2>2, <2>3, LinkStepInv, Zenon
  <1>3. QED
    BY <1>1, <1>2, Zenon DEF share_profile

LEMMA shared_profileInv ==
    ASSUME LifecycleInv, NEW h \in Handler, shared_profile(h)
    PROVE  LifecycleInv'
  <1>0. /\ req \in [Handler -> Request] /\ Idle \in Request
        /\ link \in [id : Nat, owner : Nat, used : BOOLEAN, left : BOOLEAN]
        /\ delivered \in Seq(Nat) /\ link.id <= Len(delivered)
    BY Zenon DEF LifecycleInv, PkiInv, LinkInv, Idle, Request, Operation, Place
  <1>1. ASSUME NEW id \in Link, LinkWorks(id), Begin(h, "download", "build", id, link.owner)
        PROVE  LifecycleInv'
    <2>1. id \in 1..Len(delivered) /\ link.owner \in Nat
      BY <1>0, <1>1 DEF Link, LinkWorks
    <2>r. PICK r : r = [op |-> "download", at |-> "build", serial |-> id,
                        who |-> link.owner, content |-> 0]
      BY ZenonT(30)
    <2>a. /\ r \in Request /\ r.op = "download" /\ r.at = "build" /\ r.serial = id
          /\ r.who = link.owner
      BY <2>1, <2>r DEF Request, Operation, Place
    <2>b. req' = [req EXCEPT ![h] = r] /\ req[h].op # "create"
      BY <1>1, <2>r DEF Begin, Idle
    <2>2. Acts(h, r)
      BY <2>1, <2>a, <2>b, SMTT(20) DEF Acts, Present
    <2>3. Reads /\ ~Waits(h)
      BY <1>1, SMTT(30) DEF Begin, Reads, Waits, At, Idle
    <2>4. QED
      BY <2>2, <2>3, ReadsInv, Zenon
  <1>2. CASE (At(h, "download", "build") \/ At(h, "download", "spend")) /\ Refused(h)
    BY <1>2, RefusedInv, Zenon DEF At, Waits
  <1>3. CASE build_profile(h)
    <2>1. Current \in Nat /\ Current = person[issued] /\ issued # 0
      BY <1>3, CurrentType, Zenon DEF build_profile, LifecycleInv
    <2> DEFINE q == [req[h] EXCEPT !.content = Current]
               r == [q EXCEPT !.at = "spend"]
    <2>2. q \in Request /\ q.op = "download" /\ q.serial = req[h].serial /\ q.who = req[h].who
          /\ q.content = Current
      BY <1>0, <1>3, <2>1, Zenon DEF build_profile, At, Request
    <2>3. req' = [req EXCEPT ![h] = r]
      BY <1>3, <2>1, Zenon DEF build_profile, Request
    <2> HIDE DEF q
    <2>4. /\ r \in Request /\ r.op = "download" /\ r.serial = req[h].serial
          /\ r.who = req[h].who /\ r.content = Current /\ r.at = "spend"
      BY <2>2, Zenon DEF Request, Place
    <2> HIDE DEF r
    <2>5. ~Creating /\ req[h].op = "download"
      BY <1>3, Zenon DEF build_profile, script, At, Creating
    <2>6. Acts(h, r)
      BY <2>1, <2>3, <2>4, <2>5, Zenon DEF Acts, Present, LifecycleInv, LinkInv
    <2>7. QED
      BY <1>3, <2>6, ReadsInv, Zenon DEF build_profile, At, Waits, Reads
  <1>4. CASE /\ At(h, "download", "spend")
             /\ Spend(h)
             /\ link' = IF link.id = req[h].serial THEN [link EXCEPT !.used = TRUE] ELSE link
             /\ delivered' = [delivered EXCEPT ![req[h].serial] = @ + 1]
             /\ astray' = (astray \/ (~raced /\ ~link.left /\ req[h].content # req[h].who))
             /\ End(h)
             /\ UNCHANGED <<pkiVars, expired, hidden, grant, account, raced, cutShort, faults>>
    <2>1. /\ link.id = req[h].serial /\ ~link.used /\ req[h].serial \in 1..Len(delivered)
          /\ req[h].who = link.owner /\ delivered[link.id] = 0
      BY <1>4 DEF LifecycleInv, LinkInv, Spend, At
    <2>2. /\ link' \in [id : Nat, owner : Nat, used : BOOLEAN, left : BOOLEAN]
          /\ link'.id = link.id /\ link'.owner = link.owner /\ link'.used = TRUE
      BY <1>0, <1>4, <2>1, Zenon
    <2>3. /\ delivered' \in Seq(Nat) /\ Len(delivered') = Len(delivered)
          /\ delivered'[link.id] = 1
          /\ \A id \in 1..Len(delivered) : id # link.id => delivered'[id] = delivered[id]
      BY <1>0, <1>4, <2>1
    <2>4. LinkInv'
      <3>1. LinkSpentOnce'
        <4>1. /\ DOMAIN delivered' = 1..Len(delivered)
              /\ \A id \in 1..Len(delivered) : delivered[id] <= 1
          BY <2>3, SMTT(30) DEF LifecycleInv, LinkInv, LinkSpentOnce
        <4>2. QED
          BY <2>3, <4>1 DEF LinkSpentOnce
      <3>2. req' = [req EXCEPT ![h] = Idle]
        BY <1>4, Zenon DEF End
      <3>3. QED
        BY <2>2, <2>3, <3>1, <3>2 DEF LifecycleInv, LinkInv, Idle
    <2>5. ~raced => ~astray'
      <3> SUFFICES ASSUME ~raced PROVE ~astray'
        BY Zenon
      <3>1. ~astray /\ req[h].content = Current /\ issued # 0 /\ ~Creating
        BY <1>4, Zenon DEF LifecycleInv, AccessInv, Present, At
      <3>2. link.id # 0
        BY <2>1
      <3>3. ~link.left => link.owner = Current
        BY <2>1, <3>1, <3>2, Zenon DEF LifecycleInv, AccessInv
      <3>4. QED
        BY <1>4, <2>1, <3>1, <3>3, Zenon
    <2>6. req[h].op \in {"share", "download"}
      BY <1>4, Zenon DEF At
    <2>7. QED
      BY <1>4, <2>2, <2>4, <2>5, <2>6, LinkStepInv, Zenon
  <1>5. QED
    BY <1>1, <1>2, <1>3, <1>4, Zenon DEF shared_profile

-----------------------------------------------------------------------------
(* The portal account and the credential.                                  *)
LEMMA eligibleIs ==
    ASSUME LifecycleInv
    PROVE  /\ eligible \in Nat
           /\ eligible # 0 => eligible = issued /\ issued = Newest /\ Current = person[issued]
           /\ issued # 0 => Current <= Newest
  BY CurrentType DEF eligible, LifecycleInv, PkiInv

LEMMA set_portal_accountInv ==
    ASSUME LifecycleInv, NEW h \in Handler, set_portal_account(h)
    PROVE  LifecycleInv'
  <1>0. /\ req \in [Handler -> Request] /\ Idle \in Request /\ Current \in Nat
        /\ issued \in {0, Newest} /\ Newest \in Nat
    BY CurrentType, SMTT(30) DEF LifecycleInv, PkiInv, Idle, Request, Operation, Place
  <1>1. CASE eligible # 0 /\ Begin(h, "portal", "write", eligible, Current)
    <2>1. Acts(h, [op |-> "portal", at |-> "write", serial |-> eligible, who |-> Current, content |-> 0])
      BY <1>0, <1>1, eligibleIs, SMTT(30) DEF Begin, Acts, Idle, Request, Operation, Place, Present
    <2>2. Reads /\ ~Waits(h)
      BY <1>1 DEF Begin, Reads, Waits, At, Idle
    <2>3. QED
      BY <2>1, <2>2, ReadsInv, SMTT(30)
  <1>2. CASE /\ Database(h, "portal", "write", "end")
             /\ account' = [serial |-> req[h].serial, owner |-> req[h].who]
             /\ UNCHANGED <<hidden, grant, link>>
    <2>1. /\ req' = [req EXCEPT ![h] = Idle] /\ req[h].op = "portal"
          /\ UNCHANGED <<pkiVars, expired, raced, history, cutShort, faults>>
          /\ account' \in Binding /\ account'.serial = req[h].serial /\ account'.owner = req[h].who
      BY <1>0, <1>2, Zenon DEF Database, At, End, Binding, Request
    <2>2. Acts(h, Idle)
      BY <1>0, <2>1, Zenon DEF Acts, Present, Idle
    <2>3. ~raced => issued # 0 /\ account'.serial = issued /\ account'.owner = Current
      BY <2>1, Zenon DEF LifecycleInv, AccessInv, Present
    <2>4. ~raced => ~astray' /\ Own(grant') /\ Own(account')
      BY <1>0, <1>2, <2>1, <2>3, CurrentType, eligibleIs DEF LifecycleInv, AccessInv, Own, history
    <2>5. PkiInv' /\ LinkInv' /\ AccessInv' /\ Current' = Current
      BY <1>2, <2>1, <2>2, <2>4, ActsInv, Zenon DEF Quiet, history
    <2>6. RenewalInv'
      <3>1. \A g \in Handler : Waits(g) => req'[g] = req[g]
        BY <2>1 DEF Waits, At
      <3>2. QED
        BY <1>2, <2>1, <2>3 DEF LifecycleInv, RenewalInv, Waits, At, pkiVars
    <2>7. QED
      BY <1>2, <2>1, <2>5, <2>6, Zenon DEF LifecycleInv
  <1>3. QED
    BY <1>1, <1>2, Zenon DEF set_portal_account

LEMMA own_openvpn_profileInv ==
    ASSUME LifecycleInv, NEW h \in Handler, own_openvpn_profile(h)
    PROVE  LifecycleInv'
  <1>0. req \in [Handler -> Request] /\ Idle \in Request
    BY Zenon DEF LifecycleInv, PkiInv, Idle, Request, Operation, Place
  <1>1. CASE AccountWorks /\ Begin(h, "own", "build", 0, account.owner)
    <2>1. account.owner \in Nat /\ (~raced => account.owner = Current)
      BY <1>1, eligibleIs, SMTT(30) DEF AccountWorks, LifecycleInv, AccessInv, Own, Binding
    <2>2. Acts(h, [op |-> "own", at |-> "build", serial |-> 0, who |-> account.owner, content |-> 0])
      BY <1>1, <2>1, SMTT(30) DEF Begin, Acts, Idle, Request, Operation, Place, Present
    <2>3. Reads /\ ~Waits(h)
      BY <1>1 DEF Begin, Reads, Waits, At, Idle
    <2>4. QED
      BY <2>2, <2>3, ReadsInv, Zenon
  <1>2. CASE At(h, "own", "build") /\ Refused(h)
    BY <1>2, RefusedInv, SMTT(30) DEF At, Waits
  <1>3. CASE /\ At(h, "own", "build") /\ issued # 0
             /\ astray' = (astray \/ (~raced /\ person[issued] # req[h].who))
             /\ End(h)
             /\ UNCHANGED <<pkiVars, expired, dbVars, delivered, raced, cutShort, faults>>
    <2>1. Acts(h, Idle) /\ req' = [req EXCEPT ![h] = Idle] /\ req[h].op = "own"
      BY <1>0, <1>3, Zenon DEF Acts, Present, Idle, At, End
    <2>2. ~raced => req[h].who = person[issued]
      BY <1>3, <2>1, CurrentType, Zenon DEF LifecycleInv, AccessInv, Present
    <2>3. ~raced => ~astray' /\ Own(grant') /\ Own(account')
      BY <1>3, <2>2, ZenonT(30) DEF LifecycleInv, AccessInv, dbVars
    <2>4. PkiInv' /\ LinkInv' /\ AccessInv' /\ Current' = Current
      BY <1>3, <2>1, <2>3, ActsInv, Zenon DEF Quiet, dbVars
    <2>5. \A g \in Handler : Waits(g) => req'[g] = req[g]
      BY <2>1 DEF Waits, At
    <2>6. RenewalInv'
      BY <1>3, <2>4, <2>5, RenewalKept, Zenon DEF LifecycleInv, pkiVars, dbVars
    <2>7. QED
      BY <1>3, <2>4, <2>6, Zenon DEF LifecycleInv, dbVars
  <1>4. QED
    BY <1>1, <1>2, <1>3, Zenon DEF own_openvpn_profile

LEMMA relay_profileInv ==
    ASSUME LifecycleInv, NEW h \in Handler, relay_profile(h)
    PROVE  LifecycleInv'
  <1>0. /\ req \in [Handler -> Request] /\ Idle \in Request /\ Current \in Nat
        /\ issued \in {0, Newest} /\ Newest \in Nat
    BY CurrentType DEF LifecycleInv, PkiInv, Idle, Request, Operation, Place
  <1>1. ASSUME NEW who \in Nat, ~raced => who = Current, Begin(h, "relay", "cert", 0, who)
        PROVE  LifecycleInv'
    <2>1. Acts(h, [op |-> "relay", at |-> "cert", serial |-> 0, who |-> who, content |-> 0])
      BY <1>1 DEF Begin, Acts, Idle, Request, Operation, Place, Present
    <2>2. Reads /\ ~Waits(h)
      BY <1>1 DEF Begin, Reads, Waits, At, Idle
    <2>3. QED
      BY <2>1, <2>2, ReadsInv, Zenon
  <1>2. CASE AccountWorks /\ Begin(h, "relay", "cert", 0, account.owner)
    <2>1. account.owner \in Nat /\ (~raced => account.owner = Current)
      BY <1>2, eligibleIs, Zenon DEF AccountWorks, LifecycleInv, AccessInv, Own, Binding
    <2>2. QED
      BY <1>1, <1>2, <2>1, Zenon
  <1>3. CASE /\ At(h, "relay", "cert")
             /\ IF eligible = 0 THEN End(h)
                ELSE req' = [req EXCEPT ![h].serial = eligible, ![h].at = "grant"]
             /\ Reads
    <2>1. CASE eligible = 0
      BY <1>3, <2>1, RefusedInv, Zenon DEF Refused, Reads, At, Waits
    <2>2. CASE eligible # 0
      <3> DEFINE q == [req[h] EXCEPT !.serial = eligible]
                 r == [q EXCEPT !.at = "grant"]
      <3>1. eligible \in Nat /\ eligible = issued /\ issued # 0
        BY <2>2, eligibleIs, Zenon
      <3>2. q \in Request /\ q.op = "relay" /\ q.serial = issued /\ q.who = req[h].who
        BY <1>0, <1>3, <3>1, Zenon DEF At, Request
      <3>3. req' = [req EXCEPT ![h] = r]
        BY <1>3, <2>2, Zenon DEF Request
      <3> HIDE DEF q
      <3>4. /\ r \in Request /\ r.op = "relay" /\ r.serial = issued /\ r.who = req[h].who
            /\ r.at = "grant"
        BY <3>2, Zenon DEF Request, Place
      <3> HIDE DEF r
      <3>5. Acts(h, r)
        BY <1>3, <3>1, <3>3, <3>4, SMTT(30) DEF Acts, Present, LifecycleInv, AccessInv, At
      <3>6. QED
        BY <1>3, <3>5, ReadsInv, Zenon DEF At, Waits
    <2>3. QED
      BY <2>1, <2>2, Zenon
  <1>4. CASE /\ At(h, "relay", "grant")
             /\ grant' = GrantFor(h)
             /\ astray' = (astray \/ (~raced /\ grant'.owner # req[h].who))
             /\ End(h)
             /\ UNCHANGED <<pkiVars, expired, hidden, account, link, delivered, raced,
                            cutShort, faults>>
    <2>1. /\ req' = [req EXCEPT ![h] = Idle] /\ req[h].op = "relay" /\ req[h].at = "grant"
          /\ grant' \in Binding /\ grant'.serial = req[h].serial
          /\ grant' = grant \/ grant'.owner = req[h].who
      BY <1>0, <1>4, Zenon DEF At, End, GrantFor, Binding, Request, LifecycleInv
    <2>2. Acts(h, Idle)
      BY <1>0, <2>1, Zenon DEF Acts, Present, Idle
    <2>3. ~raced => /\ issued # 0 /\ grant'.serial = issued /\ req[h].who = Current
                    /\ grant'.owner = Current
      <3> SUFFICES ASSUME ~raced PROVE /\ issued # 0 /\ grant'.serial = issued
                                       /\ req[h].who = Current /\ grant'.owner = Current
        BY Zenon
      <3>1. issued # 0 /\ grant'.serial = issued /\ req[h].who = Current
        BY <2>1, SMTT(30) DEF LifecycleInv, AccessInv, Present
      <3>2. grant' = grant => grant.owner = Current
        BY <3>1, CurrentType, Zenon DEF LifecycleInv, AccessInv, Own
      <3>3. QED
        BY <2>1, <3>1, <3>2, Zenon
    <2>4. ~raced => ~astray' /\ Own(grant') /\ Own(account')
      <3>1. ~raced => ~astray /\ Own(account)
        BY Zenon DEF LifecycleInv, AccessInv
      <3>2. ~raced => Own(grant')
        BY <1>0, <2>1, <2>3, CurrentType, eligibleIs DEF LifecycleInv, Own
      <3>3. QED
        BY <1>4, <2>3, <3>1, <3>2, Zenon
    <2>5. PkiInv' /\ LinkInv' /\ AccessInv' /\ Current' = Current
      BY <1>4, <2>2, <2>4, ActsInv, ZenonT(30) DEF Quiet
    <2>6. RenewalInv'
      <3>1. \A g \in Handler : Waits(g) => req'[g] = req[g]
        BY <2>1 DEF Waits, At
      <3>2. QED
        BY <1>4, <2>3, <2>5, <3>1, ZenonT(30) DEF LifecycleInv, RenewalInv, Waits, At, pkiVars
    <2>7. QED
      BY <1>4, <2>1, <2>5, <2>6, Zenon DEF LifecycleInv
  <1>5. QED
    BY <1>0, <1>1, <1>2, <1>3, <1>4, Zenon DEF relay_profile, Reads

-----------------------------------------------------------------------------
(* Steps that are not of one request.                                      *)
LEMMA NoRequest ==
    ASSUME LifecycleInv, NEW h \in Handler, UNCHANGED req
    PROVE  Acts(h, req[h])
  BY Zenon DEF Acts, LifecycleInv, PkiInv, LinkInv, AccessInv

LEMMA regenerate_crlInv == LifecycleInv /\ regenerate_crl => LifecycleInv'
  <1> SUFFICES ASSUME LifecycleInv, regenerate_crl PROVE LifecycleInv'
    BY SMTT(30)
  <1> USE DEF LifecycleInv
  <1>1. /\ Newest' = Newest /\ Revoked' = Revoked /\ Creating' = Creating /\ crl' = Revoked
        /\ UNCHANGED <<issued, renewed, index, person, expired, req, hidden, grant, account, link,
                       raced, astray, delivered, faults>>
    BY Zenon DEF regenerate_crl, gen_crl, Newest, Revoked, Creating, dbVars, history
  <1>2. Current' = Current
    BY <1>1, Zenon DEF Current
  <1>3. PkiInv'
    BY <1>1, Zenon DEF PkiInv
  <1>4. LinkInv'
    BY <1>1, SMTT(30) DEF LinkInv, LinkSpentOnce
  <1>5. AccessInv'
    BY <1>1, <1>2 DEF AccessInv, Own, Present
  <1>6. RenewalInv'
    BY <1>1, <1>2, RenewalKept, Zenon
  <1>7. QED
    BY <1>1, <1>3, <1>4, <1>5, <1>6, Zenon

LEMMA ExpireInv == LifecycleInv /\ Expire => LifecycleInv'
  <1> SUFFICES ASSUME LifecycleInv, Expire PROVE LifecycleInv'
    BY Zenon
  <1> USE DEF LifecycleInv
  <1>1. /\ Newest' = Newest /\ Revoked' = Revoked /\ Creating' = Creating
        /\ UNCHANGED <<issued, renewed, index, person, crl, cutShort, req, hidden, grant, account,
                       link, raced, astray, delivered, faults>>
    BY Zenon DEF Expire, Newest, Revoked, Creating, pkiVars, dbVars, history
  <1>2. Current' = Current
    BY <1>1, Zenon DEF Current
  <1>3. PkiInv'
    BY <1>1 DEF PkiInv, Expire
  <1>4. LinkInv'
    BY <1>1, SMTT(30) DEF LinkInv, LinkSpentOnce
  <1>5. AccessInv'
    BY <1>1, <1>2 DEF AccessInv, Own, Present, Expire, At
  <1>6. RenewalInv'
    BY <1>1, <1>2, RenewalKept, Zenon
  <1>7. QED
    BY <1>1, <1>3, <1>4, <1>5, <1>6, SMTT(30)

LEMMA AbortInv == LifecycleInv /\ Abort => LifecycleInv'
  <1> SUFFICES ASSUME LifecycleInv, Abort PROVE LifecycleInv'
    BY Zenon
  <1> USE DEF LifecycleInv
  <1>0. req \in [Handler -> Request] /\ Idle \in Request
    BY Zenon DEF PkiInv, Idle, Request, Operation, Place
  <1>1. req' \in [Handler -> Request] /\ \A g \in Handler : req'[g] \in {req[g], Idle}
    BY <1>0, Zenon DEF Abort, End
  <1>2. /\ Newest' = Newest /\ Revoked' = Revoked
        /\ UNCHANGED <<issued, renewed, index, person, crl, cutShort, expired, hidden, grant,
                       account, raced, astray, delivered>>
        /\ faults' \in Nat /\ faults' # 0
    BY DEF Abort, Fault, Newest, Revoked, pkiVars, history
  <1>3. Current' = Current
    BY <1>2, Zenon DEF Current
  <1>4. link \in [id : Nat, owner : Nat, used : BOOLEAN, left : BOOLEAN]
    BY Zenon DEF LinkInv
  <1>5. /\ link' \in [id : Nat, owner : Nat, used : BOOLEAN, left : BOOLEAN]
        /\ link'.id = link.id /\ link'.owner = link.owner /\ link'.used = link.used
        /\ link' = link \/ link'.left = TRUE
    BY <1>4, Zenon DEF Abort
  <1>6. PkiInv'
    <2>1. \A g \in Handler : req'[g].op = "delete" => req'[g] = req[g]
      BY <1>1 DEF Idle
    <2>2. QED
      BY <1>1, <1>2, <2>1, Zenon DEF PkiInv
  <1>7. LinkInv'
    <2>1. \A g \in Handler : req'[g].op = "download" => req'[g] = req[g]
      BY <1>1 DEF Idle
    <2>2. QED
      BY <1>2, <1>5, <2>1, Zenon DEF LinkInv, LinkSpentOnce
  <1>8. AccessInv'
    <2> SUFFICES ASSUME ~raced PROVE AccessInv'
      BY <1>2, Zenon DEF AccessInv
    <2>1. (Own(grant) /\ Own(account))'
      BY <1>2, Zenon DEF AccessInv, Own
    <2>2. Creating' => Creating
      BY <1>1, SMTT(30) DEF Creating, Idle
    <2>3. ASSUME NEW g \in Handler PROVE Present(req[g])'
      <3>1. Present(req[g]) /\ Present(Idle)
        BY Zenon DEF AccessInv, Present, Idle
      <3>2. Present(req'[g])
        BY <1>1, <3>1, Zenon
      <3>3. QED
        BY <1>2, <1>3, <2>2, <3>2, SMTT(30) DEF Present
    <2>4. ASSUME ~Creating', ~link'.left, link'.id # 0 PROVE ~Creating /\ link' = link
      <3>1. link # NoLink
        BY <1>5, <2>4 DEF NoLink
      <3>2. \A g \in Handler : req[g].op = "create" => req'[g] = Idle
        BY <1>1, <2>4, Zenon DEF Creating
      <3>3. \A g \in Handler : req[g].op # "create"
        BY <2>4, <3>1, <3>2 DEF Abort
      <3>4. QED
        BY <1>5, <2>4, <3>3, Zenon DEF Creating
    <2>5. QED
      BY <1>2, <1>3, <2>1, <2>3, <2>4, Zenon DEF AccessInv
  <1>9. RenewalInv'
    BY <1>2, Zenon DEF RenewalInv
  <1>10. QED
    BY <1>2, <1>6, <1>7, <1>8, <1>9, Zenon

-----------------------------------------------------------------------------
LEMMA LifecycleInitInv == Init => LifecycleInv
  <1> SUFFICES ASSUME Init PROVE LifecycleInv
    BY Zenon
  <1>1. Newest = 0
    <2>1. 0 \in 0..MaxSerial /\ \A s \in Serial : index[s] # "-" <=> s <= 0
      BY ClientLifecycleAssumption DEF Init, Serial
    <2>2. QED
      BY <2>1, NewestIs, Zenon
  <1>2. Current = 0 /\ Revoked = {} /\ ~Creating
    BY <1>1, Zenon DEF Current, Revoked, Creating, Init, Idle
  <1>3. PkiInv
    BY <1>1, <1>2, ClientLifecycleAssumption
    DEF Init, PkiInv, Serial, Idle, Request, Operation, Place
  <1>4. LinkInv
    BY DEF Init, LinkInv, LinkSpentOnce, NoLink, Idle
  <1>5. AccessInv
    BY <1>1 DEF Init, AccessInv, Own, Binding, Nothing, Present, Idle, NoLink
  <1>6. RenewalInv
    BY Zenon DEF Init, RenewalInv
  <1>7. QED
    BY <1>3, <1>4, <1>5, <1>6, Zenon DEF LifecycleInv, Init, Nothing, Binding

LEMMA LifecycleNextInv == LifecycleInv /\ [Next]_vars => LifecycleInv'
  <1> SUFFICES ASSUME LifecycleInv, [Next]_vars PROVE LifecycleInv'
    BY Zenon
  <1>1. PICK h \in Handler : TRUE
    BY ClientLifecycleAssumption, Zenon
  <1>2. CASE remove_portal_account
    BY <1>2, NoRequest, DisablePortalInv, Zenon DEF remove_portal_account
  <1>3. CASE revoke_relay
    BY <1>3, NoRequest, RelayRevokeInv, Zenon DEF revoke_relay
  <1>4. CASE UNCHANGED vars
    BY <1>4, NoRequest, ReadsInv, Zenon DEF vars, Reads
  <1>5. QED
    BY <1>2, <1>3, <1>4, create_clientInv, revokeInv, revoke_previousInv, renewInv,
       delete_clientInv, share_profileInv, shared_profileInv, set_portal_accountInv,
       own_openvpn_profileInv, relay_profileInv, regenerate_crlInv, ExpireInv, AbortInv, Zenon
    DEF Next

LEMMA LifecycleInvariant == Spec => []LifecycleInv
  BY LifecycleInitInv, LifecycleNextInv, PTL DEF Spec

(* Whatever requests overlap and wherever they are cut short, the client   *)
(* list shows every certificate that OpenVPN accepts, a deletion hides     *)
(* only revoked ones, and the CRL has all that are revoked once a script   *)
(* has finished (bin/revoke.sh, bin/renew.sh, delete_client in             *)
(* ui/app/main.py).                                                        *)
THEOREM CertificatesAccountedTheorem == Spec => []CertificatesAccounted
  <1>1. LifecycleInv => CertificatesAccounted
    BY DEF LifecycleInv, PkiInv, CertificatesAccounted, Serial
  <1>2. QED
    BY <1>1, LifecycleInvariant, PTL

(* A one-time link hands out the profile at most once, to any number of    *)
(* requests at the same time (shared_profile, ui/app/main.py:1010-1024).   *)
THEOREM LinkSpentOnceTheorem == Spec => []LinkSpentOnce
  <1>1. LifecycleInv => LinkSpentOnce
    BY Zenon DEF LifecycleInv, LinkInv
  <1>2. QED
    BY <1>1, LifecycleInvariant, PTL

(* As long as no certificate changes under a request, an earlier holder of *)
(* a name gets nothing of the present one: no profile, no relay secret, no *)
(* account, credential or link that still works (the comment in            *)
(* _create_client, ui/app/main.py:735).                                    *)
THEOREM AccessStaysBehindTheorem == Spec => []AccessStaysBehind
  <1>1. LifecycleInv => AccessStaysBehind
    <2> SUFFICES ASSUME LifecycleInv, ~raced PROVE NothingInherited
      BY Zenon DEF AccessStaysBehind
    <2>1. ~astray /\ Own(grant) /\ Own(account)
      BY Zenon DEF LifecycleInv, AccessInv
    <2>2. PortalStaysBehind /\ (CredentialWorks => grant.owner = Current)
      BY <2>1, eligibleIs, Zenon DEF PortalStaysBehind, AccountWorks, CredentialWorks, Own
    <2>3. ~Creating /\ ~link.left => \A id \in Link : LinkWorks(id) => link.owner = Current
      BY DEF LifecycleInv, AccessInv, LinkWorks, Link
    <2>4. QED
      BY <2>1, <2>2, <2>3, Zenon DEF NothingInherited
  <1>2. QED
    BY <1>1, LifecycleInvariant, PTL

(* Once a renewal that was neither cut short nor overtaken is through, the *)
(* relay credential and the portal account of the client are those of the  *)
(* new certificate (renew in ui/app/main.py, renewed in ui/app/relay.py).  *)
THEOREM RenewalKeepsAccessTheorem == Spec => []RenewalKeepsAccess
  <1>1. LifecycleInv => RenewalKeepsAccess
    BY DEF LifecycleInv, RenewalInv, RenewalKeepsAccess, At, Idle
  <1>2. QED
    BY <1>1, LifecycleInvariant, PTL
=============================================================================
