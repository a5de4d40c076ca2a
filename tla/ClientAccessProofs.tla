------------------------- MODULE ClientAccessProofs -------------------------
(***************************************************************************)
(* For any devices, certificates, ranges, codes, limits, listeners and     *)
(* address plans: no two devices share an address, no one-time code is     *)
(* accepted twice, the profiles follow the settings, and the static        *)
(* addresses fit the configuration that is saved.  One section each.       *)
(*                                                                         *)
(* NoSharedAddress is not inductive: that a guest or static address is     *)
(* free is read off the lease files, so the invariant says which files     *)
(* there are.  The reaper is safe because the client list it goes by is younger  *)
(* than the leases it considers: the list names every device that still    *)
(* holds such a lease (Listed), and what it does not name is nobody's      *)
(* (Condemned).  CodesGuarded needs the order of the codes in the file     *)
(* (UsedInv) and where the count of wrong codes started (WrongInv).        *)
(***************************************************************************)
EXTENDS ClientAccess, OneTimeCode, Profiles, AddressPlan, TLAPS

(* Addresses that are handed out by looking at the lease files.            *)
Reservable == GuestRange \cup Static

(* A connected device holds the lease of its reserved address.             *)
Holds == \A d \in Device : On(d) /\ conn[d].addr \in Reservable => lease[conn[d].addr].owner = d

(* While OpenVPN runs, a lease's owner is connected with that address.     *)
Owned == up => \A a \in Address : lease[a].owner # Nobody => conn[lease[a].owner].addr = a

(* An unowned lease is a lease all the same; an absent one has no owner.   *)
Absent == \A a \in Address : ~Leased(a) => lease[a] = NoLease

(* OpenVPN's pool hands an address to one device.                          *)
PoolApart ==
    \A d, e \in Device : On(d) /\ conn[d].addr \in Pool /\ conn[d].addr = conn[e].addr => d = e

(* A status file younger than a held lease lists its address.              *)
Listed ==
    up => \A a \in Address : lease[a].owner # Nobody /\ status.age < lease[a].age =>
        a \in status.clients

(* What the reaper is about to remove from the reserved addresses is a     *)
(* lease that nobody holds.                                                *)
Condemned == up => \A a \in doomed \cap Reservable : Leased(a) /\ lease[a].owner = Nobody

AllOff == ~up => \A d \in Device : ~On(d)

AccessInv ==
    /\ AccessTypeOK /\ Holds /\ Owned /\ Absent /\ PoolApart /\ Listed /\ Condemned /\ AllOff

USE ClientAccessAssumption

LEMMA AccessInitInv == AccessInit => AccessInv
  BY DEF AccessInit, AccessInv, AccessTypeOK, Holds, Owned, Absent, PoolApart, Listed, Condemned, AllOff, On,
         Leased, Off, NoLease, Conn, Lease, Old

(* Both hooks that create a lease find it free, or on a pool address that  *)
(* no connected device has.                                                *)
LEMMA GrantsFree ==
  ASSUME AccessInv, up, NEW n \in Cert, NEW a \in Address, Grants(n, a)
  PROVE  /\ a \in Reservable => ~Leased(a)
         /\ lease[a].owner = Nobody
         /\ \A d \in Device : conn[d].addr # a
<1>1. CASE a \in Pool /\ a \notin ConnectedAddresses
  BY <1>1, Zenon DEF ConnectedAddresses, On, AccessInv, AccessTypeOK, Owned, Lease, Reservable, Address
<1>2. CASE ~Leased(a) /\ a \in Reservable
  BY <1>2 DEF AccessInv, AccessTypeOK, Absent, Holds, NoLease, On, Reservable, Address
<1> QED
  BY <1>1, <1>2, Zenon DEF Grants, AccessInv, AccessTypeOK, Reservable, Address

LEMMA ConnectInv ==
  ASSUME AccessInv, NEW d \in Device, NEW n \in Cert, Connect(d, n)
  PROVE  AccessInv'
<1>1. PICK a \in Address : /\ Grants(n, a)
                           /\ lease' = [lease EXCEPT ![a] = [cn |-> n, owner |-> d, age |-> 0]]
                           /\ conn' = [conn EXCEPT ![d] = [cn |-> n, addr |-> a]]
  BY Zenon DEF Connect
<1> /\ up /\ ~On(d)
    /\ UNCHANGED <<up, guests, static, status, doomed>>
  BY Zenon DEF Connect
<1> USE DEF AccessInv
<1>2. /\ a \in Reservable => ~Leased(a)
      /\ lease[a].owner = Nobody
      /\ \A e \in Device : conn[e].addr # a
  BY <1>1, GrantsFree, Zenon
<1>3. AccessTypeOK'
  BY <1>1 DEF AccessTypeOK, Conn, Lease, Old
<1>4. Holds'
  BY <1>1, <1>2, Zenon DEF Holds, AccessTypeOK, On, Conn
<1>5. Owned'
  BY <1>1, <1>2, Zenon DEF Owned, AccessTypeOK, On, Lease
<1>6. Absent' /\ AllOff'
  BY <1>1, Zenon DEF Absent, AllOff, AccessTypeOK, Leased, On
<1>7. PoolApart'
  BY <1>1, <1>2, Zenon DEF PoolApart, AccessTypeOK, On
<1>8. Listed'
  BY <1>1 DEF Listed, AccessTypeOK
<1>9. Condemned'
  BY <1>1, <1>2, Zenon DEF Condemned, AccessTypeOK, Leased
<1> QED
  BY <1>3, <1>4, <1>5, <1>6, <1>7, <1>8, <1>9, Zenon

LEMMA TurnAwayInv ==
  ASSUME AccessInv, NEW n \in Cert, TurnAway(n)
  PROVE  AccessInv'
<1>1. PICK a \in Address :
        /\ Grants(n, a)
        /\ lease' = [lease EXCEPT ![a] = [cn |-> n, owner |-> Nobody, age |-> 0]]
  BY Zenon DEF TurnAway
<1> up /\ UNCHANGED <<up, guests, static, conn, status, doomed>>
  BY Zenon DEF TurnAway
<1> USE DEF AccessInv
<1>2. /\ a \in Reservable => ~Leased(a)
      /\ \A e \in Device : conn[e].addr # a
  BY <1>1, GrantsFree, Zenon
<1>3. AccessTypeOK'
  BY <1>1 DEF AccessTypeOK, Lease, Old
<1>4. Holds' /\ Owned'
  BY <1>1, <1>2 DEF Holds, Owned, AccessTypeOK, On, Lease
<1>5. Absent' /\ AllOff' /\ PoolApart' /\ Listed'
  BY <1>1, Zenon DEF Absent, AllOff, PoolApart, Listed, AccessTypeOK, Leased, On
<1>6. Condemned'
  BY <1>1, <1>2, Zenon DEF Condemned, AccessTypeOK, Leased
<1> QED
  BY <1>3, <1>4, <1>5, <1>6, Zenon

LEMMA DisconnectInv ==
  ASSUME AccessInv, NEW d \in Device, Disconnect(d)
  PROVE  AccessInv'
<1> /\ up /\ UNCHANGED <<up, guests, static, status, doomed>>
    /\ lease' = [a \in Address |-> IF lease[a].owner = d THEN NoLease ELSE lease[a]]
    /\ conn' = [conn EXCEPT ![d] = Off]
  BY Zenon DEF Disconnect
<1> USE DEF AccessInv
<1>1. AccessTypeOK'
  BY DEF AccessTypeOK, Conn, Off, Lease, NoLease, Old
<1>2. Holds'
  BY Zenon DEF Holds, AccessTypeOK, On, Off, Conn
<1>3. Owned' /\ Listed'
  BY Zenon DEF Owned, Listed, AccessTypeOK, NoLease, Off, Lease
<1>4. Absent' /\ AllOff' /\ PoolApart'
  BY Zenon DEF Absent, AllOff, PoolApart, AccessTypeOK, Leased, On, NoLease, Off
<1>5. Condemned'
  BY Zenon DEF Condemned, AccessTypeOK, Leased
<1> QED
  BY <1>1, <1>2, <1>3, <1>4, <1>5, Zenon

LEMMA WriteStatusInv == ASSUME AccessInv, WriteStatus PROVE AccessInv'
<1> USE DEF AccessInv, WriteStatus
<1>1. AccessTypeOK'
  BY DEF AccessTypeOK, ConnectedAddresses, On, Conn, Old
<1>2. Listed'
  BY Zenon DEF Listed, Owned, AccessTypeOK, ConnectedAddresses, On, Lease
<1> QED
  BY <1>1, <1>2, Zenon DEF Holds, Owned, Absent, PoolApart, Condemned, AllOff, On, Leased

(* The reaper's list is younger than the leases it looks at.               *)
LEMMA ReapInv == ASSUME AccessInv, ReapLeases PROVE AccessInv'
<1> USE DEF AccessInv, ReapLeases, Scan
<1>1. AccessTypeOK'
  BY Zenon DEF AccessTypeOK
<1>2. Condemned'
  BY DEF Condemned, Listed, AccessTypeOK, Leased, Lease, Old
<1> QED
  BY <1>1, <1>2, Zenon DEF Holds, Owned, Absent, PoolApart, Listed, AllOff, On, Leased

LEMMA ReleaseInv == ASSUME AccessInv, NEW a \in Address, Release(a) PROVE AccessInv'
<1> USE DEF AccessInv, Release
<1>1. AccessTypeOK'
  BY DEF AccessTypeOK, Lease, NoLease, Old
<1>2. Holds'
  BY DEF Holds, Condemned, AllOff, AccessTypeOK, On
<1>3. Owned' /\ Absent' /\ Listed'
  BY Zenon DEF Owned, Absent, Listed, AccessTypeOK, NoLease, Leased
<1>4. Condemned' /\ PoolApart' /\ AllOff'
  BY Zenon DEF Condemned, PoolApart, AllOff, AccessTypeOK, Leased, On
<1> QED
  BY <1>1, <1>2, <1>3, <1>4, Zenon

LEMMA RestartInv == ASSUME AccessInv, OpenVPNExits \/ OpenVPNStarts PROVE AccessInv'
<1> USE DEF AccessInv
<1>1. CASE OpenVPNExits
  BY <1>1, Zenon DEF OpenVPNExits, AccessTypeOK, Holds, Owned, Absent, PoolApart, Listed, Condemned, AllOff, On, Leased,
              Off, Conn
<1>2. CASE OpenVPNStarts
  BY <1>2 DEF OpenVPNStarts, AccessTypeOK, Holds, Owned, Absent, PoolApart, Listed, Condemned, AllOff, On, Leased,
              NoLease, Lease, Old
<1> QED
  BY <1>1, <1>2, Zenon

LEMMA AdminInv ==
  ASSUME AccessInv, NEW n \in Cert,
         \/ \E guest \in BOOLEAN : SetGuest(n, guest)
         \/ \E a \in Static \cup {NoAddress} : SetStaticIP(n, a)
  PROVE  AccessInv'
  BY DEF AccessInv, SetGuest, SetStaticIP, AccessTypeOK, Holds, Owned, Absent, PoolApart, Listed,
         Condemned, AllOff, On, Leased

LEMMA TickInv == ASSUME AccessInv, AccessTick PROVE AccessInv'
<1> USE DEF AccessInv, AccessTick
<1>1. \A a \in Address : lease'[a].owner = lease[a].owner /\ lease'[a].cn = lease[a].cn
  BY Zenon DEF AccessTypeOK, Absent, Leased, NoLease, Lease
<1>2. AccessTypeOK'
  BY DEF AccessTypeOK, Lease, NoLease, Aged, Old
<1>3. Listed'
  BY <1>1 DEF Listed, AccessTypeOK, Lease, NoLease, Leased, Aged, Old
<1>4. Absent'
  BY <1>1, Zenon DEF Absent, Leased
<1>5. Holds' /\ Owned'
  BY <1>1, Zenon DEF AccessTypeOK, Holds, Owned, On, Conn, Reservable, Address
<1>6. Condemned'
  BY <1>1, Zenon DEF AccessTypeOK, Condemned, Leased
<1>7. PoolApart' /\ AllOff'
  BY Zenon DEF PoolApart, AllOff, On
<1> QED
  BY <1>2, <1>3, <1>4, <1>5, <1>6, <1>7, Zenon

(* The inductive invariant of the leases.                                  *)
THEOREM AccessInvariant == AccessSpec => []AccessInv
<1>1. AccessInv /\ [AccessNext]_accessVars => AccessInv'
  <2> SUFFICES ASSUME AccessInv, [AccessNext]_accessVars PROVE AccessInv'
    BY Zenon
  <2>1. CASE UNCHANGED accessVars
    BY <2>1, Zenon DEF accessVars, AccessInv, AccessTypeOK, Holds, Owned, Absent, PoolApart, Listed, Condemned, AllOff,
                On, Leased
  <2>2. CASE AccessNext
    BY <2>2, ConnectInv, TurnAwayInv, DisconnectInv, WriteStatusInv, ReapInv, ReleaseInv,
       RestartInv, AdminInv, TickInv, Zenon DEF AccessNext
  <2> QED
    BY <2>1, <2>2, Zenon
<1> QED
  BY <1>1, AccessInitInv, PTL DEF AccessSpec

(* No two connected devices share an address, whatever the reaper, the     *)
(* administrator and restarts do (client-access.sh, reap_leases).          *)
THEOREM NoSharedAddressTheorem == AccessSpec => []NoSharedAddress
<1>1. AccessInv => NoSharedAddress
  BY Zenon DEF AccessInv, AccessTypeOK, Holds, PoolApart, NoSharedAddress, On, Conn, Reservable, Address
<1> QED
  BY <1>1, AccessInvariant, PTL

(* Type correctness of the leases and connections.                         *)
THEOREM AccessTypeCorrect == AccessSpec => []AccessTypeOK
<1>1. AccessInv => AccessTypeOK
  BY Zenon DEF AccessInv
<1> QED
  BY <1>1, AccessInvariant, PTL

-----------------------------------------------------------------------------
(* One-time codes (oath.sh).                                               *)

(* Codes differ and are in the order in which they were accepted, each     *)
(* within a step of its own time; one that was accepted and is still valid *)
(* is in the file.                                                         *)
UsedCode == [time : Int, code : Int]
UsedInv ==
    /\ codeTime \in Nat
    /\ used \in Seq(UsedCode) /\ Len(used) <= Kept
    /\ \A i \in 1..Len(used) :
        /\ used[i].code \in used[i].time - 1 .. used[i].time + 1
        /\ used[i].time <= codeTime
    /\ \A i, j \in 1..Len(used) : i < j =>
        used[i].code # used[j].code /\ used[i].time <= used[j].time
    /\ accepted \in [Code -> {0, 1}]
    /\ \A c \in Code : accepted[c] = 1 /\ c >= codeTime - 1 =>
        \E i \in 1..Len(used) : used[i].code = c

(* The count is that of the latest wrong codes, and the one before the     *)
(* first of them was LockFor earlier.                                      *)
WrongInv ==
    /\ codeTime \in Nat
    /\ fails \in [count : 0..MaxFails, last : Int]
    /\ wrong \in Seq(Nat) /\ fails.count <= Len(wrong) /\ Len(wrong) <= MaxFails + 1
    /\ \A i, j \in 1..Len(wrong) : i < j => wrong[i] <= wrong[j]
    /\ \A i \in 1..Len(wrong) : wrong[i] <= codeTime
    /\ fails.count = 0 => wrong = <<>>
    /\ fails.count > 0 => fails.last = wrong[Len(wrong)]
    /\ Len(wrong) > fails.count =>
        wrong[Len(wrong) - fails.count + 1] - wrong[Len(wrong) - fails.count] >= LockFor
    /\ Len(wrong) > MaxFails => wrong[MaxFails + 1] - wrong[1] >= LockFor

CodeInv == UsedInv /\ WrongInv

(* r is s with x at its end and, when d is 1, without its first element.   *)
Shifted(s, r, x, d) ==
    /\ d \in {0, 1} /\ Len(r) \in Nat /\ Len(r) = Len(s) + 1 - d
    /\ r[Len(r)] = x
    /\ \A i \in 1..Len(r) - 1 : i + d \in 1..Len(s) /\ r[i] = s[i + d]

LEMMA LastOfAppend ==
    ASSUME NEW S, NEW s \in Seq(S), NEW x \in S, NEW n \in Nat \ {0}, Len(s) <= n
    PROVE  /\ LastOf(Append(s, x), n) \in Seq(S)
           /\ Shifted(s, LastOf(Append(s, x), n), x, IF Len(s) = n THEN 1 ELSE 0)
  <1>1. PICK a : a = Append(s, x)
    BY Zenon
  <1>2. /\ a \in Seq(S) /\ Len(a) = Len(s) + 1 /\ a[Len(s) + 1] = x
        /\ \A i \in 1..Len(s) : a[i] = s[i]
    BY <1>1
  <1>3. CASE Len(s) < n
    <2>1. LastOf(a, n) = a
      BY <1>2, <1>3 DEF LastOf
    <2>2. QED
      BY <1>1, <1>2, <1>3, <2>1 DEF Shifted
  <1>4. CASE Len(s) = n
    <2>1. PICK r : r = SubSeq(a, 2, n + 1)
      BY Zenon
    <2>2. r \in Seq(S) /\ Len(r) = n /\ \A i \in 1..n : r[i] = a[i + 1]
      BY <1>2, <1>4, <2>1
    <2>3. LastOf(a, n) = r
      BY <1>2, <1>4, <2>1 DEF LastOf
    <2>4. Shifted(s, r, x, 1)
      BY <1>2, <1>4, <2>2 DEF Shifted
    <2>5. QED
      BY <1>1, <1>4, <2>2, <2>3, <2>4, Zenon
  <1>5. QED
    BY <1>3, <1>4

LEMMA CodeInitInv == CodeInit => CodeInv
  BY OneTimeCodeAssumption DEF CodeInit, CodeInv, UsedInv, WrongInv, NoFails, Code

LEMMA UsedEntry ==
    ASSUME UsedInv, NEW i \in 1..Len(used)
    PROVE  /\ used[i] \in UsedCode /\ used[i].code \in Int /\ used[i].time \in Int
           /\ used[i].time - 1 <= used[i].code /\ used[i].code <= used[i].time + 1
           /\ used[i].time <= codeTime /\ codeTime \in Nat
  <1>1. used[i] \in UsedCode
    BY DEF UsedInv
  <1>2. used[i].code \in Int /\ used[i].time \in Int
    BY <1>1, Zenon DEF UsedCode
  <1>3. QED
    BY <1>1, <1>2 DEF UsedInv

(* Six different codes are not within five steps, so a code that leaves the *)
(* file is no longer valid.                                                *)
LEMMA FirstSpent ==
    ASSUME UsedInv, NEW c \in Code, Valid(c), Len(used) = Kept,
           \A i \in 1..Len(used) : used[i].code # c
    PROVE  used[1].code < codeTime - 1
  <1>1. {1, 2, 3, 4, 5} \subseteq 1..Len(used)
    BY OneTimeCodeAssumption DEF UsedInv
  <1>2. codeTime \in Nat /\ c \in Int /\ codeTime - 1 <= c /\ c <= codeTime + 1
    BY OneTimeCodeAssumption DEF Valid, Code, UsedInv
  <1>3. /\ used[1].code \in Int /\ used[1].time \in Int
        /\ used[1].time - 1 <= used[1].code /\ used[1].code <= used[1].time + 1
        /\ used[1].time <= codeTime
    BY <1>1, UsedEntry, Zenon
  <1>4. SUFFICES ASSUME codeTime - 1 <= used[1].code PROVE FALSE
    BY <1>2, <1>3
  <1>5. PICK low \in Int : low = used[1].code - 2
    BY <1>3
  <1>6. ASSUME NEW i \in {1, 2, 3, 4, 5} PROVE used[i].code \in low..low + 4 /\ used[i].code # c
    <2>1. i \in 1..Len(used) /\ 1 \in 1..Len(used) /\ i \in Nat /\ (i = 1 \/ 1 < i)
      BY <1>1
    <2>2. used[1].time <= used[i].time
      BY <1>3, <2>1 DEF UsedInv
    <2>3. /\ used[i].code \in Int /\ used[i].time \in Int /\ used[i].time <= codeTime
          /\ used[i].time - 1 <= used[i].code /\ used[i].code <= used[i].time + 1
      BY <2>1, UsedEntry, Zenon
    <2>4. low <= used[i].code /\ used[i].code <= low + 4
      <3>1. PICK a \in Int, s \in Int : a = used[1].code /\ s = used[1].time
        BY <1>3, Zenon
      <3>2. PICK b \in Int, t \in Int : b = used[i].code /\ t = used[i].time
        BY <2>3, Zenon
      <3>3. /\ low = a - 2 /\ a <= s + 1 /\ s <= t /\ t - 1 <= b /\ b <= t + 1
            /\ t <= codeTime /\ codeTime - 1 <= a /\ codeTime \in Int
        BY <1>2, <1>3, <1>4, <1>5, <2>2, <2>3, <3>1, <3>2
      <3>4. low <= b /\ b <= low + 4
        BY <3>3
      <3>5. QED
        BY <3>2, <3>4, Zenon
    <2>5. QED
      BY <2>1, <2>3, <2>4
  <1>7. c \in low..low + 4
    <2>1. PICK a \in Int, s \in Int : a = used[1].code /\ s = used[1].time
      BY <1>3, Zenon
    <2>2. /\ low = a - 2 /\ a <= s + 1 /\ s <= codeTime /\ codeTime - 1 <= a
          /\ codeTime - 1 <= c /\ c <= codeTime + 1 /\ codeTime \in Int /\ c \in Int
      BY <1>2, <1>3, <1>4, <1>5, <2>1
    <2>3. QED
      BY <2>2
  <1>8. ASSUME NEW i \in {1, 2, 3, 4, 5}, NEW j \in {1, 2, 3, 4, 5}, i < j
        PROVE  used[i].code # used[j].code
    BY <1>1, <1>8, Zenon DEF UsedInv
  <1>9. PICK c1 \in low..low + 4, c2 \in low..low + 4, c3 \in low..low + 4,
             c4 \in low..low + 4, c5 \in low..low + 4 :
           /\ c1 = used[1].code /\ c2 = used[2].code /\ c3 = used[3].code
           /\ c4 = used[4].code /\ c5 = used[5].code
    BY <1>6, Zenon
  <1>10. /\ c1 # c2 /\ c1 # c3 /\ c1 # c4 /\ c1 # c5 /\ c2 # c3 /\ c2 # c4 /\ c2 # c5
         /\ c3 # c4 /\ c3 # c5 /\ c4 # c5
         /\ c1 # c /\ c2 # c /\ c3 # c /\ c4 # c /\ c5 # c
    BY <1>6, <1>8, <1>9
  <1>11. QED
    BY <1>7, <1>10

LEMMA RightCodeInv ==
    ASSUME CodeInv, NEW c \in Code, RightCode(c)
    PROVE  CodeInv'
  <1> USE OneTimeCodeAssumption
  <1> DEFINE new == [time |-> codeTime, code |-> c]
  <1>1. codeTime \in Nat /\ c \in Int /\ c \in codeTime - 1 .. codeTime + 1 /\ new \in UsedCode
    BY DEF RightCode, Valid, Code, CodeInv, UsedInv, UsedCode
  <1>2. \A i \in 1..Len(used) : used[i].code # c
    <2> SUFFICES ASSUME NEW i \in 1..Len(used), used[i].code = c PROVE FALSE
      BY Zenon
    <2>1. used[i] \in UsedCode /\ DOMAIN used = 1..Len(used)
      BY DEF CodeInv, UsedInv
    <2>2. codeTime - used[i].time > Replay
      <3>1. ~(codeTime - used[i].time <= Replay)
        BY <2>1, Zenon DEF RightCode, AlreadyUsed
      <3>2. used[i].time \in Int
        BY <2>1, Zenon DEF UsedCode
      <3>3. QED
        BY <1>1, <3>1, <3>2
    <2>3. QED
      BY <1>1, <2>1, <2>2, SMTT(30) DEF CodeInv, UsedInv, UsedCode
  <1>3. accepted[c] = 0
    BY <1>1, <1>2 DEF CodeInv, UsedInv
  <1>4. PICK d : d = IF Len(used) = Kept THEN 1 ELSE 0
    BY Zenon
  <1>5. used' \in Seq(UsedCode) /\ Shifted(used, used', new, d)
    <2>1. used \in Seq(UsedCode) /\ Len(used) <= Kept /\ Kept \in Nat \ {0}
      BY DEF CodeInv, UsedInv
    <2>2. used' = LastOf(Append(used, new), Kept)
      BY Zenon DEF RightCode, Remembered
    <2>3. QED
      BY <1>1, <1>4, <2>1, <2>2, LastOfAppend, Zenon
  <1>6. UsedInv'
    <2>1. codeTime' = codeTime /\ Len(used) \in Nat /\ Len(used) <= Kept
      BY DEF RightCode, CodeInv, UsedInv
    <2>2. Len(used') <= Kept /\ Len(used') \in Nat /\ Len(used') > 0
      BY <1>4, <1>5, <2>1 DEF Shifted
    <2>3. ASSUME NEW i \in 1..Len(used')
          PROVE  /\ used'[i].code \in used'[i].time - 1 .. used'[i].time + 1
                 /\ used'[i].time <= codeTime
      <3>1. CASE i = Len(used')
        BY <1>1, <1>5, <3>1 DEF Shifted
      <3>2. CASE i # Len(used')
        <4>1. PICK k \in 1..Len(used) : used'[i] = used[k]
          <5>1. i \in 1..Len(used') - 1
            BY <2>2, <3>2
          <5>2. QED
            BY <1>5, <5>1, Zenon DEF Shifted
        <4>2. QED
          BY <4>1, Zenon DEF CodeInv, UsedInv
      <3>3. QED
        BY <3>1, <3>2, Zenon
    <2>4. ASSUME NEW i \in 1..Len(used'), NEW j \in 1..Len(used'), i < j
          PROVE  used'[i].code # used'[j].code /\ used'[i].time <= used'[j].time
      <3>1. i + d \in 1..Len(used) /\ used'[i] = used[i + d]
        BY <1>5, <2>2, <2>4 DEF Shifted
      <3>2. CASE j = Len(used')
        BY <1>2, <1>5, <3>1, <3>2, SMTT(30) DEF CodeInv, UsedInv, Shifted
      <3>3. CASE j # Len(used')
        <4>last. j \in 1..Len(used') - 1
          BY <2>2, <3>3
        <4>1. j + d \in 1..Len(used) /\ used'[j] = used[j + d]
          BY <1>5, <4>last, Zenon DEF Shifted
        <4>2. i + d < j + d
          BY <1>5, <2>4 DEF Shifted
        <4>3. QED
          BY <3>1, <4>1, <4>2 DEF CodeInv, UsedInv
      <3>4. QED
        BY <3>2, <3>3, Zenon
    <2>5. accepted' \in [Code -> {0, 1}]
      BY <1>3 DEF RightCode, CodeInv, UsedInv
    <2>6. ASSUME NEW k \in Code, accepted'[k] = 1, k >= codeTime - 1
          PROVE  \E i \in 1..Len(used') : used'[i].code = k
      <3>1. CASE k = c
        BY <1>5, <2>2, <3>1 DEF Shifted
      <3>2. CASE k # c
        <4>1. PICK i \in 1..Len(used) : used[i].code = k
          BY <2>6, <3>2, Zenon DEF RightCode, CodeInv, UsedInv
        <4>2. ASSUME Len(used) = Kept PROVE i # 1
          <5>1. used[1].code < codeTime - 1
            BY <1>2, <4>2, FirstSpent, Zenon DEF CodeInv, RightCode
          <5>2. k \in Int
            BY DEF Code
          <5>3. QED
            BY <1>1, <2>6, <4>1, <5>1, <5>2
        <4>3. PICK m \in 1..Len(used') - 1 : m + d = i
          <5>1. i - d \in 1..Len(used') - 1 /\ (i - d) + d = i
            BY <1>4, <1>5, <2>1, <2>2, <4>1, <4>2 DEF Shifted
          <5>2. QED
            BY <5>1, Zenon
        <4>4. used'[m] = used[i] /\ m \in 1..Len(used')
          <5>1. used'[m] = used[m + d]
            BY <1>5, <4>3, Zenon DEF Shifted
          <5>2. m \in 1..Len(used')
            BY <2>2, <4>3
          <5>3. QED
            BY <4>3, <5>1, <5>2, Zenon
        <4>5. QED
          BY <4>1, <4>4, Zenon
      <3>3. QED
        BY <3>1, <3>2, Zenon
    <2>7. QED
      BY <1>1, <1>5, <2>1, <2>2, <2>3, <2>4, <2>5, <2>6, Zenon DEF UsedInv
  <1>7. WrongInv'
    BY DEF RightCode, CodeInv, WrongInv, NoFails
  <1>8. QED
    BY <1>6, <1>7, Zenon DEF CodeInv

LEMMA WrongCodeInv == CodeInv /\ WrongCode => CodeInv'
  <1> SUFFICES ASSUME CodeInv, WrongCode PROVE CodeInv'
    BY Zenon
  <1> USE OneTimeCodeAssumption
  <1>1. /\ codeTime \in Nat /\ codeTime' = codeTime
        /\ wrong \in Seq(Nat) /\ Len(wrong) \in Nat /\ Len(wrong) <= MaxFails + 1
        /\ fails.count \in 0..MaxFails /\ fails.last \in Int /\ fails.count <= Len(wrong)
    BY DEF CodeInv, WrongInv, WrongCode
  <1>2. PICK n \in 1..MaxFails :
           /\ fails' = [count |-> n, last |-> codeTime]
           /\ n = 1 \/ n = fails.count + 1
           /\ n = 1 /\ fails.count > 0 => codeTime - fails.last >= LockFor
    BY <1>1 DEF WrongCode, Failures
  <1>3. PICK d : d = IF Len(wrong) = MaxFails + 1 THEN 1 ELSE 0
    BY Zenon
  <1>4. wrong' \in Seq(Nat) /\ Shifted(wrong, wrong', codeTime, d)
    <2>1. MaxFails + 1 \in Nat \ {0}
      OBVIOUS
    <2>2. wrong' = LastOf(Append(wrong, codeTime), MaxFails + 1)
      BY Zenon DEF WrongCode
    <2>3. QED
      BY <1>1, <1>3, <2>1, <2>2, LastOfAppend, Zenon
  <1>len. /\ d \in {0, 1} /\ d \in Int
          /\ Len(wrong') \in Nat /\ Len(wrong') = Len(wrong) + 1 - d
          /\ (d = 1 <=> Len(wrong) = MaxFails + 1)
    BY <1>1, <1>3, <1>4 DEF Shifted
  <1>5. ASSUME NEW i \in 1..Len(wrong') PROVE wrong'[i] \in Nat /\ wrong'[i] <= codeTime
    <2>1. CASE i = Len(wrong')
      BY <1>1, <1>4, <2>1 DEF Shifted
    <2>2. CASE i # Len(wrong')
      <3>1. PICK k \in 1..Len(wrong) : wrong'[i] = wrong[k]
        BY <1>4, <2>2 DEF Shifted
      <3>2. QED
        BY <1>1, <3>1, SMTT(30) DEF CodeInv, WrongInv
    <2>3. QED
      BY <2>1, <2>2, Zenon
  <1>6. ASSUME NEW i \in 1..Len(wrong'), NEW j \in 1..Len(wrong'), i < j
        PROVE  wrong'[i] <= wrong'[j]
    <2>1. CASE j = Len(wrong')
      BY <1>4, <1>5, <2>1, Zenon DEF Shifted
    <2>2. CASE j # Len(wrong')
      <3>last. j \in 1..Len(wrong') - 1
        BY <1>len, <2>2
      <3>1. j + d \in 1..Len(wrong) /\ wrong'[j] = wrong[j + d]
        BY <1>4, <3>last, Zenon DEF Shifted
      <3>2. i + d \in 1..Len(wrong) /\ wrong'[i] = wrong[i + d]
        BY <1>4, <1>6, SMTT(30) DEF Shifted
      <3>3. i + d < j + d
        BY <1>4, <1>6 DEF Shifted
      <3>4. QED
        BY <3>1, <3>2, <3>3, Zenon DEF CodeInv, WrongInv
    <2>3. QED
      BY <2>1, <2>2, Zenon
  <1>7. Len(wrong') > n => wrong'[Len(wrong') - n + 1] - wrong'[Len(wrong') - n] >= LockFor
    <2> SUFFICES ASSUME Len(wrong') > n
                 PROVE  wrong'[Len(wrong') - n + 1] - wrong'[Len(wrong') - n] >= LockFor
      BY Zenon
    <2>1. PICK m \in 1..Len(wrong') - 1 : m = Len(wrong') - n
      <3>1. Len(wrong') - n \in 1..Len(wrong') - 1
        BY <1>len
      <3>2. QED
        BY <3>1, Zenon
    <2>2. m + d \in 1..Len(wrong) /\ wrong'[m] = wrong[m + d]
      BY <1>4, Zenon DEF Shifted
    <2>3. CASE n = 1
      <3>1. m + d = Len(wrong) /\ m + 1 = Len(wrong') /\ Len(wrong) > 0
        BY <1>1, <1>4, <2>1, <2>2, <2>3 DEF Shifted
      <3>2. fails.count > 0 /\ fails.last = wrong[Len(wrong)]
        BY <1>1, <3>1 DEF CodeInv, WrongInv
      <3>3. wrong'[m + 1] = codeTime /\ wrong'[m] = fails.last
        BY <1>4, <2>2, <3>1, <3>2, Zenon DEF Shifted
      <3>4. QED
        BY <1>1, <1>2, <1>4, <2>1, <2>3, <3>1, <3>2, <3>3, Zenon DEF Shifted
    <2>4. CASE n # 1
      <3>1. n = fails.count + 1 /\ m + d = Len(wrong) - fails.count
        <4>1. n = fails.count + 1
          BY <1>2, <2>4, Zenon
        <4>2. m + d = Len(wrong) + 1 - n
          BY <1>1, <1>len, <2>1
        <4>3. QED
          BY <1>1, <4>1, <4>2, SMTT(30)
      <3>2. Len(wrong) > fails.count
        BY <1>1, <2>2, <3>1, SMTT(30)
      <3>3. m + 1 \in 1..Len(wrong') - 1 /\ (m + 1) + d = Len(wrong) - fails.count + 1
        <4>1. m + 1 \in 1..Len(wrong') - 1
          BY <1>len, <2>1, <2>4
        <4>2. (m + 1) + d = Len(wrong) - fails.count + 1
          BY <1>1, <1>len, <3>1
        <4>3. QED
          BY <4>1, <4>2, Zenon
      <3>4. wrong'[m + 1] = wrong[Len(wrong) - fails.count + 1]
        <4>1. PICK k \in 1..Len(wrong') - 1 : k = m + 1
          BY <3>3, Zenon
        <4>2. wrong'[k] = wrong[k + d] /\ k + d = Len(wrong) - fails.count + 1
          BY <1>4, <3>3, <4>1, Zenon DEF Shifted
        <4>3. QED
          BY <4>1, <4>2, Zenon
      <3>5. wrong[Len(wrong) - fails.count + 1] - wrong[Len(wrong) - fails.count] >= LockFor
        BY <3>2, Zenon DEF CodeInv, WrongInv
      <3>6. m + 1 = Len(wrong') - n + 1
        BY <1>4, <2>1, Zenon DEF Shifted
      <3>7. QED
        BY <2>1, <2>2, <3>1, <3>4, <3>5, <3>6, Zenon
    <2>5. QED
      BY <2>3, <2>4, Zenon
  <1>8. Len(wrong') > MaxFails => wrong'[MaxFails + 1] - wrong'[1] >= LockFor
    <2> SUFFICES ASSUME Len(wrong') > MaxFails PROVE wrong'[MaxFails + 1] - wrong'[1] >= LockFor
      BY Zenon
    <2>1. Len(wrong') = MaxFails + 1 /\ n < Len(wrong') /\ Len(wrong') \in Nat
      BY <1>1, <1>len
    <2>2. wrong'[1] <= wrong'[Len(wrong') - n]
      BY <1>2, <1>5, <1>6, <2>1
    <2>3. wrong'[Len(wrong') - n + 1] <= wrong'[MaxFails + 1]
      BY <1>2, <1>5, <1>6, <2>1
    <2>4. {1, Len(wrong') - n, Len(wrong') - n + 1, MaxFails + 1} \subseteq 1..Len(wrong')
      BY <1>2, <2>1
    <2>5. QED
      BY <1>5, <1>7, <2>1, <2>2, <2>3, <2>4
  <1>9. /\ n <= Len(wrong') /\ Len(wrong') <= MaxFails + 1
        /\ wrong'[Len(wrong')] = codeTime /\ Len(wrong') \in Nat
    BY <1>1, <1>2, <1>3, <1>4, SMTT(30) DEF Shifted
  <1>10. WrongInv'
    BY <1>1, <1>2, <1>4, <1>5, <1>6, <1>7, <1>8, <1>9 DEF WrongInv
  <1>11. UsedInv'
    BY Zenon DEF CodeInv, UsedInv, WrongCode
  <1>12. QED
    BY <1>10, <1>11, Zenon DEF CodeInv

LEMMA CodeNextInv == CodeInv /\ [CodeNext]_codeVars => CodeInv'
  <1> SUFFICES ASSUME CodeInv, [CodeNext]_codeVars PROVE CodeInv'
    BY Zenon
  <1>1. CASE WrongCode
    BY <1>1, WrongCodeInv, Zenon
  <1>2. ASSUME NEW c \in Code, RightCode(c) PROVE CodeInv'
    BY <1>2, RightCodeInv, Zenon
  <1>3. CASE CodeTick
    <2>1. UsedInv'
      <3>1. /\ codeTime \in Nat /\ codeTime' = codeTime + 1
            /\ used' = used /\ accepted' = accepted
        BY <1>3, Zenon DEF CodeTick, CodeInv, UsedInv
      <3>2. \A i \in 1..Len(used) : used[i].time <= codeTime + 1
        BY <3>1, UsedEntry DEF CodeInv
      <3>3. \A c \in Code : c \in Int /\ (c >= codeTime + 1 - 1 => c >= codeTime - 1)
        BY <3>1, OneTimeCodeAssumption DEF Code
      <3>4. QED
        BY <3>1, <3>2, <3>3, SMTT(30) DEF CodeInv, UsedInv
    <2>2. WrongInv'
      BY <1>3 DEF CodeTick, CodeInv, WrongInv
    <2>3. QED
      BY <2>1, <2>2, Zenon DEF CodeInv
  <1>4. CASE UNCHANGED codeVars
    BY <1>4 DEF codeVars, CodeInv, UsedInv, WrongInv
  <1>5. QED
    BY <1>1, <1>2, <1>3, <1>4, Zenon DEF CodeNext

(* No code of a client is accepted twice, and after MaxFails wrong ones in *)
(* a row the next counts only LockFor after the first (oath.sh), for any   *)
(* wait and any file of at least five codes, kept at least two steps.      *)
THEOREM CodesGuardedTheorem == CodeSpec => []CodesGuarded
  <1>1. CodeInv => CodesGuarded
    BY DEF CodeInv, UsedInv, WrongInv, CodesGuarded
  <1>2. QED
    BY <1>1, CodeInitInv, CodeNextInv, PTL DEF CodeSpec

-----------------------------------------------------------------------------
(* The profiles on disk.  A profile that is not what mkovpn.sh would build *)
(* now is on some request's list (ProfilesInv); remotes that differ from   *)
(* the protocols are about to be compared or replaced by one (RemotesInv); *)
(* and what the editor did not change can be built (Buildable).            *)
Todo == [todo : SUBSET Holder, next : {"idle", "regenerate", "sync"} \cup Host]
Current(n) == profile[n] = BuiltFrom(serverConf, clientConf, n)
Remade(n) == \E e \in Editor : request[e].next = "regenerate" /\ n \in request[e].todo
Syncing == \E e \in Editor : request[e].next \in {"sync"} \cup Host

FilesInv ==
    /\ serverConf \in [listen : Listens, channel : Channel]
    /\ clientConf \in [host : Host, remotes : Listens]
    /\ request \in [Editor -> Todo]
    /\ \A e \in Editor : request[e].todo # {} => request[e].next = "regenerate"
    /\ profile = [n \in Holder |-> profile[n]] /\ stops \in Nat

Buildable == "channel" \notin byHand => CanBuild(serverConf, keyed)
ProfilesInv == stops = 0 /\ "channel" \notin byHand => \A n \in Holder : Current(n) \/ Remade(n)
RemotesInv == "remotes" \notin byHand => clientConf.remotes = serverConf.listen \/ Syncing

ProfileInv == FilesInv /\ Buildable /\ ProfilesInv /\ RemotesInv

LEMMA DoneIs == Done \in Todo /\ Done.next = "idle" /\ Done.todo = {}
  BY Zenon DEF Done, Todo

LEMMA ProfileInvFollow == ProfileInv => ProfilesFollow
  <1> SUFFICES ASSUME ProfileInv PROVE ProfilesFollow
    BY Zenon
  <1>1. AllDone => ~Syncing /\ \A n : ~Remade(n)
    BY DoneIs, Zenon DEF AllDone, Syncing, Remade, Host
  <1>2. QED
    BY <1>1, Zenon DEF ProfileInv, ProfilesInv, RemotesInv, ProfilesFollow, ProfilesCurrent, RemotesFollow, Current

LEMMA ProfileInitInv == ProfileInit => ProfileInv
  <1> SUFFICES ASSUME ProfileInit PROVE ProfileInv
    BY Zenon
  <1>1. FilesInv
    BY DoneIs, ProfilesAssumption, Zenon DEF ProfileInit, FilesInv, Host, Channel
  <1>2. Buildable /\ RemotesInv
    BY Zenon DEF ProfileInit, Buildable, CanBuild, RemotesInv
  <1>3. ProfilesInv
    BY Zenon DEF ProfileInit, ProfilesInv, Current
  <1>4. QED
    BY <1>1, <1>2, <1>3, Zenon DEF ProfileInv

(* One request changes.                                                    *)
LEMMA OneTodo ==
    ASSUME FilesInv, NEW e \in Editor, NEW r \in Todo, request' = [request EXCEPT ![e] = r],
           r.todo # {} => r.next = "regenerate"
    PROVE  /\ request' \in [Editor -> Todo] /\ \A f \in Editor : request'[f].todo # {} => request'[f].next = "regenerate"
           /\ request'[e] = r /\ \A f \in Editor \ {e} : request'[f] = request[f]
  BY Zenon DEF FilesInv

(* set_remote builds every profile, or one cannot be built.                *)
LEMMA BuiltAll ==
    ASSUME NEW sc, NEW client, NEW key, BuildAll(sc, client, key), FilesInv, CanBuild(sc, key)
    PROVE  /\ profile' = [n \in Holder |-> profile'[n]] /\ stops' \in Nat
           /\ stops' = 0 => stops = 0 /\ \A n \in Holder : profile'[n] = BuiltFrom(sc, client, n)
  BY DEF BuildAll, FilesInv, Stop

LEMMA NotBuilt ==
    ASSUME NEW sc, NEW client, NEW key, BuildAll(sc, client, key), FilesInv
    PROVE  profile' = [n \in Holder |-> profile'[n]] /\ stops' \in Nat
  BY DEF BuildAll, FilesInv, Stop

LEMMA set_remoteInv ==
    ASSUME ProfileInv, NEW host \in Host, set_remote(host), UNCHANGED <<serverConf, keyed, secret>>,
           request' \in [Editor -> Todo],
           \A e \in Editor : request'[e].todo # {} => request'[e].next = "regenerate"
    PROVE  ProfileInv'
  <1>1. /\ clientConf' = [host |-> host, remotes |-> serverConf.listen]
        /\ byHand' = byHand \ AfterAll(serverConf, keyed) /\ BuildAll(serverConf, clientConf', keyed)
    BY Zenon DEF set_remote, RemoteFor
  <1>2. FilesInv'
    BY <1>1, NotBuilt, Zenon DEF ProfileInv, FilesInv
  <1>3. "channel" \notin byHand' => CanBuild(serverConf, keyed)
    BY <1>1, Zenon DEF AfterAll, ProfileInv, Buildable
  <1>4. Buildable' /\ RemotesInv'
    BY <1>1, <1>3, Zenon DEF Buildable, RemotesInv, CanBuild
  <1>5. ProfilesInv'
    <2> SUFFICES ASSUME stops' = 0, "channel" \notin byHand', NEW n \in Holder PROVE Current(n)'
      BY Zenon DEF ProfilesInv
    <2>1. profile'[n] = BuiltFrom(serverConf, clientConf', n)
      BY <1>1, <1>3, BuiltAll, Zenon DEF ProfileInv
    <2>2. QED
      BY <2>1, Zenon DEF Current, BuiltFrom
  <1>6. QED
    BY <1>2, <1>4, <1>5, Zenon DEF ProfileInv

LEMMA regenerate_profilesInv == ASSUME ProfileInv, NEW e \in Editor, regenerate_profiles(e) PROVE ProfileInv'
  <1>1. PICK n \in request[e].todo :
            /\ \/ mkovpn(n) /\ UNCHANGED stops
               \/ Stop /\ UNCHANGED profile
            /\ request' = [request EXCEPT ![e] =
                            IF request[e].todo = {n} THEN Done ELSE [request[e] EXCEPT !.todo = request[e].todo \ {n}]]
    BY Zenon DEF regenerate_profiles
  <1>2. /\ UNCHANGED <<serverConf, clientConf, keyed, remembered, secret, byHand>>
        /\ request[e].next = "regenerate" /\ request[e] \in Todo /\ n \in Holder /\ FilesInv
    BY Zenon DEF regenerate_profiles, ProfileInv, FilesInv, Todo
  <1> DEFINE r == IF request[e].todo = {n} THEN Done ELSE [request[e] EXCEPT !.todo = request[e].todo \ {n}]
  <1>3. /\ r \in Todo /\ (r.todo # {} => r.next = "regenerate") /\ r.next \notin {"sync"} \cup Host
        /\ \A m \in request[e].todo : m # n => m \in r.todo
    <2>1. CASE request[e].todo = {n}
      BY <2>1, DoneIs, Zenon DEF Host
    <2>2. CASE request[e].todo # {n}
      <3>1. r = [request[e] EXCEPT !.todo = request[e].todo \ {n}]
        BY <2>2, Zenon
      <3>2. r \in Todo /\ r.next = "regenerate" /\ r.todo = request[e].todo \ {n}
        BY <1>2, <3>1, Zenon DEF Todo
      <3>3. QED
        BY <3>2, Zenon DEF Host
    <2>3. QED
      BY <2>1, <2>2, Zenon
  <1>4. request' = [request EXCEPT ![e] = r]
    BY <1>1, Zenon
  <1> HIDE DEF r
  <1>5. /\ request' \in [Editor -> Todo] /\ \A f \in Editor : request'[f].todo # {} => request'[f].next = "regenerate"
        /\ request'[e] = r /\ \A f \in Editor \ {e} : request'[f] = request[f]
    BY <1>2, <1>3, <1>4, OneTodo, Zenon
  <1>6. /\ profile' = [m \in Holder |-> profile'[m]] /\ stops' \in Nat
        /\ \A m \in Holder : m # n => profile'[m] = profile[m]
        /\ stops' = 0 => stops = 0 /\ (CanBuild(serverConf, keyed) => profile'[n] = BuiltFrom(serverConf, clientConf, n))
    BY <1>1, <1>2 DEF mkovpn, Stop, FilesInv
  <1>7. FilesInv'
    BY <1>2, <1>5, <1>6, Zenon DEF FilesInv
  <1>8. Buildable' /\ RemotesInv'
    <2>1. Syncing => Syncing'
      BY <1>2, <1>5, Zenon DEF Syncing, Host
    <2>2. QED
      BY <1>2, <2>1, Zenon DEF ProfileInv, Buildable, RemotesInv, CanBuild
  <1>9. ProfilesInv'
    <2> SUFFICES ASSUME stops' = 0, "channel" \notin byHand', NEW m \in Holder PROVE Current(m)' \/ Remade(m)'
      BY Zenon DEF ProfilesInv
    <2>1. stops = 0 /\ "channel" \notin byHand /\ CanBuild(serverConf, keyed) /\ (Current(m) \/ Remade(m))
      BY <1>2, <1>6, Zenon DEF ProfileInv, ProfilesInv, Buildable
    <2>2. CASE m = n
      BY <1>2, <1>6, <2>1, <2>2, Zenon DEF Current, BuiltFrom
    <2>3. CASE m # n /\ Current(m)
      BY <1>2, <1>6, <2>3, Zenon DEF Current, BuiltFrom
    <2>4. CASE m # n /\ Remade(m)
      BY <1>2, <1>3, <1>5, <2>4, Zenon DEF Remade
    <2>5. QED
      BY <2>1, <2>2, <2>3, <2>4, Zenon
  <1>10. QED
    BY <1>7, <1>8, <1>9, Zenon DEF ProfileInv

LEMMA put_settingsInv == ASSUME ProfileInv, NEW e \in Editor, put_settings(e) PROVE ProfileInv'
  BY set_remoteInv, Zenon DEF put_settings, ProfileInv, FilesInv, Host

LEMMA sync_remotesInv == ASSUME ProfileInv, NEW e \in Editor, sync_remotes(e) PROVE ProfileInv'
  <1>0. /\ request[e] \in Todo /\ FilesInv /\ clientConf.host \in Host /\ UNCHANGED <<serverConf, keyed, secret>>
        /\ (request[e].todo # {} => request[e].next = "regenerate")
    BY Zenon DEF sync_remotes, ProfileInv, FilesInv
  <1>1. CASE /\ request[e].next = "sync" /\ UNCHANGED <<clientConf, profile, byHand, stops>>
             /\ request' = [request EXCEPT ![e].next = IF NeedsSync THEN clientConf.host ELSE "idle"]
    <2> DEFINE r == [request[e] EXCEPT !.next = IF NeedsSync THEN clientConf.host ELSE "idle"]
    <2>1. r \in Todo /\ r.todo = {} /\ (NeedsSync => r.next \in Host)
      BY <1>0, <1>1, Zenon DEF Todo
    <2>2. request' = [request EXCEPT ![e] = r]
      BY <1>1, Zenon
    <2> HIDE DEF r
    <2>3. /\ request' \in [Editor -> Todo] /\ \A f \in Editor : request'[f].todo # {} => request'[f].next = "regenerate"
          /\ request'[e] = r /\ \A f \in Editor \ {e} : request'[f] = request[f]
      BY <1>0, <2>1, <2>2, OneTodo, Zenon
    <2>4. FilesInv' /\ Buildable'
      BY <1>0, <1>1, <2>3, Zenon DEF ProfileInv, FilesInv, Buildable, CanBuild
    <2>5. RemotesInv'
      <3>1. CASE NeedsSync
        BY <2>1, <2>3, <3>1, Zenon DEF RemotesInv, Syncing
      <3>2. CASE ~NeedsSync
        BY <1>0, <1>1, <3>2, Zenon DEF NeedsSync, RemotesInv
      <3>3. QED
        BY <3>1, <3>2, Zenon
    <2>6. \A n : Remade(n) => Remade(n)'
      BY <1>1, <2>3, Zenon DEF Remade
    <2>7. ProfilesInv'
      BY <1>0, <1>1, <2>6, Zenon DEF ProfileInv, ProfilesInv, Current, BuiltFrom
    <2>8. QED
      BY <2>4, <2>5, <2>7, Zenon DEF ProfileInv
  <1>2. CASE /\ request[e].next \in Host /\ set_remote(request[e].next)
             /\ request' = [request EXCEPT ![e] = Done]
    <2>1. /\ request' \in [Editor -> Todo] /\ \A f \in Editor : request'[f].todo # {} => request'[f].next = "regenerate"
      BY <1>0, <1>2, DoneIs, OneTodo, Zenon
    <2>2. QED
      BY <1>0, <1>2, <2>1, set_remoteInv, Zenon
  <1>3. QED
    BY <1>1, <1>2, Zenon DEF sync_remotes

LEMMA put_config_serverInv == ASSUME ProfileInv, NEW e \in Editor, put_config_server(e) PROVE ProfileInv'
  <1>1. PICK new \in [listen : Listens, channel : Channel] :
            /\ serverConf' = new
            /\ byHand' = IF new.channel = serverConf.channel THEN byHand ELSE byHand \cup {"channel"}
    BY Zenon DEF put_config_server
  <1> DEFINE r == [request[e] EXCEPT !.next = "sync"]
  <1>2. /\ UNCHANGED <<clientConf, keyed, secret, profile, stops>> /\ request[e] = Done /\ FilesInv
        /\ request' = [request EXCEPT ![e] = r]
    BY Zenon DEF put_config_server, ProfileInv
  <1>3. r \in Todo /\ r.todo = {} /\ r.next = "sync"
    BY <1>2, DoneIs, Zenon DEF Todo
  <1> HIDE DEF r
  <1>4. /\ request' \in [Editor -> Todo] /\ \A f \in Editor : request'[f].todo # {} => request'[f].next = "regenerate"
        /\ request'[e] = r /\ \A f \in Editor \ {e} : request'[f] = request[f]
    BY <1>2, <1>3, OneTodo, Zenon
  <1>5. FilesInv' /\ RemotesInv'
    BY <1>1, <1>2, <1>3, <1>4, Zenon DEF FilesInv, RemotesInv, Syncing
  <1>6. "channel" \notin byHand' => "channel" \notin byHand /\ serverConf'.channel = serverConf.channel
    BY <1>1, Zenon
  <1>7. \A n : Remade(n) => Remade(n)'
    BY <1>2, <1>4, DoneIs, Zenon DEF Remade
  <1>8. Buildable'
    BY <1>2, <1>6, Zenon DEF ProfileInv, Buildable, CanBuild
  <1>9. ProfilesInv'
    BY <1>2, <1>6, <1>7, Zenon DEF ProfileInv, ProfilesInv, Current, BuiltFrom
  <1>10. QED
    BY <1>5, <1>8, <1>9, Zenon DEF ProfileInv

(* A request begins to rebuild the profiles of ns.                         *)
LEMMA BeginsToRebuild ==
    ASSUME ProfileInv, NEW e \in Editor, NEW ns \in SUBSET Holder, request[e] = Done,
           request' = [request EXCEPT ![e] = [todo |-> ns, next |-> "regenerate"]],
           UNCHANGED <<serverConf, keyed, profile, stops>>,
           clientConf' \in [host : Host, remotes : Listens],
           \/ byHand' = byHand /\ clientConf' = clientConf
           \/ byHand' = byHand \cup {"remotes"},
           \A n \in Holder \ ns : BuiltFrom(serverConf, clientConf, n)' = BuiltFrom(serverConf, clientConf, n)
    PROVE  ProfileInv'
  <1> DEFINE r == [todo |-> ns, next |-> "regenerate"]
  <1>1. r \in Todo /\ r.next = "regenerate" /\ r.todo = ns /\ FilesInv
    BY Zenon DEF Todo, ProfileInv
  <1>2. request' = [request EXCEPT ![e] = r]
    BY Zenon
  <1> HIDE DEF r
  <1>3. /\ request' \in [Editor -> Todo] /\ \A f \in Editor : request'[f].todo # {} => request'[f].next = "regenerate"
        /\ request'[e] = r /\ \A f \in Editor \ {e} : request'[f] = request[f]
    BY <1>1, <1>2, OneTodo, Zenon
  <1>4. FilesInv' /\ Buildable'
    BY <1>1, <1>3, Zenon DEF ProfileInv, FilesInv, Buildable, CanBuild
  <1>5. \A n : (Remade(n) => Remade(n)') /\ (n \in ns => Remade(n)')
    BY <1>1, <1>3, DoneIs, Zenon DEF Remade
  <1>6. Syncing => Syncing'
    BY <1>3, DoneIs, Zenon DEF Syncing, Host
  <1>7. RemotesInv'
    BY <1>6, Zenon DEF ProfileInv, RemotesInv
  <1>8. ProfilesInv'
    BY <1>5, Zenon DEF ProfileInv, ProfilesInv, Current
  <1>9. QED
    BY <1>4, <1>7, <1>8, Zenon DEF ProfileInv

LEMMA put_config_clientInv == ASSUME ProfileInv, NEW e \in Editor, put_config_client(e) PROVE ProfileInv'
  <1>1. /\ request[e] = Done /\ request' = [request EXCEPT ![e] = [todo |-> Holder, next |-> "regenerate"]]
        /\ UNCHANGED <<serverConf, keyed, profile, stops>> /\ byHand' = byHand \cup {"remotes"}
    BY Zenon DEF put_config_client, Regenerate
  <1>2. clientConf' \in [host : Host, remotes : Listens]
    BY Zenon DEF put_config_client, ProfileInv, FilesInv
  <1>3. QED
    BY <1>1, <1>2, BeginsToRebuild, Zenon

LEMMA enforce_tfaInv == ASSUME ProfileInv, NEW e \in Editor, enforce_tfa(e) PROVE ProfileInv'
  <1>1. /\ request[e] = Done /\ request' = [request EXCEPT ![e] = [todo |-> Holder, next |-> "regenerate"]]
        /\ UNCHANGED <<serverConf, clientConf, keyed, profile, stops, byHand>>
        /\ clientConf \in [host : Host, remotes : Listens]
    BY Zenon DEF enforce_tfa, Regenerate, ProfileInv, FilesInv
  <1>2. QED
    BY <1>1, BeginsToRebuild, Zenon

LEMMA set_tfaInv == ASSUME ProfileInv, NEW e \in Editor, set_tfa(e) PROVE ProfileInv'
  <1>1. PICK n \in Holder :
            /\ secret' \in {secret \cup {n}, secret \ {n}}
            /\ request' = [request EXCEPT ![e] = [todo |-> {n}, next |-> "regenerate"]]
    BY Zenon DEF set_tfa
  <1>2. /\ request[e] = Done /\ UNCHANGED <<serverConf, clientConf, keyed, profile, stops, byHand>>
        /\ clientConf \in [host : Host, remotes : Listens]
    BY Zenon DEF set_tfa, ProfileInv, FilesInv
  <1>3. \A m \in Holder \ {n} : BuiltFrom(serverConf, clientConf, m)' = BuiltFrom(serverConf, clientConf, m)
    <2> SUFFICES ASSUME NEW m \in Holder \ {n}
                 PROVE  BuiltFrom(serverConf, clientConf, m)' = BuiltFrom(serverConf, clientConf, m)
      BY Zenon
    <2>1. m \in secret' <=> m \in secret
      BY <1>1, Zenon
    <2>2. QED
      BY <1>2, <2>1 DEF BuiltFrom
  <1>4. QED
    BY <1>1, <1>2, <1>3, BeginsToRebuild, Zenon

LEMMA set_control_channelInv ==
    ASSUME ProfileInv, NEW e \in Editor, set_control_channel(e) PROVE ProfileInv'
  <1>1. PICK channel \in Channel :
            /\ keyed' = (keyed \/ channel = "tls-crypt-v2")
            /\ serverConf' = [serverConf EXCEPT !.channel = channel]
            /\ BuildAll(serverConf', clientConf, keyed')
    BY Zenon DEF set_control_channel
  <1>2. UNCHANGED <<clientConf, secret, request>> /\ byHand' = byHand \ {"channel"} /\ FilesInv
    BY Zenon DEF set_control_channel, ProfileInv
  <1>3. /\ serverConf' \in [listen : Listens, channel : Channel] /\ serverConf'.channel = channel
        /\ serverConf'.listen = serverConf.listen
    BY <1>1, <1>2, Zenon DEF FilesInv
  <1>4. CanBuild(serverConf', keyed')
    BY <1>1, <1>3, Zenon DEF CanBuild
  <1>5. FilesInv'
    BY <1>1, <1>2, <1>3, NotBuilt, Zenon DEF FilesInv
  <1>6. Buildable' /\ RemotesInv'
    BY <1>2, <1>3, <1>4, Zenon DEF ProfileInv, Buildable, RemotesInv, Syncing, CanBuild
  <1>7. stops' = 0 => \A n \in Holder : profile'[n] = BuiltFrom(serverConf', clientConf, n)
    BY <1>1, <1>2, <1>4, BuiltAll, Zenon
  <1>8. ProfilesInv'
    BY <1>2, <1>7, Zenon DEF ProfilesInv, Current, BuiltFrom
  <1>9. QED
    BY <1>5, <1>6, <1>8, Zenon DEF ProfileInv

LEMMA download_profileInv == ASSUME ProfileInv, NEW n \in Holder, download_profile(n) PROVE ProfileInv'
  <1>1. UNCHANGED <<serverConf, clientConf, keyed, secret, request, byHand, stops>> /\ FilesInv
    BY Zenon DEF download_profile, ProfileInv
  <1>2. /\ profile' = [m \in Holder |-> profile'[m]] /\ \A m \in Holder : m # n => profile'[m] = profile[m]
        /\ CanBuild(serverConf, keyed) => profile'[n] = BuiltFrom(serverConf, clientConf, n)
    BY <1>1, Zenon DEF download_profile, mkovpn, FilesInv
  <1>3. FilesInv' /\ Buildable' /\ RemotesInv'
    BY <1>1, <1>2, Zenon DEF ProfileInv, FilesInv, Buildable, CanBuild, RemotesInv, Syncing
  <1>4. ProfilesInv'
    BY <1>1, <1>2, Zenon DEF ProfileInv, ProfilesInv, Buildable, CanBuild, Current, BuiltFrom, Remade
  <1>5. QED
    BY <1>3, <1>4, Zenon DEF ProfileInv

LEMMA bootstrapInv == ASSUME ProfileInv, bootstrap PROVE ProfileInv'
  <1> DEFINE first == clientConf.host = "placeholder" \/ ~remembered
  <1>1. /\ UNCHANGED <<serverConf, keyed, secret>> /\ FilesInv
        /\ request' \in [Editor -> Todo] /\ \A e \in Editor : request'[e] = Done
        /\ stops' \in Nat /\ (stops' = 0 => stops = 0 /\ \A e \in Editor : request[e] = Done)
    BY DoneIs DEF bootstrap, ProfileInv, FilesInv, Stop
  <1>2. CASE first \/ NeedsSync
    <2>1. PICK host \in Host : clientConf' = RemoteFor(host)
      BY <1>1, <1>2, Zenon DEF bootstrap, FilesInv, Host
    <2>2. /\ byHand' = byHand \ AfterAll(serverConf, keyed)
          /\ profile' = [n \in Holder |-> IF CanBuild(serverConf, keyed)
                                          THEN BuiltFrom(serverConf, clientConf', n) ELSE profile[n]]
      BY <1>2, Zenon DEF bootstrap
    <2>3. FilesInv'
      BY <1>1, <2>1, <2>2, DoneIs, Zenon DEF FilesInv, RemoteFor
    <2>4. "channel" \notin byHand' => CanBuild(serverConf, keyed)
      BY <2>2, Zenon DEF AfterAll, ProfileInv, Buildable
    <2>5. Buildable' /\ RemotesInv'
      BY <1>1, <2>1, <2>4, Zenon DEF Buildable, CanBuild, RemotesInv, RemoteFor
    <2>6. ProfilesInv'
      BY <1>1, <2>2, <2>4, Zenon DEF ProfilesInv, Current, BuiltFrom
    <2>7. QED
      BY <2>3, <2>5, <2>6, Zenon DEF ProfileInv
  <1>3. CASE ~(first \/ NeedsSync)
    <2>1. UNCHANGED <<clientConf, byHand, profile>>
      BY <1>3, Zenon DEF bootstrap
    <2>2. FilesInv' /\ Buildable'
      BY <1>1, <2>1, DoneIs, Zenon DEF ProfileInv, FilesInv, Buildable, CanBuild
    <2>3. RemotesInv'
      BY <1>1, <1>3, <2>1, Zenon DEF NeedsSync, RemotesInv
    <2>4. stops' = 0 => \A n : ~Remade(n)
      BY <1>1, DoneIs, Zenon DEF Remade
    <2>5. ProfilesInv'
      BY <1>1, <2>1, <2>4, Zenon DEF ProfileInv, ProfilesInv, Current, BuiltFrom
    <2>6. QED
      BY <2>2, <2>3, <2>5, Zenon DEF ProfileInv
  <1>4. QED
    BY <1>2, <1>3, Zenon

LEMMA ProfileNextInv == ProfileInv /\ [ProfileNext]_profileVars => ProfileInv'
  <1> SUFFICES ASSUME ProfileInv, [ProfileNext]_profileVars PROVE ProfileInv'
    BY Zenon
  <1>1. CASE UNCHANGED profileVars
    BY <1>1, Zenon DEF profileVars, ProfileInv, FilesInv, Buildable, CanBuild, ProfilesInv, Current, BuiltFrom, Remade,
                RemotesInv, Syncing
  <1>2. QED
    BY <1>1, regenerate_profilesInv, put_settingsInv, sync_remotesInv, put_config_serverInv, put_config_clientInv,
       set_control_channelInv, enforce_tfaInv, set_tfaInv, download_profileInv, bootstrapInv, Zenon DEF ProfileNext

(* ProfilesFollow, for any clients, requests and protocols: once the       *)
(* requests are served and none was cut short, every profile on disk is    *)
(* what mkovpn.sh would build now and lists the protocols of server.conf   *)
(* (regenerate_profiles, sync_remotes, set_control_channel, bootstrap).    *)
THEOREM ProfilesFollowTheorem == ProfileSpec => []ProfilesFollow
  <1>1. QED
    BY ProfileInitInv, ProfileNextInv, ProfileInvFollow, PTL DEF ProfileSpec

-----------------------------------------------------------------------------
(* What a save of the network settings, and one of the editor, is known to *)
(* have done at each of its steps.  Only the saver that holds pki.lock is  *)
(* past "validated".                                                       *)
SaveSteps == {"backup", "copied", "open", "written", "settings"}
Writing == {"written", "settings"}
SaveRow == [plan : Plan \cup {NoPlan}, form : {"none", "network", "editor"},
            at : SaveSteps \cup {"idle", "validated"}]
Fits(p, guest) == \A n \in Client : staticIp[n] # NoStatic => ~ProblemIn(p, guest, staticIp[n])

SaveKnown(s) ==
    /\ s.at = "idle" <=> s.form = "none"
    /\ s.at \in {"validated", "settings"} => s.form = "network"
    /\ s.form = "editor" => edited
    /\ s.form = "network" => s.plan \in Plan /\ Sound(s.plan)
    /\ s.form = "network" /\ s.at \in Writing => conf = s.plan
    /\ s.at = "settings" => netfile = s.plan
    /\ s.at \in Writing => confOK
    /\ ~overtaken /\ s.form = "network" => Fits(s.plan, Block(s.plan.guest))

SaversInv ==
    /\ save \in [Saver -> SaveRow]
    /\ \A h \in Saver : SaveKnown(save[h])
    /\ \A h \in Saver : save[h].at \in SaveSteps =>
            making = {} /\ \A g \in Saver \ {h} : save[g].at \notin SaveSteps

(* No save is between its first change of server.conf and its end.         *)
NoneAt(steps) == \A h \in Saver : save[h].at \notin steps

ConfigInv ==
    /\ addrFaults \in Nat
    /\ addrFaults = 0 /\ ~edited /\ netfile # NoPlan /\ NoneAt(Writing) => netfile = conf /\ proxies = conf
    /\ addrFaults = 0 /\ NoneAt({"open"}) => confOK
    /\ addrFaults = 0 => NoneAt({"open"}) \/ bakOK
    /\ addrFaults <= 1 /\ NoneAt(SaveSteps) => confOK \/ bakOK

StaticsInv ==
    /\ staticIp = [n \in Client |-> staticIp[n]]
    /\ \A m \in making : m.name \in Client /\ making = {m}
    /\ \A n \in Client : staticIp[n] # NoStatic => \A m \in Client \ {n} : staticIp[m] # staticIp[n]
    /\ ~edited /\ ~overtaken /\ confOK /\ NoneAt(Writing) => Fits(conf, guest_sub)
    /\ \A n \in Client : addrFaults = 0 /\ staticIp[n] # NoStatic /\ (\A m \in making : m.name # n)
                             => n \notin marked

AddressInv == SaversInv /\ ConfigInv /\ StaticsInv

LEMMA UnlockedIs == SaversInv => (~Locked <=> making = {} /\ NoneAt(SaveSteps))
  BY Zenon DEF SaversInv, Locked, NoneAt, SaveRow, SaveSteps

LEMMA UnsavedRow == Unsaved \in SaveRow /\ Unsaved.at = "idle" /\ Unsaved.form = "none"
  BY Zenon DEF Unsaved, SaveRow

LEMMA SoundIsPlan == ~Sound(NoPlan)
  BY DEF Sound, NoPlan

LEMMA AddressInvKept == AddressInv => StaticsUsable /\ ConfigKept
  <1> SUFFICES ASSUME AddressInv PROVE StaticsUsable /\ ConfigKept
    BY Zenon
  <1>1. ~Locked => making = {} /\ NoneAt(SaveSteps) /\ NoneAt(Writing)
    BY UnlockedIs, Zenon DEF AddressInv, NoneAt, SaveSteps, Writing
  <1>2. StaticsUsable
    BY <1>1, Zenon DEF AddressInv, StaticsInv, StaticsUsable, Fits
  <1>3. ConfigKept
    BY <1>1, Zenon DEF AddressInv, ConfigInv, ConfigKept, FilesAgree, ConfigSurvives
  <1>4. QED
    BY <1>2, <1>3, Zenon

LEMMA AddressInitInv == AddressInit => AddressInv
  <1> SUFFICES ASSUME AddressInit PROVE AddressInv
    BY Zenon
  <1>1. save \in [Saver -> SaveRow] /\ \A h \in Saver : save[h].at = "idle" /\ save[h].form = "none"
    BY UnsavedRow, Zenon DEF AddressInit
  <1>2. SaversInv
    BY <1>1, Zenon DEF SaversInv, SaveKnown, SaveSteps, Writing
  <1>3. ConfigInv
    BY <1>1, Zenon DEF AddressInit, ConfigInv, NoneAt
  <1>4. StaticsInv
    BY Zenon DEF AddressInit, StaticsInv, Fits
  <1>5. QED
    BY <1>2, <1>3, <1>4, Zenon DEF AddressInv

-----------------------------------------------------------------------------
(* What is given to a client, n0, and taken from any number of them leaves *)
(* the files and the savers alone, and the addresses usable.               *)
LEMMA AddressesChange ==
    ASSUME AddressInv, UNCHANGED <<files, save, edited, addrFaults>>,
           overtaken => overtaken', \A h \in Saver : save[h].at \in SaveSteps => making' = {},
           \A m \in making' : m.name \in Client /\ making' = {m},
           staticIp' = [n \in Client |-> staticIp'[n]], NEW n0 \in Client,
           \A n \in Client \ {n0} : staticIp'[n] \in {NoStatic, staticIp[n]},
           \/ staticIp'[n0] \in {NoStatic, staticIp[n0]}
           \/ ~static_ip_problem(n0, staticIp'[n0]) /\ (Pending => overtaken'),
           \A n \in Client : addrFaults = 0 /\ staticIp'[n] # NoStatic /\ (\A m \in making' : m.name # n)
                                 => n \notin marked'
    PROVE  AddressInv'
  <1>1. UNCHANGED <<conf, confOK, bakOK, netfile, proxies>> /\ guest_sub' = guest_sub
    BY Zenon DEF files, guest_sub
  <1>2. ~overtaken' => \A h \in Saver : save[h].form = "network" => Fits(save[h].plan, Block(save[h].plan.guest))'
    <2> SUFFICES ASSUME ~overtaken', NEW h \in Saver, save[h].form = "network"
                 PROVE  Fits(save[h].plan, Block(save[h].plan.guest))'
      BY Zenon
    <2>1. Pending /\ Fits(save[h].plan, Block(save[h].plan.guest))
      BY Zenon DEF AddressInv, SaversInv, SaveKnown, Pending
    <2>2. \A n \in Client : staticIp'[n] \in {NoStatic, staticIp[n]}
      BY <2>1, Zenon
    <2>3. QED
      BY <2>1, <2>2, Zenon DEF Fits, ProblemIn, Block
  <1>3. SaversInv'
    BY <1>1, <1>2, Zenon DEF AddressInv, SaversInv, SaveKnown
  <1>4. ConfigInv'
    BY <1>1, Zenon DEF AddressInv, ConfigInv, NoneAt
  <1>5. \A n \in Client : staticIp'[n] # NoStatic => \A m \in Client \ {n} : staticIp'[m] # staticIp'[n]
    BY Zenon DEF AddressInv, StaticsInv, static_ip_problem
  <1>6. ~edited' /\ ~overtaken' /\ confOK' /\ NoneAt(Writing)' => Fits(conf, guest_sub)'
    <2> SUFFICES ASSUME ~edited, ~overtaken', confOK, NoneAt(Writing), NEW n \in Client, staticIp'[n] # NoStatic
                 PROVE  ~ProblemIn(conf, guest_sub, staticIp'[n])
      BY <1>1, Zenon DEF Fits, NoneAt, ProblemIn
    <2>1. CASE staticIp'[n] = staticIp[n]
      BY <2>1, Zenon DEF AddressInv, StaticsInv, Fits
    <2>2. CASE n = n0 /\ ~static_ip_problem(n0, staticIp'[n0])
      BY <2>2, Zenon DEF static_ip_problem
    <2>3. QED
      BY <2>1, <2>2, Zenon
  <1>7. StaticsInv'
    BY <1>5, <1>6, Zenon DEF StaticsInv
  <1>8. QED
    BY <1>3, <1>4, <1>7, Zenon DEF AddressInv

LEMMA set_static_ipInv == ASSUME AddressInv, NEW n \in Client, set_static_ip(n) PROVE AddressInv'
  <1>1. UNCHANGED <<files, marked, save, making, edited, addrFaults>> /\ making = {} /\ StaticsInv
    BY UnlockedIs, Zenon DEF set_static_ip, AddressInv
  <1>2. CASE staticIp' = [staticIp EXCEPT ![n] = NoStatic] /\ UNCHANGED overtaken
    <2>1. /\ staticIp' = [m \in Client |-> staticIp'[m]]
          /\ staticIp'[n] = NoStatic /\ \A m \in Client \ {n} : staticIp'[m] = staticIp[m]
      BY <1>1, <1>2, Zenon DEF StaticsInv
    <2>2. QED
      BY <1>1, <1>2, <2>1, AddressesChange, Zenon DEF StaticsInv
  <1>3. CASE \E a \in Wanted : /\ n \notin marked /\ ~static_ip_problem(n, a)
                               /\ staticIp' = [staticIp EXCEPT ![n] = a]
                               /\ overtaken' = (overtaken \/ Pending)
    <2>1. /\ staticIp' = [m \in Client |-> staticIp'[m]] /\ ~static_ip_problem(n, staticIp'[n])
          /\ \A m \in Client \ {n} : staticIp'[m] = staticIp[m]
      BY <1>1, <1>3, Zenon DEF StaticsInv
    <2>2. n \notin marked /\ (overtaken => overtaken') /\ (Pending => overtaken')
      BY <1>3, Zenon
    <2>3. QED
      BY <1>1, <2>1, <2>2, AddressesChange, Zenon DEF StaticsInv
  <1>4. QED
    BY <1>2, <1>3, Zenon DEF set_static_ip

LEMMA set_guestInv == ASSUME AddressInv, NEW n \in Client, set_guest(n) PROVE AddressInv'
  <1>1. UNCHANGED <<files, save, making, edited, overtaken, addrFaults>> /\ making = {} /\ StaticsInv
    BY UnlockedIs, Zenon DEF set_guest, AddressInv
  <1>2. /\ staticIp' = [m \in Client |-> staticIp'[m]]
        /\ \A m \in Client : staticIp'[m] \in {NoStatic, staticIp[m]}
        /\ \A m \in Client : staticIp'[m] # NoStatic /\ m \in marked' => m \in marked
    BY <1>1, Zenon DEF set_guest, MakeGuests, StaticsInv
  <1>3. QED
    BY <1>1, <1>2, AddressesChange, Zenon DEF StaticsInv

LEMMA create_addressInv == ASSUME AddressInv, NEW n \in Client, create_address(n) PROVE AddressInv'
  <1>1. UNCHANGED <<files, marked, save, edited, addrFaults>> /\ making = {} /\ StaticsInv /\ NoneAt(SaveSteps)
    BY UnlockedIs, Zenon DEF create_address, AddressInv
  <1>2. PICK a \in Wanted \cup {NoStatic} :
            /\ a # NoStatic => ~static_ip_problem(n, a)
            /\ staticIp' = IF a = NoStatic THEN staticIp ELSE [staticIp EXCEPT ![n] = a]
            /\ overtaken' = (overtaken \/ (a # NoStatic /\ Pending))
            /\ making' = {[name |-> n, static |-> a # NoStatic]}
    BY Zenon DEF create_address
  <1>3. (overtaken => overtaken') /\ (a # NoStatic /\ Pending => overtaken')
    BY <1>2, Zenon
  <1>4. /\ staticIp' = [m \in Client |-> staticIp'[m]]
        /\ \A m \in Client \ {n} : staticIp'[m] = staticIp[m]
        /\ a = NoStatic => staticIp'[n] = staticIp[n]
        /\ a # NoStatic => staticIp'[n] = a
    BY <1>1, <1>2, Zenon DEF StaticsInv
  <1>5. /\ \E m \in making' : m.name = n
        /\ \A m \in making' : m.name \in Client /\ making' = {m}
    BY <1>2
  <1>6. QED
    BY <1>1, <1>2, <1>3, <1>4, <1>5, AddressesChange, Zenon DEF StaticsInv, NoneAt

LEMMA create_accessInv == ASSUME AddressInv, create_access PROVE AddressInv'
  <1>1. UNCHANGED <<files, save, edited, overtaken, addrFaults>> /\ making' = {} /\ StaticsInv
    BY Zenon DEF create_access, AddressInv
  <1>2. PICK m \in making :
            \/ m.static /\ marked' = marked \ {m.name} /\ UNCHANGED staticIp
            \/ ~m.static /\ MakeGuests({m.name})
            \/ /\ ~m.static /\ marked' = marked \ {m.name}
               /\ staticIp' = [staticIp EXCEPT ![m.name] = NoStatic]
    BY Zenon DEF create_access
  <1>3. m.name \in Client /\ making = {m}
    BY <1>1, Zenon DEF StaticsInv
  <1>4. /\ staticIp' = [n \in Client |-> staticIp'[n]]
        /\ \A n \in Client : staticIp'[n] \in {NoStatic, staticIp[n]}
        /\ \A n \in Client : n # m.name /\ n \in marked' => n \in marked
        /\ staticIp'[m.name] = NoStatic \/ m.name \notin marked'
    BY <1>1, <1>2, <1>3 DEF MakeGuests, StaticsInv
  <1>5. \A n \in Client : addrFaults = 0 /\ staticIp'[n] # NoStatic => n \notin marked'
    BY <1>1, <1>3, <1>4 DEF StaticsInv
  <1>6. QED
    BY <1>1, <1>3, <1>4, <1>5, AddressesChange, Zenon

LEMMA remove_addressInv == ASSUME AddressInv, NEW n \in Client, remove_address(n) PROVE AddressInv'
  <1>1. UNCHANGED <<files, save, making, edited, overtaken, addrFaults>> /\ making = {} /\ StaticsInv
    BY UnlockedIs, Zenon DEF remove_address, AddressInv
  <1>2. /\ staticIp' = [m \in Client |-> staticIp'[m]] /\ marked' \subseteq marked
        /\ \A m \in Client : staticIp'[m] \in {NoStatic, staticIp[m]}
    BY <1>1, Zenon DEF remove_address, StaticsInv
  <1>3. QED
    BY <1>1, <1>2, AddressesChange, Zenon DEF StaticsInv

-----------------------------------------------------------------------------
(* Saver h goes on to r.  The other savers know what they knew, because    *)
(* none of them is past "validated" when h holds the lock.                 *)
LEMMA OneSave ==
    ASSUME save \in [Saver -> SaveRow], NEW h \in Saver, NEW r \in SaveRow, save' = [save EXCEPT ![h] = r]
    PROVE  save' \in [Saver -> SaveRow] /\ save'[h] = r /\ \A g \in Saver \ {h} : save'[g] = save[g]
  BY Zenon

(* A plan's fit is a matter of the table alone.                            *)
LEMMA FitsKept == ASSUME UNCHANGED staticIp, NEW CONSTANT p, NEW CONSTANT guest PROVE Fits(p, guest)' <=> Fits(p, guest)
  BY Zenon DEF Fits, ProblemIn

(* What a saver knows stays true while the files and the table do.         *)
LEMMA KnownKept ==
    ASSUME UNCHANGED <<staticIp, overtaken>>, files' = files, edited => edited',
           NEW CONSTANT s, SaveKnown(s)
    PROVE  SaveKnown(s)'
  <1>1. conf' = conf /\ confOK' = confOK /\ netfile' = netfile
    BY Zenon DEF files
  <1>2. Sound(s.plan)' = Sound(s.plan)
    BY Zenon DEF Sound
  <1>3. Fits(s.plan, Block(s.plan.guest))' <=> Fits(s.plan, Block(s.plan.guest))
    BY FitsKept, Zenon
  <1>4. QED
    BY <1>1, <1>2, <1>3, Zenon DEF SaveKnown

LEMMA SaverSteps ==
    ASSUME AddressInv, NEW h \in Saver, NEW r \in SaveRow, save' = [save EXCEPT ![h] = r],
           UNCHANGED <<staticIp, marked, making, overtaken, addrFaults>>, SaveKnown(r)',
           r.at \in SaveSteps => making = {},
           \/ files' = files /\ (edited => edited') /\ (r.at \notin SaveSteps)
           \/ \A g \in Saver \ {h} : save[g].at \notin SaveSteps
    PROVE  SaversInv' /\ \A g \in Saver \ {h} : save'[g] = save[g]
  <1>1. /\ save' \in [Saver -> SaveRow] /\ save'[h] = r /\ \A g \in Saver \ {h} : save'[g] = save[g]
        /\ SaversInv
    BY OneSave, Zenon DEF AddressInv, SaversInv
  <1>2. \A g \in Saver \ {h} : SaveKnown(save[g])'
    <2> SUFFICES ASSUME NEW g \in Saver \ {h} PROVE SaveKnown(save[g])'
      BY Zenon
    <2>0. g \in Saver
      BY Zenon
    <2>1. SaveKnown(save[g]) /\ save'[g] = save[g] /\ save[g] \in SaveRow
      BY <1>1, <2>0, Zenon DEF SaversInv
    <2>2. CASE files' = files /\ (edited => edited')
      <3>1. PICK s : s = save[g]
        BY Zenon
      <3>2. SaveKnown(s)'
        BY <2>1, <2>2, <3>1, KnownKept, Zenon
      <3>3. QED
        BY <2>1, <3>1, <3>2, Zenon
    <2>3. CASE save[g].at \notin SaveSteps
      BY <2>1, <2>3, Zenon DEF SaveKnown, Fits, SaveSteps, Writing, SaveRow
    <2>4. QED
      BY <2>2, <2>3, Zenon
  <1>3. QED
    BY <1>1, <1>2, Zenon DEF SaversInv

(* Before it writes, a saver changes no file.                              *)
LEMMA SaverBegins ==
    ASSUME AddressInv, NEW h \in Saver, NEW r \in SaveRow, save' = [save EXCEPT ![h] = r],
           UNCHANGED <<staticIp, marked, making, overtaken, addrFaults>>, SaveKnown(r)',
           files' = files, edited => edited', save[h].at \in {"idle", "validated"},
           \/ r.at \in {"idle", "validated"}
           \/ r.at = "backup" /\ ~Locked
    PROVE  AddressInv'
  <1>1. /\ r.at = "backup" => making = {} /\ NoneAt(SaveSteps)
        /\ SaversInv /\ ConfigInv /\ StaticsInv /\ save \in [Saver -> SaveRow]
        /\ UNCHANGED <<conf, confOK, bakOK, netfile, proxies>>
    BY UnlockedIs, Zenon DEF AddressInv, SaversInv, files
  <1>2. /\ SaversInv' /\ \A g \in Saver \ {h} : save'[g] = save[g]
    BY <1>1, SaverSteps, Zenon DEF SaveSteps, NoneAt
  <1>3. save'[h] = r
    BY <1>1, Zenon
  <1>4. /\ NoneAt(Writing)' => NoneAt(Writing)
        /\ NoneAt({"open"})' <=> NoneAt({"open"})
        /\ NoneAt(SaveSteps)' => NoneAt(SaveSteps)
    BY <1>1, <1>2, <1>3, Zenon DEF NoneAt, SaveSteps, Writing
  <1>5. ConfigInv'
    BY <1>1, <1>4, Zenon DEF ConfigInv
  <1>6. StaticsInv'
    BY <1>1, <1>4, Zenon DEF StaticsInv, Fits, guest_sub, ProblemIn
  <1>7. QED
    BY <1>2, <1>5, <1>6, Zenon DEF AddressInv

(* The saver that holds the lock writes: its own step alone decides where  *)
(* the files stand.                                                        *)
LEMMA SaverWrites ==
    ASSUME AddressInv, NEW h \in Saver, NEW r \in SaveRow, save' = [save EXCEPT ![h] = r],
           UNCHANGED <<staticIp, marked, making, overtaken, addrFaults>>, SaveKnown(r)',
           save[h].at \in SaveSteps,
           /\ addrFaults = 0 /\ ~edited' /\ netfile' # NoPlan /\ r.at \notin Writing => netfile' = conf' /\ proxies' = conf'
           /\ addrFaults = 0 /\ r.at # "open" => confOK'
           /\ addrFaults = 0 /\ r.at = "open" => bakOK'
           /\ addrFaults <= 1 /\ r.at \notin SaveSteps => confOK',
           ~edited' /\ ~overtaken /\ confOK' /\ r.at \notin Writing => Fits(conf, guest_sub)'
    PROVE  AddressInv'
  <1>1. /\ SaversInv /\ ConfigInv /\ StaticsInv /\ save \in [Saver -> SaveRow] /\ making = {}
        /\ \A g \in Saver \ {h} : save[g].at \notin SaveSteps
    BY Zenon DEF AddressInv, SaversInv
  <1>2. /\ SaversInv' /\ \A g \in Saver \ {h} : save'[g] = save[g]
    BY <1>1, SaverSteps, Zenon
  <1>3. save'[h] = r
    BY <1>1, Zenon
  <1>4. /\ NoneAt(Writing)' <=> r.at \notin Writing
        /\ NoneAt({"open"})' <=> r.at # "open"
        /\ NoneAt(SaveSteps)' <=> r.at \notin SaveSteps
    BY <1>1, <1>2, <1>3, Zenon DEF NoneAt, SaveSteps, Writing
  <1>5. ConfigInv'
    BY <1>1, <1>4, Zenon DEF ConfigInv
  <1>6. StaticsInv'
    BY <1>1, <1>4, Zenon DEF StaticsInv
  <1>7. QED
    BY <1>2, <1>5, <1>6, Zenon DEF AddressInv

LEMMA write_configInv ==
    ASSUME AddressInv, NEW h \in Saver, write_config(h), UNCHANGED <<netfile, proxies>>,
           \/ save[h].form = "network" /\ edited' = edited
           \/ save[h].form = "editor" /\ edited' = TRUE,
           UNCHANGED <<staticIp, marked, making, overtaken, addrFaults>>
    PROVE  AddressInv'
  <1>1. /\ save[h] \in SaveRow /\ SaveKnown(save[h]) /\ save \in [Saver -> SaveRow] /\ ConfigInv /\ StaticsInv
        /\ save[h].at \in SaveSteps => \A g \in Saver \ {h} : save[g].at \notin SaveSteps
    BY Zenon DEF AddressInv, SaversInv
  <1>2. (edited => edited') /\ (save[h].form = "editor" => edited')
    BY <1>1, Zenon DEF SaveKnown
  <1>3. save[h].at \in SaveSteps /\ save[h].at \notin Writing
    BY Zenon DEF write_config, SaveSteps, Writing
  <1>4. NoneAt(Writing) /\ (NoneAt({"open"}) <=> save[h].at # "open")
    BY <1>1, <1>3, Zenon DEF NoneAt, SaveSteps, Writing
  <1>5. CASE save[h].at \in {"backup", "copied"}
    <2>0. PICK r : r = [save[h] EXCEPT !.at = IF save[h].at = "backup" THEN "copied" ELSE "open"]
      BY Zenon
    <2>1. /\ r \in SaveRow /\ r.plan = save[h].plan /\ r.form = save[h].form
          /\ r.at = IF save[h].at = "backup" THEN "copied" ELSE "open"
      BY <1>1, <2>0, Zenon DEF SaveRow, SaveSteps
    <2>2. save' = [save EXCEPT ![h] = r] /\ conf' = conf
      BY <1>1, <1>5, <2>0, Zenon DEF write_config, SaveAt
    <2>3. /\ save[h].at = "backup" => confOK' = confOK /\ bakOK' = FALSE
          /\ save[h].at = "copied" => confOK' = FALSE /\ bakOK' = confOK
      BY Zenon DEF write_config
    <2>4. r.at \notin Writing /\ r.at \in SaveSteps /\ r.at \notin {"idle", "validated", "settings"}
      BY <1>5, <2>1, Zenon DEF Writing, SaveSteps
    <2>5. SaveKnown(r)'
      BY <1>1, <1>2, <1>5, <2>1, <2>2, <2>4, FitsKept, Zenon DEF SaveKnown
    <2>6. ~edited' /\ ~overtaken /\ confOK' => Fits(conf, guest_sub)'
      BY <1>1, <1>2, <1>4, <1>5, <2>2, <2>3, Zenon DEF StaticsInv, Fits, guest_sub, ProblemIn, Block
    <2>7. /\ addrFaults = 0 /\ ~edited' /\ netfile' # NoPlan => netfile' = conf' /\ proxies' = conf'
          /\ addrFaults = 0 /\ r.at # "open" => confOK'
          /\ addrFaults = 0 /\ r.at = "open" => bakOK'
      BY <1>1, <1>2, <1>4, <1>5, <2>1, <2>2, <2>3 DEF ConfigInv
    <2>8. QED
      BY <1>3, <2>1, <2>2, <2>4, <2>5, <2>6, <2>7, SaverWrites, Zenon
  <1>6. CASE save[h].at = "open"
    <2>0. PICK r : r = [save[h] EXCEPT !.at = "written"]
      BY Zenon
    <2>1. r \in SaveRow /\ r.plan = save[h].plan /\ r.form = save[h].form /\ r.at = "written"
      BY <1>1, <2>0, Zenon DEF SaveRow, SaveSteps
    <2>2. save' = [save EXCEPT ![h] = r] /\ conf' = save[h].plan /\ confOK' = TRUE
      BY <1>1, <1>6, <2>0, Zenon DEF write_config, SaveAt
    <2>3. r.at \in Writing /\ r.at \in SaveSteps
      BY <2>1, Zenon DEF Writing, SaveSteps
    <2>4. SaveKnown(r)'
      BY <1>1, <1>2, <1>6, <2>1, <2>2, FitsKept, Zenon DEF SaveKnown
    <2>5. QED
      BY <1>1, <1>3, <2>1, <2>2, <2>3, <2>4, SaverWrites, Zenon
  <1>7. QED
    BY <1>5, <1>6, Zenon DEF write_config

LEMMA save_settingsInv == ASSUME AddressInv, NEW h \in Saver, save_settings(h) PROVE AddressInv'
  <1>1. /\ save[h] \in SaveRow /\ SaveKnown(save[h]) /\ save \in [Saver -> SaveRow] /\ ConfigInv /\ StaticsInv
        /\ UNCHANGED <<staticIp, marked, making, overtaken, addrFaults>>
    BY Zenon DEF AddressInv, SaversInv, save_settings
  <1>2. CASE \E p \in Plan :
            /\ save[h].at = "idle" /\ validate_addressing(p)
            /\ save' = [save EXCEPT ![h] = [plan |-> p, form |-> "network", at |-> "validated"]]
            /\ UNCHANGED <<files, edited>>
    <2>1. PICK p \in Plan :
            /\ save[h].at = "idle" /\ validate_addressing(p)
            /\ save' = [save EXCEPT ![h] = [plan |-> p, form |-> "network", at |-> "validated"]]
            /\ UNCHANGED <<files, edited>>
      BY <1>2, Zenon
    <2> DEFINE r == [plan |-> p, form |-> "network", at |-> "validated"]
    <2>2. r \in SaveRow /\ r.plan = p /\ r.form = "network" /\ r.at = "validated" /\ save' = [save EXCEPT ![h] = r]
      BY <2>1, Zenon DEF SaveRow
    <2> HIDE DEF r
    <2>3. Sound(p) /\ Fits(p, Block(p.guest))'
      BY <1>1, <2>1, Zenon DEF validate_addressing, Fits, ProblemIn, Block
    <2>4. SaveKnown(r)'
      BY <2>2, <2>3, Zenon DEF SaveKnown, Writing
    <2>5. QED
      BY <1>1, <2>1, <2>2, <2>4, SaverBegins, Zenon
  <1>3. CASE /\ save[h].at = "validated" /\ ~Locked /\ UNCHANGED <<files, edited>>
             /\ save' = [save EXCEPT ![h] = IF confOK THEN [save[h] EXCEPT !.at = "backup"] ELSE Unsaved]
    <2>0. PICK r : r = IF confOK THEN [save[h] EXCEPT !.at = "backup"] ELSE Unsaved
      BY Zenon
    <2>1. /\ r \in SaveRow /\ r.at \in {"backup", "idle"}
          /\ r.at = "backup" => r.plan = save[h].plan /\ r.form = "network"
          /\ r.at = "idle" => r.form = "none"
      BY <1>1, <1>3, <2>0, UnsavedRow, Zenon DEF SaveRow, SaveSteps, SaveKnown
    <2>2. save' = [save EXCEPT ![h] = r]
      BY <1>3, <2>0, Zenon
    <2>3. SaveKnown(r)'
      BY <1>1, <1>3, <2>1, FitsKept, Zenon DEF SaveKnown, Writing
    <2>4. QED
      BY <1>1, <1>3, <2>1, <2>2, <2>3, SaverBegins, Zenon
  <1>4. CASE save[h].form = "network" /\ write_config(h) /\ UNCHANGED <<netfile, proxies, edited>>
    BY <1>1, <1>4, write_configInv, Zenon
  <1>5. CASE /\ save[h].at = "written" /\ save[h].form = "network" /\ netfile' = save[h].plan
             /\ SaveAt(h, "settings") /\ UNCHANGED <<conf, confOK, bakOK, proxies, edited>>
    <2>0. PICK r : r = [save[h] EXCEPT !.at = "settings"]
      BY Zenon
    <2>1. /\ r \in SaveRow /\ r.plan = save[h].plan /\ r.form = "network" /\ r.at = "settings"
          /\ save' = [save EXCEPT ![h] = r]
      BY <1>1, <1>5, <2>0, Zenon DEF SaveRow, SaveSteps, SaveAt
    <2>2. save[h].at \in SaveSteps /\ r.at \in SaveSteps /\ r.at \in Writing /\ save[h].at \in Writing
      BY <1>5, <2>1, Zenon DEF SaveSteps, Writing
    <2>3. confOK /\ SaveKnown(r)'
      BY <1>1, <1>5, <2>1, <2>2, FitsKept, Zenon DEF SaveKnown
    <2>4. QED
      BY <1>1, <1>5, <2>1, <2>2, <2>3, SaverWrites, Zenon
  <1>6. CASE /\ save[h].at = "settings" /\ proxies' = save[h].plan /\ edited' = FALSE
             /\ save' = [save EXCEPT ![h] = Unsaved] /\ UNCHANGED <<conf, confOK, bakOK, netfile>>
    <2>1. /\ save[h].at \in SaveSteps /\ save[h].at \in Writing /\ save[h].form = "network" /\ confOK
          /\ conf = save[h].plan /\ netfile = save[h].plan /\ netfile # NoPlan
          /\ ~overtaken => Fits(conf, Block(conf.guest))
      BY <1>1, <1>6, SoundIsPlan, Zenon DEF SaveKnown, SaveSteps, Writing
    <2>2. SaveKnown(Unsaved)'
      BY <1>6, UnsavedRow, Zenon DEF SaveKnown, Writing
    <2>3. ~overtaken => Fits(conf, guest_sub)'
      BY <1>1, <1>6, <2>1, Zenon DEF guest_sub, Fits, ProblemIn, Block
    <2>4. Unsaved.at # "open" /\ Unsaved.at \notin Writing /\ Unsaved.at \notin SaveSteps
      BY UnsavedRow, Zenon DEF Writing, SaveSteps
    <2>5. QED
      BY <1>1, <1>6, <2>1, <2>2, <2>3, <2>4, UnsavedRow, SaverWrites, Zenon
  <1>7. QED
    BY <1>2, <1>3, <1>4, <1>5, <1>6, Zenon DEF save_settings

LEMMA edit_networkInv == ASSUME AddressInv, NEW h \in Saver, edit_network(h) PROVE AddressInv'
  <1>1. /\ save[h] \in SaveRow /\ SaveKnown(save[h]) /\ save \in [Saver -> SaveRow] /\ ConfigInv /\ StaticsInv
        /\ UNCHANGED <<staticIp, marked, making, overtaken, addrFaults>> /\ edited' = TRUE
    BY Zenon DEF AddressInv, SaversInv, edit_network
  <1>2. CASE \E p \in Plan :
            /\ save[h].at = "idle" /\ ~Locked
            /\ save' = [save EXCEPT ![h] = [plan |-> p, form |-> "editor", at |-> "backup"]]
            /\ UNCHANGED files
    <2>1. PICK p \in Plan :
            /\ save[h].at = "idle" /\ ~Locked
            /\ save' = [save EXCEPT ![h] = [plan |-> p, form |-> "editor", at |-> "backup"]]
            /\ UNCHANGED files
      BY <1>2, Zenon
    <2> DEFINE r == [plan |-> p, form |-> "editor", at |-> "backup"]
    <2>2. r \in SaveRow /\ r.form = "editor" /\ r.at = "backup" /\ save' = [save EXCEPT ![h] = r]
      BY <2>1, Zenon DEF SaveRow, SaveSteps
    <2> HIDE DEF r
    <2>3. SaveKnown(r)'
      BY <1>1, <2>2, Zenon DEF SaveKnown, Writing
    <2>4. QED
      BY <1>1, <2>1, <2>2, <2>3, SaverBegins, Zenon
  <1>3. CASE save[h].form = "editor" /\ write_config(h) /\ UNCHANGED <<netfile, proxies>>
    BY <1>1, <1>3, write_configInv, Zenon
  <1>4. CASE /\ save[h].at = "written" /\ save[h].form = "editor"
             /\ save' = [save EXCEPT ![h] = Unsaved] /\ UNCHANGED files
    <2>1. save[h].at \in SaveSteps /\ confOK /\ UNCHANGED <<conf, confOK, bakOK, netfile, proxies>>
      BY <1>1, <1>4, Zenon DEF SaveKnown, SaveSteps, Writing, files
    <2>2. SaveKnown(Unsaved)'
      BY UnsavedRow, Zenon DEF SaveKnown, Writing
    <2>3. Unsaved.at # "open"
      BY UnsavedRow, Zenon
    <2>4. QED
      BY <1>1, <1>4, <2>1, <2>2, <2>3, UnsavedRow, SaverWrites, Zenon
  <1>5. QED
    BY <1>2, <1>3, <1>4, Zenon DEF edit_network

LEMMA restart_uiInv == ASSUME AddressInv, restart_ui PROVE AddressInv'
  <1>1. /\ UNCHANGED <<conf, confOK, bakOK, netfile, proxies, edited, overtaken>> /\ making' = {}
        /\ SaversInv /\ ConfigInv /\ StaticsInv /\ guest_sub' = guest_sub
        /\ save' = [h \in Saver |-> Unsaved]
    BY Zenon DEF restart_ui, files, AddressInv, guest_sub
  <1>2. /\ addrFaults' \in Nat /\ addrFaults <= addrFaults'
        /\ Locked => addrFaults < addrFaults'
        /\ addrFaults' = 0 => ~Locked
    BY <1>1 DEF restart_ui, AddressFault, ConfigInv
  <1>3. save' \in [Saver -> SaveRow] /\ \A h \in Saver : save'[h].at = "idle" /\ save'[h].form = "none"
    BY <1>1, UnsavedRow, Zenon
  <1>4. SaversInv'
    BY <1>3, Zenon DEF SaversInv, SaveKnown, SaveSteps, Writing
  <1>5. \/ making = {} /\ NoneAt(SaveSteps) /\ NoneAt({"open"}) /\ NoneAt(Writing)
        \/ addrFaults < addrFaults'
    BY <1>1, <1>2, UnlockedIs, Zenon DEF NoneAt, SaveSteps, Writing
  <1>6. ConfigInv'
    <2>1. NoneAt({"open"})'
      BY <1>3, Zenon DEF NoneAt
    <2>2. QED
      BY <1>1, <1>2, <1>5, <2>1 DEF ConfigInv
  <1>7. /\ staticIp' = [n \in Client |-> staticIp'[n]] /\ \A n \in Client : staticIp'[n] \in {NoStatic, staticIp[n]}
        /\ \A n \in Client : staticIp'[n] # NoStatic => staticIp[n] \notin guest_sub
        /\ \A n \in Client : staticIp'[n] # NoStatic /\ n \in marked' => n \in marked
    BY Zenon DEF restart_ui, MakeGuests
  <1>8. ~edited /\ ~overtaken /\ confOK => Fits(conf, guest_sub)'
    <2> SUFFICES ASSUME ~edited, ~overtaken, confOK, NEW n \in Client, staticIp'[n] # NoStatic
                 PROVE  ~ProblemIn(conf, guest_sub, staticIp[n])
      BY <1>1, <1>7, Zenon DEF Fits, ProblemIn
    <2>1. CASE NoneAt(Writing)
      BY <1>1, <1>7, <2>1, Zenon DEF StaticsInv, Fits
    <2>2. CASE ~NoneAt(Writing)
      <3>1. PICK h \in Saver : save[h].at \in Writing
        BY <2>2, Zenon DEF NoneAt
      <3>2. save[h].form = "network" /\ conf = save[h].plan /\ Fits(conf, Block(conf.guest))
        BY <1>1, <3>1, Zenon DEF SaversInv, SaveKnown, SaveRow, Writing
      <3>3. QED
        BY <1>7, <3>2, Zenon DEF Fits, ProblemIn
    <2>3. QED
      BY <2>1, <2>2, Zenon
  <1>9. StaticsInv'
    <2>1. \A n \in Client : addrFaults' = 0 /\ staticIp'[n] # NoStatic => n \notin marked'
      BY <1>1, <1>2, <1>5, <1>7 DEF StaticsInv, ConfigInv
    <2>2. QED
      BY <1>1, <1>7, <1>8, <2>1, Zenon DEF StaticsInv
  <1>10. QED
    BY <1>4, <1>6, <1>9, Zenon DEF AddressInv

LEMMA AddressNextInv == AddressInv /\ [AddressNext]_addressVars => AddressInv'
  <1> SUFFICES ASSUME AddressInv, [AddressNext]_addressVars PROVE AddressInv'
    BY Zenon
  <1>1. CASE UNCHANGED addressVars
    BY <1>1, Zenon DEF addressVars, AddressInv, SaversInv, SaveKnown, ConfigInv, StaticsInv, NoneAt, Fits, guest_sub
  <1>2. QED
    BY <1>1, set_static_ipInv, set_guestInv, create_addressInv, remove_addressInv, save_settingsInv, edit_networkInv,
       create_accessInv, restart_uiInv, Zenon DEF AddressNext

(* StaticsUsable, for any clients, plans, addresses and number of saves:   *)
(* a static IP stays one that OpenVPN can hand out and nothing else uses,  *)
(* after any order of requests and any crash, unless the editor changed    *)
(* the subnet or an address was given out behind a plan's validation       *)
(* (static_ip_problem, save_settings, migrate_guest_static_ips).           *)
THEOREM StaticsUsableTheorem == AddressSpec => []StaticsUsable
  <1>1. QED
    BY AddressInitInv, AddressNextInv, AddressInvKept, PTL DEF AddressSpec

(* ConfigKept, likewise: the three files of a save agree outside the lock, *)
(* and one crash leaves server.conf or its .bak complete (write_config).   *)
THEOREM ConfigKeptTheorem == AddressSpec => []ConfigKept
  <1>1. QED
    BY AddressInitInv, AddressNextInv, AddressInvKept, PTL DEF AddressSpec
=============================================================================
