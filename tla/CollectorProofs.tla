--------------------------- MODULE CollectorProofs ---------------------------
(***************************************************************************)
(* For every set of connections: the sessions stored as open are the ones  *)
(* the collector follows, and, as long as the status file is not caught in *)
(* the middle of a write, every byte is counted once.                      *)
(*                                                                         *)
(* Both rest on what holds of the rows of one connection (Shape): only one *)
(* row comes from polls, and no other is ever open.  The count also needs  *)
(* that a current status file is never older than what has been stored     *)
(* (NotBehind).  The last section follows the lines of the logs into the   *)
(* tables, for any lines, any chunk and any file position.                 *)
(***************************************************************************)
EXTENDS Collector, FiniteSetTheorems, TLAPS

AnyRow == [cid : BOOLEAN, bytes : Nat, open : BOOLEAN]

Shape(r) ==
    /\ r \in Seq(AnyRow)
    /\ \A i, j \in DOMAIN r : r[i].cid /\ r[j].cid => i = j
    /\ \A i \in DOMAIN r : r[i].open => r[i].cid

Tracks(r, a) == a \in 0..Len(r) /\ (a # 0 => r[a].cid /\ r[a].open)

(* Nothing is open but the row that is followed.                           *)
Only(r, a) == \A i \in DOMAIN r : r[i].open => a = i

Listing(status) ==
    /\ DOMAIN status \subseteq Peer
    /\ \A p \in DOMAIN status : status[p] \in Nat /\ status[p] <= bytes[p]

FollowInv ==
    /\ bytes \in [Peer -> Nat]
    /\ Listing(file)
    /\ rows \in [Peer -> Seq(AnyRow)] /\ active \in [Peer -> Nat]
    /\ \A p \in Peer : Shape(rows[p]) /\ Tracks(rows[p], active[p])
    /\ phase = "start" \/ resync => active = Inactive
    /\ phase # "start" /\ ~resync => \A p \in Peer \ leftover : Only(rows[p], active[p])

-----------------------------------------------------------------------------
(* The operators of poll.                                                  *)
LEMMA CloseRows ==
    ASSUME NEW r, Shape(r), NEW K
    PROVE  /\ Shape(Close(r, K))
           /\ DOMAIN Close(r, K) = DOMAIN r /\ Len(Close(r, K)) = Len(r)
           /\ \A i \in DOMAIN r : /\ Close(r, K)[i].cid = r[i].cid
                                  /\ Close(r, K)[i].bytes = r[i].bytes
                                  /\ Close(r, K)[i].open <=> r[i].open /\ i \in K
  <1> DEFINE c == Close(r, K)
  <1>1. r \in Seq(AnyRow) /\ DOMAIN r = 1..Len(r) /\ Len(r) \in Nat
    BY DEF Shape
  <1>2. c = [i \in 1..Len(r) |-> [r[i] EXCEPT !.open = @ /\ i \in K]]
    BY <1>1, Zenon DEF Close
  <1>3. ASSUME NEW i \in 1..Len(r)
        PROVE  /\ c[i] \in AnyRow
               /\ c[i].cid = r[i].cid /\ c[i].bytes = r[i].bytes
               /\ c[i].open <=> r[i].open /\ i \in K
    <2>1. r[i] \in AnyRow
      BY <1>1
    <2>2. c[i] = [r[i] EXCEPT !.open = r[i].open /\ i \in K]
      BY <1>2, Zenon
    <2>3. (r[i].open /\ i \in K) \in BOOLEAN
      BY Zenon
    <2>4. QED
      BY <2>1, <2>2, <2>3, Zenon DEF AnyRow
  <1>4. c \in Seq(AnyRow) /\ DOMAIN c = 1..Len(r) /\ Len(c) = Len(r)
    <2>1. c \in [1..Len(r) -> AnyRow]
      BY <1>2, <1>3, Zenon
    <2>2. QED
      BY <1>1, <2>1
  <1>5. QED
    <2>1. \A i, j \in DOMAIN c : c[i].cid /\ c[j].cid => i = j
      BY <1>1, <1>3, <1>4, Zenon DEF Shape
    <2>2. \A i \in DOMAIN c : c[i].open => c[i].cid
      BY <1>1, <1>3, <1>4, Zenon DEF Shape
    <2>3. QED
      BY <1>1, <1>3, <1>4, <2>1, <2>2, Zenon DEF Shape

(* find_session finds the one row that comes from polls.                   *)
LEMMA FoundRow ==
    ASSUME NEW p \in Peer, Shape(rows[p])
    PROVE  \/ Found(p) = 0 /\ Cids(p) = {}
           \/ Found(p) \in DOMAIN rows[p] /\ Cids(p) = {Found(p)}
  <1>1. CASE Cids(p) = {}
    BY <1>1, Zenon DEF Found
  <1>2. CASE Cids(p) # {}
    <2>1. PICK i \in Cids(p) : TRUE
      BY <1>2, Zenon
    <2>2. Cids(p) = {i} /\ i \in DOMAIN rows[p] /\ i <= i
      BY <2>1 DEF Cids, Shape
    <2>3. Found(p) = CHOOSE k \in Cids(p) : \A j \in Cids(p) : j <= k
      BY <1>2, Zenon DEF Found
    <2>4. Found(p) \in Cids(p)
      BY <2>2, <2>3, Zenon
    <2>5. QED
      BY <2>2, <2>4, Zenon
  <1>3. QED
    BY <1>1, <1>2, Zenon

(* The row poll takes is that one, or a new one if there is none.          *)
LEMMA IndexRow ==
    ASSUME NEW p \in Peer, Shape(rows[p]), Tracks(rows[p], active[p])
    PROVE  \/ /\ Index(p) \in 1..Len(rows[p]) /\ Cids(p) = {Index(p)}
              /\ active[p] # 0 => rows[p][Index(p)].open
           \/ Index(p) = Len(rows[p]) + 1 /\ Cids(p) = {} /\ active[p] = 0
  <1>1. DOMAIN rows[p] = 1..Len(rows[p]) /\ Len(rows[p]) \in Nat
    BY DEF Shape
  <1>2. CASE active[p] # 0
    BY <1>1, <1>2 DEF Index, Tracks, Shape, Cids
  <1>3. CASE active[p] = 0
    BY <1>1, <1>3, FoundRow DEF Index
  <1>4. QED
    BY <1>2, <1>3, Zenon

LEMMA TracksRow ==
    ASSUME NEW r, NEW a, Shape(r), Tracks(r, a), a # 0
    PROVE  a \in DOMAIN r
  <1>1. DOMAIN r = 1..Len(r) /\ Len(r) \in Nat
    BY DEF Shape
  <1>2. QED
    BY <1>1 DEF Tracks

(* What poll writes for a listed connection.                               *)
LEMMA RecordedRow ==
    ASSUME NEW p \in Peer, Shape(rows[p]), Tracks(rows[p], active[p]), NEW n \in Nat
    PROVE  /\ Shape(Recorded(p, n)) /\ Tracks(Recorded(p, n), Index(p)) /\ Index(p) # 0
           /\ Only(Recorded(p, n), Index(p))
           /\ \A i \in DOMAIN Recorded(p, n) :
                /\ Recorded(p, n)[i].cid <=> i = Index(p)
                /\ i = Index(p) => Recorded(p, n)[i].bytes = n
  <1> DEFINE r == rows[p]
             k == Index(p)
             q == Recorded(p, n)
  <1>0. r \in Seq(AnyRow) /\ DOMAIN r = 1..Len(r) /\ Len(r) \in Nat
    BY DEF Shape
  <1>1. CASE k \in 1..Len(r) /\ Cids(p) = {k} /\ (active[p] # 0 => r[k].open)
    <2>1. r[k] \in AnyRow
      BY <1>0, <1>1
    <2>2. ~(k > Len(r))
      BY <1>0, <1>1
    <2>3. q = [r EXCEPT ![k].bytes = n, ![k].open = @ \/ active[p] = 0]
      BY <2>2, Zenon DEF Recorded
    <2>4. (r[k].open \/ active[p] = 0) = TRUE
      BY <1>1, <2>1, Zenon DEF AnyRow
    <2>5. q[k] = [cid |-> r[k].cid, bytes |-> n, open |-> TRUE]
      BY <1>0, <1>1, <2>1, <2>3, <2>4, Zenon DEF AnyRow
    <2>6. \A i \in 1..Len(r) : i # k => q[i] = r[i]
      BY <1>0, <1>1, <2>3, Zenon
    <2>7. DOMAIN q = 1..Len(r)
      BY <1>0, <2>3, Zenon
    <2>8. q[k] \in AnyRow /\ q[k].cid /\ q[k].open /\ q[k].bytes = n
      BY <1>1, <2>1, <2>5 DEF AnyRow, Cids
    <2>9. q \in Seq(AnyRow) /\ Len(q) = Len(r)
      <3>1. \A i \in 1..Len(r) : q[i] \in AnyRow
        BY <1>0, <2>6, <2>8
      <3>2. q = [i \in 1..Len(r) |-> q[i]]
        BY <1>0, <2>3, Zenon
      <3>3. q \in [1..Len(r) -> AnyRow]
        BY <3>1, <3>2, Zenon
      <3>4. QED
        BY <1>0, <3>3
    <2>10. \A i \in DOMAIN q : i # k => ~q[i].cid /\ ~q[i].open
      BY <1>0, <1>1, <2>6, <2>7, Zenon DEF Cids, Shape
    <2>11. QED
      BY <1>1, <2>7, <2>8, <2>9, <2>10 DEF Shape, Tracks, Only
  <1>2. CASE k = Len(r) + 1 /\ Cids(p) = {} /\ active[p] = 0
    <2> DEFINE new == [cid |-> TRUE, bytes |-> n, open |-> TRUE]
    <2>1. q = Append(r, new)
      BY <1>0, <1>2 DEF Recorded
    <2>2. new \in AnyRow
      BY Zenon DEF AnyRow
    <2>3. q \in Seq(AnyRow) /\ Len(q) = Len(r) + 1 /\ DOMAIN q = 1..(Len(r) + 1)
      BY <1>0, <2>1, <2>2
    <2>4. q[k] = new /\ \A i \in 1..Len(r) : q[i] = r[i]
      BY <1>0, <1>2, <2>1, <2>2
    <2>5. q[k].cid /\ q[k].open /\ q[k].bytes = n
      BY <2>4
    <2>6. \A i \in DOMAIN q : i # k => ~q[i].cid /\ ~q[i].open
      BY <1>0, <1>2, <2>3, <2>4 DEF Cids, Shape
    <2>7. QED
      BY <1>0, <1>2, <2>3, <2>5, <2>6 DEF Shape, Tracks, Only
  <1>3. QED
    BY <1>1, <1>2, IndexRow, Zenon

-----------------------------------------------------------------------------
(* The steps keep FollowInv.                                               *)
LEMMA FollowInit == Init => FollowInv
  <1> SUFFICES ASSUME Init PROVE FollowInv
    BY Zenon
  <1>1. bytes \in [Peer -> Nat] /\ Listing(file)
    BY DEF Init, Listing
  <1>2. rows \in [Peer -> Seq(AnyRow)] /\ active \in [Peer -> Nat]
    BY DEF Init, Inactive
  <1>3. \A p \in Peer : Shape(rows[p]) /\ Tracks(rows[p], active[p])
    BY DEF Init, Inactive, Shape, Tracks
  <1>4. QED
    BY <1>1, <1>2, <1>3, Zenon DEF Init, FollowInv

(* A stored poll, also the one after a failed write.                       *)
LEMMA StoreFollow ==
    ASSUME FollowInv, NEW status, Listing(status), Store(status),
           phase = "poll", phase' = "logs", UNCHANGED server
    PROVE  FollowInv'
  <1>1. bytes' \in [Peer -> Nat] /\ Listing(file)'
    BY Zenon DEF FollowInv, Listing, server
  <1>2. ASSUME NEW p \in Peer
        PROVE  /\ Shape(rows'[p]) /\ Tracks(rows'[p], active'[p]) /\ active'[p] \in Nat
               /\ p \notin leftover' => Only(rows'[p], active'[p])
    <2> DEFINE r == rows[p]
               k == active[p]
    <2>0. Shape(r) /\ Tracks(r, k) /\ k \in Nat /\ DOMAIN r = 1..Len(r) /\ Len(r) \in Nat
      BY DEF FollowInv, Shape
    <2>1. CASE p \in DOMAIN status
      <3> DEFINE q == Recorded(p, status[p])
      <3>1. status[p] \in Nat
        BY <2>1, Zenon DEF Listing
      <3>2. Shape(q) /\ Tracks(q, Index(p)) /\ Index(p) # 0 /\ Only(q, Index(p))
        BY <2>0, <3>1, RecordedRow, Zenon
      <3>3. active'[p] = Index(p)
        BY <2>1, Zenon DEF Store
      <3>4. rows'[p] = IF resync THEN Close(q, {active'[p]}) ELSE q
        BY <2>1, Zenon DEF Store, Synced
      <3>5. CASE ~resync
        BY <3>2, <3>3, <3>4, <3>5 DEF Tracks, Shape
      <3>6. CASE resync
        <4> DEFINE c == Close(q, {Index(p)})
        <4>1. rows'[p] = c
          BY <3>3, <3>4, <3>6, Zenon
        <4>2. /\ Shape(c) /\ DOMAIN c = DOMAIN q /\ Len(c) = Len(q)
              /\ \A i \in DOMAIN q : /\ c[i].cid = q[i].cid
                                     /\ c[i].open <=> q[i].open /\ i \in {Index(p)}
          BY <3>2, CloseRows
        <4>3. Index(p) \in DOMAIN q /\ Index(p) \in Nat
          BY <3>2 DEF Tracks, Shape
        <4>4. Tracks(c, Index(p))
          BY <3>2, <4>2, <4>3, Zenon DEF Tracks
        <4>5. Only(c, Index(p))
          BY <3>2, <4>2, Zenon DEF Only
        <4>6. QED
          BY <3>3, <4>1, <4>2, <4>3, <4>4, <4>5, Zenon
      <3>7. QED
        BY <3>5, <3>6, Zenon
    <2>2. CASE p \notin DOMAIN status
      <3> DEFINE q == Close(r, DOMAIN r \ {k})
      <3>1. /\ Shape(q) /\ DOMAIN q = DOMAIN r /\ Len(q) = Len(r)
            /\ \A i \in DOMAIN r : q[i].open <=> r[i].open /\ i # k
        BY <2>0, CloseRows
      <3>2. active'[p] = 0
        BY <2>2, Zenon DEF Store
      <3>3. rows'[p] = IF resync THEN Close(q, {0}) ELSE q
        BY <2>2, <3>2, Zenon DEF Store, Synced
      <3>4. CASE ~resync
        <4>1. p \notin leftover' => p \notin leftover
          BY <2>2, <3>4, Zenon DEF Store
        <4>2. p \notin leftover' => Only(q, 0)
          BY <2>0, <3>1, <3>4, <4>1, Zenon DEF FollowInv, Only
        <4>3. QED
          BY <2>0, <3>1, <3>2, <3>3, <3>4, <4>2 DEF Tracks
      <3>5. CASE resync
        <4>1. /\ Shape(Close(q, {0})) /\ DOMAIN Close(q, {0}) = DOMAIN q
              /\ Len(Close(q, {0})) = Len(q)
              /\ \A i \in DOMAIN q : Close(q, {0})[i].open <=> q[i].open /\ i \in {0}
          BY <3>1, CloseRows, Zenon
        <4>2. rows'[p] = Close(q, {0})
          BY <3>3, <3>5, Zenon
        <4>3. Only(rows'[p], 0)
          BY <2>0, <3>1, <4>1, <4>2, Zenon DEF Only
        <4>4. Tracks(rows'[p], 0)
          BY <2>0, <3>1, <4>1, <4>2 DEF Tracks
        <4>5. QED
          BY <3>2, <4>1, <4>2, <4>3, <4>4
      <3>6. QED
        BY <3>4, <3>5, Zenon
    <2>3. QED
      BY <2>1, <2>2, Zenon
  <1>3. rows' = [p \in Peer |-> rows'[p]] /\ active' = [p \in Peer |-> active'[p]]
    BY Zenon DEF Store
  <1>4. rows' \in [Peer -> Seq(AnyRow)] /\ active' \in [Peer -> Nat]
    BY <1>2, <1>3, Zenon DEF Shape
  <1>5. resync' = FALSE
    BY Zenon DEF Store
  <1>6. QED
    BY <1>1, <1>2, <1>4, <1>5, Zenon DEF FollowInv

(* Closing every row, as run does, or every followed one, as _handle_down  *)
(* does.                                                                   *)
LEMMA ClosedFollow ==
    ASSUME FollowInv, NEW K, active' = Inactive,
           rows' = [p \in Peer |-> Close(rows[p], K[p])]
    PROVE  /\ rows' \in [Peer -> Seq(AnyRow)] /\ active' \in [Peer -> Nat]
           /\ \A p \in Peer :
                /\ Shape(rows'[p]) /\ Tracks(rows'[p], active'[p])
                /\ DOMAIN rows'[p] = DOMAIN rows[p]
                /\ \A i \in DOMAIN rows[p] : rows'[p][i].open <=> rows[p][i].open /\ i \in K[p]
  <1>1. ASSUME NEW p \in Peer
        PROVE  /\ Shape(rows'[p]) /\ Tracks(rows'[p], active'[p])
               /\ DOMAIN rows'[p] = DOMAIN rows[p]
               /\ \A i \in DOMAIN rows[p] : rows'[p][i].open <=> rows[p][i].open /\ i \in K[p]
    <2>1. Shape(rows[p]) /\ Len(rows[p]) \in Nat
      BY DEF FollowInv, Shape
    <2>2. rows'[p] = Close(rows[p], K[p]) /\ active'[p] = 0
      BY Zenon DEF Inactive
    <2>3. QED
      BY <2>1, <2>2, CloseRows DEF Tracks
  <1>2. rows' \in [Peer -> Seq(AnyRow)] /\ active' \in [Peer -> Nat]
    BY <1>1, Zenon DEF Shape, Inactive
  <1>3. QED
    BY <1>1, <1>2, Zenon

(* A row recorded from the log alone is never open.                        *)
LEMMA LogFollow ==
    ASSUME FollowInv, ReadLogs
    PROVE  FollowInv'
  <1> DEFINE note == <<[cid |-> FALSE, bytes |-> 0, open |-> FALSE]>>
  <1>1. PICK last \in From..Len(log) :
            rows' = [p \in Peer |-> Ended((From + 1)..last, p)]
    BY Zenon DEF ReadLogs
  <1>2. note \in Seq(AnyRow) /\ Len(note) = 1 /\ DOMAIN note = {1}
        /\ note[1] = [cid |-> FALSE, bytes |-> 0, open |-> FALSE]
    BY DEF AnyRow
  <1>3. ASSUME NEW p \in Peer
        PROVE  /\ Shape(rows'[p]) /\ Tracks(rows'[p], active[p])
               /\ Only(rows[p], active[p]) => Only(rows'[p], active[p])
    <2>1. rows'[p] = rows[p] \/ (rows[p] = <<>> /\ rows'[p] = note)
      BY <1>1, Zenon DEF Ended
    <2>2. CASE rows'[p] = rows[p]
      BY <2>2, Zenon DEF FollowInv
    <2>3. CASE rows[p] = <<>> /\ rows'[p] = note
      <3>1. active[p] = 0
        BY <2>3 DEF FollowInv, Tracks
      <3>2. QED
        BY <1>2, <2>3, <3>1 DEF Shape, Tracks, Only
    <2>4. QED
      BY <2>1, <2>2, <2>3, Zenon
  <1>4. rows' \in [Peer -> Seq(AnyRow)]
    BY <1>1, <1>3, Zenon DEF Shape
  <1>5. QED
    BY <1>3, <1>4, Zenon DEF ReadLogs, FollowInv, Listing, server

(* A step that leaves the rows and the thread alone.                       *)
LEMMA ServerFollow ==
    ASSUME FollowInv, Server
    PROVE  FollowInv'
  <1>1. UNCHANGED <<rows, active, phase, resync, leftover>>
    BY Zenon DEF Server, stored
  <1>2. bytes' \in [Peer -> Nat] /\ Listing(file)'
    <2>1. CASE \E p \in Peer : Transfer(p)
      <3>1. /\ bytes' \in [Peer -> Nat] /\ UNCHANGED file
            /\ \A p \in Peer : bytes[p] \in Nat /\ bytes'[p] >= bytes[p]
        BY <2>1 DEF Transfer, FollowInv, On
      <3>2. QED
        BY <3>1 DEF FollowInv, Listing
    <2>2. CASE WriteStatus
      BY <2>2 DEF WriteStatus, FollowInv, Listing, Listed, On
    <2>3. CASE UNCHANGED <<bytes, file>>
      BY <2>3, Zenon DEF FollowInv, Listing
    <2>4. QED
      BY <2>1, <2>2, <2>3, Zenon
      DEF Server, Connect, Disconnect, Age, Reject, Outdate, Stop, Start, Rotate
  <1>3. QED
    BY <1>1, <1>2, Zenon DEF FollowInv

LEMMA ListedListing == FollowInv => Listing(Listed)
  BY DEF FollowInv, Listing, Listed, On

(* A poll that is rolled back.                                             *)
LEMMA RollBackFollow == ASSUME FollowInv, RollBack, UNCHANGED server PROVE FollowInv'
  <1>1. active' = Inactive /\ resync' = TRUE /\ UNCHANGED <<server, rows>>
    BY Zenon DEF RollBack
  <1>2. \A p \in Peer : Tracks(rows[p], Inactive[p])
    BY DEF FollowInv, Tracks, Inactive
  <1>3. Inactive \in [Peer -> Nat]
    BY Zenon DEF Inactive
  <1>4. QED
    BY <1>1, <1>2, <1>3, Zenon DEF FollowInv, Listing, server

(* Every step keeps FollowInv.                                             *)
LEMMA FollowNext == FollowInv /\ [Next]_vars => FollowInv'
  <1> SUFFICES ASSUME FollowInv, [Next]_vars PROVE FollowInv'
    BY Zenon
  <1>1. CASE Server
    BY <1>1, ServerFollow, Zenon
  <1>2. CASE Run
    <2>1. active = Inactive /\ active' = Inactive /\ phase' = "poll" /\ UNCHANGED <<server, resync>>
      BY <1>2, Zenon DEF Run, FollowInv
    <2>2. bytes' \in [Peer -> Nat] /\ Listing(file)'
      BY <2>1, Zenon DEF FollowInv, Listing, server
    <2>3. CASE rows' = [p \in Peer |-> Close(rows[p], {})]
      <3> DEFINE K == [p \in Peer |-> {}]
      <3>1. rows' = [p \in Peer |-> Close(rows[p], K[p])]
        BY <2>3, Zenon
      <3>2. \A p \in Peer : K[p] = {}
        BY Zenon
      <3> HIDE DEF K
      <3>3. /\ rows' \in [Peer -> Seq(AnyRow)] /\ active' \in [Peer -> Nat]
            /\ \A p \in Peer :
                 /\ Shape(rows'[p]) /\ Tracks(rows'[p], active'[p])
                 /\ DOMAIN rows'[p] = DOMAIN rows[p]
                 /\ \A i \in DOMAIN rows[p] : rows'[p][i].open <=> rows[p][i].open /\ i \in K[p]
        BY <2>1, <3>1, ClosedFollow, Zenon
      <3>4. \A p \in Peer : Only(rows'[p], active'[p])
        BY <3>2, <3>3, Zenon DEF Only
      <3>5. QED
        BY <2>1, <2>2, <3>3, <3>4, Zenon DEF FollowInv
    <2>4. CASE /\ leftover' = {p \in Peer : \E i \in DOMAIN rows[p] : rows[p][i].open}
               /\ UNCHANGED rows
      <3>1. \A p \in Peer \ leftover' : Only(rows'[p], active'[p])
        BY <2>4, Zenon DEF Only
      <3>2. QED
        BY <2>1, <2>2, <2>4, <3>1, Zenon DEF FollowInv
    <2>5. QED
      BY <1>2, <2>3, <2>4, Zenon DEF Run
  <1>3. CASE PollFile
    <2>1. CASE polled /\ connected
      <3>1. UNCHANGED <<rows, active, resync, leftover, server>> /\ phase = "poll" /\ phase' = "logs"
        BY <1>3, <2>1, Zenon DEF PollFile
      <3>2. QED
        BY <3>1, Zenon DEF FollowInv, Listing, server
    <2>2. CASE ~(polled /\ connected) /\ ~Refused(file)
      <3>1. Store(file) /\ Listing(file) /\ phase = "poll" /\ phase' = "logs" /\ UNCHANGED server
        BY <1>3, <2>2, Zenon DEF PollFile, FollowInv
      <3>2. QED
        BY <3>1, StoreFollow, Zenon
    <2>3. QED
      BY <1>3, <2>1, <2>2, RollBackFollow, Zenon DEF PollFile
  <1>4. CASE PollManagement
    BY <1>4, StoreFollow, RollBackFollow, ListedListing, Zenon DEF PollManagement
  <1>5. CASE PollDown
    <2> DEFINE K == [p \in Peer |-> DOMAIN rows[p] \ {active[p]}]
    <2>1. rows' = [p \in Peer |-> Close(rows[p], K[p])] /\ active' = Inactive
      BY <1>5, Zenon DEF PollDown
    <2>2. phase # "start" /\ phase' = "logs" /\ UNCHANGED <<server, resync, leftover>>
      BY <1>5, Zenon DEF PollDown
    <2>3. bytes' \in [Peer -> Nat] /\ Listing(file)'
      BY <2>2, Zenon DEF FollowInv, Listing, server
    <2>4. \A p \in Peer : K[p] = DOMAIN rows[p] \ {active[p]}
      BY Zenon
    <2> HIDE DEF K
    <2>5. /\ rows' \in [Peer -> Seq(AnyRow)] /\ active' \in [Peer -> Nat]
          /\ \A p \in Peer :
               /\ Shape(rows'[p]) /\ Tracks(rows'[p], active'[p])
               /\ DOMAIN rows'[p] = DOMAIN rows[p]
               /\ \A i \in DOMAIN rows[p] : rows'[p][i].open <=> rows[p][i].open /\ i \in K[p]
      BY <2>1, ClosedFollow, Zenon
    <2>6. ~resync => \A p \in Peer \ leftover : Only(rows'[p], active'[p])
      BY <2>2, <2>4, <2>5, Zenon DEF FollowInv, Only
    <2>7. QED
      BY <2>1, <2>2, <2>3, <2>5, <2>6 DEF FollowInv
  <1>6. CASE PollFails
    BY <1>6, RollBackFollow, Zenon DEF PollFails
  <1>7. CASE ReadLogs
    BY <1>7, LogFollow, Zenon
  <1>8. CASE ReadLogsFails \/ Describe
    <2>1. /\ UNCHANGED <<server, rows, active, resync, leftover>>
          /\ phase # "start" /\ phase' = "poll"
      BY <1>8, Zenon DEF ReadLogsFails, Describe, stored
    <2>2. QED
      BY <2>1, Zenon DEF FollowInv, Listing, server
  <1>9. CASE Crash
    <2>1. active' = Inactive /\ phase' = "start" /\ UNCHANGED <<server, rows>>
      BY <1>9, Zenon DEF Crash, stored
    <2>2. \A p \in Peer : Tracks(rows[p], Inactive[p])
      BY DEF FollowInv, Tracks, Inactive
    <2>3. Inactive \in [Peer -> Nat]
      BY Zenon DEF Inactive
    <2>4. QED
      BY <2>1, <2>2, <2>3, Zenon DEF FollowInv, Listing, server
  <1>10. CASE UNCHANGED vars
    BY <1>10, Zenon DEF vars, FollowInv, Listing, server, stored, thread
  <1>11. QED
    BY <1>1, <1>2, <1>3, <1>4, <1>5, <1>6, <1>7, <1>8, <1>9, <1>10 DEF Next, Turn

(* FollowInv holds throughout: in every reachable state a connection has   *)
(* at most one row from polls and the one in _active is open.              *)
THEOREM FollowInvariant == Spec => []FollowInv
  BY FollowInit, FollowNext, PTL DEF Spec

(* The sessions stored as open are the ones the collector follows, except  *)
(* between a failed write and the next stored poll and except those that   *)
(* run could not close when it started (collector.py: run, poll).          *)
THEOREM OpenRowsFollowedTheorem == Spec => []OpenRowsFollowed
  <1>1. FollowInv => OpenRowsFollowed
    <2> SUFFICES ASSUME FollowInv, phase # "start", ~resync,
                        NEW p \in Peer \ leftover, NEW i \in DOMAIN rows[p]
                 PROVE  rows[p][i].open <=> active[p] = i
      BY Zenon DEF OpenRowsFollowed
    <2>1. Only(rows[p], active[p]) /\ Tracks(rows[p], active[p]) /\ i # 0
      BY DEF FollowInv, Shape
    <2>2. QED
      BY <2>1, Zenon DEF Only, Tracks
  <1>2. QED
    BY <1>1, FollowInvariant, PTL

-----------------------------------------------------------------------------
(* The traffic of a connection is what its row from polls shows.           *)
Agrees(r, n) ==
    /\ \A i \in DOMAIN r : r[i].cid => r[i].bytes = n
    /\ (\A i \in DOMAIN r : ~r[i].cid) => n = 0

(* A current status file is not older than what has been stored.           *)
NotBehind == fresh => \A p \in DOMAIN file : traffic[p] <= file[p]

CountInv ==
    /\ traffic \in [Peer -> Nat]
    /\ \A p \in Peer : Agrees(rows[p], traffic[p]) /\ traffic[p] <= bytes[p]
    /\ NotBehind

LEMMA CloseAgrees ==
    ASSUME NEW r, Shape(r), NEW K, NEW n, Agrees(r, n)
    PROVE  Agrees(Close(r, K), n)
  BY CloseRows DEF Agrees

(* A stored poll that is not older than the last one adds what has come    *)
(* since then.                                                             *)
LEMMA StoreCount ==
    ASSUME FollowInv, CountInv, NEW status, Listing(status), Store(status),
           \A p \in DOMAIN status : traffic[p] <= status[p]
    PROVE  /\ traffic' \in [Peer -> Nat]
           /\ \A p \in Peer : Agrees(rows'[p], traffic'[p])
           /\ \A p \in Peer : traffic'[p] = IF p \in DOMAIN status THEN status[p] ELSE traffic[p]
  <1>1. ASSUME NEW p \in Peer
        PROVE  /\ Agrees(rows'[p], traffic'[p])
               /\ traffic'[p] = IF p \in DOMAIN status THEN status[p] ELSE traffic[p]
               /\ traffic'[p] \in Nat
    <2>0. /\ Shape(rows[p]) /\ Tracks(rows[p], active[p])
          /\ DOMAIN rows[p] = 1..Len(rows[p]) /\ Len(rows[p]) \in Nat
          /\ Agrees(rows[p], traffic[p]) /\ traffic[p] \in Nat
      BY DEF FollowInv, CountInv, Shape
    <2>1. CASE p \in DOMAIN status
      <3> DEFINE q == Recorded(p, status[p])
      <3>1. status[p] \in Nat /\ traffic[p] <= status[p]
        BY <2>1, Zenon DEF Listing
      <3>2. Before(p) = traffic[p]
        <4>1. CASE Index(p) \in 1..Len(rows[p]) /\ Cids(p) = {Index(p)}
          BY <2>0, <4>1 DEF Before, Agrees, Cids
        <4>2. CASE Index(p) = Len(rows[p]) + 1 /\ Cids(p) = {}
          BY <2>0, <4>2 DEF Before, Agrees, Cids
        <4>3. QED
          BY <2>0, <4>1, <4>2, IndexRow, Zenon
      <3>3. traffic'[p] = status[p]
        <4>1. traffic'[p] = traffic[p] + Counted(p, status[p])
          BY <2>1, Zenon DEF Store
        <4>2. Counted(p, status[p]) = status[p] - traffic[p]
          BY <2>0, <3>1, <3>2, Zenon DEF Counted
        <4>3. traffic[p] \in Nat
          BY <2>0, Zenon
        <4>4. QED
          BY <3>1, <4>1, <4>2, <4>3
      <3>4. Shape(q) /\ Agrees(q, status[p])
        <4>1. /\ Shape(q) /\ Tracks(q, Index(p)) /\ Index(p) # 0
              /\ \A i \in DOMAIN q : /\ q[i].cid <=> i = Index(p)
                                     /\ i = Index(p) => q[i].bytes = status[p]
          BY <2>0, <3>1, RecordedRow, Zenon
        <4> HIDE DEF q
        <4>2. Index(p) \in DOMAIN q
          BY <4>1, TracksRow, Zenon
        <4>3. QED
          BY <4>1, <4>2, Zenon DEF Agrees
      <3>5. rows'[p] = IF resync THEN Close(q, {active'[p]}) ELSE q
        BY <2>1, Zenon DEF Store, Synced
      <3> HIDE DEF q
      <3>6. Agrees(rows'[p], status[p])
        BY <3>4, <3>5, CloseAgrees, Zenon
      <3>7. QED
        BY <2>1, <3>1, <3>3, <3>6, Zenon
    <2>2. CASE p \notin DOMAIN status
      <3> DEFINE q == Close(rows[p], DOMAIN rows[p] \ {active[p]})
      <3>1. traffic'[p] = traffic[p]
        <4>1. traffic'[p] = traffic[p] + 0
          BY <2>2, Zenon DEF Store
        <4>2. QED
          BY <2>0, <4>1
      <3>2. Shape(q)
        BY <2>0, CloseRows
      <3>3. Agrees(q, traffic[p])
        BY <2>0, CloseAgrees, Zenon
      <3>4. rows'[p] = IF resync THEN Close(q, {active'[p]}) ELSE q
        BY <2>2, Zenon DEF Store, Synced
      <3> HIDE DEF q
      <3>5. Agrees(rows'[p], traffic[p])
        BY <3>2, <3>3, <3>4, CloseAgrees, Zenon
      <3>6. QED
        BY <2>0, <2>2, <3>1, <3>5, Zenon
    <2>3. QED
      BY <2>1, <2>2, Zenon
  <1>2. traffic' = [p \in Peer |-> traffic'[p]]
    BY Zenon DEF Store
  <1>3. QED
    BY <1>1, <1>2, Zenon

LEMMA CountInit == Init => CountInv
  BY DEF Init, CountInv, Agrees, NotBehind

(* OpenVPN's counters only grow, and a new status file has their values.   *)
LEMMA ServerCount ==
    ASSUME FollowInv, CountInv, Server
    PROVE  CountInv'
  <1>1. UNCHANGED <<rows, traffic>>
    BY Zenon DEF Server, stored
  <1>2. \A p \in Peer : bytes'[p] >= bytes[p] /\ bytes[p] \in Nat /\ bytes'[p] \in Nat
    <2>1. bytes \in [Peer -> Nat]
      BY Zenon DEF FollowInv
    <2>2. CASE UNCHANGED bytes
      BY <2>1, <2>2
    <2>3. CASE \E p \in Peer : Transfer(p)
      BY <2>1, <2>3 DEF Transfer
    <2>4. QED
      BY <2>2, <2>3, Zenon DEF Server, Connect, Disconnect, Age, Reject, Outdate, Stop, Start,
                        Rotate, WriteStatus
  <1>3. NotBehind'
    <2>1. CASE WriteStatus
      <3>1. file' = Listed /\ DOMAIN Listed \subseteq Peer /\ \A p \in DOMAIN Listed : Listed[p] = bytes[p]
        BY <2>1, Zenon DEF WriteStatus, Listed, On
      <3>2. \A p \in Peer : traffic'[p] <= bytes[p]
        BY <1>1, Zenon DEF CountInv
      <3>3. \A p \in DOMAIN file' : p \in Peer /\ file'[p] = bytes[p]
        BY <3>1, Zenon
      <3>4. QED
        BY <3>2, <3>3, Zenon DEF NotBehind
    <2>2. CASE ~WriteStatus
      <3>1. UNCHANGED file /\ (UNCHANGED fresh \/ fresh' = FALSE)
        BY <2>2, Zenon DEF Server, Connect, Transfer, Disconnect, Age, Reject, Outdate, Stop, Start,
                           Rotate
      <3>2. QED
        BY <1>1, <3>1, Zenon DEF NotBehind, CountInv
    <2>3. QED
      BY <2>1, <2>2, Zenon
  <1>4. QED
    BY <1>1, <1>2, <1>3 DEF CountInv

(* Every step keeps CountInv.                                              *)
LEMMA CountNext == ~MidWrite /\ FollowInv /\ CountInv /\ [Next]_vars => CountInv'
  <1> SUFFICES ASSUME ~MidWrite, FollowInv, CountInv, [Next]_vars PROVE CountInv'
    BY Zenon
  <1>1. CASE Server
    BY <1>1, ServerCount, Zenon
  <1>2. CASE PollFile /\ ~(polled /\ connected) /\ ~Refused(file)
    <2>1. Store(file) /\ Listing(file) /\ fresh /\ UNCHANGED <<bytes, file, fresh>>
      BY <1>2, Zenon DEF PollFile, FollowInv, server
    <2>2. \A p \in DOMAIN file : traffic[p] <= file[p]
      BY <2>1, Zenon DEF CountInv, NotBehind
    <2>3. /\ traffic' \in [Peer -> Nat]
          /\ \A p \in Peer : Agrees(rows'[p], traffic'[p])
          /\ \A p \in Peer : traffic'[p] = IF p \in DOMAIN file THEN file[p] ELSE traffic[p]
      BY <2>1, <2>2, StoreCount, Zenon
    <2>4. \A p \in Peer : traffic'[p] <= bytes'[p]
      BY <2>1, <2>3, Zenon DEF CountInv, Listing
    <2>5. NotBehind'
      BY <2>1, <2>3 DEF NotBehind, Listing
    <2>6. QED
      BY <2>3, <2>4, <2>5, Zenon DEF CountInv
  <1>3. CASE PollManagement /\ ~Refused(Listed)
    <2>1. Store(Listed) /\ ~fresh /\ UNCHANGED <<bytes, fresh>>
      BY <1>3, Zenon DEF PollManagement, server
    <2>2. Listing(Listed) /\ \A p \in DOMAIN Listed : p \in Peer /\ Listed[p] = bytes[p]
      BY ListedListing, Zenon DEF Listed, On
    <2>3. \A p \in DOMAIN Listed : traffic[p] <= Listed[p]
      BY <2>2, Zenon DEF CountInv
    <2>4. /\ traffic' \in [Peer -> Nat]
          /\ \A p \in Peer : Agrees(rows'[p], traffic'[p])
          /\ \A p \in Peer : traffic'[p] = IF p \in DOMAIN Listed THEN Listed[p] ELSE traffic[p]
      BY <2>1, <2>2, <2>3, StoreCount, Zenon
    <2>5. \A p \in Peer : traffic'[p] <= bytes'[p]
      <3> TAKE p \in Peer
      <3>1. bytes[p] \in Nat /\ bytes' = bytes /\ traffic[p] <= bytes[p]
        BY <2>1, Zenon DEF CountInv, FollowInv
      <3>2. traffic'[p] = bytes[p] \/ traffic'[p] = traffic[p]
        BY <2>2, <2>4, Zenon
      <3>3. QED
        BY <3>1, <3>2
    <2>6. QED
      BY <2>1, <2>4, <2>5, Zenon DEF CountInv, NotBehind
  <1>4. CASE /\ UNCHANGED <<bytes, file, fresh, traffic>>
             /\ \E K : rows' = [p \in Peer |-> Close(rows[p], K[p])]
    <2>1. PICK K : rows' = [p \in Peer |-> Close(rows[p], K[p])]
      BY <1>4, Zenon
    <2>2. \A p \in Peer : rows'[p] = Close(rows[p], K[p]) /\ Shape(rows[p])
      BY <2>1, Zenon DEF FollowInv
    <2>3. \A p \in Peer : Agrees(rows'[p], traffic[p])
      BY <2>2, CloseAgrees, Zenon DEF CountInv
    <2>4. QED
      BY <1>4, <2>3, Zenon DEF CountInv, NotBehind
  <1>5. CASE ReadLogs
    <2> DEFINE note == <<[cid |-> FALSE, bytes |-> 0, open |-> FALSE]>>
    <2>1. UNCHANGED <<bytes, file, fresh, traffic>>
      BY <1>5, Zenon DEF ReadLogs, server
    <2>2. PICK last \in From..Len(log) :
              rows' = [p \in Peer |-> Ended((From + 1)..last, p)]
      BY <1>5, Zenon DEF ReadLogs
    <2>3. ASSUME NEW p \in Peer PROVE Agrees(rows'[p], traffic[p])
      <3>1. rows'[p] = rows[p] \/ (rows[p] = <<>> /\ rows'[p] = note)
        BY <2>2, Zenon DEF Ended
      <3>2. Agrees(rows[p], traffic[p])
        BY Zenon DEF CountInv
      <3>3. DOMAIN note = {1} /\ ~note[1].cid
        OBVIOUS
      <3> HIDE DEF note
      <3>4. CASE rows[p] = <<>> /\ rows'[p] = note
        <4>1. traffic[p] = 0
          BY <3>2, <3>4 DEF Agrees
        <4>2. QED
          BY <3>3, <3>4, <4>1, Zenon DEF Agrees
      <3>5. QED
        BY <3>1, <3>2, <3>4, Zenon
    <2>4. QED
      BY <2>1, <2>3, Zenon DEF CountInv, NotBehind
  <1>6. CASE UNCHANGED <<bytes, file, fresh, traffic, rows>>
    BY <1>6, Zenon DEF CountInv, NotBehind
  <1>7. CASE Run
    <2>1. UNCHANGED <<bytes, file, fresh, traffic>>
      BY <1>7, Zenon DEF Run, server
    <2>2. CASE rows' = [p \in Peer |-> Close(rows[p], {})]
      <3> DEFINE K == [p \in Peer |-> {}]
      <3>1. rows' = [p \in Peer |-> Close(rows[p], K[p])]
        BY <2>2, Zenon
      <3> HIDE DEF K
      <3>2. QED
        BY <1>4, <2>1, <3>1, Zenon
    <2>3. QED
      BY <1>6, <1>7, <2>1, <2>2, Zenon DEF Run
  <1>8. CASE PollDown
    <2> DEFINE K == [p \in Peer |-> DOMAIN rows[p] \ {active[p]}]
    <2>1. rows' = [p \in Peer |-> Close(rows[p], K[p])] /\ UNCHANGED <<bytes, file, fresh, traffic>>
      BY <1>8, Zenon DEF PollDown, server
    <2> HIDE DEF K
    <2>2. QED
      BY <1>4, <2>1, Zenon
  <1>9. QED
    BY <1>1, <1>2, <1>3, <1>5, <1>6, <1>7, <1>8, Zenon
    DEF Next, Turn, PollFile, PollManagement, PollFails, RollBack, ReadLogsFails, Describe, Crash,
        vars, server, stored

(* The traffic stored for a connection is what its row shows, and a status *)
(* file that poll will use is never behind it.                             *)
THEOREM CountInvariant == ~MidWrite => (Spec => [](FollowInv /\ CountInv))
  <1>1. ~MidWrite /\ FollowInv /\ CountInv /\ [Next]_vars => (FollowInv /\ CountInv)'
    BY FollowNext, CountNext, Zenon
  <1>2. Init => FollowInv /\ CountInv
    BY FollowInit, CountInit, Zenon
  <1>3. SUFFICES ASSUME ~MidWrite PROVE Spec => [](FollowInv /\ CountInv)
    BY Zenon
  <1>4. FollowInv /\ CountInv /\ [Next]_vars => (FollowInv /\ CountInv)'
    BY <1>1, <1>3, Zenon
  <1>5. QED
    BY <1>2, <1>4, PTL DEF Spec

(* Every byte is counted once, whatever crashes, outages and failed writes *)
(* do, if no poll falls back to the management interface while the status  *)
(* file is current (collector.py: poll).                                   *)
THEOREM CountedOnceTheorem == ~MidWrite => (Spec => []CountedOnce)
  <1>1. FollowInv /\ CountInv => CountedOnce
    <2> SUFFICES ASSUME FollowInv, CountInv, NEW p \in Peer
                 PROVE  /\ \A i, j \in Cids(p) : i = j
                        /\ traffic[p] = IF Found(p) = 0 THEN 0 ELSE rows[p][Found(p)].bytes
                        /\ traffic[p] <= bytes[p]
      BY Zenon DEF CountedOnce
    <2>1. Shape(rows[p]) /\ DOMAIN rows[p] = 1..Len(rows[p])
      BY DEF FollowInv, Shape
    <2>2. \A i, j \in Cids(p) : i = j
      BY <2>1, Zenon DEF Cids, Shape
    <2>3. CASE Found(p) = 0 /\ Cids(p) = {}
      BY <2>3, Zenon DEF CountInv, Agrees, Cids
    <2>4. CASE Found(p) \in DOMAIN rows[p] /\ Cids(p) = {Found(p)}
      BY <2>1, <2>4 DEF CountInv, Agrees, Cids
    <2>5. QED
      BY <2>1, <2>2, <2>3, <2>4, FoundRow DEF CountInv
  <1>2. QED
    BY <1>1, CountInvariant, PTL

-----------------------------------------------------------------------------
(* The log.  Everything read lies before the place where the next read     *)
(* begins, whether the saved position is of the present file or of one     *)
(* that has been truncated, so no line is applied twice; the log has the   *)
(* start of a connection before its end, and a start that was read is      *)
(* waiting, has a row, or was waiting from an earlier transaction when it  *)
(* was dropped (lost).                                                     *)
Says(i, kind, p) == log[i].kind = kind /\ log[i].peer = p
Refusals(lines) == {i \in lines : log[i].kind = "rejected"}

LogInv ==
    /\ conn \in [Peer -> {"new", "on", "off"}]
    /\ log \in Seq(Line) /\ base \in Nat /\ base <= Len(log) /\ pos \in Nat
    /\ \A p \in Peer : conn[p] = "new" => \A i \in 1..Len(log) : ~Says(i, "end", p)
    /\ \A p \in Peer : \A i, j \in 1..Len(log) : Says(i, "end", p) /\ Says(j, "open", p) => j < i

ReadInv ==
    /\ read \subseteq 1..Len(log)
    /\ \/ pos <= Len(log) - base /\ \A i \in read : i <= base + pos
       \/ \A i \in read : i <= base
    /\ rejected = Cardinality(Refusals(read))

KnownInv ==
    \A p \in About("open", read) \ lost :
        rows[p] # <<>> \/ (p \in pending /\ p \notin About("end", read))

LinesInv == LogInv /\ ReadInv /\ KnownInv

LEMMA LinesInitInv == Init => LinesInv
  <1> SUFFICES ASSUME Init PROVE LinesInv
    BY Zenon
  <1>1. Refusals(read) = {} /\ Cardinality({}) = 0
    BY FS_EmptySet, Zenon DEF Init, Refusals
  <1>2. /\ log = <<>> /\ log \in Seq(Line) /\ Len(log) = 0 /\ base \in Nat /\ base <= Len(log) /\ pos \in Nat
        /\ conn \in [Peer -> {"new", "on", "off"}]
    BY DEF Init
  <1>3. 1..Len(log) = {} /\ read = {} /\ \A kind : About(kind, read) = {}
    BY <1>2 DEF Init, About
  <1>4. LogInv
    BY <1>2, <1>3, Zenon DEF LogInv
  <1>5. QED
    BY <1>1, <1>2, <1>3, <1>4, Zenon DEF Init, LinesInv, ReadInv, KnownInv

(* Nothing is read, and the log only grows.                                *)
LEMMA LogGrows ==
    ASSUME LinesInv, log' \in Seq(Line), Len(log') \in Nat, Len(log) \in Nat, Len(log) <= Len(log'),
           \A i \in 1..Len(log) : log'[i] = log[i],
           UNCHANGED <<base, pos, read, rejected, rows, pending, lost>>
    PROVE  ReadInv' /\ KnownInv'
  <1>1. read \subseteq 1..Len(log) /\ read' \subseteq 1..Len(log') /\ base \in Nat /\ pos \in Nat
    BY DEF LinesInv, ReadInv, LogInv
  <1>2. Refusals(read)' = Refusals(read) /\ \A kind : About(kind, read)' = About(kind, read)
    BY <1>1, Zenon DEF Refusals, About
  <1>3. KnownInv'
    BY <1>2, Zenon DEF LinesInv, KnownInv
  <1>4. pos <= Len(log) - base => pos <= Len(log') - base
    BY <1>1
  <1>5. ReadInv'
    BY <1>1, <1>2, <1>4, Zenon DEF LinesInv, ReadInv
  <1>6. QED
    BY <1>3, <1>5, Zenon

(* OpenVPN logs one line.                                                  *)
LEMMA OneLine ==
    ASSUME LinesInv, NEW line \in Line, log' = Append(log, line),
           UNCHANGED <<base, pos, read, rejected, rows, pending, lost>>,
           conn' \in [Peer -> {"new", "on", "off"}],
           \A p \in Peer : conn'[p] = "new" =>
                conn[p] = "new" /\ ~(line.kind = "end" /\ line.peer = p),
           \A p \in Peer : line.kind = "open" /\ line.peer = p => conn[p] = "new"
    PROVE  LinesInv'
  <1>1. log \in Seq(Line) /\ base \in Nat /\ base <= Len(log) /\ pos \in Nat
    BY Zenon DEF LinesInv, LogInv
  <1>2. /\ log' \in Seq(Line) /\ Len(log') = Len(log) + 1 /\ Len(log) \in Nat
        /\ \A i \in 1..Len(log) : log'[i] = log[i]
        /\ log'[Len(log) + 1] = line
    BY <1>1
  <1>3. \A i \in 1..Len(log') : i \in 1..Len(log) \/ i = Len(log) + 1
    BY <1>2
  <1>4. \A p \in Peer : conn'[p] = "new" => \A i \in 1..Len(log') : ~Says(i, "end", p)'
    BY <1>2, <1>3 DEF LinesInv, LogInv, Says
  <1>5. ASSUME NEW p \in Peer, NEW i \in 1..Len(log'), NEW j \in 1..Len(log'),
               Says(i, "end", p)', Says(j, "open", p)'
        PROVE  j < i
    <2>1. CASE i \in 1..Len(log) /\ j \in 1..Len(log)
      BY <1>2, <1>5, <2>1 DEF LinesInv, LogInv, Says
    <2>2. CASE i \in 1..Len(log) /\ j = Len(log) + 1
      <3>1. conn[p] = "new" /\ Says(i, "end", p)
        BY <1>2, <1>5, <2>2 DEF Says
      <3>2. QED
        BY <2>2, <3>1, Zenon DEF LinesInv, LogInv
    <2>3. CASE i = Len(log) + 1 /\ j = Len(log) + 1
      BY <1>2, <1>5, <2>3, Zenon DEF Says
    <2>4. CASE i = Len(log) + 1 /\ j \in 1..Len(log)
      BY <1>2, <2>4
    <2>5. QED
      BY <1>3, <2>1, <2>2, <2>3, <2>4, Zenon
  <1>6. LogInv'
    BY <1>1, <1>2, <1>4, <1>5 DEF LogInv
  <1>7. QED
    BY <1>1, <1>2, <1>6, LogGrows DEF LinesInv

(* OpenVPN logs nothing; a connection is not new again.                    *)
LEMMA NoLine ==
    ASSUME LinesInv, UNCHANGED <<log, base, pos, read, rejected, rows, pending, lost>>,
           conn' \in [Peer -> {"new", "on", "off"}], \A p \in Peer : conn'[p] = "new" => conn[p] = "new"
    PROVE  LinesInv'
  BY DEF LinesInv, LogInv, ReadInv, KnownInv, Says, Refusals, About

LEMMA ServerLines == ASSUME LinesInv, Server PROVE LinesInv'
  <1>0. UNCHANGED <<pos, read, rejected, rows, pending, lost>> /\ conn \in [Peer -> {"new", "on", "off"}]
    BY Zenon DEF Server, stored, LinesInv, LogInv
  <1>1. ASSUME NEW p \in Peer, Connect(p) PROVE LinesInv'
    <2> DEFINE line == [kind |-> "open", peer |-> p]
    <2>1. line \in Line /\ line.kind = "open" /\ line.peer = p
      BY Zenon DEF Line
    <2>2. log' = Append(log, line) /\ base' = base /\ conn[p] = "new" /\ conn' = [conn EXCEPT ![p] = "on"]
      BY <1>1, Zenon DEF Connect
    <2> HIDE DEF line
    <2>3. QED
      BY <1>0, <2>1, <2>2, OneLine, Zenon
  <1>2. ASSUME NEW p \in Peer, Disconnect(p) PROVE LinesInv'
    <2> DEFINE line == [kind |-> "end", peer |-> p]
    <2>1. line \in Line /\ line.kind = "end" /\ line.peer = p
      BY Zenon DEF Line
    <2>2. log' = Append(log, line) /\ base' = base /\ conn' = [conn EXCEPT ![p] = "off"]
      BY <1>2, Zenon DEF Disconnect
    <2> HIDE DEF line
    <2>3. QED
      BY <1>0, <2>1, <2>2, OneLine, Zenon
  <1>3. CASE Reject
    <2> DEFINE line == [kind |-> "rejected"]
    <2>1. line \in Line /\ line.kind = "rejected"
      BY Zenon DEF Line
    <2>2. log' = Append(log, line) /\ base' = base /\ conn' = conn
      BY <1>3, Zenon DEF Reject
    <2> HIDE DEF line
    <2>3. QED
      BY <1>0, <2>1, <2>2, OneLine, Zenon
  <1>4. CASE Rotate
    <2>1. /\ log' = log /\ base' = Len(log) /\ conn' = conn /\ Len(log) \in Nat
          /\ read \subseteq 1..Len(log)
      BY <1>4 DEF Rotate, LinesInv, LogInv, ReadInv
    <2>2. LogInv'
      BY <1>0, <2>1 DEF LinesInv, LogInv, Says
    <2>3. ReadInv' /\ KnownInv'
      BY <1>0, <2>1 DEF LinesInv, ReadInv, KnownInv, Refusals, About
    <2>4. QED
      BY <2>2, <2>3, Zenon DEF LinesInv
  <1>5. ASSUME NEW p \in Peer, Transfer(p) PROVE LinesInv'
    BY <1>0, <1>5, NoLine DEF Transfer
  <1>6. CASE Outdate \/ Stop \/ Start \/ WriteStatus \/ \E p \in Peer : Age(p)
    <2>1. /\ log' = log /\ base' = base /\ \A p \in Peer : conn'[p] = "new" => conn[p] = "new"
          /\ conn' \in [Peer -> {"new", "on", "off"}]
      BY <1>0, <1>6, Zenon DEF Outdate, Stop, Start, WriteStatus, Age
    <2>2. QED
      BY <1>0, <2>1, NoLine, Zenon
  <1>7. QED
    BY <1>1, <1>2, <1>3, <1>4, <1>5, <1>6 DEF Server

(* A turn that reads nothing: rows are not removed.                        *)
LEMMA NothingRead ==
    ASSUME LinesInv, UNCHANGED <<conn, log, base, pos, read, rejected>>,
           \A p \in Peer : rows[p] # <<>> => rows'[p] # <<>>,
           \A p \in Committed \ pending' : p \in lost' \/ rows[p] # <<>>, lost \subseteq lost'
    PROVE  LinesInv'
  <1>1. LogInv' /\ ReadInv'
    BY DEF LinesInv, LogInv, ReadInv, Says, Refusals
  <1>2. \A kind : About(kind, read)' = About(kind, read) /\ About(kind, read) \subseteq Peer
    BY Zenon DEF About
  <1>3. KnownInv'
    BY <1>2, Zenon DEF LinesInv, KnownInv, Committed
  <1>4. QED
    BY <1>1, <1>3, Zenon DEF LinesInv

LEMMA FromAfterRead ==
    ASSUME LinesInv
    PROVE  From \in Nat /\ From <= Len(log) /\ base <= From /\ \A i \in read : i <= From
  <1>1. /\ base \in Nat /\ pos \in Nat /\ Len(log) \in Nat /\ base <= Len(log) /\ read \subseteq Nat
        /\ \/ pos <= Len(log) - base /\ \A i \in read : i <= base + pos
           \/ \A i \in read : i <= base
    BY DEF LinesInv, LogInv, ReadInv
  <1>2. CASE pos <= Len(log) - base
    <2>1. From = base + pos
      BY <1>2, Zenon DEF From
    <2>2. QED
      BY <1>1, <1>2, <2>1
  <1>3. CASE ~(pos <= Len(log) - base)
    <2>1. From = base + 0
      BY <1>3, Zenon DEF From
    <2>2. QED
      BY <1>1, <1>3, <2>1
  <1>4. QED
    BY <1>2, <1>3, Zenon

LEMMA ReadLogsLines == ASSUME LinesInv, ReadLogs PROVE LinesInv'
  <1>1. PICK last \in From..Len(log) :
          LET lines == (From + 1)..last
          IN /\ rows' = [p \in Peer |-> Ended(lines, p)]
             /\ rejected' = rejected + Cardinality({i \in lines : log[i].kind = "rejected"})
             /\ pos' = IF lines = {} THEN pos ELSE last - base
             /\ pending' = Remaining(lines)
             /\ read' = read \cup lines
    BY Zenon DEF ReadLogs
  <1>2. UNCHANGED <<conn, log, base, lost>>
    BY Zenon DEF ReadLogs, server
  <1> DEFINE lines == (From + 1)..last
  <1>3. /\ From \in Nat /\ From <= Len(log) /\ base <= From /\ \A i \in read : i <= From
        /\ last \in Nat /\ last <= Len(log) /\ From <= last /\ base \in Nat /\ pos \in Nat /\ Len(log) \in Nat
        /\ read \subseteq 1..Len(log)
    BY FromAfterRead DEF LinesInv, LogInv, ReadInv
  <1>4. lines \subseteq 1..Len(log) /\ read' = read \cup lines /\ lines \cap read = {}
    BY <1>1, <1>3
  <1>5. /\ pos' \in Nat /\ (lines = {} => pos' = pos /\ read' = read)
        /\ (lines # {} => pos' = last - base /\ \A i \in read' : i <= last)
    <2>1. last - base \in Nat /\ \A i \in read' : i <= last
      BY <1>3, <1>4
    <2>2. pos' = IF lines = {} THEN pos ELSE last - base
      BY <1>1, Zenon
    <2>3. lines = {} => read' = read
      BY <1>4, Zenon
    <2> HIDE DEF lines
    <2>4. QED
      BY <1>3, <2>1, <2>2, <2>3
  <1>6. Cardinality(Refusals(read)') = Cardinality(Refusals(read)) + Cardinality(Refusals(lines))
    <2>1. /\ Refusals(read)' = Refusals(read) \cup Refusals(lines) /\ Refusals(read) \cap Refusals(lines) = {}
          /\ Refusals(read) \in SUBSET (1..Len(log)) /\ Refusals(lines) \in SUBSET (1..Len(log))
      BY <1>2, <1>3, <1>4, Zenon DEF Refusals
    <2>2. IsFiniteSet(1..Len(log))
      BY <1>3, FS_Interval
    <2>3. IsFiniteSet(Refusals(read)) /\ IsFiniteSet(Refusals(lines))
      BY <2>1, <2>2, FS_Subset, Zenon
    <2>4. Cardinality(Refusals(read)) \in Nat /\ Cardinality(Refusals(lines)) \in Nat
      BY <2>3, FS_CardinalityType, Zenon
    <2>5. Cardinality(Refusals(read) \cup Refusals(lines)) =
            Cardinality(Refusals(read)) + Cardinality(Refusals(lines)) - Cardinality({})
      BY <2>1, <2>3, FS_Union, Zenon
    <2>6. QED
      BY <2>1, <2>4, <2>5, FS_EmptySet
  <1>7. LogInv'
    BY <1>2, <1>5 DEF LinesInv, LogInv, Says
  <1>8. ReadInv'
    <2>1. rejected' = Cardinality(Refusals(read)')
      BY <1>1, <1>6, Zenon DEF LinesInv, ReadInv, Refusals
    <2>2. read' \subseteq 1..Len(log')
      BY <1>2, <1>3, <1>4, Zenon
    <2>3. \/ pos' <= Len(log') - base' /\ \A i \in read' : i <= base' + pos'
          \/ \A i \in read' : i <= base'
      <3>1. CASE lines = {}
        BY <1>2, <1>5, <3>1, Zenon DEF LinesInv, ReadInv
      <3>2. CASE lines # {}
        <4>0. pos' = last - base
          BY <1>5, <3>2, Zenon
        <4>1. pos' = last - base /\ pos' <= Len(log) - base /\ base + pos' = last
          BY <1>3, <4>0
        <4>2. QED
          BY <1>2, <1>5, <3>2, <4>1, Zenon
      <3>3. QED
        BY <3>1, <3>2, Zenon
    <2>4. QED
      BY <2>1, <2>2, <2>3, Zenon DEF ReadInv
  <1>9. ASSUME NEW p \in About("open", read)' \ lost'
        PROVE  rows'[p] # <<>> \/ (p \in pending' /\ p \notin About("end", read)')
    <2>1. /\ p \in Peer /\ p \notin lost
          /\ \A kind : p \in About(kind, read)' <=> p \in About(kind, read) \/ p \in About(kind, lines)
      BY <1>2, <1>4, <1>9, Zenon DEF About
    <2>2. rows'[p] = Ended(lines, p) /\ pending' = Remaining(lines)
      BY <1>1, <2>1, Zenon
    <2>3. p \in About("open", read) => rows[p] # <<>> \/ (p \in pending /\ p \notin About("end", read))
      BY <2>1, Zenon DEF LinesInv, KnownInv
    <2>4. p \in About("open", lines) => p \notin About("end", read)
      <3> SUFFICES ASSUME NEW j \in lines, Says(j, "open", p), NEW i \in read, Says(i, "end", p) PROVE FALSE
        BY Zenon DEF About, Says
      <3>1. i \in 1..Len(log) /\ j \in 1..Len(log) /\ i <= From /\ From < j
        BY <1>3, <1>4
      <3>2. j < i
        BY <2>1, <3>1, Zenon DEF LinesInv, LogInv
      <3>3. QED
        BY <1>3, <3>1, <3>2
    <2> HIDE DEF lines
    <2>5. CASE rows[p] # <<>>
      BY <2>2, <2>5, Zenon DEF Ended
    <2>6. CASE rows[p] = <<>> /\ p \in About("end", lines)
      <3>1. p \in pending \cup About("open", lines)
        BY <1>9, <2>1, <2>3, <2>6, Zenon
      <3>2. rows'[p] = <<[cid |-> FALSE, bytes |-> 0, open |-> FALSE]>>
        BY <2>2, <2>6, <3>1, Zenon DEF Ended
      <3>3. QED
        BY <3>2
    <2>7. CASE rows[p] = <<>> /\ p \notin About("end", lines)
      BY <1>9, <2>1, <2>2, <2>3, <2>4, <2>7, Zenon DEF Remaining
    <2>8. QED
      BY <2>5, <2>6, <2>7
  <1>10. KnownInv'
    BY <1>9, Zenon DEF KnownInv
  <1>11. QED
    BY <1>7, <1>8, <1>10, Zenon DEF LinesInv

(* Polls, the down handler and the start of the thread remove no row.      *)
LEMMA CloseKeeps ==
    ASSUME NEW r, Shape(r), r # <<>>, NEW K PROVE Shape(Close(r, K)) /\ Close(r, K) # <<>>
  <1>1. Len(r) # 0 /\ Len(Close(r, K)) = Len(r) /\ Shape(Close(r, K))
    BY CloseRows DEF Shape
  <1>2. QED
    BY <1>1, Zenon

LEMMA StoreKeeps ==
    ASSUME FollowInv, NEW status, Listing(status), Store(status), NEW p \in Peer, rows[p] # <<>>
    PROVE  rows'[p] # <<>>
  <1> DEFINE updated == IF p \in DOMAIN status THEN Recorded(p, status[p])
                        ELSE Close(rows[p], DOMAIN rows[p] \ {active[p]})
  <1>1. rows'[p] = IF resync THEN Close(updated, {active'[p]}) ELSE updated
    BY Zenon DEF Store, Synced
  <1>2. Shape(rows[p]) /\ Tracks(rows[p], active[p])
    BY Zenon DEF FollowInv
  <1>3. Shape(updated) /\ updated # <<>>
    <2>1. CASE p \in DOMAIN status
      <3>1. status[p] \in Nat
        BY <2>1, Zenon DEF Listing
      <3>2. /\ Shape(Recorded(p, status[p])) /\ Tracks(Recorded(p, status[p]), Index(p)) /\ Index(p) # 0
        BY <1>2, <3>1, RecordedRow, Zenon
      <3>3. Recorded(p, status[p]) # <<>>
        BY <3>2 DEF Tracks
      <3>4. QED
        BY <2>1, <3>2, <3>3, Zenon
    <2>2. CASE p \notin DOMAIN status
      BY <1>2, <2>2, CloseKeeps, Zenon
    <2>3. QED
      BY <2>1, <2>2, Zenon
  <1> HIDE DEF updated
  <1>4. QED
    BY <1>1, <1>3, CloseKeeps, Zenon

LEMMA TurnLines == ASSUME LinesInv, FollowInv, Turn \/ Crash PROVE LinesInv'
  <1>0. \A p \in Peer : Shape(rows[p])
    BY Zenon DEF FollowInv
  <1>1. CASE Run
    <2>1. UNCHANGED <<conn, log, base, pos, read, rejected, pending, lost>>
      BY <1>1, Zenon DEF Run, server
    <2>2. \A p \in Peer : rows[p] # <<>> => rows'[p] # <<>>
      BY <1>0, <1>1, CloseKeeps, Zenon DEF Run
    <2>3. QED
      BY <2>1, <2>2, NothingRead, Zenon DEF Committed
  <1>2. CASE PollFile \/ PollManagement
    <2>1. UNCHANGED <<conn, log, base, pos, read, rejected, pending, lost>>
      BY <1>2, Zenon DEF PollFile, PollManagement, server
    <2>2. \/ UNCHANGED rows
          \/ \E status : Listing(status) /\ Store(status)
      BY <1>2, ListedListing, Zenon DEF PollFile, PollManagement, RollBack, FollowInv
    <2>3. \A p \in Peer : rows[p] # <<>> => rows'[p] # <<>>
      BY <2>2, StoreKeeps, Zenon
    <2>4. QED
      BY <2>1, <2>3, NothingRead, Zenon DEF Committed
  <1>3. CASE PollDown
    <2>1. UNCHANGED <<conn, log, base, pos, read, rejected, pending, lost>>
      BY <1>3, Zenon DEF PollDown, server
    <2>2. \A p \in Peer : rows[p] # <<>> => rows'[p] # <<>>
      BY <1>0, <1>3, CloseKeeps, Zenon DEF PollDown
    <2>3. QED
      BY <2>1, <2>2, NothingRead, Zenon DEF Committed
  <1>4. CASE PollFails
    <2>1. UNCHANGED <<conn, log, base, pos, read, rejected, pending, lost, rows>>
      BY <1>4, Zenon DEF PollFails, RollBack, server
    <2>2. QED
      BY <2>1, NothingRead, Zenon DEF Committed
  <1>5. CASE ReadLogsFails
    <2>1. UNCHANGED <<conn, log, base, pos, read, rejected, rows>>
      BY <1>5, Zenon DEF ReadLogsFails, server, stored
    <2>2. lost \subseteq lost' /\ \A p \in Committed \ pending' : p \in lost'
      BY <1>5, Zenon DEF ReadLogsFails, Remaining, Committed
    <2>3. QED
      BY <2>1, <2>2, NothingRead, Zenon
  <1>6. CASE Describe
    <2>1. UNCHANGED <<conn, log, base, pos, read, rejected, rows>>
      BY <1>6, Zenon DEF Describe, server, stored
    <2>2. lost \subseteq lost' /\ \A p \in Committed \ pending' : p \in lost' \/ rows[p] # <<>>
      BY <1>6, Zenon DEF Describe, Described, Committed
    <2>3. QED
      BY <2>1, <2>2, NothingRead, Zenon
  <1>7. CASE Crash
    <2>1. UNCHANGED <<conn, log, base, pos, read, rejected, rows>>
      BY <1>7, Zenon DEF Crash, server, stored
    <2>2. lost \subseteq lost' /\ Committed \subseteq lost'
      BY <1>7, Zenon DEF Crash
    <2>3. QED
      BY <2>1, <2>2, NothingRead, Zenon
  <1>8. QED
    BY <1>1, <1>2, <1>3, <1>4, <1>5, <1>6, <1>7, ReadLogsLines DEF Turn

LEMMA LinesNext == FollowInv /\ LinesInv /\ [Next]_vars => LinesInv'
  <1> SUFFICES ASSUME FollowInv, LinesInv, [Next]_vars PROVE LinesInv'
    BY Zenon
  <1>1. CASE UNCHANGED vars
    <2>1. UNCHANGED <<conn, log, base, pos, read, rejected, pending, lost, rows>>
      BY <1>1, Zenon DEF vars, server, stored, thread
    <2>2. QED
      BY <2>1, NothingRead, Zenon DEF Committed
  <1>2. QED
    BY <1>1, ServerLines, TurnLines, Zenon DEF Next

(* LinesApplied, for any connections and bounds.  Across failed            *)
(* transactions, restarts and truncations read_logs counts every rejected  *)
(* attempt that it read once.  A connection that only the log saw has its  *)
(* row once both of its lines are applied, unless an earlier transaction   *)
(* had applied the first one and the handshake in _pending was then        *)
(* dropped: by the end of the UI, by a failed transaction that read the    *)
(* last line, or for its age.                                              *)
THEOREM LinesAppliedTheorem == Spec => []LinesApplied
  <1>1. LinesInv => LinesApplied
    <2> SUFFICES ASSUME LinesInv PROVE LinesApplied
      BY Zenon
    <2>1. rejected = Cardinality({i \in read : log[i].kind = "rejected"})
      BY Zenon DEF LinesInv, ReadInv, Refusals
    <2>2. \A p \in (About("open", read) \cap About("end", read)) \ lost : rows[p] # <<>>
      BY Zenon DEF LinesInv, KnownInv
    <2>3. QED
      BY <2>1, <2>2, Zenon DEF LinesApplied
  <1>2. Spec => []FollowInv
    BY FollowInvariant, Zenon
  <1>3. QED
    BY <1>1, <1>2, LinesInitInv, LinesNext, PTL DEF Spec
=============================================================================
