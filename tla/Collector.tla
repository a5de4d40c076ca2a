------------------------------ MODULE Collector ------------------------------
(***************************************************************************)
(* How the web UI records VPN sessions and traffic (ui/app/collector.py,   *)
(* the session part of ui/app/db.py, read_status_file of ui/app/mgmt.py).  *)
(*                                                                         *)
(* One thread takes turns: poll the client list and store it in one        *)
(* transaction, then read the lines appended to OpenVPN's log in another.  *)
(* OpenVPN connects and disconnects clients, writes its status file and    *)
(* its log meanwhile, may exit, and the supervisor may truncate the log.   *)
(* A transaction may fail and roll back, and the UI may die at any point.  *)
(*                                                                         *)
(* A connection is identified by its name, client id and start time, and   *)
(* comes from an address of its own.  Traffic is kept per client; the      *)
(* model keeps it per connection, and one byte counter stands for the two. *)
(* End reasons, devices, rates, visits and the snapshot for browsers are   *)
(* left out: nothing below depends on them.                                *)
(*                                                                         *)
(* A definition in front of one of the same form (CountedAgain before      *)
(* Counted) is a seeded fault that the specification does not use.         *)
(***************************************************************************)
EXTENDS Integers, Sequences, FiniteSets

CONSTANTS
    Peer,            \* connections
    MaxBytes,        \* bound on the bytes of one connection
    MaxRejections,   \* bound on the rejected attempts in the log
    MaxRotations,    \* bound on the truncations of the log
    MidWrite         \* whether three reads in a row may catch the status file
                     \* in the middle of a write

ASSUME CollectorAssumption ==
    /\ MaxBytes \in Nat /\ MaxRejections \in Nat /\ MaxRotations \in Nat
    /\ MidWrite \in BOOLEAN

VARIABLES
    \* OpenVPN
    up,          \* it runs and its management interface answers
    conn,        \* conn[p]: "new", "on" or "off"
    bytes,       \* bytes[p]: transferred so far
    file,        \* the status file: byte counts of the clients it lists
    fresh,       \* it is younger than read_status_file's max_age
    log,         \* every line OpenVPN has logged
    base,        \* how many of them truncations have removed
    rotations,
    old,         \* connections whose handshake is older than PENDING_MAX_AGE
    \* the database
    rows,        \* rows[p]: the rows of vpn_sessions of this connection
    traffic,     \* traffic[p]: the sum of traffic_minute
    rejected,    \* the sum of rejections
    pos,         \* the log position in settings, in lines
    \* the collector thread
    phase,       \* where its turn is
    active,      \* _active: the index of each connection's row, 0 for none
    polled,      \* _status_time is the time of the present status file
    connected,   \* live["connected"]
    resync,      \* _resync
    pending,     \* _pending: handshakes read from the log
    \* history
    read,        \* the log lines that have been applied
    lost,        \* connections whose handshake was read for good and then dropped
    leftover     \* connections left open by a start that could not write

server == <<up, conn, bytes, file, fresh, log, base, rotations, old>>
stored == <<rows, traffic, rejected, pos>>
thread == <<phase, active, polled, connected, resync, pending>>
vars == <<server, stored, thread, read, lost, leftover>>

Line == [kind : {"open", "end"}, peer : Peer] \cup [kind : {"rejected"}]
Row == [cid : BOOLEAN, bytes : 0..MaxBytes, open : BOOLEAN]
Inactive == [p \in Peer |-> 0]

Init ==
    /\ up = TRUE /\ conn = [p \in Peer |-> "new"] /\ bytes = [p \in Peer |-> 0]
    /\ file = <<>> /\ fresh = FALSE
    /\ log = <<>> /\ base = 0 /\ rotations = 0 /\ old = {}
    /\ rows = [p \in Peer |-> <<>>] /\ traffic = [p \in Peer |-> 0] /\ rejected = 0 /\ pos = 0
    /\ phase = "start" /\ active = Inactive /\ polled = FALSE
    /\ connected = FALSE /\ resync = FALSE /\ pending = {}
    /\ read = {} /\ lost = {} /\ leftover = {}

-----------------------------------------------------------------------------
(* OpenVPN and the supervisor.                                             *)
On == {p \in Peer : conn[p] = "on"}
Listed == [p \in On |-> bytes[p]]

Connect(p) ==
    /\ up /\ conn[p] = "new"
    /\ conn' = [conn EXCEPT ![p] = "on"]
    /\ log' = Append(log, [kind |-> "open", peer |-> p])
    /\ UNCHANGED <<up, bytes, file, fresh, base, rotations, old>>

Transfer(p) ==
    /\ p \in On /\ bytes[p] < MaxBytes
    /\ bytes' = [bytes EXCEPT ![p] = @ + 1]
    /\ UNCHANGED <<up, conn, file, fresh, log, base, rotations, old>>

Disconnect(p) ==
    /\ p \in On
    /\ conn' = [conn EXCEPT ![p] = "off"]
    /\ log' = Append(log, [kind |-> "end", peer |-> p])
    /\ UNCHANGED <<up, bytes, file, fresh, base, rotations, old>>

Reject ==
    /\ up
    /\ Cardinality({i \in DOMAIN log : log[i].kind = "rejected"}) < MaxRejections
    /\ log' = Append(log, [kind |-> "rejected"])
    /\ UNCHANGED <<up, conn, bytes, file, fresh, base, rotations, old>>

WriteStatus ==
    /\ up
    /\ file' = Listed /\ fresh' = TRUE
    /\ UNCHANGED <<up, conn, bytes, log, base, rotations, old>>

(* The file is not written for a while (a full disk, OpenVPN is gone).     *)
Outdate ==
    /\ fresh
    /\ fresh' = FALSE
    /\ UNCHANGED <<up, conn, bytes, file, log, base, rotations, old>>

Stop ==
    /\ up
    /\ up' = FALSE
    /\ conn' = [p \in Peer |-> IF p \in On THEN "off" ELSE conn[p]]
    /\ UNCHANGED <<bytes, file, fresh, log, base, rotations, old>>

Start ==
    /\ ~up
    /\ up' = TRUE
    /\ UNCHANGED <<conn, bytes, file, fresh, log, base, rotations, old>>

(* rotate_log truncates the log; lines not read yet stay in the copy.      *)
Rotate ==
    /\ rotations < MaxRotations /\ base < Len(log)
    /\ base' = Len(log) /\ rotations' = rotations + 1
    /\ UNCHANGED <<up, conn, bytes, file, fresh, log, old>>

(* Ten minutes pass after the line that a connection began with.           *)
Age(p) ==
    /\ conn[p] # "new" /\ p \notin old
    /\ old' = old \cup {p}
    /\ UNCHANGED <<up, conn, bytes, file, fresh, log, base, rotations>>

(* The thread's _status_time does not match a file that is written again.  *)
Server ==
    /\ \/ /\ \/ \E p \in Peer : Connect(p) \/ Transfer(p) \/ Disconnect(p) \/ Age(p)
             \/ Reject \/ Outdate \/ Stop \/ Start \/ Rotate
          /\ UNCHANGED polled
       \/ WriteStatus /\ polled' = FALSE
    /\ UNCHANGED <<stored, phase, active, connected, resync, pending, read, lost, leftover>>

-----------------------------------------------------------------------------
(* poll.                                                                   *)

(* find_session: the newest row with this client id, 0 for none.           *)
Cids(p) == {i \in DOMAIN rows[p] : rows[p][i].cid}
Found(p) == IF Cids(p) = {} THEN 0 ELSE CHOOSE i \in Cids(p) : \A j \in Cids(p) : j <= i

(* The row a listed connection has after the poll, and what it had stored  *)
(* for it before.                                                          *)
Index(p) ==
    IF active[p] # 0 THEN active[p]
    ELSE IF Found(p) # 0 THEN Found(p) ELSE Len(rows[p]) + 1
Before(p) == IF Index(p) > Len(rows[p]) THEN 0 ELSE rows[p][Index(p)].bytes

(* The bytes to add to the traffic for a connection listed with n: those   *)
(* since it was last seen; a counter of a followed connection that has     *)
(* gone back has started anew.                                             *)
CountedAgain(p, n) ==
    IF n >= Before(p) /\ active[p] # 0 THEN n - Before(p) ELSE n
Counted(p, n) ==
    IF n >= Before(p) THEN n - Before(p)
    ELSE IF active[p] = 0 THEN 0 ELSE n

(* A row that is in _active stays open, one just found is opened again.    *)
Recorded(p, n) ==
    IF Index(p) > Len(rows[p])
    THEN Append(rows[p], [cid |-> TRUE, bytes |-> n, open |-> TRUE])
    ELSE [rows[p] EXCEPT ![Index(p)].bytes = n,
                         ![Index(p)].open = @ \/ active[p] = 0]

(* Close the rows of seq outside keep.                                     *)
Close(seq, keep) == [i \in DOMAIN seq |-> [seq[i] EXCEPT !.open = @ /\ i \in keep]]

(* After a failed write every row that is not in _active is closed.        *)
SyncedNot(seq, a) == seq
Synced(seq, a) == IF resync THEN Close(seq, {a}) ELSE seq

Store(status) ==
    /\ active' = [p \in Peer |-> IF p \in DOMAIN status THEN Index(p) ELSE 0]
    /\ rows' = [p \in Peer |->
            Synced(IF p \in DOMAIN status THEN Recorded(p, status[p])
                   ELSE Close(rows[p], DOMAIN rows[p] \ {active[p]}), active'[p])]
    /\ traffic' = [p \in Peer |->
            traffic[p] + (IF p \in DOMAIN status THEN Counted(p, status[p]) ELSE 0)]
    /\ resync' = FALSE
    /\ leftover' = IF resync THEN {} ELSE leftover \ DOMAIN status

(* A poll that raises an exception is rolled back; run clears _active, and *)
(* the next poll that succeeds closes the rows that are not in it.         *)
RollBack ==
    /\ active' = Inactive /\ polled' = FALSE /\ resync' = TRUE
    /\ UNCHANGED <<rows, traffic, connected, leftover>>

(* That statement ends with "id NOT IN ()" when no client is listed, which *)
(* PostgreSQL refuses.                                                     *)
Refused(status) == resync /\ DOMAIN status = {}

(* From the status file; nothing to do when it is the one of the last poll.*)
PollFile ==
    /\ phase = "poll" /\ up /\ fresh
    /\ \/ /\ polled /\ connected
          /\ UNCHANGED <<active, rows, traffic, resync, leftover, polled, connected>>
       \/ /\ ~(polled /\ connected) /\ ~Refused(file)
          /\ Store(file) /\ polled' = TRUE /\ connected' = TRUE
       \/ ~(polled /\ connected) /\ Refused(file) /\ RollBack
    /\ phase' = "logs"
    /\ UNCHANGED <<server, rejected, pos, pending, read, lost>>

(* From the management interface when the file cannot be used.             *)
PollManagement ==
    /\ phase = "poll" /\ up
    /\ fresh => MidWrite
    /\ \/ ~Refused(Listed) /\ Store(Listed) /\ polled' = FALSE /\ connected' = TRUE
       \/ Refused(Listed) /\ RollBack
    /\ phase' = "logs"
    /\ UNCHANGED <<server, rejected, pos, pending, read, lost>>

(* _handle_down: the interface does not answer.                            *)
PollDown ==
    /\ phase = "poll"
    /\ rows' = [p \in Peer |-> Close(rows[p], DOMAIN rows[p] \ {active[p]})]
    /\ active' = Inactive /\ polled' = FALSE /\ connected' = FALSE
    /\ phase' = "logs"
    /\ UNCHANGED <<server, traffic, rejected, pos, resync, pending, read, lost, leftover>>

(* A write of poll or of _handle_down fails and is rolled back.            *)
PollFails ==
    /\ phase = "poll"
    /\ RollBack
    /\ phase' = "logs"
    /\ UNCHANGED <<server, rejected, pos, pending, read, lost>>

-----------------------------------------------------------------------------
(* read_logs: lines that have come since the saved position, which counts  *)
(* from the start again when the file is shorter than that.                *)
From == base + (IF pos <= Len(log) - base THEN pos ELSE 0)
About(kind, lines) ==
    {p \in Peer : \E i \in lines : log[i].kind = kind /\ log[i].peer = p}

(* _connection_line: the end of a connection without a row is the only     *)
(* trace of it.                                                            *)
EndedAtOnce(lines, p) ==
    IF p \in About("end", lines) \cap About("open", lines) /\ rows[p] = <<>>
    THEN <<[cid |-> FALSE, bytes |-> 0, open |-> FALSE]>>
    ELSE rows[p]
Ended(lines, p) ==
    IF p \in About("end", lines) \cap (pending \cup About("open", lines)) /\ rows[p] = <<>>
    THEN <<[cid |-> FALSE, bytes |-> 0, open |-> FALSE]>>
    ELSE rows[p]
Remaining(lines) == (pending \cup About("open", lines)) \ About("end", lines)

ReadLogs ==
    /\ phase = "logs"
    /\ \E last \in From..Len(log) :
        LET lines == (From + 1)..last
        IN /\ rows' = [p \in Peer |-> Ended(lines, p)]
           /\ rejected' = rejected
                + Cardinality({i \in lines : log[i].kind = "rejected"})
           /\ pos' = IF lines = {} THEN pos ELSE last - base
           /\ pending' = Remaining(lines)
           /\ read' = read \cup lines
    /\ phase' = "describe"
    /\ UNCHANGED <<server, traffic, active, polled, connected, resync, lost, leftover>>

(* The handshakes in memory that no later read_logs reads again.           *)
Committed == pending \cap About("open", read)

(* The transaction fails on some line; _pending is not rolled back.        *)
ReadLogsFails ==
    /\ phase = "logs"
    /\ \E last \in From..Len(log) :
        LET lines == (From + 1)..last
        IN /\ pending' = Remaining(lines)
           /\ lost' = lost \cup (Committed \cap About("end", lines))
    /\ phase' = "poll"
    /\ UNCHANGED <<server, stored, active, polled, connected, resync, read, leftover>>

(* _describe_sessions: handshakes whose session has a row by now are done, *)
(* and old ones are given up; a failed transaction stops it part way.      *)
Described == {p \in pending : rows[p] # <<>>}
Describe ==
    /\ phase = "describe"
    /\ \E gone \in SUBSET (Described \cup (pending \cap old)) :
        /\ pending' = pending \ gone
        /\ lost' = lost \cup ((Committed \cap gone) \ Described)
    /\ phase' = "poll"
    /\ UNCHANGED <<server, stored, active, polled, connected, resync, read, leftover>>

-----------------------------------------------------------------------------
(* The UI dies and starts again: run closes what the last one left open.   *)
Crash ==
    /\ phase # "start"
    /\ phase' = "start"
    /\ active' = Inactive /\ polled' = FALSE /\ connected' = FALSE /\ resync' = FALSE
    /\ pending' = {} /\ lost' = lost \cup Committed
    /\ UNCHANGED <<server, stored, read, leftover>>

Run ==
    /\ phase = "start"
    /\ \/ /\ rows' = [p \in Peer |-> Close(rows[p], {})]
          /\ leftover' = {}
       \/ /\ leftover' = {p \in Peer : \E i \in DOMAIN rows[p] : rows[p][i].open}
          /\ UNCHANGED rows
    /\ phase' = "poll"
    /\ UNCHANGED <<server, traffic, rejected, pos, active, polled, connected, resync,
                   pending, read, lost>>

Turn == \/ Run \/ PollFile \/ PollManagement \/ PollDown \/ PollFails
        \/ ReadLogs \/ ReadLogsFails \/ Describe

Next == Server \/ Turn \/ Crash

Spec == Init /\ [][Next]_vars

(* The thread goes on; polls that OpenVPN could answer do not all fail;    *)
(* and OpenVPN writes its status file.  Nobody has to connect.             *)
Fairness ==
    /\ WF_vars(Turn) /\ SF_vars(PollFile \/ PollManagement)
    /\ WF_vars(Server /\ WriteStatus)

FairSpec == Spec /\ Fairness

-----------------------------------------------------------------------------
TypeOK ==
    /\ conn \in [Peer -> {"new", "on", "off"}]
    /\ \A p \in Peer : \A i \in DOMAIN rows[p] : rows[p][i] \in Row
    /\ \A p \in Peer : active[p] \in 0..Len(rows[p])
    /\ \A i \in DOMAIN log : log[i] \in Line
    /\ base \in 0..Len(log)
    /\ pending \subseteq Peer

(* Every byte is counted once: a connection has one row from polls, the    *)
(* traffic is what that row shows and never more than the connection has   *)
(* transferred, whatever restarts, outages and failed writes make poll     *)
(* find and reopen (comment at collector.py:295).                          *)
CountedOnce ==
    \A p \in Peer :
        /\ \A i, j \in Cids(p) : i = j
        /\ traffic[p] = IF Found(p) = 0 THEN 0 ELSE rows[p][Found(p)].bytes
        /\ traffic[p] <= bytes[p]

(* poll counts "only the bytes since it was last seen" (collector.py:296,  *)
(* CHANGELOG 1.0.1), so it never counts more than was transferred.  It is  *)
(* checked where the status file may be caught in the middle of a write.   *)
TrafficTransferred == \A p \in Peer : traffic[p] <= bytes[p]

(* Sessions stored as open are exactly the ones the thread follows, except *)
(* between a failed write and the next poll that succeeds, and except      *)
(* those that run could not close when it started.                         *)
OpenRowsFollowed ==
    phase # "start" /\ ~resync =>
        \A p \in Peer \ leftover : \A i \in DOMAIN rows[p] :
            rows[p][i].open <=> active[p] = i

(* After a failed write the next turn takes what is stored from the        *)
(* database and closes the "sessions that ended while _active was lost"    *)
(* (collector.py:164 and 341): while OpenVPN stays up, none of them stays  *)
(* open until the UI is started again.                                     *)
ResyncCloses ==
    <>[]up => \A p \in Peer :
        resync /\ conn[p] = "off" /\ (\E i \in DOMAIN rows[p] : rows[p][i].open)
            ~> phase = "start" \/ \A i \in DOMAIN rows[p] : ~rows[p][i].open

(* Every line is applied once across failed transactions, restarts and     *)
(* truncations: every rejected attempt that was read is counted once, and  *)
(* a connection whose first and last line were read has a row even if no   *)
(* poll ever saw it, also when two transactions read the two lines, with   *)
(* failed ones in between.  Only a handshake of an earlier transaction can *)
(* be lost: when the UI ends, when the transaction that reads the last     *)
(* line fails, or when it is older than PENDING_MAX_AGE (README.md:467 has *)
(* no such exception, see ShortSessionsRecorded).                          *)
LinesApplied ==
    /\ rejected = Cardinality({i \in read : log[i].kind = "rejected"})
    /\ \A p \in (About("open", read) \cap About("end", read)) \ lost : rows[p] # <<>>

(* README.md:467: a connection shorter than the interval of the status     *)
(* file "is recorded from the log alone".                                  *)
ShortSessionsRecorded ==
    \A p \in About("open", read) \cap About("end", read) : rows[p] # <<>>

(* The comment of read_logs (collector.py:183): a truncated file is read   *)
(* from the start, so no line of it is passed over.                        *)
RotatedReadFromStart ==
    \A i \in read : \A j \in (base + 1)..i : j \in read
=============================================================================
