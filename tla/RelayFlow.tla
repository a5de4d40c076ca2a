------------------------------ MODULE RelayFlow ------------------------------
(***************************************************************************)
(* Admission and accounting of relay requests (relay/main.go ServeHTTP,    *)
(* limits.go, activity.go, sessions.go, clients.go).                       *)
(*                                                                         *)
(* Handlers run concurrently.  Each takes a slot of the relay and a share  *)
(* of its client's quota, opens a flow, and gives everything back through  *)
(* its deferred calls, which run in the reverse of the order they were     *)
(* registered: the quota first, then the slot, and finish, which closes    *)
(* the books on the flow, last.  Other handlers run in between.            *)
(*                                                                         *)
(* A flow is accounted to a session of its (client, credential) key and to *)
(* its client; both tables keep a bounded history of what is inactive.     *)
(*                                                                         *)
(* A definition in front of one of the same form (RejectDestinationLeaks   *)
(* before RejectDestination) is a seeded fault that FlowSpec does not use: *)
(* with it in place of the definition that follows, a property fails.      *)
(***************************************************************************)
EXTENDS Integers, FiniteSets, Functions

CONSTANTS
    Handler,            \* running invocations of ServeHTTP
    Client,             \* client names of policies
    Credential,         \* credential ids of policies
    NoClient,           \* the empty name, before a policy is known
    MaxFlows,           \* capacity of relayServer.slots
    MaxPerClient,       \* flowQuota.maximum
    MaxSessionHistory,
    MaxClientHistory,
    IdleSeconds,        \* relaySessionIdleSeconds
    MaxInstant,         \* bound: the last instant of the clock
    MaxRequests         \* bound: requests in a behaviour

ASSUME RelayFlowAssumption ==
    /\ NoClient \notin Client
    /\ IsFiniteSet(Handler)
    /\ {MaxFlows, MaxPerClient, MaxSessionHistory, MaxClientHistory} \subseteq Nat \ {0}
    /\ {IdleSeconds, MaxInstant, MaxRequests} \subseteq Nat

VARIABLES
    instant,         \* wall clock
    handler,         \* handler[h]: its progress and its flowLog
    slots,           \* tokens in relayServer.slots
    used,            \* flowQuota.used
    sequence,        \* activityLog.sequence: requests seen
    tally,           \* activityLog.total, denied and failed
    sessions,        \* activityLog.sessions, a function of session ids
    currentSessions, \* the session id of each key, 0 for none
    sessionSequence,
    clients          \* activityLog.clients, a function of client names

admission == <<slots, used>>
books == <<sequence, tally, sessions, currentSessions, sessionSequence, clients>>
flowVars == <<instant, handler, slots, used, sequence, tally, sessions, currentSessions,
          sessionSequence, clients>>

-----------------------------------------------------------------------------
Key == Client \X Credential

(* The stages of ServeHTTP; the last three are its deferred calls.         *)
Stage == {"idle", "begun", "slotted", "admitted", "open", "unquota", "unslot", "finish"}

(* A handler with the fields of its flowLog that others depend on.         *)
FlowLog == [stage : Stage, client : Client \cup {NoClient}, credential : Credential,
            start : Nat, opened : BOOLEAN, status5xx : BOOLEAN, session : Nat]
NoFlow == [stage |-> "idle", client |-> NoClient, credential |-> CHOOSE k \in Credential : TRUE,
           start |-> 0, opened |-> FALSE, status5xx |-> FALSE, session |-> 0]

Session == [client : Client, credential : Credential, startedAt : Nat, lastSeen : Nat,
            active : Int, accepted : Nat]
ClientRow == [open : Int, lastSeen : Nat]

KeyOf(row) == <<row.client, row.credential>>

FlowInit ==
    /\ instant = 0
    /\ handler = [h \in Handler |-> NoFlow]
    /\ slots = 0
    /\ used = [c \in Client |-> 0]
    /\ sequence = 0
    /\ tally = [total |-> 0, denied |-> 0, failed |-> 0]
    /\ sessions = [s \in {} |-> 0]
    /\ currentSessions = [k \in Key |-> 0]
    /\ sessionSequence = 0
    /\ clients = [c \in {} |-> 0]

-----------------------------------------------------------------------------
(* Admission.  A handler goes on to its next stage.                        *)
GoTo(h, stage) == handler' = [handler EXCEPT ![h].stage = stage]

Begin(h) ==
    /\ handler[h].stage = "idle"
    /\ sequence < MaxRequests
    /\ sequence' = sequence + 1
    /\ handler' = [handler EXCEPT ![h].stage = "begun", ![h].start = instant]
    /\ UNCHANGED <<instant, admission, tally, sessions, currentSessions, sessionSequence, clients>>

(* reject leaves a status of 4xx or 5xx; the deferred calls follow.        *)
Rejected(h, stage, status5xx) ==
    handler' = [handler EXCEPT ![h].stage = stage, ![h].status5xx = status5xx]

RejectMethod(h) ==
    /\ handler[h].stage = "begun"
    /\ Rejected(h, "finish", FALSE)
    /\ UNCHANGED <<instant, admission, books>>

AcquireSlot(h) ==
    /\ handler[h].stage = "begun"
    /\ slots < MaxFlows
    /\ slots' = slots + 1
    /\ GoTo(h, "slotted")
    /\ UNCHANGED <<instant, used, books>>

RejectCapacity(h) ==
    /\ handler[h].stage = "begun"
    /\ slots >= MaxFlows
    /\ Rejected(h, "finish", TRUE)
    /\ UNCHANGED <<instant, admission, books>>

(* authorize failed: denied (403) or unavailable (503).                    *)
RejectAuthorization(h) ==
    /\ handler[h].stage = "slotted"
    /\ \E status5xx \in BOOLEAN : Rejected(h, "unslot", status5xx)
    /\ UNCHANGED <<instant, admission, books>>

(* authorize returned a policy; the quota of its client has room or not.   *)
WithPolicy(h, k, stage, status5xx) ==
    handler' = [handler EXCEPT ![h] = [@ EXCEPT !.client = k[1], !.credential = k[2],
                                                !.stage = stage, !.status5xx = status5xx]]

AcquireQuota(h, k) ==
    /\ handler[h].stage = "slotted"
    /\ used[k[1]] < MaxPerClient
    /\ used' = [used EXCEPT ![k[1]] = @ + 1]
    /\ WithPolicy(h, k, "admitted", FALSE)
    /\ UNCHANGED <<instant, slots, books>>

RejectQuota(h, k) ==
    /\ handler[h].stage = "slotted"
    /\ used[k[1]] >= MaxPerClient
    /\ WithPolicy(h, k, "unslot", TRUE)
    /\ UNCHANGED <<instant, admission, books>>

(* Protocol, target, DNS, destination policy or dialling refuses it.       *)
RejectDestinationLeaks(h) ==
    /\ handler[h].stage = "admitted"
    /\ \E status5xx \in BOOLEAN : Rejected(h, "unslot", status5xx)
    /\ UNCHANGED <<instant, admission, books>>
RejectDestination(h) ==
    /\ handler[h].stage = "admitted"
    /\ \E status5xx \in BOOLEAN : Rejected(h, "unquota", status5xx)
    /\ UNCHANGED <<instant, admission, books>>

CloseFlow(h) ==
    /\ handler[h].stage = "open"
    /\ GoTo(h, "unquota")
    /\ UNCHANGED <<instant, admission, books>>

(* The deferred release of the quota, then of the slot.                    *)
ReleaseQuota(h) ==
    /\ handler[h].stage = "unquota"
    /\ used' = [used EXCEPT ![handler[h].client] = @ - 1]
    /\ GoTo(h, "unslot")
    /\ UNCHANGED <<instant, slots, books>>

ReleaseSlot(h) ==
    /\ handler[h].stage = "unslot"
    /\ slots' = slots - 1
    /\ GoTo(h, "finish")
    /\ UNCHANGED <<instant, used, books>>

-----------------------------------------------------------------------------
(* sessionLocked: the session of h's key, a new one after an idle spell.   *)
(* The result is one of a set, because any of the oldest inactive sessions *)
(* may be the one that makes room.                                         *)
Inactive == {s \in DOMAIN sessions : sessions[s].active = 0}
OldestInactive ==
    {s \in Inactive : \A r \in Inactive : sessions[s].lastSeen <= sessions[r].lastSeen}

Evictions == IF Cardinality(DOMAIN sessions) >= MaxSessionHistory
             THEN {{s} : s \in OldestInactive} \cup {x \in {{}} : Inactive = {}}
             ELSE {{}}

ExpiredWhileActive(k, t) ==
    LET s == currentSessions[k]
    IN  s \notin DOMAIN sessions \/ t - sessions[s].lastSeen > IdleSeconds
SessionExpired(k, t) ==
    LET s == currentSessions[k]
    IN  \/ s \notin DOMAIN sessions
        \/ sessions[s].active = 0 /\ t - sessions[s].lastSeen > IdleSeconds

Later(a, b) == IF a >= b THEN a ELSE b

(* A session-table update: the id found, the table and the pointers.       *)
Continue(s, t) ==
    [id |-> s, current |-> currentSessions,
     table |-> [sessions EXCEPT ![s].lastSeen = Later(@, t)]]

Start(k, t, gone) ==
    LET id == sessionSequence + 1
        new == [client |-> k[1], credential |-> k[2], startedAt |-> t, lastSeen |-> t,
                active |-> 0, accepted |-> 0]
        kept == DOMAIN sessions \ gone
    IN  [id |-> id,
         current |-> [j \in Key |-> IF j = k THEN id
                                    ELSE IF currentSessions[j] \in gone THEN 0
                                    ELSE currentSessions[j]],
         table |-> [s \in kept \cup {id} |-> IF s = id THEN new ELSE sessions[s]]]

SessionLocked(h, t) ==
    LET k == KeyOf(handler[h])
    IN  IF handler[h].session # 0
        THEN {[id |-> handler[h].session, current |-> currentSessions, table |-> sessions]}
        ELSE IF SessionExpired(k, t) THEN {Start(k, t, gone) : gone \in Evictions}
        ELSE {Continue(currentSessions[k], t)}

SetSessions(r, row) ==
    /\ sessions' = [r.table EXCEPT ![r.id] = row]
    /\ currentSessions' = r.current
    /\ sessionSequence' = Later(sessionSequence, r.id)

(* clientLocked, likewise for the table of clients.                        *)
UnusedOrNot == DOMAIN clients
Unused == {c \in DOMAIN clients : clients[c].open = 0}
OldestUnused == {c \in Unused : \A d \in Unused : clients[c].lastSeen <= clients[d].lastSeen}
ClientLocked(c) ==
    IF c \in DOMAIN clients
    THEN {[clients EXCEPT ![c].lastSeen = instant]}
    ELSE LET gone == IF Cardinality(DOMAIN clients) >= MaxClientHistory
                     THEN {{d} : d \in OldestUnused} \cup {x \in {{}} : Unused = {}}
                     ELSE {{}}
         IN  {[d \in (DOMAIN clients \ g) \cup {c} |->
                  IF d = c THEN [open |-> 0, lastSeen |-> instant] ELSE clients[d]] : g \in gone}

(* The destination answered: connected opens the books on the flow.  The   *)
(* session is looked up for the time the request arrived.                  *)
Connected(h) ==
    /\ handler[h].stage = "admitted"
    /\ \E r \in SessionLocked(h, handler[h].start), table \in ClientLocked(handler[h].client) :
        /\ SetSessions(r, [r.table[r.id] EXCEPT !.active = @ + 1, !.accepted = @ + 1])
        /\ clients' = [table EXCEPT ![handler[h].client].open = @ + 1]
        /\ handler' = [handler EXCEPT ![h] = [@ EXCEPT !.stage = "open", !.opened = TRUE,
                                                       !.session = r.id]]
    /\ tally' = [tally EXCEPT !.total = @ + 1]
    /\ UNCHANGED <<instant, admission, sequence>>

(* finish closes them, and drops the client of an overfull table.          *)
FinishedRow(h, row) ==
    [row EXCEPT !.lastSeen = instant, !.active = IF handler[h].opened THEN @ - 1 ELSE @]

FinishClients(h, table) ==
    LET c == handler[h].client
        t == [table EXCEPT ![c].open = IF handler[h].opened THEN @ - 1 ELSE @]
    IN  IF Cardinality(DOMAIN t) > MaxClientHistory /\ t[c].open = 0
        THEN Restrict(t, DOMAIN t \ {c})
        ELSE t

Finish(h) ==
    /\ handler[h].stage = "finish"
    /\ tally' = IF handler[h].opened THEN tally
                ELSE IF handler[h].status5xx THEN [tally EXCEPT !.failed = @ + 1]
                ELSE [tally EXCEPT !.denied = @ + 1]
    /\ \E table \in ClientLocked(handler[h].client) : clients' = FinishClients(h, table)
    /\ \/ /\ handler[h].client = NoClient
          /\ UNCHANGED <<sessions, currentSessions, sessionSequence>>
       \/ /\ handler[h].client # NoClient
          /\ \E r \in SessionLocked(h, instant) : SetSessions(r, FinishedRow(h, r.table[r.id]))
    /\ handler' = [handler EXCEPT ![h] = NoFlow]
    /\ UNCHANGED <<instant, admission, sequence>>

FlowTick ==
    /\ instant < MaxInstant
    /\ instant' = instant + 1
    /\ UNCHANGED <<handler, admission, books>>

Step(h) ==
    \/ Begin(h) \/ RejectMethod(h) \/ AcquireSlot(h) \/ RejectCapacity(h)
    \/ RejectAuthorization(h) \/ RejectDestination(h)
    \/ \E k \in Key : AcquireQuota(h, k) \/ RejectQuota(h, k)
    \/ Connected(h) \/ CloseFlow(h) \/ ReleaseQuota(h) \/ ReleaseSlot(h) \/ Finish(h)

(* The bounds are exhausted and every handler has returned.                *)
Exhausted ==
    /\ sequence = MaxRequests
    /\ \A h \in Handler : handler[h].stage = "idle"
    /\ UNCHANGED flowVars

FlowNext == FlowTick \/ Exhausted \/ \E h \in Handler : Step(h)

FlowSpec == FlowInit /\ [][FlowNext]_flowVars

-----------------------------------------------------------------------------
Slotted == {"slotted", "admitted", "open", "unquota", "unslot"}
Admitted == {"admitted", "open", "unquota"}
Open(h) == handler[h].opened

FlowTypeOK ==
    /\ instant \in Nat
    /\ handler \in [Handler -> FlowLog]
    /\ slots \in Nat
    /\ used \in [Client -> Nat]
    /\ sequence \in Nat
    /\ tally \in [total : Nat, denied : Nat, failed : Nat]
    /\ DOMAIN sessions \subseteq 1..sessionSequence
    /\ \A s \in DOMAIN sessions : sessions[s] \in Session
    /\ currentSessions \in [Key -> Nat]
    /\ sessionSequence \in Nat
    /\ DOMAIN clients \subseteq Client \cup {NoClient}
    /\ \A c \in DOMAIN clients : clients[c] \in ClientRow

(* The relay's slots and each client's quota are held by exactly the       *)
(* handlers between their acquisition and their deferred release, on every *)
(* path out of ServeHTTP, and never exceed their limits.                   *)
AdmissionExact ==
    /\ slots = Cardinality({h \in Handler : handler[h].stage \in Slotted})
    /\ slots <= MaxFlows
    /\ \A c \in Client :
        /\ used[c] = Cardinality({h \in Handler : handler[h].stage \in Admitted
                                                  /\ handler[h].client = c})
        /\ used[c] <= MaxPerClient

(* The live counts the diagnostics show are the flows that are open: the   *)
(* eviction of history never takes a session or client with live flows, so *)
(* no flow's bytes are lost and no count goes negative.  The tables outgrow*)
(* their limits only by what is live, and every request is counted exactly *)
(* once: accepted, denied, failed, or still on its way to one of them.     *)
BooksExact ==
    /\ \A h \in Handler : Open(h) =>
        /\ handler[h].session \in DOMAIN sessions
        /\ handler[h].client \in DOMAIN clients
    /\ \A s \in DOMAIN sessions :
        sessions[s].active = Cardinality({h \in Handler : Open(h) /\ handler[h].session = s})
    /\ \A c \in DOMAIN clients :
        clients[c].open = Cardinality({h \in Handler : Open(h) /\ handler[h].client = c})
    /\ Cardinality(DOMAIN clients) > MaxClientHistory =>
        \A c \in DOMAIN clients : clients[c].open > 0
    /\ Cardinality(DOMAIN sessions) <= Later(MaxSessionHistory, Cardinality(Handler))
    /\ sequence = tally.total + tally.denied + tally.failed
                  + Cardinality({h \in Handler : handler[h].stage # "idle" /\ ~Open(h)})

(* A session with open flows is the current one of its key: a client never *)
(* has two live visits on one credential.  And visits of one key are       *)
(* apart: a later one starts more than IdleSeconds after the last sign of  *)
(* life of an earlier one.                                                 *)
VisitsApart ==
    /\ \A s \in DOMAIN sessions : sessions[s].active > 0 => currentSessions[KeyOf(sessions[s])] = s
    /\ \A r, s \in DOMAIN sessions :
        r < s /\ KeyOf(sessions[r]) = KeyOf(sessions[s]) =>
            sessions[s].startedAt > sessions[r].lastSeen + IdleSeconds
=============================================================================
