-------------------------- MODULE RelayFlowProofs ---------------------------
(***************************************************************************)
(* Admission and the books of the relay's requests are exact, and visits   *)
(* stay apart, for any handlers, clients, credentials and limits.          *)
(*                                                                         *)
(* The counters are cardinalities of sets of handlers; a step of one       *)
(* handler puts it into such a set or takes it out.                        *)
(***************************************************************************)
EXTENDS RelayFlow, FiniteSetTheorems, TLAPS

SlotHolders == {h \in Handler : handler[h].stage \in Slotted}
QuotaHolders(c) == {h \in Handler : handler[h].stage \in Admitted /\ handler[h].client = c}
FlowsIn(s) == {h \in Handler : Open(h) /\ handler[h].session = s}
FlowsOf(c) == {h \in Handler : Open(h) /\ handler[h].client = c}
OnTheWay == {h \in Handler : handler[h].stage # "idle" /\ ~Open(h)}

FlowRow == [stage : Stage, client : Client \cup {NoClient},
            credential : Credential \cup {NoFlow.credential},
            start : Nat, opened : BOOLEAN, status5xx : BOOLEAN, session : Nat]

FlowTypes ==
    /\ instant \in Nat /\ slots \in Nat /\ sequence \in Nat /\ sessionSequence \in Nat
    /\ used \in [Client -> Nat]
    /\ tally \in [total : Nat, denied : Nat, failed : Nat]
    /\ handler \in [Handler -> FlowRow]
    /\ currentSessions \in [Key -> Nat]
    /\ DOMAIN sessions \subseteq 1..sessionSequence
    /\ \A s \in DOMAIN sessions : sessions[s] \in Session
    /\ IsFiniteSet(DOMAIN clients)
    /\ \A c \in DOMAIN clients : clients[c] \in ClientRow

(* A flow has its names from the policy on and its session while it is     *)
(* open; what it is accounted to is in the tables.                         *)
InOrder(h) ==
    /\ handler[h].start <= instant
    /\ handler[h].client # NoClient => handler[h].credential \in Credential
    /\ handler[h].stage \in Admitted => handler[h].client # NoClient
    /\ handler[h].stage = "open" => Open(h)
    /\ ~Open(h) => handler[h].session = 0
    /\ Open(h) =>
        /\ handler[h].stage \in {"open", "unquota", "unslot", "finish"}
        /\ handler[h].client # NoClient /\ handler[h].client \in DOMAIN clients
        /\ handler[h].session \in DOMAIN sessions
FlowOrder == \A h \in Handler : InOrder(h)

(* The current session of a key is the latest one; an evicted one was the  *)
(* last of its key.                                                        *)
Visits(table, current) ==
    /\ \A s \in DOMAIN table :
        /\ table[s].startedAt <= table[s].lastSeen /\ table[s].lastSeen <= instant
        /\ current[KeyOf(table[s])] \in DOMAIN table
        /\ s <= current[KeyOf(table[s])]
        /\ table[s].active > 0 => current[KeyOf(table[s])] = s
    /\ \A k \in Key : current[k] # 0 =>
        /\ current[k] \in DOMAIN table
        /\ KeyOf(table[current[k]]) = k
    /\ \A r, s \in DOMAIN table : r < s /\ KeyOf(table[r]) = KeyOf(table[s]) =>
        table[s].startedAt > table[r].lastSeen + IdleSeconds
VisitInv == Visits(sessions, currentSessions)

AdmissionInv ==
    /\ slots = Cardinality(SlotHolders) /\ slots <= MaxFlows
    /\ \A c \in Client : used[c] = Cardinality(QuotaHolders(c)) /\ used[c] <= MaxPerClient

BooksInv ==
    /\ \A s \in DOMAIN sessions : sessions[s].active = Cardinality(FlowsIn(s))
    /\ \A c \in DOMAIN clients : clients[c].open = Cardinality(FlowsOf(c))
    /\ Cardinality(DOMAIN clients) > MaxClientHistory =>
        \A c \in DOMAIN clients : clients[c].open > 0
    /\ Cardinality(DOMAIN sessions) <= Later(MaxSessionHistory, Cardinality(Handler))
    /\ sequence = tally.total + tally.denied + tally.failed + Cardinality(OnTheWay)

FlowInv == FlowTypes /\ FlowOrder /\ AdmissionInv /\ BooksInv /\ VisitInv

(* What connected and finish leave of the tables, flow by flow.            *)
SessionBooks ==
    /\ VisitInv /\ currentSessions \in [Key -> Nat] /\ sessionSequence \in Nat
    /\ DOMAIN sessions \subseteq 1..sessionSequence
    /\ \A s \in DOMAIN sessions :
        sessions[s] \in Session /\ sessions[s].active = Cardinality(FlowsIn(s))
    /\ Cardinality(DOMAIN sessions) <= Later(MaxSessionHistory, Cardinality(Handler))
ClientBooks ==
    /\ IsFiniteSet(DOMAIN clients)
    /\ \A c \in DOMAIN clients :
        clients[c] \in ClientRow /\ clients[c].open = Cardinality(FlowsOf(c))
    /\ Cardinality(DOMAIN clients) > MaxClientHistory =>
        \A c \in DOMAIN clients : clients[c].open > 0

LEMMA Limits ==
  /\ MaxFlows \in Nat /\ MaxFlows > 0 /\ MaxPerClient \in Nat /\ MaxPerClient > 0
  /\ MaxSessionHistory \in Nat /\ MaxSessionHistory > 0
  /\ MaxClientHistory \in Nat /\ MaxClientHistory > 0
  /\ IdleSeconds \in Nat
  BY RelayFlowAssumption

(* Counting handlers.                                                      *)
LEMMA Count ==
  ASSUME NEW S \in SUBSET Handler
  PROVE  /\ IsFiniteSet(S) /\ Cardinality(S) \in Nat
         /\ Cardinality(S) = 0 <=> S = {}
  <1>1. IsFiniteSet(S)
    BY RelayFlowAssumption, FS_Subset, Zenon
  <1>2. QED
    BY <1>1, FS_CardinalityType, FS_EmptySet, Zenon

LEMMA CountMore ==
  ASSUME NEW S \in SUBSET Handler, NEW h \in Handler, h \notin S
  PROVE  Cardinality(S \cup {h}) = Cardinality(S) + 1
  BY Count, FS_AddElement, Zenon

LEMMA CountLess ==
  ASSUME NEW S \in SUBSET Handler, NEW h \in S
  PROVE  Cardinality(S \ {h}) = Cardinality(S) - 1
  BY Count, FS_RemoveElement, Zenon

LEMMA NoFlowIs ==
  /\ NoFlow \in FlowRow
  /\ NoFlow.stage = "idle" /\ NoFlow.client = NoClient /\ NoFlow.start = 0
  /\ NoFlow.opened = FALSE /\ NoFlow.session = 0
  BY Zenon DEF NoFlow, FlowRow, Stage

LEMMA FlowInitInv == FlowInit => FlowInv
  <1> SUFFICES ASSUME FlowInit PROVE FlowInv
    BY Zenon
  <1>1. \A h \in Handler : handler[h] = NoFlow
    BY Zenon DEF FlowInit
  <1>2. DOMAIN sessions = {} /\ DOMAIN clients = {} /\ sessionSequence = 0
    BY Zenon DEF FlowInit
  <1>3. Cardinality({}) = 0 /\ IsFiniteSet({})
    BY FS_EmptySet, Zenon
  <1>4. FlowTypes
    BY <1>3, NoFlowIs, Zenon DEF FlowInit, FlowTypes
  <1>5. FlowOrder
    BY NoFlowIs DEF FlowInit, FlowOrder, InOrder, Admitted, Open
  <1>6. /\ SlotHolders = {} /\ OnTheWay = {}
        /\ \A c \in Client : QuotaHolders(c) = {}
    BY <1>1, NoFlowIs, Zenon DEF SlotHolders, OnTheWay, QuotaHolders, Slotted, Admitted
  <1>7. AdmissionInv
    <2>1. slots = Cardinality(SlotHolders) /\ slots <= MaxFlows
      BY <1>3, <1>6, Limits DEF FlowInit
    <2>2. ASSUME NEW c \in Client
          PROVE  used[c] = Cardinality(QuotaHolders(c)) /\ used[c] <= MaxPerClient
      <3>1. used[c] = 0 /\ QuotaHolders(c) = {}
        BY <1>6, Zenon DEF FlowInit
      <3>2. used[c] <= MaxPerClient
        BY <3>1, Limits
      <3>3. QED
        BY <1>3, <3>1, <3>2, Zenon
    <2>3. QED
      BY <2>1, <2>2, Zenon DEF AdmissionInv
  <1>8. BooksInv
    <2>1. Cardinality(Handler) \in Nat
      BY Count, Zenon
    <2>2. Cardinality(DOMAIN sessions) <= Later(MaxSessionHistory, Cardinality(Handler))
      BY <1>2, <1>3, <2>1, Limits DEF Later
    <2>3. QED
      BY <1>3, <1>6, <2>2 DEF FlowInit, BooksInv
  <1>9. VisitInv
    BY Zenon DEF FlowInit, VisitInv, Visits
  <1>10. QED
    BY <1>4, <1>5, <1>7, <1>8, <1>9, Zenon DEF FlowInv

(* What a step leaves of its own handler and of the others.                *)
Moves(h) == /\ handler' \in [Handler -> FlowRow]
            /\ \A g \in Handler : g # h => handler'[g] = handler[g]
KeepsFlow(h) == /\ handler'[h].opened = handler[h].opened
                /\ handler'[h].session = handler[h].session
KeepsNames(h) == /\ handler'[h].client = handler[h].client
                 /\ handler'[h].credential = handler[h].credential
Opens(h, id) == /\ Moves(h) /\ KeepsNames(h)
                /\ handler'[h].stage = "open" /\ handler'[h].opened = TRUE
                /\ handler'[h].session = id /\ handler'[h].start = handler[h].start
Leaves(h) == /\ handler'[h] = NoFlow /\ \A g \in Handler : g # h => handler'[g] = handler[g]
             /\ handler[h].opened \in BOOLEAN

LEMMA GoToGives ==
  ASSUME FlowTypes, NEW h \in Handler, NEW stage \in Stage, GoTo(h, stage)
  PROVE  /\ Moves(h) /\ KeepsFlow(h) /\ KeepsNames(h)
         /\ handler'[h].stage = stage /\ handler'[h].start = handler[h].start
  BY Zenon DEF FlowTypes, FlowRow, GoTo, Moves, KeepsFlow, KeepsNames

LEMMA RejectedGives ==
  ASSUME FlowTypes, NEW h \in Handler, NEW stage \in Stage, NEW status5xx \in BOOLEAN,
         Rejected(h, stage, status5xx)
  PROVE  /\ Moves(h) /\ KeepsFlow(h) /\ KeepsNames(h)
         /\ handler'[h].stage = stage /\ handler'[h].start = handler[h].start
  BY Zenon DEF FlowTypes, FlowRow, Rejected, Moves, KeepsFlow, KeepsNames

LEMMA WithPolicyGives ==
  ASSUME FlowTypes, NEW h \in Handler, NEW stage \in Stage, NEW status5xx \in BOOLEAN,
         NEW k \in Key, WithPolicy(h, k, stage, status5xx)
  PROVE  /\ Moves(h) /\ KeepsFlow(h)
         /\ handler'[h].client = k[1] /\ handler'[h].credential = k[2]
         /\ handler'[h].stage = stage /\ handler'[h].start = handler[h].start
         /\ k[1] \in Client /\ k[2] \in Credential
  BY Zenon DEF FlowTypes, FlowRow, WithPolicy, Moves, KeepsFlow, Key

(* A step that leaves the tables and the open flows alone.                 *)
LEMMA QuietInv ==
  ASSUME FlowInv, NEW h \in Handler, Moves(h), KeepsFlow(h), InOrder(h)',
         Open(h) => KeepsNames(h),
         UNCHANGED <<instant, sessions, currentSessions, sessionSequence, clients>>,
         slots' \in Nat, used' \in [Client -> Nat], sequence' \in Nat, UNCHANGED tally,
         sequence' = tally'.total + tally'.denied + tally'.failed + Cardinality(OnTheWay')
  PROVE  FlowTypes' /\ FlowOrder' /\ BooksInv' /\ VisitInv'
  <1>1. FlowTypes'
    BY Zenon DEF FlowInv, FlowTypes, Moves
  <1>2. FlowOrder'
    BY Zenon DEF FlowInv, FlowOrder, InOrder, Moves, Open
  <1>3. \A s \in DOMAIN sessions : FlowsIn(s)' = FlowsIn(s)
    BY Zenon DEF FlowsIn, Open, Moves, KeepsFlow
  <1>4. \A c \in DOMAIN clients : FlowsOf(c)' = FlowsOf(c)
    BY Zenon DEF FlowsOf, Open, Moves, KeepsFlow, KeepsNames
  <1>5. BooksInv'
    <2>1. \A s \in DOMAIN sessions : sessions[s].active = Cardinality(FlowsIn(s)')
      BY <1>3, Zenon DEF FlowInv, BooksInv
    <2>2. \A c \in DOMAIN clients : clients[c].open = Cardinality(FlowsOf(c)')
      BY <1>4, Zenon DEF FlowInv, BooksInv
    <2>3. QED
      BY <2>1, <2>2, Zenon DEF FlowInv, BooksInv
  <1>6. VisitInv'
    BY Zenon DEF FlowInv, VisitInv, Visits
  <1>7. QED
    BY <1>1, <1>2, <1>5, <1>6, Zenon

LEMMA SlotsKept ==
  ASSUME FlowInv, NEW h \in Handler, Moves(h), UNCHANGED slots,
         handler'[h].stage \in Slotted <=> handler[h].stage \in Slotted
  PROVE  slots' = Cardinality(SlotHolders') /\ slots' <= MaxFlows
  <1>1. SlotHolders' = SlotHolders
    BY Zenon DEF SlotHolders, Moves
  <1>2. QED
    BY <1>1, Zenon DEF FlowInv, AdmissionInv

LEMMA QuotasKept ==
  ASSUME FlowInv, NEW h \in Handler, Moves(h), UNCHANGED used,
         handler'[h].stage \in Admitted <=> handler[h].stage \in Admitted,
         handler[h].stage \in Admitted => KeepsNames(h)
  PROVE  \A c \in Client : used'[c] = Cardinality(QuotaHolders(c)') /\ used'[c] <= MaxPerClient
  <1>1. \A c \in Client : QuotaHolders(c)' = QuotaHolders(c)
    BY Zenon DEF QuotaHolders, Moves, KeepsNames
  <1>2. QED
    BY <1>1, Zenon DEF FlowInv, AdmissionInv

LEMMA WayKept ==
  ASSUME FlowInv, NEW h \in Handler, Moves(h), KeepsFlow(h), UNCHANGED <<sequence, tally>>,
         handler[h].stage # "idle", handler'[h].stage # "idle"
  PROVE  /\ sequence' = tally'.total + tally'.denied + tally'.failed + Cardinality(OnTheWay')
         /\ sequence' \in Nat
  <1>1. OnTheWay' = OnTheWay
    BY Zenon DEF OnTheWay, Moves, KeepsFlow, Open
  <1>2. QED
    BY <1>1, Zenon DEF FlowInv, BooksInv, FlowTypes

LEMMA BeginInv ==
  ASSUME FlowInv, NEW h \in Handler, Begin(h)
  PROVE  FlowInv'
  <1>1. /\ Moves(h) /\ KeepsFlow(h) /\ KeepsNames(h) /\ handler'[h].stage = "begun"
        /\ handler'[h].start = instant
    BY ZenonT(30) DEF FlowInv, FlowTypes, FlowRow, Begin, Moves, KeepsFlow, KeepsNames, Stage
  <1>2. UNCHANGED <<instant, slots, used, tally, sessions, currentSessions, sessionSequence, clients>>
    BY Zenon DEF Begin, admission
  <1>3. ~Open(h) /\ handler[h].stage = "idle"
    BY Zenon DEF FlowInv, FlowOrder, InOrder, Begin
  <1>4. InOrder(h)'
    BY <1>1, <1>2, <1>3 DEF FlowInv, FlowOrder, InOrder, FlowTypes, Admitted, Open, KeepsFlow,
       KeepsNames
  <1>5. OnTheWay' = OnTheWay \cup {h} /\ h \notin OnTheWay
    BY <1>1, <1>3, Zenon DEF OnTheWay, Moves, KeepsFlow, Open
  <1>6. Cardinality(OnTheWay') = Cardinality(OnTheWay) + 1 /\ Cardinality(OnTheWay) \in Nat
    BY <1>5, Count, CountMore, Zenon DEF OnTheWay
  <1>7. /\ sequence' = tally'.total + tally'.denied + tally'.failed + Cardinality(OnTheWay')
        /\ sequence' \in Nat
    BY <1>6 DEF FlowInv, BooksInv, FlowTypes, Begin
  <1>8. AdmissionInv'
    BY <1>1, <1>2, <1>3, SlotsKept, QuotasKept, Zenon DEF AdmissionInv, Slotted, Admitted
  <1>9. QED
    BY <1>1, <1>2, <1>4, <1>7, <1>8, QuietInv, Zenon DEF FlowInv, FlowTypes

(* A refusal, or the end of the flow: the deferred calls are to come.      *)
LEMMA RejectInv ==
  ASSUME FlowInv, NEW h \in Handler,
         RejectMethod(h) \/ RejectCapacity(h) \/ RejectAuthorization(h) \/ RejectDestination(h)
             \/ CloseFlow(h)
  PROVE  FlowInv'
  <1> DEFINE old == handler[h].stage
             new == handler'[h].stage
  <1>1. /\ Moves(h) /\ KeepsFlow(h) /\ KeepsNames(h) /\ handler'[h].start = handler[h].start
        /\ old \in {"begun", "slotted", "admitted", "open"}
        /\ new = IF old = "begun" THEN "finish" ELSE IF old = "slotted" THEN "unslot" ELSE "unquota"
    BY RejectedGives, GoToGives, Zenon DEF FlowInv, RejectMethod, RejectCapacity, RejectAuthorization,
       RejectDestination, CloseFlow, Stage
  <1>2. UNCHANGED <<instant, slots, used, sequence, tally, sessions, currentSessions, sessionSequence,
                    clients>>
    BY Zenon DEF RejectMethod, RejectCapacity, RejectAuthorization, RejectDestination, CloseFlow,
       admission, books
  <1>3. InOrder(h)'
    BY <1>1, <1>2, Zenon DEF FlowInv, FlowOrder, InOrder, Admitted, Open, KeepsFlow, KeepsNames
  <1>4. AdmissionInv'
    BY <1>1, <1>2, SlotsKept, QuotasKept, Zenon DEF AdmissionInv, Slotted, Admitted
  <1>5. old # "idle" /\ new # "idle"
    BY <1>1, Zenon
  <1>6. QED
    BY <1>1, <1>2, <1>3, <1>4, WayKept, QuietInv, Zenon DEF FlowInv, FlowTypes

LEMMA RejectQuotaInv ==
  ASSUME FlowInv, NEW h \in Handler, NEW k \in Key, RejectQuota(h, k)
  PROVE  FlowInv'
  <1>1. /\ Moves(h) /\ KeepsFlow(h) /\ handler'[h].stage = "unslot" /\ handler[h].stage = "slotted"
        /\ handler'[h].client = k[1] /\ handler'[h].credential = k[2]
        /\ handler'[h].start = handler[h].start /\ k[1] \in Client /\ k[2] \in Credential
    BY WithPolicyGives, Zenon DEF FlowInv, RejectQuota, Stage
  <1>2. UNCHANGED <<instant, slots, used, sequence, tally, sessions, currentSessions, sessionSequence,
                    clients>>
    BY Zenon DEF RejectQuota, admission, books
  <1>3. ~Open(h)
    BY <1>1, Zenon DEF FlowInv, FlowOrder, InOrder
  <1>4. InOrder(h)'
    BY <1>1, <1>2, Zenon DEF FlowInv, FlowOrder, InOrder, Admitted, Open, KeepsFlow
  <1>5. AdmissionInv'
    BY <1>1, <1>2, SlotsKept, QuotasKept, Zenon DEF AdmissionInv, Slotted, Admitted
  <1>6. QED
    BY <1>1, <1>2, <1>3, <1>4, <1>5, WayKept, QuietInv, Zenon DEF FlowInv, FlowTypes

LEMMA SlotInv ==
  ASSUME FlowInv, NEW h \in Handler, AcquireSlot(h) \/ ReleaseSlot(h)
  PROVE  FlowInv'
  <1>1. /\ Moves(h) /\ KeepsFlow(h) /\ KeepsNames(h) /\ handler'[h].start = handler[h].start
        /\ \/ handler[h].stage = "begun" /\ handler'[h].stage = "slotted"
           \/ handler[h].stage = "unslot" /\ handler'[h].stage = "finish"
    BY GoToGives, Zenon DEF FlowInv, AcquireSlot, ReleaseSlot, Stage
  <1>2. UNCHANGED <<instant, used, sequence, tally, sessions, currentSessions, sessionSequence, clients>>
    BY Zenon DEF AcquireSlot, ReleaseSlot, books
  <1>3. InOrder(h)'
    BY <1>1, <1>2, Zenon DEF FlowInv, FlowOrder, InOrder, Admitted, Open, KeepsFlow, KeepsNames
  <1>4. slots' = Cardinality(SlotHolders') /\ slots' <= MaxFlows /\ slots' \in Nat
    <2>1. CASE AcquireSlot(h)
      <3>1. SlotHolders' = SlotHolders \cup {h} /\ h \notin SlotHolders
        BY <1>1, <2>1, Zenon DEF AcquireSlot, SlotHolders, Slotted, Moves
      <3>2. Cardinality(SlotHolders') = Cardinality(SlotHolders) + 1
        BY <3>1, CountMore, Zenon DEF SlotHolders
      <3>3. QED
        BY <2>1, <3>2, Limits DEF FlowInv, FlowTypes, AdmissionInv, AcquireSlot
    <2>2. CASE ReleaseSlot(h)
      <3>1. SlotHolders' = SlotHolders \ {h} /\ h \in SlotHolders
        BY <1>1, <2>2, Zenon DEF ReleaseSlot, SlotHolders, Slotted, Moves
      <3>2. Cardinality(SlotHolders') = Cardinality(SlotHolders) - 1 /\ Cardinality(SlotHolders') \in Nat
        BY <3>1, Count, CountLess, Zenon DEF SlotHolders
      <3>3. QED
        BY <2>2, <3>2, Limits DEF FlowInv, FlowTypes, AdmissionInv, ReleaseSlot
    <2>3. QED
      BY <2>1, <2>2, Zenon
  <1>5. \A c \in Client : used'[c] = Cardinality(QuotaHolders(c)') /\ used'[c] <= MaxPerClient
    BY <1>1, <1>2, QuotasKept, Zenon DEF Admitted
  <1>6. AdmissionInv'
    BY <1>4, <1>5, Zenon DEF AdmissionInv
  <1>7. handler[h].stage # "idle" /\ handler'[h].stage # "idle"
    BY <1>1, Zenon
  <1>8. QED
    BY <1>1, <1>2, <1>3, <1>4, <1>6, WayKept, QuietInv, Zenon DEF FlowInv, FlowTypes

(* One client's count changes with its set, the others keep theirs.        *)
LEMMA QuotaInv ==
  ASSUME FlowInv, NEW h \in Handler, NEW k \in Key, AcquireQuota(h, k) \/ ReleaseQuota(h)
  PROVE  FlowInv'
  <1>1. PICK c \in Client :
        /\ Moves(h) /\ KeepsFlow(h) /\ handler'[h].start = handler[h].start /\ handler'[h].client = c
        /\ handler'[h].credential \in Credential
        /\ \/ /\ handler[h].stage = "slotted" /\ handler'[h].stage = "admitted" /\ c = k[1]
           \/ /\ handler[h].stage = "unquota" /\ handler'[h].stage = "unslot" /\ KeepsNames(h)
    <2>1. CASE AcquireQuota(h, k)
      BY <2>1, WithPolicyGives, Zenon DEF FlowInv, AcquireQuota, Stage
    <2>2. CASE ReleaseQuota(h)
      <3>1. handler[h].client \in Client /\ handler[h].credential \in Credential
        BY <2>2, Zenon DEF FlowInv, FlowOrder, InOrder, ReleaseQuota, Admitted, FlowTypes, FlowRow
      <3>2. /\ Moves(h) /\ KeepsFlow(h) /\ KeepsNames(h) /\ handler'[h].stage = "unslot"
            /\ handler'[h].start = handler[h].start /\ handler[h].stage = "unquota"
        BY <2>2, GoToGives, Zenon DEF FlowInv, ReleaseQuota, Stage
      <3>3. QED
        BY <3>1, <3>2, Zenon DEF KeepsNames
    <2>3. QED
      BY <2>1, <2>2, Zenon
  <1>2. UNCHANGED <<instant, slots, sequence, tally, sessions, currentSessions, sessionSequence, clients>>
    BY Zenon DEF AcquireQuota, ReleaseQuota, books
  <1>3. InOrder(h)' /\ (Open(h) => KeepsNames(h))
    BY <1>1, <1>2, RelayFlowAssumption, Zenon DEF FlowInv, FlowOrder, InOrder, Admitted, Open, KeepsFlow,
       KeepsNames
  <1>4. used' \in [Client -> Nat] /\ used'[c] = Cardinality(QuotaHolders(c)') /\ used'[c] <= MaxPerClient
        /\ \A d \in Client : d # c => used'[d] = used[d]
    <2>1. CASE AcquireQuota(h, k)
      <3>1. c = k[1] /\ handler[h].stage = "slotted" /\ handler'[h].stage = "admitted"
        BY <1>1, <2>1, Zenon DEF AcquireQuota
      <3>2. QuotaHolders(c)' = QuotaHolders(c) \cup {h} /\ h \notin QuotaHolders(c)
        BY <1>1, <3>1, Zenon DEF QuotaHolders, Admitted, Moves
      <3>3. Cardinality(QuotaHolders(c)') = Cardinality(QuotaHolders(c)) + 1
        BY <3>2, CountMore, Zenon DEF QuotaHolders
      <3>4. used[c] = Cardinality(QuotaHolders(c))
        BY Zenon DEF FlowInv, AdmissionInv
      <3>5. used \in [Client -> Nat] /\ used[c] < MaxPerClient /\ used' = [used EXCEPT ![c] = @ + 1]
        BY <2>1, <3>1, Zenon DEF FlowInv, FlowTypes, AcquireQuota
      <3>6. QED
        BY <3>3, <3>4, <3>5, Limits
    <2>2. CASE ReleaseQuota(h)
      <3>1. c = handler[h].client /\ handler[h].stage = "unquota" /\ handler'[h].stage = "unslot"
        BY <1>1, <2>2, Zenon DEF ReleaseQuota, KeepsNames
      <3>2. QuotaHolders(c)' = QuotaHolders(c) \ {h} /\ h \in QuotaHolders(c)
        BY <1>1, <3>1, Zenon DEF QuotaHolders, Admitted, Moves
      <3>3. Cardinality(QuotaHolders(c)') = Cardinality(QuotaHolders(c)) - 1
            /\ Cardinality(QuotaHolders(c)') \in Nat
        BY <3>2, Count, CountLess, Zenon DEF QuotaHolders
      <3>4. used[c] = Cardinality(QuotaHolders(c)) /\ used[c] <= MaxPerClient
        BY Zenon DEF FlowInv, AdmissionInv
      <3>5. used \in [Client -> Nat] /\ used' = [used EXCEPT ![c] = @ - 1]
        BY <2>2, <3>1, Zenon DEF FlowInv, FlowTypes, ReleaseQuota
      <3>6. QED
        BY <3>3, <3>4, <3>5, Limits
    <2>3. QED
      BY <2>1, <2>2, Zenon
  <1>5. \A d \in Client : d # c => QuotaHolders(d)' = QuotaHolders(d)
    BY <1>1, Zenon DEF QuotaHolders, Admitted, Moves, KeepsNames
  <1>6. \A d \in Client : used'[d] = Cardinality(QuotaHolders(d)') /\ used'[d] <= MaxPerClient
    BY <1>4, <1>5, Zenon DEF FlowInv, AdmissionInv
  <1>7. slots' = Cardinality(SlotHolders') /\ slots' <= MaxFlows
    BY <1>1, <1>2, SlotsKept, Zenon DEF Slotted
  <1>8. AdmissionInv'
    BY <1>6, <1>7, Zenon DEF AdmissionInv
  <1>9. handler[h].stage # "idle" /\ handler'[h].stage # "idle"
    BY <1>1, Zenon
  <1>10. QED
    BY <1>1, <1>2, <1>3, <1>4, <1>8, WayKept, QuietInv, Zenon DEF FlowInv, FlowTypes

(* clientLocked: c is in the table, with the others it had except perhaps  *)
(* one without flows; more than the history are there only when all others *)
(* have flows.                                                             *)
Refreshed(table, c) ==
    /\ IsFiniteSet(DOMAIN table) /\ c \in DOMAIN table
    /\ \A d \in DOMAIN table : table[d] \in ClientRow /\ table[d].open = Cardinality(FlowsOf(d))
    /\ \A h \in Handler : Open(h) => handler[h].client \in DOMAIN table
    /\ Cardinality(DOMAIN table) > MaxClientHistory =>
        \A d \in DOMAIN table : d # c => table[d].open > 0

LEMMA ClientLockedGives ==
  ASSUME FlowInv, NEW c \in Client \cup {NoClient}, NEW table \in ClientLocked(c)
  PROVE  Refreshed(table, c)
  <1> DEFINE D == DOMAIN clients
  <1>1. /\ IsFiniteSet(D) /\ Cardinality(D) \in Nat
        /\ \A d \in D : clients[d] \in ClientRow
        /\ instant \in Nat
    BY FS_CardinalityType, Zenon DEF FlowInv, FlowTypes
  <1>2. \A d \in D : clients[d].open = Cardinality(FlowsOf(d)) /\ clients[d].open \in Nat
    BY Count, Zenon DEF FlowInv, BooksInv, FlowsOf
  <1>3. \A h \in Handler : Open(h) => handler[h].client \in D
    BY Zenon DEF FlowInv, FlowOrder, InOrder
  <1>4. \A d : FlowsOf(d) \in SUBSET Handler
    BY Zenon DEF FlowsOf
  <1>5. CASE c \in D
    <2>1. table = [clients EXCEPT ![c].lastSeen = instant]
      BY <1>5, Zenon DEF ClientLocked
    <2>2. /\ DOMAIN table = D
          /\ \A d \in D : table[d] \in ClientRow /\ table[d].open = clients[d].open
      BY <1>1, <2>1, Zenon DEF ClientRow
    <2>3. \A d \in D : table[d].open = Cardinality(FlowsOf(d))
      BY <1>2, <2>2, Zenon
    <2>4. Cardinality(D) > MaxClientHistory => \A d \in D : clients[d].open > 0
      BY Zenon DEF FlowInv, BooksInv
    <2>5. QED
      BY <1>1, <1>3, <1>5, <2>2, <2>3, <2>4, Zenon DEF Refreshed
  <1>6. CASE c \notin D
    <2> DEFINE gone == IF Cardinality(D) >= MaxClientHistory
                       THEN {{d} : d \in OldestUnused} \cup {x \in {{}} : Unused = {}}
                       ELSE {{}}
               left(g) == [d \in (D \ g) \cup {c} |->
                              IF d = c THEN [open |-> 0, lastSeen |-> instant] ELSE clients[d]]
    <2>0. PICK g \in gone : table = left(g)
      BY <1>6, Zenon DEF ClientLocked
    <2>1. /\ \/ \E d \in Unused : g = {d}
             \/ g = {} /\ (~(Cardinality(D) >= MaxClientHistory) \/ Unused = {})
          /\ g \in SUBSET D
      BY Zenon DEF OldestUnused, Unused
    <2> HIDE DEF gone
    <2>2. DOMAIN table = (D \ g) \cup {c}
      BY <2>0, Zenon
    <2>3. table[c] = [open |-> 0, lastSeen |-> instant] /\ \A d \in D \ g : table[d] = clients[d]
      BY <1>6, <2>0, Zenon
    <2> HIDE DEF left
    <2>4. \A d \in g : FlowsOf(d) = {}
      <3>1. \A d \in Unused : d \in D /\ clients[d].open = 0
        BY Zenon DEF Unused
      <3>2. \A d \in g : clients[d].open = 0
        BY <2>1, <3>1, Zenon
      <3>3. QED
        BY <1>2, <1>4, <2>1, <3>2, Count, Zenon
    <2>5. FlowsOf(c) = {}
      BY <1>3, <1>6, Zenon DEF FlowsOf
    <2>6. table[c].open = 0 /\ table[c] \in ClientRow /\ Cardinality(FlowsOf(c)) = 0
      <3>1. Cardinality(FlowsOf(c)) = 0
        BY <2>5, FS_EmptySet, Zenon
      <3>2. QED
        BY <1>1, <2>3, <3>1 DEF ClientRow
    <2>7. \A d \in DOMAIN table : table[d] \in ClientRow /\ table[d].open = Cardinality(FlowsOf(d))
      BY <1>1, <1>2, <2>2, <2>3, <2>6, Zenon
    <2>8. \A h \in Handler : Open(h) => handler[h].client \in DOMAIN table
      BY <1>3, <2>2, <2>4, Zenon DEF FlowsOf
    <2>9. IsFiniteSet(D \ g) /\ IsFiniteSet(DOMAIN table)
      <3>1. D \ g \in SUBSET D
        BY Zenon
      <3>2. IsFiniteSet(D \ g)
        BY <1>1, FS_Subset, Zenon
      <3>3. QED
        BY <2>2, <3>2, FS_AddElement, Zenon
    <2>10. Cardinality(DOMAIN table) > MaxClientHistory =>
              \A d \in DOMAIN table : d # c => table[d].open > 0
      <3>1. CASE g = {} /\ ~(Cardinality(D) >= MaxClientHistory)
        <4>1. DOMAIN table = D \cup {c}
          BY <2>2, <3>1, Zenon
        <4>2. Cardinality(DOMAIN table) = Cardinality(D) + 1
          <5>1. Cardinality(D \cup {c}) = Cardinality(D) + 1
            BY <1>1, <1>6, FS_AddElement, Zenon
          <5>2. QED
            BY <4>1, <5>1, Zenon
        <4>3. QED
          BY <1>1, <3>1, <4>2, Limits
      <3>2. CASE g = {} /\ Unused = {}
        BY <1>2, <2>2, <2>3, <3>2 DEF Unused
      <3>3. ASSUME NEW x \in Unused, g = {x}
            PROVE  ~(Cardinality(DOMAIN table) > MaxClientHistory)
        <4>1. x \in D /\ clients[x].open = 0
          BY Zenon DEF Unused
        <4>2. ~(Cardinality(D) > MaxClientHistory)
          BY <4>1 DEF FlowInv, BooksInv
        <4>3. Cardinality(D \ {x}) = Cardinality(D) - 1 /\ IsFiniteSet(D \ {x})
          BY <1>1, <4>1, FS_RemoveElement, Zenon
        <4>4. Cardinality((D \ {x}) \cup {c}) = Cardinality(D \ {x}) + 1
          BY <1>6, <4>3, FS_AddElement, Zenon
        <4>5. Cardinality(DOMAIN table) = Cardinality(D \ {x}) + 1
          BY <2>2, <3>3, <4>4, Zenon
        <4>6. QED
          BY <1>1, <4>2, <4>3, <4>5
      <3>4. QED
        BY <2>1, <3>1, <3>2, <3>3, Zenon
    <2>11. QED
      BY <2>2, <2>7, <2>8, <2>9, <2>10, Zenon DEF Refreshed
  <1>7. QED
    BY <1>5, <1>6, Zenon

(* sessionLocked: id is the current session of its key, and the flows that *)
(* are open find theirs.                                                   *)
Looked(id, table, current) ==
    /\ id \in DOMAIN table /\ DOMAIN table \subseteq 1..Later(sessionSequence, id)
    /\ current \in [Key -> Nat]
    /\ \A s \in DOMAIN table : table[s] \in Session /\ table[s].active = Cardinality(FlowsIn(s))
    /\ \A h \in Handler : Open(h) => handler[h].session \in DOMAIN table
    /\ Cardinality(DOMAIN table) <= Later(MaxSessionHistory, Cardinality(Handler))
    /\ Visits(table, current)
    /\ current[KeyOf(table[id])] = id

LEMMA SessionsFacts ==
  ASSUME FlowInv
  PROVE  /\ IsFiniteSet(DOMAIN sessions) /\ Cardinality(DOMAIN sessions) \in Nat
         /\ \A s \in DOMAIN sessions :
             /\ s \in Nat /\ 0 < s /\ s <= sessionSequence
             /\ sessions[s] \in Session /\ KeyOf(sessions[s]) \in Key
             /\ sessions[s].active \in Nat
             /\ sessions[s].active = Cardinality(FlowsIn(s))
         /\ \A s : FlowsIn(s) \in SUBSET Handler
  <1>1. IsFiniteSet(1..sessionSequence)
    BY FS_Interval, SMT DEF FlowInv, FlowTypes
  <1>2. DOMAIN sessions \in SUBSET (1..sessionSequence)
    BY Zenon DEF FlowInv, FlowTypes
  <1>3. IsFiniteSet(DOMAIN sessions) /\ Cardinality(DOMAIN sessions) \in Nat
    BY <1>1, <1>2, FS_Subset, FS_CardinalityType, Zenon
  <1>4. \A s : FlowsIn(s) \in SUBSET Handler
    BY Zenon DEF FlowsIn
  <1>5. \A s \in DOMAIN sessions : sessions[s].active = Cardinality(FlowsIn(s))
    BY Zenon DEF FlowInv, BooksInv
  <1>6. \A s \in DOMAIN sessions : sessions[s].active \in Nat
    BY <1>4, <1>5, Count, Zenon
  <1>7. \A s \in DOMAIN sessions : sessions[s] \in Session /\ KeyOf(sessions[s]) \in Key
    BY Zenon DEF FlowInv, FlowTypes, Session, KeyOf, Key
  <1>8. \A s \in DOMAIN sessions : s \in Nat /\ 0 < s /\ s <= sessionSequence
    BY DEF FlowInv, FlowTypes
  <1>9. QED
    BY <1>3, <1>4, <1>5, <1>6, <1>7, <1>8, Zenon

(* The session that is there already: the one of an open flow, or the      *)
(* current one of the key, which is seen once more.                        *)
LEMMA ContinueGives ==
  ASSUME FlowInv, NEW id \in DOMAIN sessions, currentSessions[KeyOf(sessions[id])] = id,
         NEW table, DOMAIN table = DOMAIN sessions,
         \A s \in DOMAIN sessions : s # id => table[s] = sessions[s],
         table[id] \in Session, KeyOf(table[id]) = KeyOf(sessions[id]),
         table[id].active = sessions[id].active, table[id].startedAt = sessions[id].startedAt,
         table[id].startedAt <= table[id].lastSeen, table[id].lastSeen <= instant
  PROVE  Looked(id, table, currentSessions)
  <1>1. Visits(table, currentSessions)
    BY SessionsFacts, SMTT(30) DEF FlowInv, FlowTypes, VisitInv, Visits, Session
  <1>2. DOMAIN table \subseteq 1..Later(sessionSequence, id)
    BY DEF FlowInv, FlowTypes, Later
  <1>3. \A s \in DOMAIN table : table[s] \in Session /\ table[s].active = Cardinality(FlowsIn(s))
    BY SessionsFacts, Zenon
  <1>4. \A h \in Handler : Open(h) => handler[h].session \in DOMAIN table
    BY Zenon DEF FlowInv, FlowOrder, InOrder
  <1>5. QED
    BY <1>1, <1>2, <1>4, Zenon DEF Looked, FlowInv, FlowTypes, BooksInv

(* When every session has flows there are fewer of them than handlers.     *)
LEMMA LiveSessions ==
  ASSUME FlowInv, NEW h \in Handler, ~Open(h), Inactive = {}
  PROVE  Cardinality(DOMAIN sessions) < Cardinality(Handler)
  <1> DEFINE S == DOMAIN sessions
             T == Handler \ {h}
             f == [s \in S |-> CHOOSE g \in FlowsIn(s) : TRUE]
  <1>1. IsFiniteSet(T) /\ Cardinality(T) \in Nat /\ Cardinality(T) = Cardinality(Handler) - 1
    BY Count, CountLess, Zenon
  <1>2. ASSUME NEW s \in S PROVE f[s] \in T /\ handler[f[s]].session = s
    <2>1. sessions[s].active # 0
      BY Zenon DEF Inactive
    <2>2. FlowsIn(s) # {}
      BY <2>1, SessionsFacts, Count, Zenon
    <2>3. f[s] \in FlowsIn(s)
      BY <2>2, Zenon
    <2>4. QED
      BY <2>3, Zenon DEF FlowsIn
  <1>3. f \in [S -> T]
    BY <1>2, Zenon
  <1>4. ~(\E r, s \in S : r # s /\ f[r] = f[s])
    BY <1>2, Zenon
  <1>5. IsFiniteSet(S) /\ Cardinality(S) \in Nat
    BY SessionsFacts, Zenon
  <1> HIDE DEF f, S, T
  <1>6. ~(Cardinality(T) < Cardinality(S))
    BY <1>1, <1>3, <1>4, <1>5, FS_PigeonHole, Zenon
  <1>7. Cardinality(Handler) \in Nat
    BY Count, Zenon
  <1>8. Cardinality(S) < Cardinality(Handler)
    BY <1>1, <1>5, <1>6, <1>7
  <1>9. QED
    BY <1>8, Zenon DEF S

(* An evicted session is the last one of its key.                          *)
LEMMA KeptCurrent ==
  ASSUME FlowInv, NEW g \in OldestInactive, NEW s \in DOMAIN sessions, s # g
  PROVE  currentSessions[KeyOf(sessions[s])] # g
  <1> SUFFICES ASSUME currentSessions[KeyOf(sessions[s])] = g PROVE FALSE
    BY Zenon
  <1>1. /\ g \in DOMAIN sessions /\ g \in Inactive
        /\ \A r \in Inactive : sessions[g].lastSeen <= sessions[r].lastSeen
    BY Zenon DEF OldestInactive, Inactive
  <1>2. KeyOf(sessions[g]) = KeyOf(sessions[s]) /\ s < g /\ ~(sessions[s].active > 0)
    BY SessionsFacts DEF FlowInv, VisitInv, Visits
  <1>3. sessions[g].lastSeen <= sessions[s].lastSeen
    BY <1>1, <1>2, SessionsFacts DEF Inactive
  <1>4. /\ sessions[g].startedAt > sessions[s].lastSeen + IdleSeconds
        /\ sessions[g].startedAt <= sessions[g].lastSeen
    BY <1>2, Zenon DEF FlowInv, VisitInv, Visits
  <1>5. QED
    BY <1>1, <1>3, <1>4, SessionsFacts, Limits DEF Session

(* A key whose current session expired has no live or recent one.          *)
LEMMA ExpiredKey ==
  ASSUME FlowInv, NEW k \in Key, NEW t \in Nat, SessionExpired(k, t),
         NEW s \in DOMAIN sessions, KeyOf(sessions[s]) = k
  PROVE  t > sessions[s].lastSeen + IdleSeconds
  <1>1. PICK c \in DOMAIN sessions : c = currentSessions[k] /\ s <= c /\ KeyOf(sessions[c]) = k
    BY SessionsFacts DEF FlowInv, VisitInv, Visits
  <1>2. t - sessions[c].lastSeen > IdleSeconds
    BY <1>1, Zenon DEF SessionExpired
  <1>3. s # c => /\ sessions[c].startedAt > sessions[s].lastSeen + IdleSeconds
                 /\ sessions[c].startedAt <= sessions[c].lastSeen
    BY <1>1, SessionsFacts DEF FlowInv, VisitInv, Visits
  <1>4. QED
    BY <1>2, <1>3, SessionsFacts, Limits DEF Session

LEMMA ExpiredInactive ==
  ASSUME FlowInv, NEW k \in Key, NEW t \in Nat, SessionExpired(k, t),
         NEW s \in DOMAIN sessions, KeyOf(sessions[s]) = k
  PROVE  sessions[s].active = 0
  <1>1. PICK c \in DOMAIN sessions : c = currentSessions[k]
    BY Zenon DEF FlowInv, VisitInv, Visits
  <1>2. sessions[c].active = 0
    BY <1>1, Zenon DEF SessionExpired
  <1>3. sessions[s].active > 0 => s = c
    BY <1>1, Zenon DEF FlowInv, VisitInv, Visits
  <1>4. QED
    BY <1>2, <1>3, SessionsFacts

(* A new session of the key, the oldest inactive one making room for it.   *)
Started(id, new, k, gone, table, current) ==
    /\ DOMAIN table = (DOMAIN sessions \ gone) \cup {id} /\ table[id] = new
    /\ \A s \in DOMAIN sessions \ gone : table[s] = sessions[s]
    /\ current = [j \in Key |-> IF j = k THEN id ELSE IF currentSessions[j] \in gone THEN 0
                                ELSE currentSessions[j]]
    /\ id \in Nat /\ id # 0 /\ \A s \in DOMAIN sessions : s < id
    /\ new \in Session /\ KeyOf(new) = k /\ new.active = 0 /\ new.startedAt = new.lastSeen

LEMMA StartIs ==
  ASSUME FlowInv, NEW k \in Key, NEW t \in Nat, NEW gone,
         NEW table, NEW current, NEW id, id = sessionSequence + 1,
         table = Start(k, t, gone).table, current = Start(k, t, gone).current
  PROVE  \E new : Started(id, new, k, gone, table, current) /\ new.lastSeen = t
  <1>1. PICK new : new = [client |-> k[1], credential |-> k[2], startedAt |-> t, lastSeen |-> t,
                          active |-> 0, accepted |-> 0]
    BY Zenon
  <1>2. /\ new \in Session /\ KeyOf(new) = k /\ new.active = 0 /\ new.startedAt = t
        /\ new.lastSeen = t
    BY <1>1 DEF Session, KeyOf, Key
  <1>3. id \in Nat /\ id # 0 /\ \A s \in DOMAIN sessions : s < id
    BY DEF FlowInv, FlowTypes
  <1>4. /\ DOMAIN table = (DOMAIN sessions \ gone) \cup {id} /\ table[id] = new
        /\ \A s \in DOMAIN sessions \ gone : s # id => table[s] = sessions[s]
    BY <1>1, Zenon DEF Start
  <1>5. current = [j \in Key |-> IF j = k THEN id ELSE IF currentSessions[j] \in gone THEN 0
                                 ELSE currentSessions[j]]
    BY Zenon DEF Start
  <1>6. \A s \in DOMAIN sessions \ gone : s # id
    BY <1>3, SMTT(30)
  <1>7. QED
    BY <1>2, <1>3, <1>4, <1>5, <1>6, SMTT(30) DEF Started

LEMMA StartVisits ==
  ASSUME FlowInv, NEW k \in Key, NEW t \in Nat, t <= instant, SessionExpired(k, t), NEW gone,
         gone = {} \/ \E g \in OldestInactive : gone = {g},
         NEW id, NEW new, NEW table, NEW current, Started(id, new, k, gone, table, current),
         new.lastSeen = t
  PROVE  Visits(table, current)
  <1>1. \A s \in DOMAIN sessions \ gone : currentSessions[KeyOf(sessions[s])] \notin gone
    BY KeptCurrent
  <1>2. ASSUME NEW s \in DOMAIN table, s # id
        PROVE  /\ s \in DOMAIN sessions \ gone /\ table[s] = sessions[s] /\ KeyOf(sessions[s]) \in Key
               /\ s \in Nat /\ s < id
    BY <1>2, SessionsFacts, Zenon DEF Started
  <1>3. ASSUME NEW s \in DOMAIN table
        PROVE  /\ table[s].startedAt <= table[s].lastSeen /\ table[s].lastSeen <= instant
               /\ current[KeyOf(table[s])] \in DOMAIN table
               /\ s <= current[KeyOf(table[s])]
               /\ table[s].active > 0 => current[KeyOf(table[s])] = s
    <2>1. CASE s = id
      BY <2>1 DEF Started
    <2>2. CASE s # id /\ KeyOf(sessions[s]) = k
      <3>1. sessions[s].active = 0
        BY <1>2, <2>2, ExpiredInactive, Zenon
      <3>2. sessions[s].startedAt <= sessions[s].lastSeen /\ sessions[s].lastSeen <= instant
        BY <1>2, <2>2, Zenon DEF FlowInv, VisitInv, Visits
      <3>3. QED
        BY <1>2, <2>2, <3>1, <3>2 DEF Started
    <2>3. CASE s # id /\ KeyOf(sessions[s]) # k
      <3>1. current[KeyOf(sessions[s])] = currentSessions[KeyOf(sessions[s])]
        BY <1>1, <1>2, <2>3, Zenon DEF Started
      <3>2. QED
        BY <1>1, <1>2, <2>3, Zenon DEF FlowInv, VisitInv, Visits, Started
    <2>4. QED
      BY <2>1, <2>2, <2>3, Zenon
  <1>4. ASSUME NEW j \in Key, current[j] # 0
        PROVE  current[j] \in DOMAIN table /\ KeyOf(table[current[j]]) = j
    <2>1. CASE j = k
      BY <2>1, Zenon DEF Started
    <2>2. CASE j # k
      BY <1>4, Zenon DEF FlowInv, VisitInv, Visits, Started
    <2>3. QED
      BY <2>1, <2>2, Zenon
  <1>5. ASSUME NEW r \in DOMAIN table, NEW s \in DOMAIN table, r < s,
               KeyOf(table[r]) = KeyOf(table[s])
        PROVE  table[s].startedAt > table[r].lastSeen + IdleSeconds
    <2>1. r # id
      BY <1>2, <1>5 DEF Started
    <2>2. CASE s = id
      <3>1. r \in DOMAIN sessions /\ table[r] = sessions[r] /\ KeyOf(sessions[r]) = k
        BY <1>5, <2>2 DEF Started
      <3>2. QED
        BY <2>2, <3>1, ExpiredKey, Zenon DEF Started
    <2>3. CASE s # id
      BY <1>2, <1>5, <2>1, <2>3, Zenon DEF FlowInv, VisitInv, Visits
    <2>4. QED
      BY <2>2, <2>3, Zenon
  <1>6. QED
    BY <1>3, <1>4, <1>5, Zenon DEF Visits

LEMMA StartCount ==
  ASSUME FlowInv, NEW h \in Handler, ~Open(h), NEW gone \in Evictions, NEW id, NEW table,
         DOMAIN table = (DOMAIN sessions \ gone) \cup {id}, id \notin DOMAIN sessions
  PROVE  Cardinality(DOMAIN table) <= Later(MaxSessionHistory, Cardinality(Handler))
  <1>1. PICK S : S = DOMAIN sessions
    BY Zenon
  <1>2. IsFiniteSet(S) /\ Cardinality(S) \in Nat /\ id \notin S
    BY <1>1, SessionsFacts, Zenon
  <1>3. CASE gone = {}
    <2>1. Cardinality(S \cup {id}) = Cardinality(S) + 1
      BY <1>2, FS_AddElement, Zenon
    <2>2. DOMAIN table = S \cup {id}
      BY <1>1, <1>3, Zenon
    <2>3. ~(Cardinality(S) >= MaxSessionHistory) \/ Inactive = {}
      BY <1>1, <1>3, Zenon DEF Evictions
    <2>4. ~(Cardinality(S) >= MaxSessionHistory) \/ Cardinality(S) < Cardinality(Handler)
      BY <1>1, <2>3, LiveSessions, Zenon
    <2>5. QED
      BY <1>2, <2>1, <2>2, <2>4, Count, Limits DEF Later
  <1>4. ASSUME NEW g \in S, gone = {g}
        PROVE  Cardinality(DOMAIN table) = Cardinality(S)
    <2>1. Cardinality(S \ {g}) = Cardinality(S) - 1 /\ IsFiniteSet(S \ {g})
      BY <1>2, FS_RemoveElement, Zenon
    <2>2. Cardinality((S \ {g}) \cup {id}) = Cardinality(S \ {g}) + 1
      BY <1>2, <2>1, FS_AddElement, Zenon
    <2>3. DOMAIN table = (S \ {g}) \cup {id}
      BY <1>1, <1>4, Zenon
    <2>4. QED
      BY <1>2, <2>1, <2>2, <2>3
  <1>5. gone # {} => \E g \in S : gone = {g}
    BY <1>1, Zenon DEF Evictions, OldestInactive, Inactive
  <1>6. QED
    BY <1>1, <1>3, <1>4, <1>5, Zenon DEF FlowInv, BooksInv

LEMMA StartGives ==
  ASSUME FlowInv, NEW h \in Handler, ~Open(h), NEW k \in Key, NEW t \in Nat, t <= instant,
         SessionExpired(k, t), NEW gone \in Evictions, NEW table, NEW current, NEW id,
         id = sessionSequence + 1,
         table = Start(k, t, gone).table, current = Start(k, t, gone).current
  PROVE  Looked(id, table, current)
  <1>1. gone = {} \/ \E g \in OldestInactive : gone = {g}
    BY Zenon DEF Evictions
  <1>2. PICK new : Started(id, new, k, gone, table, current) /\ new.lastSeen = t
    BY StartIs
  <1>3. Visits(table, current)
    BY <1>1, <1>2, StartVisits, Zenon
  <1>4. Cardinality(DOMAIN table) <= Later(MaxSessionHistory, Cardinality(Handler))
    <2>1. DOMAIN table = (DOMAIN sessions \ gone) \cup {id} /\ id \notin DOMAIN sessions
      BY <1>2 DEF Started
    <2>2. QED
      BY <2>1, StartCount, Zenon
  <1>5. \A g \in Handler : Open(g) => handler[g].session \in DOMAIN sessions
    BY Zenon DEF FlowInv, FlowOrder, InOrder
  <1>6. \A s \in gone : FlowsIn(s) = {}
    <2>1. \A s \in gone : s \in DOMAIN sessions /\ sessions[s].active = 0
      BY <1>1, Zenon DEF OldestInactive, Inactive
    <2>2. QED
      BY <2>1, SessionsFacts, Count, Zenon
  <1>7. \A g \in Handler : Open(g) => handler[g].session \in DOMAIN table
    BY <1>2, <1>5, <1>6, Zenon DEF FlowsIn, Started
  <1>8. table[id].active = Cardinality(FlowsIn(id)) /\ table[id] \in Session
    <2>1. FlowsIn(id) = {}
      BY <1>2, <1>5 DEF FlowsIn, Started
    <2>2. QED
      BY <1>2, <2>1, FS_EmptySet, Zenon DEF Started
  <1>9. \A s \in DOMAIN table : table[s] \in Session /\ table[s].active = Cardinality(FlowsIn(s))
    <2>1. ASSUME NEW s \in DOMAIN table, s # id PROVE s \in DOMAIN sessions /\ table[s] = sessions[s]
      BY <1>2, <2>1, Zenon DEF Started
    <2>2. QED
      BY <1>8, <2>1, SessionsFacts, Zenon
  <1>10. current \in [Key -> Nat] /\ id \in DOMAIN table /\ current[KeyOf(table[id])] = id
    BY <1>2, SMTT(30) DEF Started, FlowInv, FlowTypes
  <1>11. DOMAIN table \subseteq 1..Later(sessionSequence, id)
    BY <1>2 DEF Later, Started, FlowInv, FlowTypes
  <1>12. QED
    BY <1>3, <1>4, <1>7, <1>9, <1>10, <1>11, Zenon DEF Looked

(* A session that is seen once more.                                       *)
LEMMA SeenRow ==
  ASSUME NEW x \in Session, NEW t \in Nat, t <= instant, instant \in Nat, x.startedAt <= x.lastSeen,
         x.lastSeen <= instant, NEW row, row = [x EXCEPT !.lastSeen = Later(@, t)]
  PROVE  /\ row \in Session /\ KeyOf(row) = KeyOf(x) /\ row.active = x.active
         /\ row.startedAt = x.startedAt /\ row.startedAt <= row.lastSeen /\ row.lastSeen <= instant
  BY DEF Session, KeyOf, Later

LEMMA SeenAgain ==
  ASSUME FlowInv, NEW id \in DOMAIN sessions, currentSessions[KeyOf(sessions[id])] = id,
         NEW t \in Nat, t <= instant, NEW table, table = [sessions EXCEPT ![id].lastSeen = Later(@, t)]
  PROVE  Looked(id, table, currentSessions)
  <1>1. /\ DOMAIN table = DOMAIN sessions
        /\ \A s \in DOMAIN sessions : s # id => table[s] = sessions[s]
        /\ table[id] = [sessions[id] EXCEPT !.lastSeen = Later(@, t)]
    BY Zenon
  <1>2. /\ sessions[id] \in Session /\ instant \in Nat
        /\ sessions[id].startedAt <= sessions[id].lastSeen /\ sessions[id].lastSeen <= instant
    BY Zenon DEF FlowInv, FlowTypes, VisitInv, Visits
  <1>3. /\ table[id] \in Session /\ KeyOf(table[id]) = KeyOf(sessions[id])
        /\ table[id].active = sessions[id].active /\ table[id].startedAt = sessions[id].startedAt
        /\ table[id].startedAt <= table[id].lastSeen /\ table[id].lastSeen <= instant
    BY <1>2, SeenRow, SMTT(30)
  <1>4. QED
    BY <1>3, ContinueGives, Zenon

LEMMA SessionLockedGives ==
  ASSUME FlowInv, NEW h \in Handler, handler[h].client # NoClient, NEW t \in Nat, t <= instant,
         NEW r \in SessionLocked(h, t)
  PROVE  /\ Looked(r.id, r.table, r.current)
         /\ Open(h) => r.id = handler[h].session
  <1>1. PICK k \in Key : k = KeyOf(handler[h])
    BY Zenon DEF FlowInv, FlowTypes, FlowRow, FlowOrder, InOrder, KeyOf, Key
  <1>2. CASE Open(h)
    <2>1. PICK s \in DOMAIN sessions : s = handler[h].session
      BY <1>2, Zenon DEF FlowInv, FlowOrder, InOrder
    <2>2. r.id = s /\ r.current = currentSessions /\ r.table = sessions
      BY <2>1, SessionsFacts DEF SessionLocked
    <2>3. sessions[s].active > 0
      <3>1. FlowsIn(s) # {}
        BY <1>2, <2>1, Zenon DEF FlowsIn
      <3>2. sessions[s].active # 0
        BY <3>1, SessionsFacts, Count, Zenon
      <3>3. QED
        BY <3>2, SessionsFacts
    <2>4. /\ currentSessions[KeyOf(sessions[s])] = s
          /\ sessions[s].startedAt <= sessions[s].lastSeen /\ sessions[s].lastSeen <= instant
      BY <2>3, Zenon DEF FlowInv, VisitInv, Visits
    <2>5. Looked(s, sessions, currentSessions)
      BY <2>4, SessionsFacts, ContinueGives, Zenon
    <2>6. QED
      BY <2>1, <2>2, <2>5, Zenon
  <1>3. CASE ~Open(h)
    <2>1. handler[h].session = 0
      BY <1>3, Zenon DEF FlowInv, FlowOrder, InOrder
    <2>2. CASE SessionExpired(k, t)
      <3>1. PICK gone \in Evictions : r = Start(k, t, gone)
        BY <1>1, <2>1, <2>2, Zenon DEF SessionLocked
      <3>2. r.id = sessionSequence + 1
        BY <3>1, Zenon DEF Start
      <3>3. QED
        BY <1>3, <2>2, <3>1, <3>2, StartGives, Zenon
    <2>3. CASE ~SessionExpired(k, t)
      <3>1. PICK s \in DOMAIN sessions : s = currentSessions[k]
        BY <2>3, Zenon DEF SessionExpired
      <3>2. /\ r.id = s /\ r.current = currentSessions
            /\ r.table = [sessions EXCEPT ![s].lastSeen = Later(@, t)]
        BY <1>1, <2>1, <2>3, <3>1, SMTT(30) DEF SessionLocked, Continue
      <3>3. currentSessions[KeyOf(sessions[s])] = s
        BY <3>1, SessionsFacts DEF FlowInv, VisitInv, Visits
      <3>4. QED
        BY <1>3, <3>2, <3>3, SeenAgain, Zenon
    <2>4. QED
      BY <2>2, <2>3, Zenon
  <1>4. QED
    BY <1>2, <1>3, Zenon

(* The row that is written back; the flows of the other sessions stay.     *)
LEMMA SetSessionsGives ==
  ASSUME FlowInv, NEW id, NEW table, NEW current, NEW row, Looked(id, table, current),
         row \in Session, KeyOf(row) = KeyOf(table[id]), row.startedAt = table[id].startedAt,
         row.startedAt <= row.lastSeen, row.lastSeen <= instant, UNCHANGED instant,
         row.active = Cardinality(FlowsIn(id)'),
         \A s \in DOMAIN table : s # id => FlowsIn(s)' = FlowsIn(s),
         sessions' = [table EXCEPT ![id] = row], currentSessions' = current,
         sessionSequence' = Later(sessionSequence, id)
  PROVE  /\ SessionBooks' /\ id \in DOMAIN sessions'
         /\ \A h \in Handler : Open(h) => handler[h].session \in DOMAIN sessions'
  <1>1. /\ DOMAIN sessions' = DOMAIN table /\ sessions'[id] = row
        /\ \A s \in DOMAIN table : s # id => sessions'[s] = table[s]
    BY Zenon DEF Looked
  <1>2. id \in Nat /\ \A s \in DOMAIN table : s \in Nat
    BY SMTT(30) DEF Looked
  <1>3. sessionSequence' \in Nat
    <2>1. sessionSequence \in Nat
      BY Zenon DEF FlowInv, FlowTypes
    <2>2. QED
      BY <1>2, <2>1 DEF Later
  <1>4. VisitInv'
    BY DEF VisitInv, Visits, Looked
  <1>5. ASSUME NEW s \in DOMAIN sessions'
        PROVE  sessions'[s] \in Session /\ sessions'[s].active = Cardinality(FlowsIn(s)')
    <2>1. CASE s = id
      BY <2>1, Zenon
    <2>2. CASE s # id
      <3>1. s \in DOMAIN table /\ sessions'[s] = table[s] /\ FlowsIn(s)' = FlowsIn(s)
        BY <2>2, Zenon
      <3>2. table[s] \in Session /\ table[s].active = Cardinality(FlowsIn(s))
        BY Zenon DEF Looked
      <3>3. QED
        BY <3>2, Zenon
    <2>3. QED
      BY <2>2, Zenon
  <1>6. QED
    BY <1>3, <1>4, Zenon DEF Looked, SessionBooks

LEMMA AcceptedRow ==
  ASSUME NEW x \in Session, NEW row, row = [x EXCEPT !.active = @ + 1, !.accepted = @ + 1]
  PROVE  /\ row \in Session /\ KeyOf(row) = KeyOf(x) /\ row.startedAt = x.startedAt
         /\ row.lastSeen = x.lastSeen /\ row.active = x.active + 1
  <1> DEFINE y == [x EXCEPT !.active = @ + 1]
  <1>1. y \in Session /\ KeyOf(y) = KeyOf(x) /\ y.startedAt = x.startedAt
        /\ y.lastSeen = x.lastSeen /\ y.active = x.active + 1
    BY DEF Session, KeyOf
  <1>2. row = [y EXCEPT !.accepted = @ + 1]
    BY Zenon
  <1> HIDE DEF y
  <1>3. QED
    BY <1>1, <1>2 DEF Session, KeyOf

LEMMA OpenedRow ==
  ASSUME FlowTypes, NEW h \in Handler, NEW id \in Nat,
         handler' = [handler EXCEPT ![h] = [@ EXCEPT !.stage = "open", !.opened = TRUE,
                                                     !.session = id]]
  PROVE  Opens(h, id)
  BY ZenonT(30) DEF FlowTypes, FlowRow, Opens, Moves, KeepsNames, Stage

(* connected puts the flow into its session.                               *)
LEMMA ConnectedSessionsGives ==
  ASSUME FlowInv, NEW h \in Handler, handler[h].client # NoClient, ~Open(h), UNCHANGED instant,
         NEW id, NEW table, NEW current, Looked(id, table, current), Opens(h, id),
         sessions' = [table EXCEPT ![id] =
                         [table[id] EXCEPT !.active = @ + 1, !.accepted = @ + 1]],
         currentSessions' = current, sessionSequence' = Later(sessionSequence, id)
  PROVE  /\ SessionBooks' /\ id \in DOMAIN sessions'
         /\ \A g \in Handler : Open(g) => handler[g].session \in DOMAIN sessions'
  <1>1. PICK row : row = [table[id] EXCEPT !.active = @ + 1, !.accepted = @ + 1]
    BY Zenon
  <1>2. id \in DOMAIN table /\ table[id] \in Session /\ table[id].active = Cardinality(FlowsIn(id))
    BY Zenon DEF Looked
  <1>3. table[id].startedAt <= table[id].lastSeen /\ table[id].lastSeen <= instant
    BY Zenon DEF Looked, Visits
  <1>4. /\ row \in Session /\ KeyOf(row) = KeyOf(table[id]) /\ row.startedAt = table[id].startedAt
        /\ row.lastSeen = table[id].lastSeen /\ row.active = table[id].active + 1
    BY <1>1, <1>2, AcceptedRow, Zenon
  <1>5. /\ FlowsIn(id)' = FlowsIn(id) \cup {h} /\ h \notin FlowsIn(id) /\ FlowsIn(id) \in SUBSET Handler
        /\ \A s \in DOMAIN table : s # id => FlowsIn(s)' = FlowsIn(s)
    BY Zenon DEF FlowsIn, Open, Opens, Moves
  <1>6. Cardinality(FlowsIn(id)') = Cardinality(FlowsIn(id)) + 1
    BY <1>5, CountMore, Zenon
  <1>7. row.active = Cardinality(FlowsIn(id)')
    BY <1>2, <1>4, <1>6, Zenon
  <1>8. sessions' = [table EXCEPT ![id] = row]
    BY <1>1, Zenon
  <1>9. QED
    BY <1>3, <1>4, <1>5, <1>7, <1>8, SetSessionsGives, Zenon

(* The client's row that is written back.                                  *)
Written(table, c) ==
    /\ IsFiniteSet(DOMAIN table) /\ c \in DOMAIN table
    /\ \A d \in DOMAIN table : table[d] \in ClientRow /\ table[d].open = Cardinality(FlowsOf(d)')
    /\ \A h \in Handler : Open(h) => handler[h].client \in DOMAIN table
    /\ Cardinality(DOMAIN table) > MaxClientHistory =>
        \A d \in DOMAIN table : d # c => table[d].open > 0

LEMMA RowWritten ==
  ASSUME NEW c, NEW rows, Refreshed(rows, c), NEW left, NEW row \in ClientRow,
         left = [rows EXCEPT ![c] = row], row.open = Cardinality(FlowsOf(c)'),
         \A d \in DOMAIN rows : d # c => FlowsOf(d)' = FlowsOf(d)
  PROVE  Written(left, c)
  <1>1. /\ DOMAIN left = DOMAIN rows /\ left[c] = row
        /\ \A d \in DOMAIN rows : d # c => left[d] = rows[d]
    BY Zenon DEF Refreshed
  <1>2. ASSUME NEW d \in DOMAIN left
        PROVE  left[d] \in ClientRow /\ left[d].open = Cardinality(FlowsOf(d)')
    <2>1. CASE d = c
      BY <2>1, Zenon
    <2>2. CASE d # c
      <3>1. d \in DOMAIN rows /\ left[d] = rows[d] /\ FlowsOf(d)' = FlowsOf(d)
        BY <2>2, Zenon
      <3>2. rows[d] \in ClientRow /\ rows[d].open = Cardinality(FlowsOf(d))
        BY Zenon DEF Refreshed
      <3>3. QED
        BY <3>2, Zenon
    <2>3. QED
      BY <2>2, Zenon
  <1>3. QED
    BY Zenon DEF Refreshed, Written

(* connected puts the flow into its client.                                *)
LEMMA ConnectedClientsGives ==
  ASSUME FlowInv, NEW h \in Handler, NEW c, handler[h].client = c, ~Open(h), NEW id, Opens(h, id),
         NEW rows, Refreshed(rows, c), clients' = [rows EXCEPT ![c].open = @ + 1]
  PROVE  /\ ClientBooks' /\ c \in DOMAIN clients'
         /\ \A g \in Handler : Open(g) => handler[g].client \in DOMAIN clients'
  <1>1. PICK row : row = [rows[c] EXCEPT !.open = @ + 1]
    BY Zenon
  <1>2. c \in DOMAIN rows /\ rows[c] \in ClientRow /\ rows[c].open = Cardinality(FlowsOf(c))
    BY Zenon DEF Refreshed
  <1>3. /\ FlowsOf(c)' = FlowsOf(c) \cup {h} /\ h \notin FlowsOf(c) /\ FlowsOf(c) \in SUBSET Handler
        /\ \A d \in DOMAIN rows : d # c => FlowsOf(d)' = FlowsOf(d)
    BY Zenon DEF FlowsOf, Open, Opens, Moves, KeepsNames
  <1>4. Cardinality(FlowsOf(c)') = Cardinality(FlowsOf(c)) + 1 /\ Cardinality(FlowsOf(c)) \in Nat
    BY <1>3, Count, CountMore, Zenon
  <1>5. row \in ClientRow /\ row.open = Cardinality(FlowsOf(c)') /\ 0 < row.open
    BY <1>1, <1>2, <1>4 DEF ClientRow
  <1>6. PICK left : left = clients'
    BY Zenon
  <1>7. left = [rows EXCEPT ![c] = row]
    BY <1>1, <1>6, Zenon
  <1>8. Written(left, c)
    BY <1>3, <1>5, <1>7, RowWritten, Zenon
  <1>9. QED
    BY <1>5, <1>6, <1>8, Zenon DEF Written, ClientBooks

LEMMA ConnectedInv ==
  ASSUME FlowInv, NEW h \in Handler, Connected(h)
  PROVE  FlowInv'
  <1>1. PICK c \in Client :
        /\ handler[h].stage = "admitted" /\ ~Open(h) /\ c # NoClient /\ handler[h].client = c
        /\ handler[h].start \in Nat /\ handler[h].start <= instant
    BY DEF FlowInv, FlowTypes, FlowRow, FlowOrder, InOrder, Connected, Admitted
  <1>2. UNCHANGED <<instant, slots, used, sequence>> /\ tally' = [tally EXCEPT !.total = @ + 1]
    BY Zenon DEF Connected, admission
  <1>3. PICK id : /\ Opens(h, id) /\ SessionBooks' /\ id \in DOMAIN sessions'
                  /\ \A g \in Handler : Open(g) => handler[g].session \in DOMAIN sessions'
                  /\ ClientBooks' /\ c \in DOMAIN clients'
                  /\ \A g \in Handler : Open(g) => handler[g].client \in DOMAIN clients'
    <2>1. PICK r \in SessionLocked(h, handler[h].start), rows \in ClientLocked(c) :
            /\ SetSessions(r, [r.table[r.id] EXCEPT !.active = @ + 1, !.accepted = @ + 1])
            /\ clients' = [rows EXCEPT ![c].open = @ + 1]
            /\ handler' = [handler EXCEPT ![h] = [@ EXCEPT !.stage = "open", !.opened = TRUE,
                                                           !.session = r.id]]
      BY <1>1, Zenon DEF Connected
    <2>2. Looked(r.id, r.table, r.current) /\ Refreshed(rows, c)
      BY <1>1, SessionLockedGives, ClientLockedGives, Zenon
    <2>3. Opens(h, r.id)
      <3>1. r.id \in Nat
        BY <2>2 DEF Looked
      <3>2. QED
        BY <2>1, <3>1, OpenedRow, ZenonT(30) DEF FlowInv
    <2>4. /\ SessionBooks' /\ r.id \in DOMAIN sessions'
          /\ \A g \in Handler : Open(g) => handler[g].session \in DOMAIN sessions'
      BY <1>1, <1>2, <2>1, <2>2, <2>3, ConnectedSessionsGives, Zenon DEF SetSessions
    <2>5. /\ ClientBooks' /\ c \in DOMAIN clients'
          /\ \A g \in Handler : Open(g) => handler[g].client \in DOMAIN clients'
      BY <1>1, <2>1, <2>2, <2>3, ConnectedClientsGives, Zenon
    <2>6. QED
      BY <2>3, <2>4, <2>5, Zenon
  <1>4. /\ Moves(h) /\ KeepsNames(h) /\ handler'[h].stage = "open" /\ handler'[h].opened = TRUE
        /\ handler'[h].session = id /\ handler'[h].start = handler[h].start
    BY <1>3, Zenon DEF Opens
  <1>5. sequence' = tally'.total + tally'.denied + tally'.failed + Cardinality(OnTheWay')
        /\ tally' \in [total : Nat, denied : Nat, failed : Nat]
    <2>1. OnTheWay' = OnTheWay \ {h} /\ h \in OnTheWay
      BY <1>1, <1>4, Zenon DEF OnTheWay, Open, Moves
    <2>2. Cardinality(OnTheWay') = Cardinality(OnTheWay) - 1 /\ Cardinality(OnTheWay) \in Nat
      BY <2>1, Count, CountLess, Zenon DEF OnTheWay
    <2>3. QED
      BY <1>2, <2>2 DEF FlowInv, FlowTypes, BooksInv
  <1>6. FlowOrder'
    <2>1. InOrder(h)'
      BY <1>1, <1>2, <1>3, <1>4, Zenon DEF InOrder, Open, KeepsNames, FlowInv, FlowOrder
    <2>2. ASSUME NEW g \in Handler, g # h PROVE InOrder(g)'
      BY <1>2, <1>3, <1>4, <2>2, Zenon DEF InOrder, Open, Moves, FlowInv, FlowOrder
    <2>3. QED
      BY <2>1, <2>2, Zenon DEF FlowOrder
  <1>7. AdmissionInv'
    BY <1>1, <1>2, <1>4, SlotsKept, QuotasKept, Zenon DEF AdmissionInv, Slotted, Admitted
  <1>8. FlowTypes'
    BY <1>2, <1>3, <1>4, SMTT(30) DEF FlowInv, FlowTypes, Moves, SessionBooks, ClientBooks
  <1>9. BooksInv' /\ VisitInv'
    BY <1>3, <1>5, SMTT(30) DEF BooksInv, SessionBooks, ClientBooks
  <1>10. QED
    BY <1>6, <1>7, <1>8, <1>9, Zenon DEF FlowInv

(* finish takes the flow off its client and its session.                   *)
IsOf(h, c) == handler[h].client = c

LEMMA FinishClientsGives ==
  ASSUME NEW h \in Handler, NEW c, IsOf(h, c), NEW rows, Refreshed(rows, c),
         clients' = FinishClients(h, rows), Leaves(h)
  PROVE  /\ ClientBooks'
         /\ \A g \in Handler : g # h /\ Open(g) => handler[g].client \in DOMAIN clients'
  <1>1. c \in DOMAIN rows /\ rows[c] \in ClientRow /\ rows[c].open = Cardinality(FlowsOf(c))
    BY Zenon DEF Refreshed
  <1>2. PICK row : row = [rows[c] EXCEPT !.open = IF handler[h].opened THEN @ - 1 ELSE @]
    BY Zenon
  <1>3. PICK left : left = [rows EXCEPT ![c] = row]
    BY Zenon
  <1>4. clients' = IF Cardinality(DOMAIN left) > MaxClientHistory /\ left[c].open = 0
                   THEN Restrict(left, DOMAIN left \ {c}) ELSE left
    <2>1. left = [rows EXCEPT ![c].open = IF handler[h].opened THEN @ - 1 ELSE @]
      BY <1>2, <1>3, Zenon
    <2>2. QED
      BY <2>1, Zenon DEF FinishClients, IsOf
  <1>5. /\ Open(h) => h \in FlowsOf(c) /\ FlowsOf(c)' = FlowsOf(c) \ {h}
        /\ ~Open(h) => FlowsOf(c)' = FlowsOf(c)
        /\ \A d \in DOMAIN rows : d # c => FlowsOf(d)' = FlowsOf(d)
        /\ FlowsOf(c) \in SUBSET Handler /\ FlowsOf(c)' \in SUBSET Handler
    BY NoFlowIs, Zenon DEF FlowsOf, Open, Leaves, IsOf
  <1>6. /\ Open(h) => Cardinality(FlowsOf(c)') = Cardinality(FlowsOf(c)) - 1
        /\ ~Open(h) => Cardinality(FlowsOf(c)') = Cardinality(FlowsOf(c))
        /\ Cardinality(FlowsOf(c)) \in Nat /\ Cardinality(FlowsOf(c)') \in Nat
    BY <1>5, Count, CountLess, Zenon
  <1>7. row \in ClientRow /\ row.open = Cardinality(FlowsOf(c)')
    BY <1>1, <1>2, <1>6 DEF ClientRow, Open
  <1>8. Written(left, c) /\ left[c] = row
    <2>1. \A d \in DOMAIN rows : d # c => FlowsOf(d)' = FlowsOf(d)
      BY <1>5, Zenon
    <2>2. Written(left, c)
      BY <1>3, <1>7, <2>1, RowWritten, Zenon
    <2>3. QED
      BY <1>1, <1>3, <2>2, Zenon
  <1>9. CASE Cardinality(DOMAIN left) > MaxClientHistory /\ left[c].open = 0
    <2>1. /\ DOMAIN clients' = DOMAIN left \ {c}
          /\ \A d \in DOMAIN left : d # c => clients'[d] = left[d]
      BY <1>4, <1>9, Zenon DEF Restrict
    <2>2. IsFiniteSet(DOMAIN clients')
      <3>1. IsFiniteSet(DOMAIN left \ {c})
        BY <1>8, FS_RemoveElement, Zenon DEF Written
      <3>2. QED
        BY <2>1, <3>1, Zenon
    <2>3. FlowsOf(c)' = {}
      BY <1>5, <1>7, <1>8, <1>9, Count, Zenon
    <2>4. \A g \in Handler : g # h /\ Open(g) => handler[g].client \in DOMAIN clients'
      BY <1>8, <2>1, <2>3, SMTT(30) DEF FlowsOf, Open, Leaves, Written
    <2>5. \A d \in DOMAIN clients' : d \in DOMAIN left /\ clients'[d] = left[d] /\ clients'[d].open > 0
      BY <1>8, <1>9, <2>1, SMTT(30) DEF Written
    <2>6. QED
      BY <1>8, <2>2, <2>4, <2>5, Zenon DEF ClientBooks, Written
  <1>10. CASE ~(Cardinality(DOMAIN left) > MaxClientHistory /\ left[c].open = 0)
    <2>1. clients' = left
      BY <1>4, <1>10, SMTT(30)
    <2>2. left[c].open \in Nat
      BY <1>6, <1>7, <1>8, SMTT(30)
    <2>3. QED
      BY <1>8, <1>10, <2>1, <2>2 DEF ClientBooks, Written
  <1>11. QED
    BY <1>9, <1>10, Zenon

LEMMA FinishedRowGives ==
  ASSUME FlowInv, NEW h \in Handler, NEW x \in Session, x.startedAt <= instant, NEW row,
         row = FinishedRow(h, x)
  PROVE  /\ row \in Session /\ KeyOf(row) = KeyOf(x) /\ row.startedAt = x.startedAt
         /\ row.startedAt <= row.lastSeen /\ row.lastSeen <= instant
         /\ row.active = IF Open(h) THEN x.active - 1 ELSE x.active
  <1> DEFINE y == [x EXCEPT !.lastSeen = instant]
  <1>1. row = [y EXCEPT !.active = IF handler[h].opened THEN @ - 1 ELSE @]
    BY Zenon DEF FinishedRow
  <1>2. /\ y \in Session /\ KeyOf(y) = KeyOf(x) /\ y.startedAt = x.startedAt /\ y.lastSeen = instant
        /\ y.active = x.active
    BY Zenon DEF Session, KeyOf, FlowInv, FlowTypes
  <1> HIDE DEF y
  <1>3. /\ row \in Session /\ KeyOf(row) = KeyOf(y) /\ row.startedAt = y.startedAt
        /\ row.lastSeen = y.lastSeen
        /\ row.active = IF Open(h) THEN y.active - 1 ELSE y.active
    BY <1>1, <1>2 DEF Session, KeyOf, Open
  <1>4. QED
    BY <1>2, <1>3 DEF Session, FlowInv, FlowTypes

LEMMA FinishSessionsGives ==
  ASSUME FlowInv, NEW h \in Handler, Leaves(h), UNCHANGED instant,
         NEW id, NEW table, NEW current, Looked(id, table, current), Open(h) => id = handler[h].session,
         sessions' = [table EXCEPT ![id] = FinishedRow(h, table[id])],
         currentSessions' = current, sessionSequence' = Later(sessionSequence, id)
  PROVE  /\ SessionBooks'
         /\ \A g \in Handler : Open(g) => handler[g].session \in DOMAIN sessions'
  <1>1. PICK row : row = FinishedRow(h, table[id])
    BY Zenon
  <1>2. id \in DOMAIN table /\ table[id] \in Session /\ table[id].active = Cardinality(FlowsIn(id))
    BY Zenon DEF Looked
  <1>3. table[id].startedAt <= instant
    BY DEF Looked, Visits, Session, FlowInv, FlowTypes
  <1>4. /\ row \in Session /\ KeyOf(row) = KeyOf(table[id]) /\ row.startedAt = table[id].startedAt
        /\ row.startedAt <= row.lastSeen /\ row.lastSeen <= instant
        /\ row.active = IF Open(h) THEN table[id].active - 1 ELSE table[id].active
    BY <1>1, <1>2, <1>3, FinishedRowGives, SMTT(30)
  <1>5. /\ Open(h) => h \in FlowsIn(id) /\ FlowsIn(id)' = FlowsIn(id) \ {h}
        /\ ~Open(h) => FlowsIn(id)' = FlowsIn(id)
        /\ \A s \in DOMAIN table : s # id => FlowsIn(s)' = FlowsIn(s)
        /\ FlowsIn(id) \in SUBSET Handler
    BY NoFlowIs, Zenon DEF FlowsIn, Open, Leaves
  <1>6. /\ Open(h) => Cardinality(FlowsIn(id)') = Cardinality(FlowsIn(id)) - 1
        /\ ~Open(h) => Cardinality(FlowsIn(id)') = Cardinality(FlowsIn(id))
    BY <1>5, CountLess, Zenon
  <1>7. row.active = Cardinality(FlowsIn(id)')
    BY <1>2, <1>4, <1>6, Zenon
  <1>8. sessions' = [table EXCEPT ![id] = row]
    BY <1>1, Zenon
  <1>9. QED
    BY <1>4, <1>5, <1>7, <1>8, SetSessionsGives, Zenon

LEMMA FinishInv ==
  ASSUME FlowInv, NEW h \in Handler, Finish(h)
  PROVE  FlowInv'
  <1>1. UNCHANGED <<instant, slots, used, sequence>> /\ handler[h].stage = "finish" /\ Leaves(h)
    BY Zenon DEF Finish, admission, Leaves, FlowInv, FlowTypes, FlowRow
  <1>2. handler'[h] = NoFlow /\ Moves(h)
    BY NoFlowIs, Zenon DEF Leaves, Moves, Finish, FlowInv, FlowTypes
  <1>3. ClientBooks' /\ \A g \in Handler : g # h /\ Open(g) => handler[g].client \in DOMAIN clients'
    <2>1. PICK c \in Client \cup {NoClient} : handler[h].client = c
      BY Zenon DEF FlowInv, FlowTypes, FlowRow
    <2>2. PICK rows \in ClientLocked(c) : clients' = FinishClients(h, rows)
      BY <2>1, Zenon DEF Finish
    <2>3. Refreshed(rows, c)
      BY ClientLockedGives, Zenon
    <2>4. QED
      BY <1>1, <2>1, <2>2, <2>3, FinishClientsGives, Zenon DEF IsOf
  <1>4. SessionBooks' /\ \A g \in Handler : Open(g) => handler[g].session \in DOMAIN sessions'
    <2>1. CASE handler[h].client # NoClient
      <3>1. PICK r \in SessionLocked(h, instant) : SetSessions(r, FinishedRow(h, r.table[r.id]))
        BY <2>1, Zenon DEF Finish
      <3>2. Looked(r.id, r.table, r.current) /\ (Open(h) => r.id = handler[h].session)
        <4>1. instant \in Nat /\ instant <= instant
          BY DEF FlowInv, FlowTypes
        <4>2. QED
          BY <2>1, <4>1, SessionLockedGives, Zenon
      <3>3. QED
        BY <1>1, <3>1, <3>2, FinishSessionsGives, Zenon DEF SetSessions
    <2>2. CASE handler[h].client = NoClient
      <3>1. UNCHANGED <<sessions, currentSessions, sessionSequence, instant>> /\ ~Open(h)
        BY <2>2, Zenon DEF Finish, FlowInv, FlowOrder, InOrder
      <3>2. \A s \in DOMAIN sessions : FlowsIn(s)' = FlowsIn(s)
        BY <1>1, <3>1, NoFlowIs, Zenon DEF FlowsIn, Open, Leaves
      <3>3. \A s \in DOMAIN sessions : sessions[s].active = Cardinality(FlowsIn(s)')
        BY <3>2, ZenonT(30) DEF FlowInv, BooksInv
      <3>4. VisitInv'
        BY <3>1, Zenon DEF FlowInv, VisitInv, Visits
      <3>5. QED
        BY <3>1, <3>3, <3>4, Zenon DEF FlowInv, FlowTypes, BooksInv, FlowOrder, InOrder, SessionBooks
    <2>3. QED
      BY <2>1, <2>2, SMTT(30)
  <1>5. sequence' = tally'.total + tally'.denied + tally'.failed + Cardinality(OnTheWay')
        /\ tally' \in [total : Nat, denied : Nat, failed : Nat]
    <2>1. CASE Open(h)
      <3>1. OnTheWay' = OnTheWay
        BY <1>1, <2>1, NoFlowIs, Zenon DEF OnTheWay, Open, Leaves
      <3>2. UNCHANGED tally
        BY <2>1, Zenon DEF Finish, Open
      <3>3. QED
        BY <1>1, <3>1, <3>2, Zenon DEF FlowInv, FlowTypes, BooksInv
    <2>2. CASE ~Open(h)
      <3>1. OnTheWay' = OnTheWay \ {h} /\ h \in OnTheWay
        BY <1>1, <2>2, NoFlowIs, Zenon DEF OnTheWay, Open, Leaves
      <3>2. Cardinality(OnTheWay') = Cardinality(OnTheWay) - 1 /\ Cardinality(OnTheWay) \in Nat
        BY <3>1, Count, CountLess, Zenon DEF OnTheWay
      <3>3. \/ tally' = [tally EXCEPT !.failed = @ + 1]
            \/ tally' = [tally EXCEPT !.denied = @ + 1]
        BY <2>2, Zenon DEF Finish, Open
      <3>4. QED
        BY <1>1, <3>2, <3>3 DEF FlowInv, FlowTypes, BooksInv
    <2>3. QED
      BY <2>1, <2>2, Zenon
  <1>6. FlowOrder'
    <2>1. InOrder(h)'
      BY <1>1, <1>2, NoFlowIs, SMTT(30) DEF InOrder, Open, Admitted, FlowInv, FlowTypes
    <2>2. ASSUME NEW g \in Handler, g # h PROVE InOrder(g)'
      BY <1>1, <1>3, <1>4, <2>2, SMTT(30) DEF InOrder, Open, FlowInv, FlowOrder, Leaves
    <2>3. QED
      BY <2>1, <2>2, Zenon DEF FlowOrder
  <1>7. AdmissionInv'
    BY <1>1, <1>2, NoFlowIs, SlotsKept, QuotasKept, Zenon DEF AdmissionInv, Slotted, Admitted
  <1>8. FlowTypes'
    BY <1>1, <1>2, <1>3, <1>4, <1>5, ZenonT(30) DEF FlowInv, FlowTypes, Moves, SessionBooks, ClientBooks
  <1>9. BooksInv' /\ VisitInv'
    BY <1>3, <1>4, <1>5, Zenon DEF BooksInv, SessionBooks, ClientBooks
  <1>10. QED
    BY <1>6, <1>7, <1>8, <1>9, Zenon DEF FlowInv

LEMMA FlowNextInv == FlowInv /\ [FlowNext]_flowVars => FlowInv'
  <1> SUFFICES ASSUME FlowInv, [FlowNext]_flowVars PROVE FlowInv'
    BY Zenon
  <1>1. CASE FlowTick \/ UNCHANGED flowVars
    <2>1. UNCHANGED <<handler, slots, used, sequence, tally, sessions, currentSessions,
                      sessionSequence, clients>> /\ (instant' = instant \/ instant' = instant + 1)
      BY <1>1, Zenon DEF FlowTick, flowVars, admission, books
    <2>2. UNCHANGED <<SlotHolders, OnTheWay>>
          /\ \A x : UNCHANGED <<QuotaHolders(x), FlowsIn(x), FlowsOf(x)>>
      BY <2>1, Zenon DEF SlotHolders, OnTheWay, QuotaHolders, FlowsIn, FlowsOf, Open
    <2>3. AdmissionInv' /\ BooksInv'
      BY <2>1, <2>2, Zenon DEF FlowInv, AdmissionInv, BooksInv
    <2>4. FlowTypes'
      BY <2>1 DEF FlowInv, FlowTypes
    <2>5. FlowOrder'
      BY <2>1 DEF FlowInv, FlowTypes, FlowRow, FlowOrder, InOrder, Open
    <2>6. VisitInv'
      BY <2>1 DEF FlowInv, FlowTypes, Session, VisitInv, Visits
    <2>7. QED
      BY <2>3, <2>4, <2>5, <2>6, Zenon DEF FlowInv
  <1>2. ASSUME NEW h \in Handler, Step(h) PROVE FlowInv'
    <2>1. CASE ReleaseQuota(h)
      <3>1. KeyOf(handler[h]) \in Key
        BY <2>1, Zenon DEF FlowInv, FlowTypes, FlowRow, FlowOrder, InOrder, ReleaseQuota, Admitted, KeyOf, Key
      <3>2. QED
        BY <2>1, <3>1, QuotaInv, Zenon
    <2>2. QED
      BY <1>2, <2>1, BeginInv, RejectInv, RejectQuotaInv, SlotInv, QuotaInv, ConnectedInv, FinishInv, Zenon
      DEF Step
  <1>3. QED
    BY <1>1, <1>2, Zenon DEF FlowNext, Exhausted

(* The inductive invariant of admission, books and visits.                 *)
THEOREM FlowInvariant == FlowSpec => []FlowInv
  BY FlowInitInv, FlowNextInv, PTL DEF FlowSpec

(* For any number of handlers, clients and limits: the slots and quotas    *)
(* are held by exactly the handlers between acquisition and deferred       *)
(* release, on every path out of ServeHTTP, and stay within their limits   *)
(* (relay/main.go, limits.go).                                             *)
THEOREM AdmissionExactTheorem == FlowSpec => []AdmissionExact
  <1>1. FlowInv => AdmissionExact
    BY Zenon DEF FlowInv, AdmissionInv, AdmissionExact, SlotHolders, QuotaHolders
  <1>2. QED
    BY <1>1, FlowInvariant, PTL

(* For any history limits: the live counts of sessions and clients are the *)
(* open flows, eviction never takes what is live, the tables outgrow their *)
(* limits only by what is live, and every request is counted once          *)
(* (relay/activity.go, sessions.go, clients.go).                           *)
THEOREM BooksExactTheorem == FlowSpec => []BooksExact
  <1>1. FlowInv => BooksExact
    <2> SUFFICES ASSUME FlowInv PROVE BooksExact
      BY Zenon
    <2>1. \A h \in Handler : Open(h) =>
            handler[h].session \in DOMAIN sessions /\ handler[h].client \in DOMAIN clients
      BY Zenon DEF FlowInv, FlowOrder, InOrder
    <2>2. QED
      BY <2>1, Zenon DEF FlowInv, BooksInv, BooksExact, FlowsIn, FlowsOf, OnTheWay
  <1>2. QED
    BY <1>1, FlowInvariant, PTL

(* For any idle time: a key has one live visit, its current session, and   *)
(* a later visit starts more than the idle time after the last sign of     *)
(* life of an earlier one, although rejected requests and requests that    *)
(* were long under way touch sessions too (relay/sessions.go               *)
(* sessionLocked).                                                         *)
THEOREM VisitsApartTheorem == FlowSpec => []VisitsApart
  <1>1. FlowInv => VisitsApart
    BY Zenon DEF FlowInv, VisitInv, Visits, VisitsApart
  <1>2. QED
    BY <1>1, FlowInvariant, PTL
=============================================================================
