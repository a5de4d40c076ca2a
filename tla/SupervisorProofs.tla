-------------------------- MODULE SupervisorProofs --------------------------
(***************************************************************************)
(* The VPN container, its management interface, the move from the old      *)
(* layout, the recovery of the database, the signer of profiles and the    *)
(* history of the relay's connections, one section each.                   *)
(*                                                                         *)
(* The supervisor never leaves an OpenVPN behind and kills only a silent   *)
(* one, for every StatusMinutes and MaxUnhealthy.  The first needs only    *)
(* the loop's control; the second needs the relation between the counter   *)
(* UNHEALTHY and the minutes the present process has been silent.          *)
(***************************************************************************)
EXTENDS Supervisor, Management, Migration, Recovery, ProfileSigner, RelayHistory, TLAPS

(* A check is still to come for the minute that has passed.                *)
Pending == pc = "health" \/ (pc = "wait" /\ due)

(* The counter is not ahead of the silence of this process, unless the     *)
(* status file is so young that the next check starts the count again.     *)
Counted ==
    /\ pc = "health" => ~due
    /\ ovpn \in Alive /\ pc \in {"wait", "health"} =>
        IF Pending THEN unhealthy + 1 <= silent \/ age < StatusMinutes
                   ELSE unhealthy <= silent \/ age + 1 < StatusMinutes

SupervisorInv == SupervisorTypeOK /\ NoOrphan /\ Counted

LEMMA InitInv == SupervisorInit => SupervisorInv
  <1> SUFFICES ASSUME SupervisorInit PROVE SupervisorInv
    BY Zenon
  <1>1. SupervisorTypeOK
    <2>1. unhealthy \in 0..(MaxUnhealthy - 1) /\ age \in Nat /\ silent \in Nat
      BY SupervisorAssumption DEF SupervisorInit
    <2>2. QED
      BY <2>1, Zenon DEF SupervisorInit, SupervisorTypeOK
  <1>2. NoOrphan /\ Counted
    BY Zenon DEF SupervisorInit, NoOrphan, Counted, Alive
  <1>3. QED
    BY <1>1, <1>2, Zenon DEF SupervisorInv

LEMMA OlderType == ASSUME NEW n \in Nat
                   PROVE  /\ Older(n) \in Nat
                          /\ n < StatusMinutes + MaxUnhealthy => Older(n) = n + 1
                          /\ Older(n) <= n + 1
                          /\ n >= StatusMinutes + MaxUnhealthy => Older(n) = n
  BY SupervisorAssumption DEF Older

(* Every step of the script, of the signal handler and of OpenVPN keeps    *)
(* the invariant.                                                          *)
LEMMA NextInv == SupervisorInv /\ [SupervisorNext]_supervisorVars => SupervisorInv'
  <1> SUFFICES ASSUME SupervisorInv, [SupervisorNext]_supervisorVars PROVE SupervisorInv'
    BY Zenon
  <1> USE SupervisorAssumption
  <1>0. 0 \in 0..(MaxUnhealthy - 1)
    OBVIOUS
  <1> USE DEF SupervisorInv, SupervisorTypeOK, NoOrphan, Counted, Pending, Alive, Ended
  <1>1. CASE Prepare
    BY <1>1, Zenon DEF Prepare
  <1>2. CASE CheckStop
    BY <1>2, Zenon DEF CheckStop
  <1>3. CASE Spawn
    BY <1>3, Zenon DEF Spawn
  <1>4. CASE RecordPid
    BY <1>4, Zenon DEF RecordPid
  <1>5. CASE Again
    <2>1. term' \in BOOLEAN
      BY <1>5, Zenon DEF Again
    <2>2. SupervisorTypeOK'
      BY <1>5, <1>0, <2>1, Zenon DEF Again
    <2>3. NoOrphan' /\ Counted'
      BY <1>5 DEF Again
    <2>4. QED
      BY <2>2, <2>3, Zenon
  <1>6. CASE Wait
    BY <1>6, Zenon DEF Wait
  <1>7. CASE Maintain
    <2> DEFINE n == IF Healthy THEN 0 ELSE unhealthy + 1
    <2>1. CASE n >= MaxUnhealthy
      BY <1>7, <2>1 DEF Maintain
    <2>2. CASE ~(n >= MaxUnhealthy)
      <3>1. unhealthy' = n /\ ovpn' = ovpn /\ n \in 0..(MaxUnhealthy - 1)
        BY <1>7, <2>2 DEF Maintain
      <3>2. SupervisorTypeOK'
        BY <1>7, <3>1, Zenon DEF Maintain
      <3>3. NoOrphan' /\ Counted'
        BY <1>7, <3>1 DEF Maintain, Healthy
      <3>4. QED
        BY <3>2, <3>3, Zenon
    <2>3. QED
      BY <2>1, <2>2, Zenon
  <1>8. CASE Reap
    BY <1>8, Zenon DEF Reap
  <1>9. CASE Pause
    BY <1>9, Zenon DEF Pause
  <1>10. CASE OnTerm
    <2>1. stop' \in BOOLEAN /\ term' \in BOOLEAN
      BY <1>10, Zenon DEF OnTerm
    <2>2. SupervisorTypeOK'
      BY <1>10, <2>1, Zenon DEF OnTerm
    <2>3. NoOrphan' /\ Counted'
      BY <1>10, Zenon DEF OnTerm
    <2>4. QED
      BY <2>2, <2>3, Zenon
  <1>11. CASE Boot
    <2>1. SupervisorTypeOK'
      BY <1>11, <1>0, Zenon DEF Boot
    <2>2. NoOrphan' /\ Counted'
      BY <1>11, Zenon DEF Boot
    <2>3. QED
      BY <2>1, <2>2, Zenon
  <1>12. CASE ComeUp
    BY <1>12 DEF ComeUp
  <1>13. CASE Hangs
    BY <1>13, Zenon DEF Hangs
  <1>14. CASE Exit
    BY <1>14, Zenon DEF Exit
  <1>15. CASE Minute
    BY <1>15, OlderType DEF Minute
  <1>16. CASE UNCHANGED supervisorVars
    BY <1>16 DEF supervisorVars
  <1>17. QED
    BY <1>1, <1>2, <1>3, <1>4, <1>5, <1>6, <1>7, <1>8, <1>9, <1>10, <1>11, <1>12,
       <1>13, <1>14, <1>15, <1>16, Zenon DEF SupervisorNext, Loop

(* The inductive invariant holds in every state of the supervisor.         *)
THEOREM SupervisorInvariant == SupervisorSpec => []SupervisorInv
  BY InitInv, NextInv, PTL DEF SupervisorSpec

(* UNHEALTHY stays below the limit at which maintain kills OpenVPN.        *)
THEOREM SupervisorTypeCorrect == SupervisorSpec => []SupervisorTypeOK
  <1>1. SupervisorInv => SupervisorTypeOK
    BY Zenon DEF SupervisorInv
  <1>2. QED
    BY <1>1, SupervisorInvariant, PTL

(* The script never pauses, starts anew or ends while OpenVPN runs.        *)
THEOREM NoOrphanTheorem == SupervisorSpec => []NoOrphan
  <1>1. SupervisorInv => NoOrphan
    BY Zenon DEF SupervisorInv
  <1>2. QED
    BY <1>1, SupervisorInvariant, PTL

(* maintain kills only an OpenVPN that has been silent for MaxUnhealthy    *)
(* minutes.                                                                *)
THEOREM KillsOnlySilentTheorem == SupervisorSpec => KillsOnlySilent
  <1> DEFINE Kill == pc = "health" /\ ovpn \in Alive /\ ovpn' = "dead" /\ pc' = "wait"
  <1>1. SupervisorInv /\ [SupervisorNext]_supervisorVars => [Kill => silent >= MaxUnhealthy]_supervisorVars
    <2> SUFFICES ASSUME SupervisorInv, SupervisorNext, Kill PROVE silent >= MaxUnhealthy
      BY Zenon
    <2>1. Maintain
      BY Zenon DEF SupervisorNext, Loop, Prepare, CheckStop, Spawn, RecordPid, Again, Wait, Reap,
             Pause, OnTerm, Boot, ComeUp, Hangs, Exit, Minute, Ended
    <2>2. QED
      BY <2>1, SupervisorAssumption
      DEF Maintain, Healthy, SupervisorInv, SupervisorTypeOK, Counted, Pending, Alive
  <1>2. QED
    BY <1>1, SupervisorInvariant, PTL DEF SupervisorSpec, KillsOnlySilent

-----------------------------------------------------------------------------
(* The management connection.  At most one command is under way, so both   *)
(* directions of a connection hold at most one message.                    *)
Message == [cmd : Command, op : {"load-stats", "kill", "signal"}]
SpeakerState == [op : {"none", "load-stats", "kill", "signal"}, cmd : 0..MaxCommands,
                 attempt : 0..2, at : {"idle", "send", "read"}]

TalkTypes ==
    /\ sock \in Nat /\ links \in Nat /\ served \in Nat /\ sent \in 0..MaxCommands
    /\ inbox = <<>> \/ \E m \in Message : inbox = <<m>>
    /\ outbox = <<>> \/ \E c \in Command : outbox = <<c>>
    /\ speaker \in [Speaker -> SpeakerState]
    /\ carried \in [Command -> Nat] /\ answered \in [Command -> 0..MaxCommands]

(* The lock: one speaker, and the latest command is its own.               *)
OneTalks ==
    /\ \A s, r \in Speaker : speaker[s].at # "idle" /\ speaker[r].at # "idle" => s = r
    /\ \A s \in Speaker : speaker[s].at = "idle" <=> speaker[s] = Silent
    /\ \A s \in Speaker : speaker[s].at # "idle" =>
         speaker[s].cmd = sent /\ sent > 0 /\ speaker[s].attempt \in {1, 2} /\ speaker[s].op # "none"

(* An open connection carries the command that is being read and nothing   *)
(* else, its request or its answer.                                        *)
LineClear ==
    /\ sock = 0 => outbox = <<>>
    /\ served = 0 => inbox = <<>>
    /\ sock # 0 => served \in {sock, 0}
    /\ sock # 0 /\ (\A s \in Speaker : speaker[s].at # "read") => inbox = <<>> /\ outbox = <<>>
    /\ \A s \in Speaker : speaker[s].at = "read" =>
        /\ sock # 0
        /\ inbox # <<>> => Head(inbox).cmd = speaker[s].cmd
        /\ outbox # <<>> => inbox = <<>> /\ Head(outbox) = speaker[s].cmd

(* A command is carried out once for each time it was sent, at most.       *)
InLine(queue, c) == IF queue # <<>> /\ Head(queue).cmd = c THEN 1 ELSE 0
SendsCounted ==
    /\ \A c \in Command : carried[c] + InLine(inbox, c) <= 2
    /\ \A c \in Command : c > sent => carried[c] + InLine(inbox, c) = 0
    /\ \A s \in Speaker :
        /\ speaker[s].at = "send" => carried[sent] + InLine(inbox, sent) < speaker[s].attempt
        /\ speaker[s].at = "read" => carried[sent] + InLine(inbox, sent) <= speaker[s].attempt

AnswersTrue ==
    /\ \A c \in Command : answered[c] # 0 => answered[c] = c /\ carried[c] > 0
    /\ outbox # <<>> => carried[Head(outbox)] > 0

ManagementInv == TalkTypes /\ OneTalks /\ LineClear /\ SendsCounted /\ AnswersTrue

LEMMA ManagementInitInv == ManagementInit => ManagementInv
  <1> SUFFICES ASSUME ManagementInit PROVE ManagementInv
    BY Zenon
  <1> USE ManagementAssumption DEF ManagementInit, Silent
  <1>1. TalkTypes
    BY DEF TalkTypes, SpeakerState
  <1>2. OneTalks
    BY Zenon DEF OneTalks
  <1>3. LineClear
    BY Zenon DEF LineClear
  <1>4. SendsCounted /\ AnswersTrue
    BY DEF SendsCounted, AnswersTrue, InLine, Command
  <1>5. QED
    BY <1>1, <1>2, <1>3, <1>4, Zenon DEF ManagementInv

LEMMA SilentIsIdle == Silent.at = "idle" /\ Silent \in SpeakerState
  BY ManagementAssumption DEF Silent, SpeakerState

(* A step of the speaker who has the lock, or takes it.                    *)
Speaks(state) ==
    /\ state.at \in {"send", "read"} /\ state.cmd = sent /\ sent > 0
    /\ state.attempt \in {1, 2} /\ state.op # "none"

LEMMA OneSpeaks ==
    ASSUME OneTalks, NEW s \in Speaker,
           \A r \in Speaker : r # s => speaker[r].at = "idle" /\ speaker'[r] = speaker[r],
           speaker'[s] = Silent \/ Speaks(speaker[s])'
    PROVE  OneTalks'
  <1>1. \A r \in Speaker : r # s => speaker'[r] = Silent
    BY Zenon DEF OneTalks
  <1>2. CASE speaker'[s] = Silent
    BY <1>1, <1>2, SilentIsIdle, Zenon DEF OneTalks
  <1>3. CASE Speaks(speaker[s])'
    <2>1. speaker'[s].at # "idle" /\ speaker'[s] # Silent
      BY <1>3, SilentIsIdle, Zenon DEF Speaks
    <2>2. QED
      BY <1>1, <1>3, <2>1, SilentIsIdle, Zenon DEF OneTalks, Speaks
  <1>4. QED
    BY <1>2, <1>3, Zenon

LEMMA commandInv ==
    ASSUME ManagementInv, NEW s \in Speaker, command(s)
    PROVE  ManagementInv'
  <1> USE ManagementAssumption DEF ManagementInv
  <1>1. PICK op \in {"load-stats", "kill", "signal"} :
          speaker' = [speaker EXCEPT ![s] =
                       [op |-> op, cmd |-> sent + 1, attempt |-> 1, at |-> "send"]]
    BY Zenon DEF command
  <1>2. /\ sent < MaxCommands /\ sent' = sent + 1
        /\ UNCHANGED <<sock, links, inbox, outbox, serving, served, carried, answered>>
        /\ \A r \in Speaker : speaker[r].at = "idle"
    BY Zenon DEF command, LockHeld, Talking, OneTalks
  <1>3. /\ speaker'[s].cmd = sent + 1 /\ speaker'[s].attempt = 1 /\ speaker'[s].at = "send"
        /\ speaker'[s].op # "none" /\ speaker' \in [Speaker -> SpeakerState]
        /\ \A r \in Speaker : r # s => speaker'[r] = speaker[r]
    BY <1>1, <1>2 DEF TalkTypes, SpeakerState
  <1>4. TalkTypes'
    BY <1>2, <1>3 DEF TalkTypes
  <1>5. OneTalks'
    <2>1. Speaks(speaker[s])'
      BY <1>2, <1>3 DEF Speaks, TalkTypes
    <2>2. QED
      BY <1>2, <1>3, <2>1, OneSpeaks, Zenon
  <1>6. LineClear'
    BY <1>2, <1>3, Zenon DEF LineClear
  <1>7. SendsCounted'
    <2>1. sent \in Nat /\ sent' \in Command /\ sent' > sent
      BY <1>2 DEF TalkTypes, Command
    <2>2. carried'[sent'] + InLine(inbox', sent') = 0
      BY <1>2, <2>1, Zenon DEF SendsCounted
    <2>3. \A c \in Command : c > sent' => c > sent
      BY <2>1 DEF Command
    <2>4. QED
      BY <1>2, <1>3, <2>2, <2>3 DEF SendsCounted
  <1>8. AnswersTrue'
    BY <1>2, Zenon DEF AnswersTrue
  <1>9. QED
    BY <1>4, <1>5, <1>6, <1>7, <1>8, Zenon

LEMMA connectInv ==
    ASSUME ManagementInv, NEW s \in Speaker, connect(s)
    PROVE  ManagementInv'
  <1> USE DEF ManagementInv
  <1>1. /\ speaker[s].at = "send" /\ inbox = <<>>
        /\ sock' = links + 1 /\ served' = links + 1 /\ links' = links + 1 /\ outbox' = <<>>
        /\ UNCHANGED <<inbox, speaker, sent, carried, answered>>
    BY Zenon DEF connect
  <1>2. TalkTypes'
    BY <1>1 DEF TalkTypes
  <1>3. \A r \in Speaker : speaker[r].at # "read"
    BY <1>1, Zenon DEF OneTalks
  <1>4. LineClear'
    BY <1>1, <1>3, Zenon DEF LineClear, TalkTypes
  <1>5. OneTalks' /\ SendsCounted' /\ AnswersTrue'
    BY <1>1, Zenon DEF OneTalks, SendsCounted, AnswersTrue
  <1>6. QED
    BY <1>2, <1>4, <1>5, Zenon

(* Of the speaker who has the lock.                                        *)
LEMMA Alone ==
    ASSUME ManagementInv, NEW s \in Speaker, speaker[s].at # "idle"
    PROVE  /\ \A r \in Speaker : r # s => speaker[r].at = "idle"
           /\ speaker[s].cmd = sent /\ sent \in Command /\ sent > 0
           /\ speaker[s].attempt \in {1, 2} /\ speaker[s].op \in {"load-stats", "kill", "signal"}
  BY DEF ManagementInv, OneTalks, TalkTypes, SpeakerState, Command

LEMMA OneMessage ==
    ASSUME NEW x
    PROVE  /\ Append(<<>>, x) = <<x>> /\ <<x>> # <<>> /\ Head(<<x>>) = x /\ Tail(<<x>>) = <<>>
  OBVIOUS

LEMMA sendallInv ==
    ASSUME ManagementInv, NEW s \in Speaker, sendall(s)
    PROVE  ManagementInv'
  <1> USE DEF ManagementInv
  <1> DEFINE m == [cmd |-> speaker[s].cmd, op |-> speaker[s].op]
  <1>1. /\ speaker[s].at = "send" /\ sock # 0
        /\ speaker' = [speaker EXCEPT ![s].at = "read"]
        /\ inbox' = IF sock = served THEN Append(inbox, m) ELSE inbox
        /\ UNCHANGED <<sock, links, outbox, served, sent, carried, answered>>
    BY Zenon DEF sendall
  <1>2. /\ \A r \in Speaker : r # s => speaker[r].at = "idle"
        /\ speaker[s].cmd = sent /\ sent \in Command /\ sent > 0
        /\ speaker[s].attempt \in {1, 2} /\ speaker[s].op \in {"load-stats", "kill", "signal"}
    BY <1>1, Alone, Zenon
  <1>3. /\ speaker'[s].at = "read" /\ speaker'[s].cmd = sent /\ speaker'[s].op = speaker[s].op
        /\ speaker'[s].attempt = speaker[s].attempt
        /\ speaker' \in [Speaker -> SpeakerState]
        /\ \A r \in Speaker : r # s => speaker'[r] = speaker[r]
    BY <1>1, <1>2, Zenon DEF TalkTypes, SpeakerState
  <1>4. inbox = <<>> /\ outbox = <<>>
    BY <1>1, <1>2, Zenon DEF LineClear
  <1>5. m \in Message /\ m.cmd = sent
    BY <1>2, Zenon DEF Message
  <1> HIDE DEF m
  <1>6. inbox' = <<>> \/ (inbox' = <<m>> /\ served = sock)
    BY <1>1, <1>4, OneMessage, Zenon
  <1>7. TalkTypes'
    BY <1>1, <1>3, <1>5, <1>6, Zenon DEF TalkTypes
  <1>8. OneTalks'
    <2>1. Speaks(speaker[s])'
      BY <1>1, <1>2, <1>3, Zenon DEF Speaks
    <2>2. QED
      BY <1>2, <1>3, <2>1, OneSpeaks, Zenon
  <1>9. LineClear'
    BY <1>1, <1>2, <1>3, <1>4, <1>5, <1>6, OneMessage DEF LineClear
  <1>10. SendsCounted'
    <2>1. \A c \in Command : /\ InLine(inbox, c) = 0
                             /\ InLine(inbox', c) \in {0, 1}
                             /\ c # sent => InLine(inbox', c) = 0
      BY <1>4, <1>5, <1>6, OneMessage, Zenon DEF InLine
    <2>2. carried[sent] < speaker[s].attempt /\ carried[sent] \in Nat
      BY <1>1, <1>2, <2>1 DEF SendsCounted, TalkTypes
    <2>3. carried[sent] + InLine(inbox', sent) <= speaker[s].attempt
      BY <1>2, <2>1, <2>2
    <2>4. \A c \in Command : carried[c] + InLine(inbox', c) <= 2
      BY <1>2, <2>1, <2>3 DEF SendsCounted, TalkTypes
    <2>5. \A c \in Command : c > sent => carried[c] + InLine(inbox', c) = 0
      BY <1>2, <2>1 DEF SendsCounted, Command
    <2>6. QED
      BY <1>1, <1>2, <1>3, <2>3, <2>4, <2>5, Zenon DEF SendsCounted
  <1>11. AnswersTrue'
    BY <1>1, Zenon DEF AnswersTrue
  <1>12. QED
    BY <1>7, <1>8, <1>9, <1>10, <1>11, Zenon

LEMMA answerInv ==
    ASSUME ManagementInv, NEW s \in Speaker, answer(s)
    PROVE  ManagementInv'
  <1> USE DEF ManagementInv
  <1>1. /\ speaker[s].at = "read" /\ outbox # <<>>
        /\ answered' = [answered EXCEPT ![speaker[s].cmd] = Head(outbox)]
        /\ speaker' = [speaker EXCEPT ![s] = Silent]
        /\ sock' \in {sock, 0} /\ UNCHANGED <<inbox, links, served, sent, carried>>
    BY Zenon DEF answer, close
  <1>2. /\ \A r \in Speaker : r # s => speaker[r].at = "idle"
        /\ speaker[s].cmd = sent /\ sent \in Command
    BY <1>1, Alone, Zenon
  <1>3. /\ speaker'[s] = Silent /\ speaker' \in [Speaker -> SpeakerState]
        /\ \A r \in Speaker : r # s => speaker'[r] = speaker[r]
        /\ \A r \in Speaker : speaker'[r].at = "idle"
    BY <1>1, <1>2, SilentIsIdle, Zenon DEF TalkTypes
  <1>4. Head(outbox) = sent /\ inbox = <<>> /\ carried[sent] > 0
    BY <1>1, <1>2, Zenon DEF LineClear, AnswersTrue
  <1>5. outbox' = <<>>
    <2>1. PICK c \in Command : outbox = <<c>>
      BY <1>1, Zenon DEF TalkTypes
    <2>2. QED
      BY <2>1, OneMessage, Zenon DEF answer, close
  <1>6. TalkTypes'
    BY <1>1, <1>2, <1>3, <1>4, <1>5 DEF TalkTypes, Command
  <1>7. OneTalks'
    BY <1>2, <1>3, OneSpeaks, Zenon
  <1>8. LineClear'
    BY <1>1, <1>3, <1>4, <1>5, Zenon DEF LineClear
  <1>9. SendsCounted'
    BY <1>1, <1>3, Zenon DEF SendsCounted
  <1>10. AnswersTrue'
    BY <1>1, <1>2, <1>4, <1>5, Zenon DEF AnswersTrue, TalkTypes
  <1>11. QED
    BY <1>6, <1>7, <1>8, <1>9, <1>10, Zenon

LEMMA failsInv ==
    ASSUME ManagementInv, NEW s \in Speaker, fails(s)
    PROVE  ManagementInv'
  <1> USE DEF ManagementInv
  <1>1. /\ sock' = 0 /\ outbox' = <<>>
        /\ speaker' = [speaker EXCEPT ![s] =
                         IF @.attempt = 1 THEN [@ EXCEPT !.attempt = 2, !.at = "send"] ELSE Silent]
        /\ UNCHANGED <<inbox, links, served, sent, carried, answered>>
    BY Zenon DEF fails, close
  <1>2. speaker[s].at # "idle"
    BY Zenon DEF fails, Talking, OneTalks
  <1>3. /\ \A r \in Speaker : r # s => speaker[r].at = "idle"
        /\ speaker[s].cmd = sent /\ sent \in Command /\ sent > 0
        /\ speaker[s].attempt \in {1, 2} /\ speaker[s].op \in {"load-stats", "kill", "signal"}
    BY <1>2, Alone, Zenon
  <1>4. /\ speaker' \in [Speaker -> SpeakerState]
        /\ \A r \in Speaker : r # s => speaker'[r] = speaker[r]
        /\ \/ speaker'[s] = Silent
           \/ /\ speaker[s].attempt = 1 /\ speaker'[s].attempt = 2 /\ speaker'[s].at = "send"
              /\ speaker'[s].cmd = sent /\ speaker'[s].op = speaker[s].op
    <2>1. speaker \in [Speaker -> SpeakerState] /\ speaker[s] \in SpeakerState
      BY Zenon DEF TalkTypes
    <2>2. CASE speaker[s].attempt = 1
      <3> DEFINE n == [speaker[s] EXCEPT !.attempt = 2, !.at = "send"]
      <3>1. /\ n \in SpeakerState /\ n.attempt = 2 /\ n.at = "send"
            /\ n.cmd = sent /\ n.op = speaker[s].op
        <4>1. n \in SpeakerState
          <5>1. [speaker[s] EXCEPT !.attempt = 2] \in SpeakerState
            BY <2>1 DEF SpeakerState
          <5>2. QED
            BY <5>1, Zenon DEF SpeakerState
        <4>2. n.attempt = 2 /\ n.at = "send" /\ n.cmd = speaker[s].cmd /\ n.op = speaker[s].op
          BY <2>1, Zenon DEF SpeakerState
        <4>3. QED
          BY <1>3, <4>1, <4>2, Zenon
      <3>2. speaker' = [speaker EXCEPT ![s] = n]
        BY <1>1, <2>2, Zenon
      <3> HIDE DEF n
      <3>3. /\ speaker' \in [Speaker -> SpeakerState] /\ speaker'[s] = n
            /\ \A r \in Speaker : r # s => speaker'[r] = speaker[r]
        BY <2>1, <3>1, <3>2, Zenon
      <3>4. QED
        BY <2>2, <3>1, <3>3, Zenon
    <2>3. CASE speaker[s].attempt # 1
      BY <1>1, <2>1, <2>3, SilentIsIdle, Zenon
    <2>4. QED
      BY <2>2, <2>3, Zenon
  <1>5. \A r \in Speaker : speaker'[r].at # "read"
    BY <1>3, <1>4, SilentIsIdle, Zenon
  <1>6. TalkTypes'
    BY <1>1, <1>4, Zenon DEF TalkTypes
  <1>7. OneTalks'
    <2>1. speaker'[s] = Silent \/ Speaks(speaker[s])'
      BY <1>1, <1>3, <1>4, Zenon DEF Speaks
    <2>2. QED
      BY <1>3, <1>4, <2>1, OneSpeaks, Zenon
  <1>8. LineClear'
    BY <1>1, <1>5, Zenon DEF LineClear
  <1>9. SendsCounted'
    <2>1. speaker[s].at \in {"send", "read"}
      BY <1>2, Zenon DEF TalkTypes, SpeakerState
    <2>2. speaker[s].attempt = 1 => carried[sent] + InLine(inbox, sent) < 2
      BY <1>3, <2>1 DEF SendsCounted, TalkTypes, InLine
    <2>3. QED
      BY <1>1, <1>3, <1>4, <1>5, <2>2, SilentIsIdle, Zenon DEF SendsCounted
  <1>10. AnswersTrue'
    BY <1>1, Zenon DEF AnswersTrue
  <1>11. QED
    BY <1>6, <1>7, <1>8, <1>9, <1>10, Zenon

(* OpenVPN carries out the one command of the line.                        *)
LEMMA PerformInv ==
    ASSUME ManagementInv, Perform
    PROVE  ManagementInv'
  <1> USE DEF ManagementInv
  <1>1. PICK m \in Message : inbox = <<m>>
    BY Zenon DEF Perform, TalkTypes
  <1>2. m.cmd \in Command /\ Head(inbox) = m /\ Tail(inbox) = <<>> /\ inbox # <<>>
    BY <1>1, OneMessage, Zenon DEF Message
  <1>3. /\ carried' = [carried EXCEPT ![m.cmd] = @ + 1]
        /\ outbox' = outbox \/ (served = sock /\ outbox' = Append(outbox, m.cmd))
        /\ inbox' = <<>> /\ served' \in {served, 0}
        /\ UNCHANGED <<sock, links, speaker, sent, answered>>
    BY <1>2, Zenon DEF Perform
  <1>4. \A s \in Speaker : speaker[s].at = "read" => m.cmd = sent /\ outbox = <<>>
    BY <1>2, Zenon DEF LineClear, OneTalks
  <1>5. sock # 0 => \E s \in Speaker : speaker[s].at = "read"
    BY <1>2, Zenon DEF LineClear
  <1>6. outbox = <<>>
    BY <1>4, <1>5, Zenon DEF LineClear
  <1>7. outbox' = <<>> \/ (outbox' = <<m.cmd>> /\ sock # 0)
    BY <1>2, <1>3, <1>6, OneMessage, Zenon DEF LineClear
  <1>8. /\ carried' \in [Command -> Nat] /\ carried'[m.cmd] > 0
        /\ \A c \in Command : carried'[c] >= carried[c]
        /\ \A c \in Command :
             carried'[c] + InLine(inbox', c) = carried[c] + InLine(inbox, c)
    BY <1>2, <1>3 DEF TalkTypes, InLine
  <1>9. TalkTypes'
    BY <1>2, <1>3, <1>7, <1>8 DEF TalkTypes
  <1>10. OneTalks'
    BY <1>3, Zenon DEF OneTalks
  <1>11. LineClear'
    BY <1>3, <1>4, <1>5, <1>7, OneMessage DEF LineClear, OneTalks
  <1>12. SendsCounted'
    <2>1. \A s \in Speaker : speaker[s].at # "idle" => sent \in Command
      BY Alone, Zenon
    <2>2. QED
      BY <1>3, <1>8, <2>1, Zenon DEF SendsCounted
  <1>13. AnswersTrue'
    BY <1>2, <1>3, <1>7, <1>8, OneMessage, Zenon DEF AnswersTrue, TalkTypes
  <1>14. QED
    BY <1>9, <1>10, <1>11, <1>12, <1>13, Zenon

(* A dropped connection, an exit and a start take no message further.      *)
LEMMA LostInv ==
    ASSUME ManagementInv, inbox' \in {inbox, <<>>}, served' \in {served, 0},
           served' = 0 => inbox' = <<>>,
           UNCHANGED <<sock, links, outbox, speaker, sent, carried, answered>>
    PROVE  ManagementInv'
  <1> USE DEF ManagementInv
  <1>1. TalkTypes'
    BY DEF TalkTypes
  <1>2. OneTalks' /\ LineClear' /\ AnswersTrue'
    BY Zenon DEF OneTalks, LineClear, AnswersTrue
  <1>3. SendsCounted'
    <2>1. \A c : InLine(inbox', c) \in Nat /\ InLine(inbox', c) <= InLine(inbox, c)
      BY DEF InLine
    <2>2. \A c : InLine(inbox, c) \in Nat
      BY Zenon DEF InLine
    <2>3. \A c \in Command : carried[c] \in Nat
      BY Zenon DEF TalkTypes
    <2>4. \A s \in Speaker : /\ speaker[s].at # "idle" => sent \in Command
                             /\ speaker[s].attempt \in Nat
      BY Alone DEF TalkTypes, SpeakerState
    <2>5. QED
      BY <2>1, <2>2, <2>3, <2>4, SMTT(30) DEF SendsCounted
  <1>4. QED
    BY <1>1, <1>2, <1>3, Zenon

LEMMA ManagementNextInv == ManagementInv /\ [ManagementNext]_managementVars => ManagementInv'
  <1> SUFFICES ASSUME ManagementInv, [ManagementNext]_managementVars PROVE ManagementInv'
    BY Zenon
  <1>1. ASSUME NEW s \in Speaker,
               command(s) \/ connect(s) \/ sendall(s) \/ answer(s) \/ fails(s)
        PROVE  ManagementInv'
    BY <1>1, commandInv, connectInv, sendallInv, answerInv, failsInv, Zenon
  <1>2. CASE Perform
    BY <1>2, PerformInv, Zenon
  <1>3. CASE DropLink \/ Exits
    BY <1>3, LostInv, Zenon DEF DropLink, Exits
  <1>4. CASE Starts \/ UNCHANGED managementVars
    <2>1. served = 0 => inbox = <<>>
      BY Zenon DEF ManagementInv, LineClear
    <2>2. QED
      BY <1>4, <2>1, LostInv, Zenon DEF Starts, managementVars
  <1>5. QED
    BY <1>1, <1>2, <1>3, <1>4, Zenon DEF ManagementNext

(* However many threads share the management connection, and however late  *)
(* or lost its answers are: a caller gets the answer to its own command,   *)
(* and none is carried out more than twice (ui/app/mgmt.py:88-113).        *)
THEOREM AnswersMatchTheorem == ManagementSpec => []AnswersMatch
  <1>1. ManagementInv => AnswersMatch
    <2>1. \A c : InLine(inbox, c) \in Nat
      BY Zenon DEF InLine
    <2>2. QED
      BY <2>1 DEF ManagementInv, AnswersMatch, AnswersTrue, SendsCounted, TalkTypes
  <1>2. QED
    BY <1>1, ManagementInitInv, ManagementNextInv, PTL DEF ManagementSpec

-----------------------------------------------------------------------------
(* The import of an earlier installation.  A marker without its rows, and  *)
(* a UI that is about to fill an empty database beside a SQLite file,      *)
(* would be the way to mixed or lost rows.                                 *)
MigrationInv ==
    /\ \A one, other \in tables : one = other
    /\ source = "sqlite" => tables = marks /\ tables \subseteq {"sqlite"} /\ start # "new"
    /\ source = "dump" =>
        /\ "dump" \in marks => "dump" \in tables
        /\ \A t \in Tool : tool[t] \in {"mark", "done"} => "dump" \in tables
    /\ DOMAIN tool = Tool

LEMMA MigrationInitInv == MigrationInit => MigrationInv
  BY Zenon DEF MigrationInit, MigrationInv

LEMMA MigrationNextInv == MigrationInv /\ [MigrationNext]_migrationVars => MigrationInv'
  <1> SUFFICES ASSUME MigrationInv, [MigrationNext]_migrationVars PROVE MigrationInv'
    BY Zenon
  <1> USE DEF MigrationInv
  <1>1. ASSUME NEW t \in Tool, import_sqlite(t) PROVE MigrationInv'
    BY <1>1, Zenon DEF import_sqlite, empty_database
  <1>2. ASSUME NEW t \in Tool, restore_dump(t) PROVE MigrationInv'
    BY <1>2, Zenon DEF restore_dump, empty_database
  <1>3. ASSUME NEW t \in Tool, fresh_install(t) PROVE MigrationInv'
    BY <1>3, Zenon DEF fresh_install
  <1>4. CASE bootstrap_ui
    BY <1>4, Zenon DEF bootstrap_ui
  <1>5. CASE cut_short
    BY <1>5, Zenon DEF cut_short
  <1>6. CASE UNCHANGED migrationVars
    BY <1>6, Zenon DEF migrationVars
  <1>7. QED
    BY <1>1, <1>2, <1>3, <1>4, <1>5, <1>6, Zenon DEF MigrationNext

(* Whatever runs of the import and starts of the UI overlap and are cut    *)
(* short: rows of two origins are never mixed, a SQLite file is imported   *)
(* and marked in one step or not at all, and success means the dump's rows *)
(* are there (ui/app/migrate_db.py; bootstrap in ui/app/main.py).          *)
THEOREM ImportedWholeTheorem == MigrationSpec => []ImportedWhole
  <1>1. MigrationInv => ImportedWhole
    BY Zenon DEF MigrationInv, ImportedWhole
  <1>2. QED
    BY <1>1, MigrationInitInv, MigrationNextInv, PTL DEF MigrationSpec

-----------------------------------------------------------------------------
(* The recovery of a checkout.  A file is planned only while it is the old *)
(* commit's, and as long as no run was cut short the stash's files are     *)
(* either in place or planned.                                             *)
RecoveryTypes ==
    /\ head \in {"old", "target"} /\ plan \subseteq Config
    /\ stage \in {"idle", "planned", "merge", "restore", "finished", "refused"}
    /\ DOMAIN file = Config /\ DOMAIN original = Config
    /\ \A n \in Config : original[n] \in {"base", "saved", "own"} /\ stashed[n] \in {"base", "saved"}
    /\ interrupts \in Nat

FirstRun ==
    /\ stage \in {"idle", "planned", "merge"} => head = "old"
    /\ stage \in {"idle", "planned", "merge", "refused"} => file = original
    /\ stage \in {"planned", "merge", "restore", "finished"} =>
        \A n \in Config : stashed[n] # "base" /\ n \notin plan => file[n] = stashed[n]
    /\ stage = "finished" => plan = {}

RecoveryInv ==
    /\ RecoveryTypes
    /\ \A n \in Config : original[n] = "own" => file[n] = "own" /\ n \notin plan
    /\ interrupts = 0 => FirstRun

LEMMA RecoveryInitInv == RecoveryInit => RecoveryInv
  BY DEF RecoveryInit, RecoveryInv, RecoveryTypes, FirstRun

LEMMA RecoveryNextInv == RecoveryInv /\ [RecoveryNext]_recoveryVars => RecoveryInv'
  <1> SUFFICES ASSUME RecoveryInv, [RecoveryNext]_recoveryVars PROVE RecoveryInv'
    BY Zenon
  <1> USE DEF RecoveryInv, RecoveryTypes, FirstRun, inputs
  <1>1. CASE runtime_plan
    BY <1>1, Zenon DEF runtime_plan, Stash, review
  <1>2. CASE stash_code
    BY <1>2, Zenon DEF stash_code
  <1>3. CASE merge
    BY <1>3 DEF merge
  <1>4. CASE restore_runtime
    BY <1>4 DEF restore_runtime
  <1>5. CASE Interrupt
    BY <1>5 DEF Interrupt
  <1>6. CASE UNCHANGED recoveryVars
    BY <1>6, Zenon DEF recoveryVars
  <1>7. QED
    BY <1>1, <1>2, <1>3, <1>4, <1>5, <1>6, Zenon DEF RecoveryNext

(* For any configuration files and any number of interruptions: no run     *)
(* overwrites what only the operator has, and one that was not interrupted *)
(* refuses with everything as it was or puts the stash's files in place    *)
(* (bin/recover-checkout.py).                                              *)
THEOREM RecoveryKeepsTheorem == RecoverySpec => []RecoveryKeeps
  <1>1. RecoveryInv => RecoveryKeeps
    BY Zenon DEF RecoveryInv, FirstRun, RecoveryKeeps
  <1>2. QED
    BY <1>1, RecoveryInitInv, RecoveryNextInv, PTL DEF RecoverySpec

-----------------------------------------------------------------------------
(* The signing service.  A certificate number and the number of the write  *)
(* that brought it belong together: write 2c - 1 brings certificate c, and *)
(* write 2c empties the file again.  So a certificate kept for the store's *)
(* state sig is no older than the store was then, and a request finds the  *)
(* store in a state no older than the certificate it was asked against.    *)
Flagged == BOOLEAN
Request == [at : {"idle", "sign", "locked", "signed", "invalid", "denied", "release", "close"},
            sig : Nat, atLeast : Nat, cert : Nat, left : Flagged]

StoreInv ==
    /\ acme \in [sig : Nat, cert : Nat]
    /\ IF acme.cert = 0 THEN \E k \in Nat : acme.sig = 2 * k ELSE acme.sig + 1 = 2 * acme.cert

KeptInv == \A c \in cached : c.sig \in Nat /\ c.cert \in Nat /\ c.sig <= 2 * c.cert

Recent(r) ==
    /\ 2 * r.atLeast <= acme.sig + 1
    /\ r.at = "locked" => r.sig <= acme.sig /\ 2 * r.atLeast <= r.sig + 1
    /\ r.at = "signed" => r.atLeast <= r.cert

SignerInv ==
    /\ StoreInv /\ KeptInv
    /\ asker \in [Asker -> Request] /\ \A a \in Asker : Recent(asker[a])
    /\ SignedFresh

LEMMA FlaggedHas == TRUE \in Flagged /\ FALSE \in Flagged
  BY Zenon DEF Flagged

LEMMA NoRequestRecent == ASSUME StoreInv PROVE NoRequest \in Request /\ Recent(NoRequest)
  <1>1. NoRequest \in Request
    BY FlaggedHas, Zenon DEF NoRequest, Request
  <1>2. QED
    BY <1>1 DEF NoRequest, Recent, StoreInv

(* A step that leaves the store alone and changes one request.             *)
LEMMA OneRequest ==
    ASSUME SignerInv, NEW a \in Asker, NEW r \in Request, Recent(r),
           asker' = [asker EXCEPT ![a] = r], UNCHANGED acme
    PROVE  asker' \in [Asker -> Request] /\ (\A b \in Asker : Recent(asker[b])') /\ StoreInv'
  <1>1. asker \in [Asker -> Request] /\ \A b \in Asker : Recent(asker[b])
    BY Zenon DEF SignerInv
  <1>2. asker' \in [Asker -> Request] /\ \A b \in Asker : asker'[b] = IF b = a THEN r ELSE asker[b]
    BY <1>1, Zenon
  <1>3. \A b \in Asker : Recent(asker[b])'
    BY <1>1, <1>2, Zenon DEF Recent
  <1>4. QED
    BY <1>2, <1>3, Zenon DEF SignerInv, StoreInv

LEMMA SignerInitInv == SignerInit => SignerInv
  <1> SUFFICES ASSUME SignerInit PROVE SignerInv
    BY Zenon
  <1>1. StoreInv
    BY DEF SignerInit, StoreInv
  <1>2. asker \in [Asker -> Request] /\ \A a \in Asker : Recent(asker[a])
    BY <1>1, NoRequestRecent, Zenon DEF SignerInit
  <1>3. QED
    BY <1>1, <1>2, Zenon DEF SignerInit, SignerInv, KeptInv, SignedFresh

LEMMA sign_profileInv == ASSUME SignerInv, NEW a \in Asker, sign_profile(a) PROVE SignerInv'
  <1>1. CASE asker' = asker /\ \E kind \in {"refused", "unsigned"} : Returns(kind)
    <2>1. acme' = acme /\ cached' = cached
      BY Zenon DEF sign_profile
    <2>2. SignedFresh'
      BY <1>1 DEF Returns, SignedFresh
    <2>3. QED
      BY <1>1, <2>1, <2>2, Zenon DEF SignerInv, StoreInv, KeptInv, Recent
  <1>2. CASE \E at \in {"sign", "denied"} :
                asker' = [asker EXCEPT ![a].at = at, ![a].atLeast = acme.cert] /\ UNCHANGED outcome
    <2>1. PICK at \in {"sign", "denied"} :
                asker' = [asker EXCEPT ![a].at = at, ![a].atLeast = acme.cert] /\ UNCHANGED outcome
      BY <1>2, Zenon
    <2> DEFINE r == [asker[a] EXCEPT !.at = at, !.atLeast = acme.cert]
    <2>2. asker[a] \in Request /\ acme.cert \in Nat
      BY Zenon DEF SignerInv, StoreInv
    <2>3. r \in Request /\ r.at = at /\ r.atLeast = acme.cert
      BY <2>2, Zenon DEF Request
    <2>4. 2 * acme.cert <= acme.sig + 1
      BY DEF SignerInv, StoreInv
    <2>5. Recent(r)
      BY <2>3, <2>4, Zenon DEF Recent
    <2>6. asker' = [asker EXCEPT ![a] = r]
      BY <2>1, Zenon
    <2>7. acme' = acme /\ cached' = cached /\ outcome' = outcome
      BY <2>1, Zenon DEF sign_profile
    <2> HIDE DEF r
    <2>8. QED
      BY <2>3, <2>5, <2>6, <2>7, OneRequest, Zenon DEF SignerInv, KeptInv, SignedFresh
  <1>3. QED
    BY <1>1, <1>2, Zenon DEF sign_profile

LEMMA signInv == ASSUME SignerInv, NEW a \in Asker, sign(a) PROVE SignerInv'
  <1>0. /\ asker[a] \in Request /\ acme \in [sig : Nat, cert : Nat] /\ Recent(asker[a])
        /\ acme' = acme /\ outcome' = outcome
    BY Zenon DEF SignerInv, StoreInv, sign
  <1>1. CASE asker[a].at = "sign" /\ asker' = [asker EXCEPT ![a].at = "invalid"] /\ UNCHANGED cached
    <2> DEFINE r == [asker[a] EXCEPT !.at = "invalid"]
    <2>1. r \in Request /\ Recent(r)
      BY <1>0, Zenon DEF Request, Recent
    <2>2. asker' = [asker EXCEPT ![a] = r]
      BY <1>1, Zenon
    <2> HIDE DEF r
    <2>3. QED
      BY <1>0, <1>1, <2>1, <2>2, OneRequest, Zenon DEF SignerInv, KeptInv, SignedFresh
  <1>2. CASE /\ asker[a].at = "sign" /\ asker' = [asker EXCEPT ![a].at = "locked", ![a].sig = acme.sig]
             /\ UNCHANGED cached
    <2> DEFINE r == [asker[a] EXCEPT !.at = "locked", !.sig = acme.sig]
    <2>0. r \in Request /\ r.at = "locked" /\ r.sig = acme.sig /\ r.atLeast = asker[a].atLeast
      BY <1>0, Zenon DEF Request
    <2>1. r \in Request /\ Recent(r)
      BY <1>0, <2>0 DEF Recent
    <2>2. asker' = [asker EXCEPT ![a] = r]
      BY <1>2, Zenon
    <2> HIDE DEF r
    <2>3. QED
      BY <1>0, <1>2, <2>1, <2>2, OneRequest, Zenon DEF SignerInv, KeptInv, SignedFresh
  <1>3. CASE asker[a].at = "locked" /\ asker' = [asker EXCEPT ![a].at = "invalid"] /\ UNCHANGED cached
    <2> DEFINE r == [asker[a] EXCEPT !.at = "invalid"]
    <2>1. r \in Request /\ Recent(r)
      BY <1>0, Zenon DEF Request, Recent
    <2>2. asker' = [asker EXCEPT ![a] = r]
      BY <1>3, Zenon
    <2> HIDE DEF r
    <2>3. QED
      BY <1>0, <1>3, <2>1, <2>2, OneRequest, Zenon DEF SignerInv, KeptInv, SignedFresh
  <1>4. ASSUME NEW c, asker[a].at = "locked", cached' = {c},
               asker' = [asker EXCEPT ![a].at = "signed", ![a].cert = c.cert],
               c \in cached \/ (acme.cert # 0 /\ c = [sig |-> asker[a].sig, until |-> wall + KeptFor,
                                                    cert |-> acme.cert]),
               c.sig = asker[a].sig
        PROVE  SignerInv'
    <2> DEFINE r == [asker[a] EXCEPT !.at = "signed", !.cert = c.cert]
    <2>1. asker[a].sig \in Nat /\ asker[a].atLeast \in Nat /\ 2 * asker[a].atLeast <= asker[a].sig + 1
      BY <1>0, <1>4, Zenon DEF Request, Recent
    <2>2. c.sig \in Nat /\ c.cert \in Nat /\ c.sig <= 2 * c.cert
      <3>1. CASE c \in cached
        BY <3>1, Zenon DEF SignerInv, KeptInv
      <3>2. CASE acme.cert # 0 /\ c = [sig |-> asker[a].sig, until |-> wall + KeptFor, cert |-> acme.cert]
        <4>1. asker[a].sig <= acme.sig
          BY <1>0, <1>4, Zenon DEF Recent
        <4>2. acme.sig \in Nat /\ acme.cert \in Nat /\ acme.sig + 1 = 2 * acme.cert
          BY <3>2, Zenon DEF SignerInv, StoreInv
        <4>3. asker[a].sig <= 2 * acme.cert
          BY <2>1, <4>1, <4>2
        <4>4. QED
          BY <2>1, <3>2, <4>2, <4>3, Zenon
      <3>3. QED
        BY <1>4, <3>1, <3>2, Zenon
    <2>3. asker[a].atLeast <= c.cert
      BY <1>4, <2>1, <2>2
    <2>4. r \in Request /\ Recent(r)
      BY <1>0, <2>2, <2>3, Zenon DEF Request, Recent
    <2>5. asker' = [asker EXCEPT ![a] = r]
      BY <1>4, Zenon
    <2>6. KeptInv'
      BY <1>4, <2>2, Zenon DEF KeptInv
    <2> HIDE DEF r
    <2>7. QED
      BY <1>0, <2>4, <2>5, <2>6, OneRequest, Zenon DEF SignerInv, SignedFresh
  <1>5. QED
    BY <1>1, <1>2, <1>3, <1>4, Zenon DEF sign, identity, Unexpired

LEMMA dispatchInv == ASSUME SignerInv, NEW a \in Asker, dispatch(a) PROVE SignerInv'
  <1>1. asker[a] \in Request /\ Recent(asker[a]) /\ StoreInv /\ acme' = acme /\ cached' = cached
    BY Zenon DEF SignerInv, dispatch
  <1>2. PICK at \in {"close", "release"} : asker' = [asker EXCEPT ![a] = [NoRequest EXCEPT !.at = at]]
    BY Zenon DEF dispatch
  <1> DEFINE r == [NoRequest EXCEPT !.at = at]
  <1>3. r \in Request /\ Recent(r)
    BY <1>1, NoRequestRecent, Zenon DEF Request, Recent
  <1>4. SignedFresh'
    <2>1. CASE UNCHANGED outcome
      BY <2>1, Zenon DEF SignerInv, SignedFresh
    <2>2. CASE Returns("refused")
      BY <2>2, Zenon DEF Returns, SignedFresh
    <2>3. CASE /\ asker[a].at = "signed"
               /\ outcome' = [kind |-> "signed", cert |-> asker[a].cert, atLeast |-> asker[a].atLeast]
      BY <1>1, <2>3, Zenon DEF Recent, Request, SignedFresh
    <2>4. QED
      BY <2>1, <2>2, <2>3, Zenon DEF dispatch
  <1> HIDE DEF r
  <1>5. QED
    BY <1>1, <1>2, <1>3, <1>4, OneRequest, Zenon DEF SignerInv, KeptInv, r

LEMMA TimesOutInv == ASSUME SignerInv, NEW a \in Asker, TimesOut(a) PROVE SignerInv'
  <1> DEFINE r == [asker[a] EXCEPT !.left = TRUE]
  <1>1. asker[a] \in Request /\ Recent(asker[a]) /\ acme' = acme /\ cached' = cached
    BY Zenon DEF SignerInv, TimesOut
  <1>2. r \in Request /\ Recent(r)
    BY <1>1, FlaggedHas, Zenon DEF Request, Recent
  <1>3. asker' = [asker EXCEPT ![a] = r] /\ SignedFresh'
    BY Zenon DEF TimesOut, Returns, SignedFresh
  <1> HIDE DEF r
  <1>4. QED
    BY <1>1, <1>2, <1>3, OneRequest, Zenon DEF SignerInv, KeptInv

LEMMA releaseInv == ASSUME SignerInv, NEW a \in Asker, release(a) PROVE SignerInv'
  <1>1. /\ asker' = [asker EXCEPT ![a] = NoRequest] /\ acme' = acme /\ cached' = cached
        /\ outcome' = outcome /\ StoreInv
    BY Zenon DEF release, SignerInv
  <1>2. QED
    BY <1>1, NoRequestRecent, OneRequest, Zenon DEF SignerInv, KeptInv, SignedFresh

LEMMA RenewInv == ASSUME SignerInv, Renew PROVE SignerInv'
  <1>1. /\ acme.sig \in Nat /\ acme.cert \in Nat /\ asker' = asker /\ cached' = cached /\ outcome' = outcome
        /\ asker \in [Asker -> Request] /\ \A a \in Asker : Recent(asker[a])
    BY Zenon DEF SignerInv, StoreInv, Renew
  <1>2. acme'.sig = acme.sig + 1 /\ StoreInv'
    <2>1. CASE acme.cert # 0
      <3>1. acme' = [sig |-> acme.sig + 1, cert |-> 0]
        BY <2>1, Zenon DEF Renew
      <3>2. acme.sig + 1 = 2 * acme.cert
        BY <2>1, Zenon DEF SignerInv, StoreInv
      <3>3. QED
        BY <1>1, <3>1, <3>2 DEF StoreInv
    <2>2. CASE acme.cert = 0
      <3>1. acme' = [sig |-> acme.sig + 1, cert |-> acme.sig \div 2 + 1]
        BY <2>2, Zenon DEF Renew
      <3>2. PICK k \in Nat : acme.sig = 2 * k
        BY <2>2, Zenon DEF SignerInv, StoreInv
      <3>3. acme.sig \div 2 = k
        BY <3>2
      <3>4. acme' = [sig |-> 2 * k + 1, cert |-> k + 1]
        BY <3>1, <3>2, <3>3, Zenon
      <3>5. QED
        BY <1>1, <3>2, <3>4 DEF StoreInv
    <2>3. QED
      BY <2>1, <2>2, Zenon
  <1>3. ASSUME NEW a \in Asker PROVE Recent(asker[a])'
    <2>1. asker[a].atLeast \in Nat /\ asker[a].sig \in Nat /\ Recent(asker[a])
      BY <1>1, Zenon DEF Request
    <2>2. QED
      BY <1>1, <1>2, <2>1 DEF Recent
  <1>4. QED
    BY <1>1, <1>2, <1>3, Zenon DEF SignerInv, KeptInv, SignedFresh

LEMMA SignerStutterInv ==
    ASSUME SignerInv, UNCHANGED <<acme, asker, cached, outcome>> PROVE SignerInv'
  BY Zenon DEF SignerInv, StoreInv, KeptInv, Recent, SignedFresh

LEMMA SignerNextInv == SignerInv /\ [SignerNext]_signerVars => SignerInv'
  <1> SUFFICES ASSUME SignerInv, [SignerNext]_signerVars PROVE SignerInv'
    BY Zenon
  <1>1. CASE save_signing \/ SignerTick \/ UNCHANGED signerVars
    BY <1>1, SignerStutterInv, Zenon DEF save_signing, SignerTick, signerVars
  <1>2. QED
    BY <1>1, sign_profileInv, signInv, dispatchInv, TimesOutInv, releaseInv, RenewInv, Zenon DEF SignerNext

(* SignedFresh, for any requests, slots, times and renewals: a profile is  *)
(* never signed with a certificate from before a renewal (identity and     *)
(* sign of signer/service.py, sign_profile of the UI).                     *)
THEOREM SignedFreshTheorem == SignerSpec => []SignedFresh
  <1>1. SignerInv => SignedFresh
    BY Zenon DEF SignerInv
  <1>2. QED
    BY <1>1, SignerInitInv, SignerNextInv, PTL DEF SignerSpec

-----------------------------------------------------------------------------
(* The stored visits of the relay.  Stored ties, for one session, what the *)
(* relay holds (r), its row (w), what the thread remembers of it (s) and   *)
(* when it last had a flow (q).  A row is not ahead of its session and     *)
(* belongs to the same relay process; what is remembered is in the row;    *)
(* and a row that is active while its session is not was sampled before    *)
(* the last flow ended.                                                    *)
Truth == BOOLEAN
Session == [instance : Nat, active : Truth, bytes : Nat, started : Nat, last : Nat]
Row(g) == [owner : {"client", "archived"}, grp : {g}, active : Truth, bytes : Nat,
           started : Nat, last : Nat, sampled : Nat, instance : Nat]

Stored(r, w, s, q, t, n) ==
    /\ r # Absent => r \in Session /\ r.instance = n /\ r.last <= t
    /\ w # Absent => w \in Row(w.grp) /\ w.last <= w.sampled /\ w.sampled <= t
    /\ r # Absent /\ w # Absent =>
        w.bytes <= r.bytes /\ w.instance = n /\ (~r.active => w.last <= r.last)
    /\ s # Absent => s \in Session /\ w # Absent /\ w.bytes = s.bytes /\ w.last = s.last
    /\ s # Absent /\ r # Absent /\ s.active => w.active
    /\ w # Absent /\ w.active /\ (r = Absent \/ ~r.active) => w.sampled < q

HistoryInv ==
    /\ DOMAIN relay = Id /\ quiet \in [Id -> Int] /\ relay = [i \in Id |-> relay[i]]
    /\ instance \in Nat /\ time \in Nat
    /\ \A i \in Id : Stored(relay[i], row[i], _seen[i], quiet[i], time, instance)
    /\ turned => \A i \in Have(relay) : relay[i].active => ShownActive(i)

LEMMA TruthHas == TRUE \in Truth /\ FALSE \in Truth
  BY Zenon DEF Truth

LEMMA SessionPresent == \A r \in Session : r # Absent
  BY DEF Session, Absent

LEMMA RowPresent == \A g : \A w \in Row(g) : w # Absent /\ w.grp = g
  BY DEF Row, Absent

LEMMA HistoryInitInv == HistoryInit => HistoryInv
  BY DEF HistoryInit, HistoryInv, Stored

LEMMA HistoryInvShown == HistoryInv => RelayRowsStored
  <1> SUFFICES ASSUME HistoryInv PROVE RelayRowsStored
    BY Zenon
  <1>1. ASSUME NEW i \in Id PROVE Stored(relay[i], row[i], _seen[i], quiet[i], time, instance) /\ quiet[i] \in Int
    BY Zenon DEF HistoryInv
  <1>2. \A i \in Have(_seen) : i \in Have(row) /\ row[i].bytes = _seen[i].bytes /\ row[i].last = _seen[i].last
    BY <1>1, Zenon DEF Stored, Have
  <1>3. \A i \in Have(row) \cap Have(relay) : row[i].bytes <= relay[i].bytes
    BY <1>1, Zenon DEF Stored, Have
  <1>4. ASSUME NEW i \in Id, ShownActive(i), relay[i] = Absent \/ ~relay[i].active
        PROVE  time - (quiet[i] - 1) <= Shown
    <2>1. row[i].sampled < quiet[i] /\ row[i].sampled \in Nat /\ row[i].sampled >= time - Shown
      BY <1>1, <1>4, Zenon DEF Stored, ShownActive, Have, Row
    <2>2. QED
      BY <1>1, <2>1, HistoryAssumption DEF HistoryInv
  <1>5. QED
    BY <1>2, <1>3, <1>4, Zenon DEF RelayRowsStored, ActiveShown, HistoryInv

(* A step of the relay: rows and memory stay, and sessions keep the tie.   *)
LEMMA RelayStepInv ==
    ASSUME HistoryInv, RelayStep, relay' = [i \in Id |-> relay'[i]], quiet' \in [Id -> Int],
           instance' \in Nat,
           \A i \in Id : Stored(relay'[i], row[i], _seen[i], quiet'[i], time, instance')
    PROVE  HistoryInv'
  BY Zenon DEF HistoryInv, RelayStep

(* One session changes.                                                    *)
LEMMA OneSession ==
    ASSUME HistoryInv, RelayStep, NEW i \in Id, NEW r, NEW q \in Int, UNCHANGED instance,
           relay' = [relay EXCEPT ![i] = r], quiet' = [quiet EXCEPT ![i] = q],
           Stored(r, row[i], _seen[i], q, time, instance)
    PROVE  HistoryInv'
  <1>1. relay' = [j \in Id |-> IF j = i THEN r ELSE relay[j]]
    BY Zenon DEF HistoryInv
  <1>2. quiet' \in [Id -> Int] /\ \A j \in Id : quiet'[j] = IF j = i THEN q ELSE quiet[j]
    BY Zenon DEF HistoryInv
  <1>3. \A j \in Id : Stored(relay'[j], row[j], _seen[j], quiet'[j], time, instance')
    BY <1>1, <1>2, Zenon DEF HistoryInv
  <1>4. QED
    BY <1>1, <1>2, <1>3, RelayStepInv, Zenon DEF HistoryInv

LEMMA FlowInv == ASSUME HistoryInv, NEW i \in Id, Flow(i) PROVE HistoryInv'
  <1>1. /\ RelayStep /\ UNCHANGED instance /\ quiet' = [quiet EXCEPT ![i] = MaxHistoryTime + 1]
        /\ MaxHistoryTime + 1 \in Int /\ time \in Nat /\ instance \in Nat
        /\ Stored(relay[i], row[i], _seen[i], quiet[i], time, instance)
    BY HistoryAssumption DEF Flow, HistoryInv
  <1>2. CASE i \in Have(relay) /\ relay' = [relay EXCEPT ![i].active = TRUE]
    <2> DEFINE r == [relay[i] EXCEPT !.active = TRUE]
    <2>1. relay[i] \in Session /\ relay[i].instance = instance /\ relay[i].last <= time
      BY <1>1, <1>2, Zenon DEF Stored, Have
    <2>2. /\ r \in Session /\ r.active /\ r.bytes = relay[i].bytes /\ r.instance = relay[i].instance
          /\ r.last = relay[i].last
      BY <2>1, TruthHas, Zenon DEF Session
    <2>3. relay' = [relay EXCEPT ![i] = r]
      BY <1>2, Zenon
    <2>4. relay[i] # Absent /\ r # Absent
      BY <2>1, <2>2, SessionPresent, Zenon
    <2> HIDE DEF r
    <2>5. Stored(r, row[i], _seen[i], MaxHistoryTime + 1, time, instance)
      BY <1>1, <2>1, <2>2, <2>4, Zenon DEF Stored
    <2>6. QED
      BY <1>1, <2>3, <2>5, OneSession, Zenon
  <1>3. CASE /\ \A j \in Id : j >= i => relay[j] = Absent /\ row[j] = Absent /\ quiet[j] = 0
             /\ relay' = [relay EXCEPT ![i] = [instance |-> instance, active |-> TRUE, bytes |-> 0,
                                               started |-> time, last |-> time]]
    <2> DEFINE r == [instance |-> instance, active |-> TRUE, bytes |-> 0, started |-> time, last |-> time]
    <2>0. i >= i
      BY DEF Id
    <2>1. row[i] = Absent
      BY <1>3, <2>0, Zenon
    <2>2. r \in Session /\ r.instance = instance /\ r.last = time
      BY <1>1, TruthHas, Zenon DEF Session
    <2> HIDE DEF r
    <2>3. Stored(r, row[i], _seen[i], MaxHistoryTime + 1, time, instance)
      BY <1>1, <2>1, <2>2 DEF Stored
    <2>4. QED
      BY <1>1, <1>3, <2>3, OneSession, Zenon DEF r
  <1>4. QED
    BY <1>2, <1>3, Zenon DEF Flow

LEMMA BytesInv == ASSUME HistoryInv, NEW i \in Id, Bytes(i) PROVE HistoryInv'
  <1> DEFINE r == [relay[i] EXCEPT !.bytes = @ + 1]
  <1>1. /\ RelayStep /\ UNCHANGED instance /\ quiet' = [quiet EXCEPT ![i] = quiet[i]] /\ quiet[i] \in Int
        /\ Stored(relay[i], row[i], _seen[i], quiet[i], time, instance) /\ relay[i] # Absent /\ relay[i].active
    BY Zenon DEF Bytes, HistoryInv, Have
  <1>2. relay[i] \in Session
    BY <1>1, Zenon DEF Stored
  <1>3. /\ r \in Session /\ r.active /\ r.bytes = relay[i].bytes + 1 /\ r.instance = relay[i].instance
        /\ r.last = relay[i].last
    BY <1>1, <1>2 DEF Session
  <1>4. r # Absent /\ relay' = [relay EXCEPT ![i] = r] /\ relay[i].bytes \in Nat
    BY <1>2, <1>3, SessionPresent, Zenon DEF Bytes, Session
  <1> HIDE DEF r
  <1>5. row[i] # Absent => row[i].bytes \in Nat
    BY <1>1, Zenon DEF Stored, Row
  <1>6. Stored(r, row[i], _seen[i], quiet[i], time, instance)
    BY <1>1, <1>3, <1>4, <1>5 DEF Stored
  <1>7. QED
    BY <1>1, <1>4, <1>6, OneSession, Zenon

LEMMA FlowEndsInv == ASSUME HistoryInv, NEW i \in Id, FlowEnds(i) PROVE HistoryInv'
  <1> DEFINE r == [relay[i] EXCEPT !.active = FALSE, !.last = time]
  <1>1. /\ RelayStep /\ UNCHANGED instance /\ quiet' = [quiet EXCEPT ![i] = time + 1] /\ time \in Nat
        /\ time + 1 \in Int /\ Stored(relay[i], row[i], _seen[i], quiet[i], time, instance) /\ relay[i] # Absent
    BY DEF FlowEnds, HistoryInv, Have
  <1>2. relay[i] \in Session
    BY <1>1, Zenon DEF Stored
  <1>3. /\ r \in Session /\ ~r.active /\ r.bytes = relay[i].bytes /\ r.instance = relay[i].instance
        /\ r.last = time
    BY <1>1, <1>2, TruthHas, Zenon DEF Session
  <1>4. r # Absent /\ relay' = [relay EXCEPT ![i] = r]
    BY <1>3, SessionPresent, Zenon DEF FlowEnds
  <1> HIDE DEF r
  <1>5. row[i] # Absent => row[i].last \in Nat /\ row[i].sampled \in Nat
    BY <1>1, Zenon DEF Stored, Row
  <1>6. Stored(r, row[i], _seen[i], time + 1, time, instance)
    BY <1>1, <1>3, <1>4, <1>5 DEF Stored
  <1>7. QED
    BY <1>1, <1>4, <1>6, OneSession, Zenon

LEMMA ForgetInv == ASSUME HistoryInv, NEW i \in Id, Forget(i) PROVE HistoryInv'
  <1>1. /\ RelayStep /\ UNCHANGED instance /\ quiet' = [quiet EXCEPT ![i] = quiet[i]] /\ quiet[i] \in Int
        /\ Stored(relay[i], row[i], _seen[i], quiet[i], time, instance) /\ relay[i] # Absent /\ ~relay[i].active
        /\ relay' = [relay EXCEPT ![i] = Absent]
    BY Zenon DEF Forget, HistoryInv, Have
  <1>2. Stored(Absent, row[i], _seen[i], quiet[i], time, instance)
    BY <1>1, Zenon DEF Stored
  <1>3. QED
    BY <1>1, <1>2, OneSession, Zenon

LEMMA RelayRestartsInv == ASSUME HistoryInv, RelayRestarts PROVE HistoryInv'
  <1>1. /\ RelayStep /\ instance' \in Nat /\ relay' = [i \in Id |-> Absent] /\ time \in Nat
        /\ quiet' = [i \in Id |-> IF i \in Have(relay) /\ relay[i].active THEN time + 1 ELSE quiet[i]]
    BY DEF RelayRestarts, HistoryInv
  <1>2. quiet' \in [Id -> Int]
    BY <1>1 DEF HistoryInv
  <1>3. ASSUME NEW i \in Id PROVE Stored(relay'[i], row[i], _seen[i], quiet'[i], time, instance')
    <2>1. Stored(relay[i], row[i], _seen[i], quiet[i], time, instance)
      BY Zenon DEF HistoryInv
    <2>2. row[i] # Absent => row[i].sampled \in Nat /\ row[i].sampled < time + 1
      BY <1>1, <2>1 DEF Stored, Row
    <2>3. relay'[i] = Absent /\ quiet'[i] = IF relay[i] # Absent /\ relay[i].active THEN time + 1 ELSE quiet[i]
      BY <1>1, Zenon DEF Have
    <2>4. QED
      BY <2>1, <2>2, <2>3, Zenon DEF Stored
  <1>4. QED
    BY <1>1, <1>2, <1>3, RelayStepInv, Zenon

(* What one turn makes of the row of a session.                           *)
LEMMA TurnStored ==
    ASSUME HistoryInv, run, NEW i \in Id
    PROVE  /\ Stored(relay[i], row'[i], _seen'[i], quiet[i], time, instance)
           /\ relay[i] # Absent /\ relay[i].active => ShownActive(i)'
  <1> DEFINE changed == {j \in Have(relay) : _seen[j] # Snapshot(j)}
             w == row[i]
             s == Snapshot(i)
  <1>0. /\ Stored(relay[i], w, _seen[i], quiet[i], time, instance) /\ time \in Nat /\ instance \in Nat
        /\ quiet[i] \in Int /\ time' = time
    BY Zenon DEF HistoryInv, run
  <1>1. _seen'[i] = s /\ (relay[i] = Absent => s = Absent)
    BY Zenon DEF run, Snapshot
  <1>2. relay[i] # Absent =>
          /\ relay[i] \in Session /\ s \in Session /\ s # Absent /\ (s.active <=> relay[i].active)
          /\ s.bytes = relay[i].bytes /\ s.started = relay[i].started
          /\ s.last = IF relay[i].active THEN time ELSE relay[i].last
          /\ s.last <= time
    <2> SUFFICES ASSUME relay[i] # Absent
                 PROVE  /\ relay[i] \in Session /\ s \in Session /\ s # Absent /\ (s.active <=> relay[i].active)
                        /\ s.bytes = relay[i].bytes /\ s.started = relay[i].started
                        /\ s.last = IF relay[i].active THEN time ELSE relay[i].last
                        /\ s.last <= time
      BY Zenon
    <2>1. relay[i] \in Session /\ relay[i].last <= time
      BY <1>0, Zenon DEF Stored
    <2>2. PICK l \in Nat : l = (IF relay[i].active THEN time ELSE relay[i].last) /\ l <= time
      BY <1>0, <2>1 DEF Session
    <2>3. s = [relay[i] EXCEPT !.last = l]
      BY <2>2, Zenon DEF Snapshot
    <2>4. s \in Session /\ s.last = l /\ s.active = relay[i].active /\ s.bytes = relay[i].bytes
          /\ s.started = relay[i].started
      BY <2>1, <2>3, Zenon DEF Session
    <2>5. QED
      BY <2>1, <2>2, <2>4, SessionPresent, Zenon
  <1>3. CASE i \notin changed
    <2>1. row'[i] = IF w # Absent /\ w.instance # instance THEN [w EXCEPT !.active = FALSE] ELSE w
      BY <1>3, Zenon DEF run, record
    <2>2. CASE relay[i] = Absent
      <3>1. CASE row'[i] = w
        BY <1>0, <1>1, <2>2, <3>1, Zenon DEF Stored
      <3>2. CASE w # Absent /\ row'[i] = [w EXCEPT !.active = FALSE]
        <4>1. w \in Row(w.grp)
          BY <1>0, <3>2, Zenon DEF Stored
        <4>2. /\ row'[i] \in Row(w.grp) /\ ~row'[i].active /\ row'[i].last = w.last
              /\ row'[i].sampled = w.sampled
          BY <3>2, <4>1, TruthHas, Zenon DEF Row
        <4>3. row'[i].grp = w.grp
          BY <4>2, RowPresent, Zenon
        <4>4. QED
          BY <1>0, <1>1, <2>2, <3>2, <4>2, <4>3, Zenon DEF Stored
      <3>3. QED
        BY <2>1, <3>1, <3>2, Zenon
    <2>3. CASE relay[i] # Absent
      <3>1. _seen[i] = s
        BY <1>3, <2>3, Zenon DEF Have
      <3>2. w # Absent /\ w.instance = instance /\ row'[i] = w
        BY <1>0, <1>2, <2>1, <2>3, <3>1, Zenon DEF Stored
      <3>3. Stored(relay[i], row'[i], _seen'[i], quiet[i], time, instance)
        BY <1>0, <1>1, <3>1, <3>2, Zenon
      <3>4. ASSUME relay[i].active PROVE ShownActive(i)'
        <4>1. w.active /\ w.last = time /\ w.last <= w.sampled /\ w.sampled \in Nat
          BY <1>0, <1>2, <2>3, <3>1, <3>2, <3>4, Zenon DEF Stored, Row
        <4>2. w.sampled >= time - Shown
          BY <1>0, <4>1, HistoryAssumption
        <4>3. QED
          BY <1>0, <3>2, <4>1, <4>2, Zenon DEF ShownActive, Have
      <3>5. QED
        BY <3>3, <3>4, Zenon
    <2>4. QED
      BY <2>2, <2>3, Zenon
  <1>4. CASE i \in changed
    <2>0. relay[i] # Absent
      BY <1>4, Zenon DEF Have
    <2>1. /\ row'[i] # Absent /\ row'[i] \in Row(row'[i].grp) /\ row'[i].active = s.active
          /\ row'[i].bytes = s.bytes /\ row'[i].last = s.last /\ row'[i].sampled = time
          /\ row'[i].instance = instance
      <3>1. CASE w = Absent
        <4>1. row'[i] = [owner |-> "client", grp |-> group(i), active |-> s.active, bytes |-> s.bytes,
                         started |-> s.started, last |-> s.last, sampled |-> time, instance |-> instance]
          BY <1>4, <3>1, Zenon DEF run, record
        <4>2. row'[i] \in Row(group(i))
          BY <1>0, <1>2, <2>0, <4>1 DEF Row, Session
        <4>3. QED
          BY <4>1, <4>2, RowPresent
      <3>2. CASE w # Absent
        <4>1. w \in Row(w.grp) /\ w.bytes <= s.bytes /\ w.last <= s.last /\ w.instance = instance
          BY <1>0, <1>2, <2>0, <3>2, SMTT(30) DEF Stored, Row
        <4>2. Greater(w.last, s.last) = s.last /\ Greater(w.bytes, s.bytes) = s.bytes
          BY <1>2, <2>0, <4>1 DEF Greater, Row, Session
        <4>3. row'[i] = [w EXCEPT !.last = s.last, !.bytes = s.bytes, !.active = s.active, !.sampled = time]
          BY <1>4, <3>2, <4>2, Zenon DEF run, record
        <4>4. /\ row'[i] \in Row(w.grp) /\ row'[i].active = s.active /\ row'[i].bytes = s.bytes
              /\ row'[i].last = s.last /\ row'[i].sampled = time /\ row'[i].instance = instance
          BY <1>0, <1>2, <2>0, <4>1, <4>3, Zenon DEF Row, Session
        <4>5. QED
          BY <4>4, RowPresent, Zenon
      <3>3. QED
        BY <3>1, <3>2, Zenon
    <2> HIDE DEF w, s
    <2>2. Stored(relay[i], row'[i], _seen'[i], quiet[i], time, instance)
      BY <1>0, <1>1, <1>2, <2>0, <2>1, SMTT(30) DEF Stored, Session
    <2>3. time >= time - Shown
      BY <1>0, HistoryAssumption
    <2>4. QED
      BY <1>0, <1>2, <2>0, <2>1, <2>2, <2>3, Zenon DEF ShownActive, Have
  <1>5. QED
    BY <1>3, <1>4, Zenon

LEMMA runInv == ASSUME HistoryInv, run PROVE HistoryInv'
  <1>1. UNCHANGED <<relay, quiet, time, instance>>
    BY Zenon DEF run
  <1>2. QED
    BY <1>1, TurnStored, Zenon DEF HistoryInv, Have

LEMMA UIRestartsInv == ASSUME HistoryInv, UIRestarts PROVE HistoryInv'
  <1>1. /\ UNCHANGED <<instance, relay, row, quiet, time>> /\ ~turned'
        /\ \A i \in Id : _seen'[i] = Absent
    BY Zenon DEF UIRestarts
  <1>2. \A i \in Id : Stored(relay'[i], row'[i], _seen'[i], quiet'[i], time', instance')
    BY <1>1 DEF HistoryInv, Stored
  <1>3. QED
    BY <1>1, <1>2, Zenon DEF HistoryInv

LEMMA ClientCreatedAgainInv == ASSUME HistoryInv, ClientCreatedAgain PROVE HistoryInv'
  <1>1. UNCHANGED <<instance, relay, _seen, quiet, time>> /\ ~turned'
    BY Zenon DEF ClientCreatedAgain
  <1>2. ASSUME NEW i \in Id PROVE Stored(relay[i], row'[i], _seen[i], quiet[i], time, instance)
    <2>1. Stored(relay[i], row[i], _seen[i], quiet[i], time, instance)
      BY Zenon DEF HistoryInv
    <2>2. row'[i] = IF row[i] = Absent THEN Absent ELSE [row[i] EXCEPT !.owner = "archived"]
      BY Zenon DEF ClientCreatedAgain
    <2>3. CASE row[i] = Absent
      BY <2>1, <2>2, <2>3, Zenon
    <2>4. CASE row[i] # Absent
      <3>1. row[i] \in Row(row[i].grp)
        BY <2>1, <2>4, Zenon DEF Stored
      <3>2. /\ row'[i] \in Row(row[i].grp) /\ row'[i].active = row[i].active /\ row'[i].bytes = row[i].bytes
            /\ row'[i].last = row[i].last /\ row'[i].sampled = row[i].sampled
            /\ row'[i].instance = row[i].instance
        BY <2>2, <2>4, <3>1, Zenon DEF Row
      <3>3. row'[i] # Absent /\ row'[i].grp = row[i].grp
        BY <3>2, RowPresent, Zenon
      <3>4. QED
        BY <2>1, <2>4, <3>2, <3>3, Zenon DEF Stored
    <2>5. QED
      BY <2>3, <2>4, Zenon
  <1>3. QED
    BY <1>1, <1>2, Zenon DEF HistoryInv

LEMMA HistoryTickInv == ASSUME HistoryInv, HistoryTick PROVE HistoryInv'
  <1>1. UNCHANGED <<instance, relay, _seen, quiet, row>> /\ ~turned' /\ time' = time + 1 /\ time \in Nat
    BY Zenon DEF HistoryTick, HistoryInv
  <1>2. ASSUME NEW i \in Id PROVE Stored(relay[i], row[i], _seen[i], quiet[i], time + 1, instance)
    <2>1. Stored(relay[i], row[i], _seen[i], quiet[i], time, instance)
      BY Zenon DEF HistoryInv
    <2>2. /\ relay[i] # Absent => relay[i].last \in Nat /\ relay[i].last <= time
          /\ row[i] # Absent => row[i].sampled \in Nat /\ row[i].sampled <= time
      BY <2>1, Zenon DEF Stored, Session, Row
    <2>3. /\ relay[i] # Absent => relay[i].last <= time + 1
          /\ row[i] # Absent => row[i].sampled <= time + 1
      BY <1>1, <2>2
    <2>4. QED
      BY <2>1, <2>3, Zenon DEF Stored
  <1>3. QED
    BY <1>1, <1>2 DEF HistoryInv

LEMMA HistoryNextInv == HistoryInv /\ [HistoryNext]_historyVars => HistoryInv'
  <1> SUFFICES ASSUME HistoryInv, [HistoryNext]_historyVars PROVE HistoryInv'
    BY Zenon
  <1>1. CASE UNCHANGED historyVars
    BY <1>1, Zenon DEF historyVars, HistoryInv, Have, ShownActive
  <1>2. QED
    BY <1>1, FlowInv, BytesInv, FlowEndsInv, ForgetInv, RelayRestartsInv, runInv, UIRestartsInv,
       ClientCreatedAgainInv, HistoryTickInv, Zenon DEF HistoryNext

(* RelayRowsStored, for any number of sessions and any times: what the     *)
(* thread of relay_history.py takes as stored is stored, nothing is        *)
(* counted twice across failed turns and restarts, and a session is shown  *)
(* as active when it has a flow, or for at most the age of a sample.       *)
THEOREM RelayRowsStoredTheorem == HistorySpec => []RelayRowsStored
  <1>1. QED
    BY HistoryInitInv, HistoryNextInv, HistoryInvShown, PTL DEF HistorySpec
=============================================================================
