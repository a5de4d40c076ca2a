---------------------------- MODULE Management ------------------------------
(***************************************************************************)
(* The UI's connection to OpenVPN's management interface (ui/app/mgmt.py): *)
(* one socket that the collector and the request handlers share under a    *)
(* lock, one command at a time, sent a second time on a new connection     *)
(* when anything goes wrong with the first.                                *)
(*                                                                         *)
(* OpenVPN answers a connection's commands in order, serves one connection *)
(* at a time and may be slow, close the connection, exit and start again.  *)
(* A definition in front of one of the same form is a seeded fault.        *)
(***************************************************************************)
EXTENDS Integers, Sequences

CONSTANTS
    Speaker,        \* threads that send commands
    MaxCommands,    \* commands sent in all
    MaxLinks        \* connections made in all

ASSUME ManagementAssumption == MaxCommands \in Nat /\ MaxLinks \in Nat

VARIABLES
    sock,           \* the number of the open connection, 0 when closed
    links,          \* connections made so far
    inbox,          \* commands that OpenVPN has not carried out
    outbox,         \* answers that have not been read
    serving,        \* OpenVPN answers on the management port
    served,           \* the connection that OpenVPN serves, 0 for none
    speaker,        \* speaker[s]: what s is doing
    sent,           \* commands so far; each is a number
    carried,        \* carried[c]: how often OpenVPN carried out command c
    answered        \* answered[c]: the command whose answer c's caller got

managementVars == <<sock, links, inbox, outbox, serving, served, speaker,
                    sent, carried, answered>>

Command == 1..MaxCommands
Silent == [op |-> "none", cmd |-> 0, attempt |-> 0, at |-> "idle"]
Talking(s) == speaker[s] # Silent
LockHeld == \E s \in Speaker : Talking(s)

ManagementInit ==
    /\ sock = 0 /\ links = 0 /\ inbox = <<>> /\ outbox = <<>>
    /\ serving = TRUE /\ served = 0
    /\ speaker = [s \in Speaker |-> Silent]
    /\ sent = 0
    /\ carried = [c \in Command |-> 0]
    /\ answered = [c \in Command |-> 0]

-----------------------------------------------------------------------------
(* The buffer goes with the socket: nothing of an old connection is read.  *)
closeKeepsSocket == UNCHANGED <<sock, inbox, outbox>>
close == sock' = 0 /\ outbox' = <<>> /\ UNCHANGED inbox

(* load_stats, kill, client_kill and signal all end in command.            *)
command(s) ==
    /\ ~LockHeld /\ sent < MaxCommands
    /\ \E op \in {"load-stats", "kill", "signal"} :
        speaker' = [speaker EXCEPT ![s] =
                     [op |-> op, cmd |-> sent + 1, attempt |-> 1, at |-> "send"]]
    /\ sent' = sent + 1
    /\ UNCHANGED <<sock, links, inbox, outbox, serving, served, carried, answered>>

(* OpenVPN takes a new connection when it is done with the one before.     *)
connect(s) ==
    /\ speaker[s].at = "send" /\ sock = 0
    /\ serving /\ inbox = <<>> /\ links < MaxLinks
    /\ links' = links + 1 /\ sock' = links + 1 /\ served' = links + 1
    /\ outbox' = <<>>
    /\ UNCHANGED <<inbox, serving, speaker, sent, carried, answered>>

(* What is sent on a connection that OpenVPN no longer has is lost.        *)
sendall(s) ==
    /\ speaker[s].at = "send" /\ sock # 0
    /\ inbox' = IF sock = served THEN Append(inbox, [cmd |-> speaker[s].cmd, op |-> speaker[s].op])
                ELSE inbox
    /\ speaker' = [speaker EXCEPT ![s].at = "read"]
    /\ UNCHANGED <<sock, links, outbox, serving, served, sent, carried, answered>>

(* The first answer line is returned; signal closes the connection.        *)
answer(s) ==
    /\ speaker[s].at = "read" /\ outbox # <<>>
    /\ answered' = [answered EXCEPT ![speaker[s].cmd] = Head(outbox)]
    /\ speaker' = [speaker EXCEPT ![s] = Silent]
    /\ IF speaker[s].op = "signal" THEN close
       ELSE outbox' = Tail(outbox) /\ UNCHANGED <<sock, inbox>>
    /\ UNCHANGED <<links, serving, served, sent, carried>>

(* A refused or closed connection, or no answer in time: the first time    *)
(* command tries again, the second time it raises ManagementError.         *)
fails(s) ==
    /\ Talking(s)
    /\ close
    /\ speaker' = [speaker EXCEPT ![s] =
                    IF @.attempt = 1 THEN [@ EXCEPT !.attempt = 2, !.at = "send"] ELSE Silent]
    /\ UNCHANGED <<links, serving, served, sent, carried, answered>>

-----------------------------------------------------------------------------
(* OpenVPN carries out the next command and answers on its connection, if  *)
(* that is still open; a signal ends the process.                          *)
Perform ==
    /\ serving /\ inbox # <<>>
    /\ LET c == Head(inbox) IN
        /\ carried' = [carried EXCEPT ![c.cmd] = @ + 1]
        /\ outbox' \in {IF served = sock THEN Append(outbox, c.cmd) ELSE outbox}
                       \cup (IF c.op = "signal" THEN {outbox} ELSE {})
        /\ IF c.op = "signal"
           THEN serving' = FALSE /\ served' = 0 /\ inbox' = <<>>
           ELSE inbox' = Tail(inbox) /\ UNCHANGED <<serving, served>>
    /\ UNCHANGED <<sock, links, speaker, sent, answered>>

(* OpenVPN drops a connection, because the UI closed it or of itself; what *)
(* it had not carried out is lost.                                         *)
DropLink ==
    /\ served # 0 /\ served' = 0 /\ inbox' = <<>>
    /\ UNCHANGED <<sock, links, outbox, serving, speaker, sent, carried, answered>>

Exits ==
    /\ serving /\ serving' = FALSE /\ served' = 0 /\ inbox' = <<>>
    /\ UNCHANGED <<sock, links, outbox, speaker, sent, carried, answered>>

Starts ==
    /\ ~serving /\ serving' = TRUE
    /\ UNCHANGED <<sock, links, inbox, outbox, served, speaker, sent, carried, answered>>

ManagementNext ==
    \/ \E s \in Speaker : command(s) \/ connect(s) \/ sendall(s) \/ answer(s) \/ fails(s)
    \/ Perform \/ DropLink \/ Exits \/ Starts

ManagementSpec == ManagementInit /\ [][ManagementNext]_managementVars

-----------------------------------------------------------------------------
ManagementTypeOK ==
    /\ {sock, served} \subseteq 0..MaxLinks /\ links \in 0..MaxLinks /\ sent \in 0..MaxCommands
    /\ serving \in BOOLEAN
    /\ \A s \in Speaker : speaker[s].at \in {"idle", "send", "read"}
    /\ answered \in [Command -> Command \cup {0}]

(* The answer a caller gets is the answer to its own command, which        *)
(* OpenVPN has carried out, however late earlier answers come: a           *)
(* connection that failed once is never read again (command closes it).    *)
(* Sending again has its price: a command whose answer was lost is carried *)
(* out twice, but never more often.                                        *)
AnswersMatch ==
    \A c \in Command :
        /\ answered[c] # 0 => answered[c] = c /\ carried[c] > 0
        /\ carried[c] <= 2
=============================================================================
