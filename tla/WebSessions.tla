---------------------------- MODULE WebSessions -----------------------------
(***************************************************************************)
(* The web sessions of one account: sign-in and sign-out, a new password,  *)
(* the account's removal, sliding expiry, and the live-data streams that   *)
(* outlast the request that opened them (ui/app/auth.py, ui/app/main.py).  *)
(*                                                                         *)
(* A handler reads and writes the database in several statements, between  *)
(* which those of other handlers run.  Passwords are numbered in the order *)
(* in which they were set.                                                 *)
(* A definition in front of one of the same form is a seeded fault.        *)
(***************************************************************************)
EXTENDS Integers, FiniteSets

CONSTANTS
    SessionToken,
    WebRequest,     \* requests being served
    Stream,
    MaxPasswords, MaxHour,
    SessionTTL,     \* session_ttl
    SessionRecheck  \* SESSION_RECHECK, with the wait for the next item

(* Times in whole units; 0 stands for the browser without a session.       *)
ASSUME WebSessionsAssumption ==
    SessionTTL \in Nat /\ SessionRecheck \in Nat /\ 0 \notin SessionToken

VARIABLES
    user,           \* [role, exists, password, old: it needs a rehash]
    session,        \* session[t]: [password it was made with, expires]
    serving,        \* serving[c]: the handler and what it has read
    stream,         \* stream[s]: [token, checked] of an open stream
    subscribers,    \* queues that the collector fills
    lost,           \* lost[t]: when t's session went from under a stream
    crossed,        \* a sign-in went on after the password had changed
    hour

sessionVars == <<user, session, serving, stream, subscribers, lost, crossed, hour>>

NoSession == [password |-> 0, expires |-> -1]
Unopened == [token |-> 0, checked |-> 0]
Free == [op |-> "none", password |-> 0, token |-> 0]

LiveSession(t) == session[t].expires >= hour /\ user.exists
LiveSessions == {t \in SessionToken : session[t] # NoSession /\ LiveSession(t)}

SessionInit ==
    /\ user \in [role : {"admin", "client"}, exists : {TRUE}, password : {1}, old : BOOLEAN]
    /\ session = [t \in SessionToken |-> NoSession]
    /\ serving = [c \in WebRequest |-> Free]
    /\ stream = [s \in Stream |-> Unopened]
    /\ subscribers = {}
    /\ lost = [t \in SessionToken |-> 0]
    /\ crossed = FALSE
    /\ hour = 0

-----------------------------------------------------------------------------
(* DELETE FROM web_sessions.                                               *)
Lose(ts) ==
    lost' = [t \in SessionToken |->
               IF \/ t \notin ts \/ session[t] = NoSession
                  \/ \A s \in Stream : stream[s].token # t
               THEN lost[t]
               ELSE IF session[t].expires >= hour THEN hour ELSE session[t].expires + 1]
DeleteSessions(ts) ==
    /\ session' = [t \in SessionToken |-> IF t \in ts THEN NoSession ELSE session[t]]
    /\ Lose(ts)

CallAt(c, op) == serving' = [serving EXCEPT ![c].op = op]
Answered(c) == serving' = [serving EXCEPT ![c] = Free]

(* login: the password is verified, a hash of older parameters replaced,   *)
(* and the session inserted; by then the account may have another.         *)
login(c) ==
    /\ \/ /\ serving[c] = Free /\ user.exists
          /\ serving' = [serving EXCEPT ![c] = [op |-> IF user.old THEN "rehash" ELSE "session",
                                          password |-> user.password, token |-> 0]]
          /\ UNCHANGED <<user, session, lost, crossed>>
       \/ /\ serving[c].op = "rehash"
          /\ user' = IF user.exists THEN [user EXCEPT !.password = serving[c].password, !.old = FALSE]
                     ELSE user
          /\ crossed' = (crossed \/ user.password # serving[c].password)
          /\ CallAt(c, "session")
          /\ UNCHANGED <<session, lost>>
       \/ /\ serving[c].op = "session"
          /\ \E t \in SessionToken :
                /\ session[t] = NoSession
                /\ \A s \in Stream : stream[s].token # t
                /\ \A d \in WebRequest : serving[d].token # t
                /\ session' = [session EXCEPT ![t] = [password |-> serving[c].password,
                                                      expires |-> hour + SessionTTL]]
          /\ crossed' = (crossed \/ user.password # serving[c].password)
          /\ Answered(c)
          /\ UNCHANGED <<user, lost>>
    /\ UNCHANGED <<stream, subscribers, hour>>

logout(t) ==
    /\ DeleteSessions({t})
    /\ UNCHANGED <<user, serving, stream, subscribers, crossed, hour>>

(* get_session_user: extended when less than half of its life is left; the *)
(* UPDATE finds no row when the session went in between.                   *)
get_session_user(c) ==
    /\ \/ \E t \in LiveSessions :
            /\ serving[c] = Free
            /\ session[t].expires - hour < SessionTTL \div 2
            /\ serving' = [serving EXCEPT ![c] = [op |-> "extend", password |-> 0, token |-> t]]
            /\ UNCHANGED session
       \/ /\ serving[c].op = "extend"
          /\ session' = [session EXCEPT ![serving[c].token] =
                           IF @ = NoSession THEN @ ELSE [@ EXCEPT !.expires = hour + SessionTTL]]
          /\ Answered(c)
    /\ UNCHANGED <<user, stream, subscribers, lost, crossed, hour>>

NewPassword == user' = IF user.exists THEN [user EXCEPT !.password = @ + 1, !.old = FALSE] ELSE user

(* change_password: the current one is verified, the hash replaced, and    *)
(* then every session but the caller's deleted.                            *)
change_passwordDeletesFirst(c) ==
    /\ \/ \E t \in LiveSessions :
            /\ serving[c] = Free
            /\ user.password < MaxPasswords
            /\ DeleteSessions(SessionToken \ {t})
            /\ serving' = [serving EXCEPT ![c] = [op |-> "replace", password |-> user.password, token |-> t]]
            /\ UNCHANGED user
       \/ /\ serving[c].op = "replace"
          /\ NewPassword
          /\ Answered(c)
          /\ UNCHANGED <<session, lost>>
    /\ UNCHANGED <<stream, subscribers, crossed, hour>>
change_password(c) ==
    /\ \/ \E t \in LiveSessions :
            /\ serving[c] = Free
            /\ user.password < MaxPasswords
            /\ serving' = [serving EXCEPT ![c] = [op |-> "replace", password |-> user.password, token |-> t]]
            /\ UNCHANGED <<user, session, lost, crossed>>
       \/ /\ serving[c].op = "replace"
          /\ NewPassword
          /\ CallAt(c, "sign out others")
          /\ crossed' = (crossed \/ user.password # serving[c].password)
          /\ UNCHANGED <<session, lost>>
       \/ /\ serving[c].op = "sign out others"
          /\ LET kept == serving[c].token
             IN /\ session' = [t \in SessionToken |->
                    IF t # kept \/ session[t] = NoSession THEN NoSession
                    ELSE [session[t] EXCEPT !.password = user.password]]
                /\ Lose(SessionToken \ {kept})
          /\ Answered(c)
          /\ UNCHANGED <<user, crossed>>
    /\ UNCHANGED <<stream, subscribers, hour>>

(* An administrator sets a client account's password: one transaction.     *)
set_portal_account_sessions ==
    /\ user.role = "client" /\ user.exists
    /\ user.password < MaxPasswords
    /\ NewPassword
    /\ DeleteSessions(SessionToken)
    /\ UNCHANGED <<serving, stream, subscribers, crossed, hour>>

(* disable_portal: the sessions, then the account.                         *)
disable_portal_sessions(c) ==
    /\ user.role = "client"
    /\ \/ /\ serving[c] = Free /\ user.exists
          /\ DeleteSessions(SessionToken)
          /\ serving' = [serving EXCEPT ![c].op = "remove"]
          /\ UNCHANGED user
       \/ /\ serving[c].op = "remove"
          /\ user' = [user EXCEPT !.exists = FALSE]
          /\ Answered(c)
          /\ UNCHANGED <<session, lost>>
    /\ UNCHANGED <<stream, subscribers, crossed, hour>>

(* Maintenance deletes the expired sessions.                               *)
rollup_sessions ==
    /\ DeleteSessions({t \in SessionToken : session[t].expires < hour})
    /\ UNCHANGED <<user, serving, stream, subscribers, crossed, hour>>

-----------------------------------------------------------------------------
(* stream: administrators only.  The loop waits for an item or 15 seconds, *)
(* and looks at the session when the last look is Recheck old.             *)
Due(s) == stream[s] # Unopened /\ hour - stream[s].checked > SessionRecheck

open_stream(s) ==
    /\ user.role = "admin" /\ stream[s] = Unopened
    /\ \E t \in LiveSessions : stream' = [stream EXCEPT ![s] = [token |-> t, checked |-> hour]]
    /\ subscribers' = subscribers \cup {s}
    /\ UNCHANGED <<user, session, serving, lost, crossed, hour>>

close_stream(s) ==
    /\ stream' = [stream EXCEPT ![s] = Unopened]
    /\ subscribers' = subscribers \ {s}
    /\ lost' = [t \in SessionToken |-> IF \E r \in Stream \ {s} : stream[r].token = t THEN lost[t] ELSE 0]
    /\ UNCHANGED <<user, session, serving, crossed, hour>>

recheck(s) ==
    /\ Due(s)
    /\ IF stream[s].token \in LiveSessions
       THEN /\ stream' = [stream EXCEPT ![s].checked = hour]
            /\ UNCHANGED <<user, session, serving, subscribers, lost, crossed, hour>>
       ELSE close_stream(s)

disconnect(s) == stream[s] # Unopened /\ close_stream(s)

(* Time does not pass over a look that is due, nor between the SELECT and  *)
(* the UPDATE of an extension, which take the same time for now.           *)
SessionTick ==
    /\ hour < MaxHour
    /\ \A s \in Stream : ~Due(s)
    /\ \A c \in WebRequest : serving[c].op # "extend"
    /\ hour' = hour + 1
    /\ UNCHANGED <<user, session, serving, stream, subscribers, lost, crossed>>

SessionNext ==
    \/ \E c \in WebRequest : \/ login(c) \/ get_session_user(c) \/ change_password(c)
                             \/ disable_portal_sessions(c)
    \/ \E t \in LiveSessions : logout(t)
    \/ \E s \in Stream : open_stream(s) \/ recheck(s) \/ disconnect(s)
    \/ set_portal_account_sessions \/ rollup_sessions \/ SessionTick

SessionSpec == SessionInit /\ [][SessionNext]_sessionVars

-----------------------------------------------------------------------------
SessionTypeOK ==
    /\ user.exists \in BOOLEAN /\ user.password \in 1..(MaxPasswords + Cardinality(WebRequest))
    /\ \A t \in SessionToken : session[t].expires \in -1..(MaxHour + SessionTTL)
    /\ \A c \in WebRequest : serving[c].op \in {"none", "rehash", "session", "extend", "replace",
                                       "sign out others", "remove"}
    /\ subscribers \subseteq Stream
    /\ lost \in [SessionToken -> 0..MaxHour] /\ hour \in 0..MaxHour /\ crossed \in BOOLEAN

Changing == \E c \in WebRequest : serving[c].op = "sign out others"

(* After a password change only its own session is left: none that was     *)
(* made with an earlier password works.  It may fail only when a sign-in   *)
(* that had verified the earlier password finished after the change:       *)
(* login inserts the session, and stores a rehash of the password it       *)
(* verified, without looking again.                                        *)
OldSessionsGone ==
    ~Changing /\ ~crossed => \A t \in LiveSessions : session[t].password = user.password

GoneSince(t) == IF session[t] = NoSession THEN lost[t] ELSE session[t].expires + 1

(* A stream outlives its session by at most the recheck time, whether the  *)
(* session was signed out, expired or ended by a password change, and it   *)
(* does not keep the session alive; a closed stream leaves no queue with   *)
(* the collector.                                                          *)
StreamsEnd ==
    /\ \A s \in Stream : stream[s] # Unopened /\ stream[s].token \notin LiveSessions =>
            hour - GoneSince(stream[s].token) <= SessionRecheck + 1
    /\ subscribers = {s \in Stream : stream[s] # Unopened}

(* What was opened with a password ends with it: both of the above.        *)
SessionsEnd == OldSessionsGone /\ StreamsEnd
=============================================================================
