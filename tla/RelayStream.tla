---------------------------- MODULE RelayStream ----------------------------
(***************************************************************************)
(* One CONNECT stream over HTTP/2 once its destination is dialled          *)
(* (relay/http2.go watchHTTP2, proxyHTTP2TCP, proxyHTTP2UDP).  Three       *)
(* goroutines share the destination's connection, the request body and the *)
(* ResponseWriter: the handler copies destination to client, "up" copies   *)
(* client to destination, "watch" rechecks the permission.  Each may call  *)
(* abort, whose body runs once (sync.Once; a second caller waits for it).  *)
(*                                                                         *)
(* A copy is blocked reading ("read") or blocked writing ("write"); moving *)
(* from one to the other is the peers' doing and nothing forces it.  Data, *)
(* capsules and byte counts are left out.                                  *)
(* A definition in front of one of the same form is a seeded fault.        *)
(***************************************************************************)
EXTENDS Naturals

VARIABLES kind,          \* "tcp" or "udp"
          peer,          \* the client: "here", "ended" (END_STREAM) or "lost"
          dest,          \* the destination: "here", "ended" (FIN) or "broken"
          conn, body,    \* open on the relay's side
          deadline,      \* the write deadline was set: the stream is reset
          responseDone,  \* of proxyHTTP2TCP
          complete,      \* of watchHTTP2; finish cancels the watcher's context
          denied,        \* a recheck refused the flow
          once,          \* abort's body: "unused", a goroutine running it, "used"
          step,          \* where each goroutine is
          resume         \* where it goes on after abort
streamVars == <<kind, peer, dest, conn, body, deadline, responseDone, complete,
                denied, once, step, resume>>

Goroutine == {"handler", "up", "watch"}

StreamInit ==
    /\ kind \in {"tcp", "udp"}
    /\ peer = "here" /\ dest = "here" /\ conn = TRUE /\ body = TRUE
    /\ deadline = FALSE /\ responseDone = FALSE /\ complete = FALSE
    /\ denied = FALSE /\ once = "unused"
    /\ step = [handler |-> "header", up |-> "none", watch |-> "watch"]
    /\ resume = [g \in Goroutine |-> "none"]

flags == <<kind, responseDone, complete, denied>>
peers == <<peer, dest>>
sides == <<conn, body>>
aborts == <<deadline, once, resume>>

Goes(g, s) == step' = [step EXCEPT ![g] = s]
Aborts(g, then) == Goes(g, "abort") /\ resume' = [resume EXCEPT ![g] = then]

-----------------------------------------------------------------------------
(* The peers.                                                              *)
ClientEnds == peer = "here" /\ peer' = "ended"
              /\ UNCHANGED <<dest, sides, flags, aborts, step>>
ClientLost == peer # "lost" /\ step["handler"] # "returned" /\ peer' = "lost"
              /\ UNCHANGED <<dest, sides, flags, aborts, step>>
DestEnds == dest = "here" /\ kind = "tcp" /\ dest' = "ended"
            /\ UNCHANGED <<peer, sides, flags, aborts, step>>
DestBreaks == dest # "broken" /\ dest' = "broken"
              /\ UNCHANGED <<peer, sides, flags, aborts, step>>

-----------------------------------------------------------------------------
(* abort: once.Do.  The first caller closes both sides, then looks at      *)
(* complete, then resets the stream; later callers wait.                   *)
AbortClose(g) ==
    /\ step[g] = "abort" /\ once = "unused"
    /\ once' = g /\ conn' = FALSE /\ body' = FALSE /\ Goes(g, "abort_check")
    /\ UNCHANGED <<peers, flags, deadline, resume>>

AbortCheck(g) ==
    /\ step[g] = "abort_check"
    /\ IF complete THEN once' = "used" /\ Goes(g, resume[g])
                   ELSE Goes(g, "abort_reset") /\ UNCHANGED once
    /\ UNCHANGED <<peers, sides, flags, deadline, resume>>

AbortReset(g) ==
    /\ step[g] = "abort_reset"
    /\ deadline' = TRUE /\ once' = "used" /\ Goes(g, resume[g])
    /\ UNCHANGED <<peers, sides, flags, resume>>

AbortAgain(g) ==
    /\ step[g] = "abort" /\ once = "used" /\ Goes(g, resume[g])
    /\ UNCHANGED <<peers, sides, flags, aborts>>

-----------------------------------------------------------------------------
(* watch (relay/main.go): a recheck refuses the flow, or the context is    *)
(* done, because the client is gone or finish cancelled it.                *)
WatchDenies ==
    /\ step["watch"] = "watch" /\ ~complete /\ peer # "lost"
    /\ denied' = TRUE /\ Aborts("watch", "gone")
    /\ UNCHANGED <<kind, responseDone, complete, peers, sides, deadline, once>>

WatchEnds ==
    /\ step["watch"] = "watch" /\ (complete \/ peer = "lost") /\ Aborts("watch", "gone")
    /\ UNCHANGED <<flags, peers, sides, deadline, once>>

-----------------------------------------------------------------------------
(* The upload copy.  It ends without an error only at the client's end of  *)
(* stream; a closed body, a lost client, a closed or broken connection are *)
(* errors.                                                                 *)
UpMoves ==
    /\ \/ step["up"] = "read" /\ body /\ peer = "here" /\ Goes("up", "write")
       \/ step["up"] = "write" /\ conn /\ Goes("up", "read")
    /\ UNCHANGED <<flags, peers, sides, aborts>>

UpEnds ==
    /\ step["up"] = "read" /\ body /\ peer = "ended" /\ Goes("up", "ended")
    /\ UNCHANGED <<flags, peers, sides, aborts>>

UpFails ==
    /\ \/ step["up"] = "read" /\ (~body \/ peer = "lost")
       \/ step["up"] = "write" /\ (~conn \/ dest = "broken")
    /\ Goes("up", "failed")
    /\ UNCHANGED <<flags, peers, sides, aborts>>

(* After the copy: TCP half-closes and, on an error met before the         *)
(* response was complete, aborts; UDP closes the connection.               *)
UpDone ==
    /\ step["up"] \in {"ended", "failed"}
    /\ IF kind = "tcp" /\ step["up"] = "failed" /\ ~responseDone
       THEN Aborts("up", "gone") ELSE Goes("up", "gone") /\ UNCHANGED resume
    /\ conn' = (conn /\ kind = "tcp")
    /\ UNCHANGED <<flags, peers, body, deadline, once>>

-----------------------------------------------------------------------------
(* The handler sends the response header and starts the upload.            *)
SendHeader ==
    /\ step["handler"] = "header"
    /\ IF peer = "lost" \/ deadline
       THEN Aborts("handler", "finish")
       ELSE step' = [step EXCEPT !["handler"] = "read", !["up"] = "read"] /\ UNCHANGED resume
    /\ UNCHANGED <<flags, peers, sides, deadline, once>>

(* The download copy.                                                      *)
DownMoves ==
    /\ \/ step["handler"] = "read" /\ conn /\ dest # "broken" /\ Goes("handler", "write")
       \/ step["handler"] = "write" /\ peer # "lost" /\ ~deadline /\ Goes("handler", "read")
    /\ UNCHANGED <<flags, peers, sides, aborts>>

(* It ends at the destination's FIN, or with an error; a UDP flow ends in  *)
(* the same way at an error, two minutes of silence among them.            *)
DownEnds ==
    /\ step["handler"] = "read"
    /\ (conn /\ dest = "ended") \/ kind = "udp"
    /\ Goes("handler", IF kind = "tcp" THEN "mark" ELSE "release")
    /\ UNCHANGED <<flags, peers, sides, aborts>>

DownFails ==
    /\ \/ step["handler"] = "read" /\ (~conn \/ dest = "broken")
       \/ step["handler"] = "write" /\ (peer = "lost" \/ deadline)
    /\ Goes("handler", IF kind = "tcp" THEN "mark_failed" ELSE "release")
    /\ UNCHANGED <<flags, peers, sides, aborts>>

(* responseDone.Store(true), and abort if the copy failed.                 *)
MarkUnmarked ==
    /\ step["handler"] \in {"mark", "mark_failed"}
    /\ IF step["handler"] = "mark_failed" THEN Aborts("handler", "release")
       ELSE Goes("handler", "release") /\ UNCHANGED resume
    /\ UNCHANGED <<flags, peers, sides, deadline, once>>
Mark ==
    /\ step["handler"] \in {"mark", "mark_failed"}
    /\ responseDone' = TRUE
    /\ IF step["handler"] = "mark_failed" THEN Aborts("handler", "release")
       ELSE Goes("handler", "release") /\ UNCHANGED resume
    /\ UNCHANGED <<kind, complete, denied, peers, sides, deadline, once>>

(* r.Body.Close(), conn.Close().                                           *)
ReleaseSidesConnOnly ==
    /\ step["handler"] = "release"
    /\ conn' = FALSE /\ Goes("handler", "join")
    /\ UNCHANGED <<flags, peers, body, aborts>>
ReleaseSides ==
    /\ step["handler"] = "release"
    /\ body' = FALSE /\ conn' = FALSE /\ Goes("handler", "join")
    /\ UNCHANGED <<flags, peers, aborts>>

(* <-done: the upload has ended.                                           *)
Join ==
    /\ step["handler"] = "join" /\ step["up"] = "gone" /\ Goes("handler", "finish")
    /\ UNCHANGED <<flags, peers, sides, aborts>>

(* finish: complete.Store(true), cancel(), then wait for the watcher.      *)
Finish ==
    /\ step["handler"] = "finish" /\ complete' = TRUE /\ Goes("handler", "join_watch")
    /\ UNCHANGED <<kind, responseDone, denied, peers, sides, aborts>>

HandlerReturns ==
    /\ step["handler"] = "join_watch" /\ step["watch"] = "gone"
    /\ conn' = FALSE /\ Goes("handler", "returned")
    /\ UNCHANGED <<flags, peers, body, aborts>>

AbortStep(g) == AbortClose(g) \/ AbortCheck(g) \/ AbortReset(g) \/ AbortAgain(g)
HandlerStep == SendHeader \/ DownFails \/ Mark \/ ReleaseSides \/ Join \/ Finish \/ HandlerReturns
UpStep == UpFails \/ UpDone

StreamNext ==
    \/ ClientEnds \/ ClientLost \/ DestEnds \/ DestBreaks
    \/ \E g \in Goroutine : AbortStep(g)
    \/ WatchDenies \/ WatchEnds \/ UpMoves \/ UpEnds \/ UpStep
    \/ DownMoves \/ DownEnds \/ HandlerStep

StreamSpec == StreamInit /\ [][StreamNext]_streamVars

-----------------------------------------------------------------------------
StreamTypeOK ==
    /\ kind \in {"tcp", "udp"}
    /\ peer \in {"here", "ended", "lost"} /\ dest \in {"here", "ended", "broken"}
    /\ \A flag \in {conn, body, deadline, responseDone, complete, denied} : flag \in BOOLEAN
    /\ once \in {"unused", "used"} \cup Goroutine
    /\ DOMAIN step = Goroutine /\ DOMAIN resume = Goroutine

(* "Normal completion must not reset a finished stream": whatever the      *)
(* three goroutines do to each other while they end, the stream is reset   *)
(* only after a refused recheck, a lost client or a broken destination.    *)
(* And when the handler has returned, neither of the others is left to use *)
(* the ResponseWriter, and the connection is closed.                       *)
StreamClean ==
    /\ deadline => denied \/ peer = "lost" \/ dest = "broken"
    /\ step["handler"] = "returned" =>
           step["up"] \in {"none", "gone"} /\ step["watch"] = "gone" /\ ~conn

(* A refused recheck, a lost client or the end of the download makes the   *)
(* handler return, even when the client reads nothing and the destination  *)
(* sends nothing: no copy stays blocked and no goroutine waits for ever    *)
(* for another's abort.                                                    *)
StreamEnds ==
    denied \/ peer = "lost" \/ step["handler"] \notin {"header", "read", "write"}
        ~> step["handler"] = "returned"
=============================================================================
