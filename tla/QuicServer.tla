----------------------------- MODULE QuicServer -----------------------------
(***************************************************************************)
(* The QUIC side of a server, src/src/quic/server.cpp: the UDP socket and  *)
(* its receive loop, the table of connection IDs that tells which session  *)
(* a datagram is for, and the sessions, each on a strand of its own, from  *)
(* the Initial that makes one to the end of its closing period.            *)
(*                                                                         *)
(* The receive loop, every session's strand and the thread that destroys   *)
(* the server run at the same time.  What they share is the table and the  *)
(* registry of sessions, each behind a mutex, so a step ends where one of  *)
(* them is locked next.  Streams, and what a connection carries, are the   *)
(* matter of QuicSession.                                                  *)
(*                                                                         *)
(* Clients and the network between may do anything: a datagram of any kind *)
(* may come at any time, again, late or never.                             *)
(***************************************************************************)
EXTENDS Integers, Sequences, FiniteSetsExt

CONSTANTS
    Clients,        \* bound: connections that are attempted, each with an ID of its own choice
    Sessions,       \* bound: sessions that the server makes, 1 .. n
    MaxBatch,       \* bound: datagrams that one udp_on_read() collects, 32 in the code
    MaxDatagrams    \* bound: datagrams that reach the server

ASSUME ClientsAssumption == IsFiniteSet(Clients) /\ "none" \notin Clients
ASSUME SessionsAssumption == IsFiniteSet(Sessions) /\ Sessions = 1 .. Cardinality(Sessions)
ASSUME BoundsAssumption == MaxBatch \in Nat \ {0} /\ MaxDatagrams \in Nat

VARIABLES
    dcids,          \* sessions_, under what clients have chosen: a session, or 0
    cids,           \* sessions_, under what the server has chosen: the sessions that are in it
    sess,           \* the sessions, see NoSession
    batches,        \* what udp_on_read() has collected so far, for each session
    loop,           \* udp_receive_loop(): waits, is in udp_on_read(), or over
    left,           \* datagrams that may still come
    socket,         \* socket_: open, to be closed, or closed
    registry,       \* sessions_ of the Server
    destroyed       \* destroyed_ of the Server

table == <<dcids, cids>>
receiver == <<batches, loop, left>>
parent == <<registry, destroyed, socket>>
vars == <<table, sess, receiver, parent>>

NoBatch == [new |-> FALSE, data |-> <<>>]
Idle == [at |-> "idle", data |-> <<>>, read_ok |-> FALSE]

\* A session that was not made.  Its connection is up, closing or draining, and may be
\* closed_ in each of these; a completion of its timer may be queued, whatever the timer
\* is used for by then; task is do_session(), run the batch that is being processed; sent is
\* what went out last.  Mute: there was no CONNECTION_CLOSE to send when it was closed, or
\* sendmsg() has failed since the timer was armed.
NoSession ==
    [client |-> "none", conn |-> "none", closed |-> FALSE, sent |-> "nothing",
     mute |-> FALSE, timer |-> "off", queued |-> {}, task |-> "none", done |-> FALSE,
     destroy |-> FALSE, jobs |-> <<>>, run |-> Idle]

Init ==
    /\ dcids = [c \in Clients |-> 0] /\ cids = {}
    /\ sess = [s \in Sessions |-> NoSession]
    /\ batches = [s \in Sessions |-> NoBatch] /\ loop = "waiting" /\ left = MaxDatagrams
    /\ registry = {} /\ destroyed = FALSE /\ socket = "open"

Exists(s) == sess[s].client # "none"

\* Type invariant: every field has a value the code can give it.
TypeOK ==
    /\ dcids \in [Clients -> Sessions \cup {0}] /\ {cids, registry} \subseteq SUBSET Sessions
    /\ loop \in {"waiting", "reading", "over"} /\ left \in 0 .. MaxDatagrams
    /\ socket \in {"open", "to be closed", "closed"} /\ destroyed \in BOOLEAN
    /\ \A s \in Sessions :
        /\ sess[s].client \in Clients \cup {"none"}
        /\ sess[s].conn \in {"none", "up", "closing", "draining"}
        /\ sess[s].timer \in {"off", "expiry", "close"}
        /\ sess[s].queued \subseteq {"expiry", "close"}
        /\ sess[s].task \in {"none", "waiting", "over"}
        /\ sess[s].run.at \in {"idle", "register", "feed"}

Known(s) == s \in cids \/ \E c \in Clients : dcids[c] = s

\* The strand of a session is free to run its next handler.
Free(s) == Exists(s) /\ sess[s].run = Idle

\* erase_quic_session(), if it is called.
Erase(s, called) ==
    /\ dcids' = [c \in Clients |-> IF called /\ dcids[c] = s THEN 0 ELSE dcids[c]]
    /\ cids' = IF called THEN cids \ {s} ELSE cids

\* Session s becomes y.  It is deleted, with its timer, when nobody refers to it any more.
Update(s, y) ==
    LET referred == \/ Known(s)' \/ batches[s] # NoBatch
                    \/ y.jobs # <<>> \/ y.run # Idle \/ y.task = "waiting" \/ y.destroy
    IN  sess' = [sess EXCEPT ![s] =
          IF referred THEN y
          ELSE [NoSession EXCEPT !.client = y.client, !.closed = TRUE, !.task = "over"]]

\* Session s becomes y, and the table forgets it or not.
Becomes(s, y, erases) == Erase(s, erases) /\ Update(s, y)

-----------------------------------------------------------------------------
(* The receive loop.                                                       *)

\* Fault: a new session is not in the table until init() has run.
PublishLate(c, s) == UNCHANGED dcids

\* The connection ID that the client has chosen leads to the session from now on.
Publish(c, s) == dcids' = [dcids EXCEPT ![c] = s]

\* udp_on_read(), a datagram for a session that is in the table.
DemuxKnown(s, kind) ==
    /\ Known(s)
    /\ batches' = [batches EXCEPT ![s].data = Append(@, kind)]
    /\ UNCHANGED <<dcids, sess>>

\* udp_on_read(), an Initial for a connection ID that is not in the table.
DemuxNew(c, s) ==
    /\ dcids[c] = 0
    /\ ~Exists(s) /\ \A t \in 1 .. s - 1 : Exists(t)
    /\ sess' = [sess EXCEPT ![s].client = c]
    /\ Publish(c, s)
    /\ batches' = [batches EXCEPT ![s] = [new |-> TRUE, data |-> <<"packet">>]]

\* Datagrams in the batch of the receive loop.
Collected == MapThenSumSet(LAMBDA s : Len(batches[s].data), Sessions)

\* The socket is readable, or is being read: recvmsg() returns a datagram, which is a packet or
\* a CONNECTION_CLOSE.  Those that lead nowhere are as good as lost.
Receive ==
    /\ loop = "reading" \/ (loop = "waiting" /\ socket # "closed")
    /\ left > 0 /\ Collected < MaxBatch
    /\ \E s \in Sessions :
        \/ \E kind \in {"packet", "close"} : DemuxKnown(s, kind)
        \/ \E c \in Clients : DemuxNew(c, s)
    /\ left' = left - 1
    /\ loop' = "reading"
    /\ UNCHANGED <<cids, parent>>

\* There is nothing more to read, or a batch is full: each session has its share posted.
PostBatches ==
    /\ loop = "reading"
    /\ sess' = [s \in Sessions |->
         IF batches[s] = NoBatch THEN sess[s]
         ELSE [sess[s] EXCEPT !.jobs = Append(@, batches[s])]]
    /\ batches' = [s \in Sessions |-> NoBatch]
    /\ loop' = "waiting"
    /\ UNCHANGED <<table, left, parent>>

\* wait_readable() fails, as the socket is closed.
ReceiveLoopEnds ==
    /\ loop = "waiting" /\ socket = "closed"
    /\ loop' = "over"
    /\ UNCHANGED <<table, sess, batches, left, parent>>

-----------------------------------------------------------------------------
(* The end of a connection, and what is sent.                              *)

\* Fault: nothing ends the closing or draining period.
NoCloseTimer(x) == [x EXCEPT !.mute = FALSE]

\* schedule_close_timer(): arm() replaces whatever the timer was for.
ScheduleCloseTimer(x) == [x EXCEPT !.timer = "close", !.mute = FALSE]

\* send_udp() with a CONNECTION_CLOSE.
SendClose(x) == [x EXCEPT !.sent = "close"]

\* handle_error() of a session that is not closed, with what the caller does after it: init()
\* makes process_quic_batch() forget the session, and in a batch it is forgotten unless a
\* closing or draining period has begun.
HandleError(s, x, why, caller) ==
    LET y == [x EXCEPT !.closed = TRUE]
    IN  CASE why = "silent" ->      \* the idle timeout, or NGTCP2_ERR_DROP_CONN
               Becomes(s, [y EXCEPT !.timer = "off", !.done = TRUE], TRUE)
          [] why = "draining" ->
               Becomes(s, ScheduleCloseTimer([y EXCEPT !.conn = "draining"]), caller = "init")
          [] why = "error" ->
               \/ Becomes(s, ScheduleCloseTimer(SendClose([y EXCEPT !.conn = "closing"])),
                          caller = "init")
               \/ Becomes(s, [y EXCEPT !.done = TRUE, !.mute = TRUE], caller # "other")

\* Fault: flush_write() writes for a session that is closed.
FlushWriteAlways(s, x, caller) ==
    Becomes(s, [x EXCEPT !.timer = "expiry", !.mute = FALSE, !.sent = "packet"], FALSE)

\* write_streams(): what there is to send goes out with send_datagrams(), after which the timer
\* is armed; or sendmsg() fails, and it is not.
WriteStreams(x) ==
    {[x EXCEPT !.timer = "expiry", !.mute = FALSE, !.sent = sent] : sent \in {x.sent, "packet"}}
        \cup {[x EXCEPT !.mute = TRUE]}

\* flush_write(), in which ngtcp2 may fail as well.
FlushWrite(s, x, caller) ==
    IF x.closed THEN Becomes(s, x, FALSE)
    ELSE \/ \E y \in WriteStreams(x) : Becomes(s, y, FALSE)
         \/ HandleError(s, x, "error", caller)

\* What ngtcp2_conn_read_pkt() may make of a datagram.
ReadErrors(kind) == IF kind = "close" THEN {"draining"} ELSE {"error", "silent"}

-----------------------------------------------------------------------------
(* process_quic_batch(), on the session's strand.                          *)

\* A batch that is the first of its session: init() with the first datagram of it.
RunInit(s) ==
    /\ Free(s) /\ sess[s].jobs # <<>> /\ Head(sess[s].jobs).new
    /\ LET job == Head(sess[s].jobs)
           x == [sess[s] EXCEPT !.jobs = Tail(@), !.conn = "up"]
           going == [at |-> "register", data |-> Tail(job.data), read_ok |-> TRUE]
       IN  \/ Becomes(s, [x EXCEPT !.run = going], FALSE)
           \/ \E why \in ReadErrors(Head(job.data)) : HandleError(s, x, why, "init")
    /\ UNCHANGED <<receiver, parent>>

\* Any other batch.
RunBatch(s) ==
    /\ Free(s) /\ sess[s].jobs # <<>> /\ ~Head(sess[s].jobs).new
    /\ sess' = [sess EXCEPT ![s].jobs = Tail(@),
                            ![s].run = [at |-> "feed", data |-> Head(sess[s].jobs).data,
                                        read_ok |-> FALSE]]
    /\ UNCHANGED <<table, receiver, parent>>

\* do_destroy() of a session that is x: it is closed, and the peer is told, once.
DoDestroy(s, x, erases) ==
    LET y == [x EXCEPT !.closed = TRUE, !.timer = "off", !.done = TRUE, !.destroy = FALSE]
    IN  Becomes(s, IF x.closed THEN y ELSE SendClose(y), erases)

\* Fault: add_session() takes a session after the server was destroyed.
AddSessionAlways == TRUE

\* add_session(): not once the server is destroyed.
AddSession == ~destroyed

\* The session's own connection IDs join the table and it is registered; then do_session()
\* is launched.
Register(s) ==
    /\ sess[s].run.at = "register"
    /\ IF AddSession
       THEN /\ registry' = registry \cup {s}
            /\ cids' = cids \cup {s}
            /\ sess' = [sess EXCEPT ![s].task = "waiting", ![s].run.at = "feed"]
            /\ UNCHANGED dcids
       ELSE /\ DoDestroy(s, [sess[s] EXCEPT !.run = Idle], TRUE)
            /\ UNCHANGED registry
    /\ UNCHANGED <<receiver, destroyed, socket>>

\* resend_conn_close()
ResendConnClose(x) == SendClose(x)

\* One datagram of the batch: answered in a closing period, dropped by a session that is
\* draining or closed, and read by any other.
Feed(s) ==
    /\ sess[s].run.at = "feed" /\ sess[s].run.data # <<>>
    /\ LET kind == Head(sess[s].run.data)
           x == [sess[s] EXCEPT !.run.data = Tail(@)]
       IN  IF x.closed
           THEN Becomes(s, IF x.conn = "closing" THEN ResendConnClose(x) ELSE x, FALSE)
           ELSE \/ kind # "close" /\ Becomes(s, [x EXCEPT !.run.read_ok = TRUE], FALSE)
                \/ \E why \in ReadErrors(kind) : HandleError(s, x, why, "batch")
    /\ UNCHANGED <<receiver, parent>>

\* The batch is read, and what it asks for is sent.
FlushBatch(s) ==
    /\ sess[s].run.at = "feed" /\ sess[s].run.data = <<>>
    /\ LET x == [sess[s] EXCEPT !.run = Idle]
       IN  IF sess[s].run.read_ok THEN FlushWrite(s, x, "batch") ELSE Becomes(s, x, FALSE)
    /\ UNCHANGED <<receiver, parent>>

-----------------------------------------------------------------------------
(* Timers, and the application.                                            *)

\* The timer expires, and its completion is queued: neither cancel() nor arm() stop it now.
TimerFires(s) ==
    /\ sess[s].timer # "off"
    /\ sess' = [sess EXCEPT ![s].timer = "off", ![s].queued = @ \cup {sess[s].timer}]
    /\ UNCHANGED <<table, receiver, parent>>

\* handle_expiry(): the connection has been idle for too long.
IdleExpires(s) ==
    /\ Free(s) /\ "expiry" \in sess[s].queued /\ ~sess[s].closed
    /\ HandleError(s, [sess[s] EXCEPT !.queued = @ \ {"expiry"}], "silent", "other")
    /\ UNCHANGED <<receiver, parent>>

\* handle_expiry() for any other reason: it is time to send something again.
ExpiryRuns(s) ==
    /\ Free(s) /\ "expiry" \in sess[s].queued
    /\ FlushWrite(s, [sess[s] EXCEPT !.queued = @ \ {"expiry"}], "other")
    /\ UNCHANGED <<receiver, parent>>

\* The closing or draining period is over, see schedule_close_timer().
CloseTimerRuns(s) ==
    /\ Free(s) /\ "close" \in sess[s].queued
    /\ Becomes(s, [sess[s] EXCEPT !.queued = @ \ {"close"}, !.done = TRUE], TRUE)
    /\ UNCHANGED <<receiver, parent>>

\* The flush that wake_write() has posted, and close_connection(), for the application.
ApplicationRuns(s) ==
    /\ Free(s) /\ sess[s].task = "waiting" /\ ~sess[s].closed
    /\ FlushWrite(s, sess[s], "other")
    /\ UNCHANGED <<receiver, parent>>

\* do_session() ends, and with it the session leaves the registry.
SessionEnds(s) ==
    /\ Free(s) /\ sess[s].task = "waiting" /\ sess[s].done
    /\ Becomes(s, [sess[s] EXCEPT !.task = "over"], FALSE)
    /\ registry' = registry \ {s}
    /\ UNCHANGED <<receiver, destroyed, socket>>

-----------------------------------------------------------------------------
(* Shutdown.                                                               *)

\* Server::Impl::destroy(): every session that is registered is told on its own strand, and
\* the socket is closed on that of the receive loop.
DestroyServer ==
    /\ ~destroyed
    /\ destroyed' = TRUE /\ socket' = "to be closed"
    /\ sess' = [s \in Sessions |-> [sess[s] EXCEPT !.destroy = @ \/ s \in registry]]
    /\ UNCHANGED <<table, receiver, registry>>

\* destroy() arrives on the strand of the session.
RunDestroy(s) ==
    /\ Free(s) /\ sess[s].destroy
    /\ DoDestroy(s, sess[s], FALSE)
    /\ UNCHANGED <<receiver, parent>>

\* destroy() of the QuicServerImpl arrives on the strand of the receive loop.
CloseSocket ==
    /\ loop = "waiting" /\ socket = "to be closed"
    /\ socket' = "closed"
    /\ UNCHANGED <<table, sess, receiver, registry, destroyed>>

-----------------------------------------------------------------------------
ReceiveLoop == PostBatches \/ CloseSocket \/ ReceiveLoopEnds

\* What was posted to a strand, or waits for it.
Strand(s) ==
    \/ RunInit(s) \/ RunBatch(s) \/ Register(s) \/ Feed(s) \/ FlushBatch(s)
    \/ CloseTimerRuns(s) \/ SessionEnds(s) \/ RunDestroy(s)

Next ==
    \/ Receive \/ ReceiveLoop \/ DestroyServer
    \/ \E s \in Sessions :
        \/ Strand(s) \/ ApplicationRuns(s)
        \/ TimerFires(s) \/ IdleExpires(s) \/ ExpiryRuns(s)

Spec == Init /\ [][Next]_vars

\* Strands run what is posted to them, and timers expire.  A connection over which nothing comes
\* any more is idle at last; nothing has to end one that is in use.
FairSpec ==
    /\ Spec
    /\ WF_vars(ReceiveLoop)
    /\ \A s \in Sessions :
        /\ WF_vars(Strand(s)) /\ WF_vars(TimerFires(s))
        /\ SF_vars(left = 0 /\ IdleExpires(s))

-----------------------------------------------------------------------------
\* One connection, one session (udp_on_read() publishes the connection ID that the client has
\* chosen before init() runs): however often an Initial comes, and in whichever batch, no
\* client has two sessions that are alive.
OneSession ==
    \A s, t \in Sessions :
        s # t /\ Exists(s) /\ sess[s].client = sess[t].client => sess[s].closed \/ sess[t].closed

\* CONNECTION_CLOSE is the last that a session sends (handle_error(), do_destroy(),
\* flush_write()), also if a timer or a flush that was queued before finds it closed.
CloseIsLast ==
    [][\A s \in Sessions : sess[s].sent = "close" => sess'[s].sent # "packet"]_vars

\* A session that is over leaves the table of connection IDs, at once or when its closing or
\* draining period ends (handle_error() and who calls it, schedule_close_timer()), and so does
\* one whose client has gone silent, when the idle timer notices.  Not so one that could not
\* send, and those of a server that is destroyed.
Forgets ==
    \A s \in Sessions :
        Exists(s) /\ (sess[s].closed \/ left = 0) ~> ~Known(s) \/ destroyed \/ sess[s].mute

\* Destroying the server ends it (Server::Impl::destroy(), add_session()): the receive loop
\* is over, and every session is, those too whose Initial was waiting for its strand.
ShutdownEnds ==
    destroyed ~> /\ loop = "over" /\ registry = {}
                 /\ \A s \in Sessions : Exists(s) => sess[s].closed /\ sess[s].task # "waiting"

\* "Only the idle timer can notice" that a client is gone (test_server.cpp), which flush_write()
\* "re-arms" (session.hpp): a session whose client has gone silent leaves the table.
SilentIsForgotten ==
    \A s \in Sessions :
        Exists(s) /\ ~sess[s].closed /\ left = 0 ~> sess[s].closed \/ destroyed
=============================================================================
