---------------------------- MODULE QuicSession ----------------------------
(***************************************************************************)
(* One QUIC connection that carries plain streams: QuicSession             *)
(* (src/src/quic/session.cpp) with the StreamApplication on top of it      *)
(* (src/src/quic/streams.cpp) and the Connection handle its user has       *)
(* (src/src/quic/connection.cpp), the same on both sides.                  *)
(*                                                                         *)
(* All of it runs on the executor of the session.  A step is one callback  *)
(* of ngtcp2, one call of the user, one handler that was posted, or what   *)
(* ngtcp2 makes of one stream that write_pkt() offers it.  While a write   *)
(* pass goes on, nobody else acts.                                         *)
(*                                                                         *)
(* What a stream does with its bytes is QuicStream's matter: here it has   *)
(* something to send or not, and something to read or not.  Congestion     *)
(* control means that there may be no room for a packet as long as others  *)
(* are in flight, and the credit of the connection may be used up.  A pass *)
(* may end in vain, when its datagrams can not be sent.                    *)
(***************************************************************************)
EXTENDS Integers, SequencesExt

CONSTANTS
    Streams,        \* bound: the streams that are opened
    Remotes,        \* bound: which of them may be those that the peer opens
    MaxOut,         \* bound: packets of data in one write
    MaxPackets      \* bound: packets that fit into tx_buf_

ASSUME StreamsAssumption == IsFiniteSet(Streams) /\ Remotes \subseteq SUBSET Streams
ASSUME BoundsAssumption == MaxOut \in Nat \ {0} /\ MaxPackets \in Nat \ {0}

VARIABLES
    remote,         \* the streams that the peer opens, in any order: the others are ours
    ready,          \* application_ready_
    closed,         \* closed_
    closed_ec,      \* closed_ec_ is set
    gone,           \* the session was torn down
    streams,        \* streams_
    st,             \* the streams, see InitStream
    opened,         \* the streams of the peer, in the order in which they were opened
    accept_queue,   \* accept_queue_
    accept,         \* accept_handler_ is set
    write_queue,    \* write_queue_
    write_posted,   \* write_posted_
    reading,        \* datagrams are being read, and will be answered
    pass,           \* packets that still fit into this write pass, or 0
    inflight,       \* packets wait to be acknowledged, or a reset to be written first
    credit,         \* ngtcp2_conn_get_max_data_left() is not 0
    timer,          \* timer_ is armed
    mute,           \* history: the last pass found no timer armed, and could not be sent
    connection,     \* the Connection: not made yet, on its way, held, or released
    closing         \* close_connection() has posted its work

conn == <<remote, ready, gone>>
accepting == <<opened, accept_queue, accept>>
writing == <<write_queue, write_posted>>
engine == <<reading, pass, inflight, credit, timer, mute>>
user == <<connection, closing>>
vars == <<conn, closed, closed_ec, streams, st, accepting, writing, engine, user>>

\* ngtcp2's view of the stream and of its two directions, which end with a FIN or with a
\* reset, the handle the user has of it,
\* and the stream itself: something to read, packets to send.
InitStream ==
    [ngtcp2 |-> "none", rx |-> "open", tx |-> "open", handle |-> "none",
     closed |-> FALSE, unread |-> FALSE, out |-> 0, scheduled |-> FALSE, blocked |-> FALSE]

Init ==
    /\ remote \in Remotes
    /\ ready = FALSE /\ closed = FALSE /\ closed_ec = FALSE /\ gone = FALSE
    /\ streams = {} /\ st = [s \in Streams |-> InitStream]
    /\ opened = <<>> /\ accept_queue = <<>> /\ accept = FALSE
    /\ write_queue = <<>> /\ write_posted = FALSE
    /\ reading = FALSE /\ pass = 0 /\ inflight = FALSE /\ credit = TRUE
    /\ timer = TRUE /\ mute = FALSE
    /\ connection = "none" /\ closing = FALSE

\* Type invariant: every field has a value the code can give it.
TypeOK ==
    /\ remote \subseteq Streams
    /\ {ready, closed, closed_ec, gone, accept, write_posted, reading, inflight, credit, timer,
        mute, closing} \subseteq BOOLEAN
    /\ streams \subseteq Streams
    /\ \A s \in Streams :
        /\ st[s].ngtcp2 \in {"none", "open", "closed"}
        /\ st[s].rx \in {"open", "over"}
        /\ st[s].tx \in {"open", "ending", "over"}
        /\ st[s].handle \in {"none", "held", "detached", "gone"}
        /\ st[s].out \in 0 .. MaxOut
    /\ {opened, accept_queue} \subseteq Seq(remote) /\ write_queue \in Seq(Streams)
    /\ pass \in 0 .. MaxPackets
    /\ connection \in {"none", "posted", "held", "gone"}

-----------------------------------------------------------------------------
(* Write scheduling.                                                       *)

Attached(s) == st[s].handle = "held"

\* The stream has data, or owes the end of its body: what pending_data() looks at.
HasToSend(x) == x.out > 0 \/ x.tx = "ending"

\* wake_write(): one flush is posted at a time.
WakeWrite == write_posted' = TRUE

\* Fault: the flush is left to the next packet that arrives.
ScheduleSilently(s, x) ==
    /\ st' = [st EXCEPT ![s] = [x EXCEPT !.scheduled = ~x.blocked /\ ~closed_ec]]
    /\ write_queue' = IF x.scheduled \/ x.blocked \/ closed_ec THEN write_queue
                      ELSE Append(write_queue, s)
    /\ UNCHANGED write_posted

\* schedule() of a stream that has become x: to the end of the queue, once.
Schedule(s, x) ==
    IF x.scheduled \/ x.blocked \/ closed_ec
    THEN /\ st' = [st EXCEPT ![s] = x]
         /\ UNCHANGED writing
    ELSE /\ st' = [st EXCEPT ![s] = [x EXCEPT !.scheduled = TRUE]]
         /\ write_queue' = Append(write_queue, s)
         /\ WakeWrite

\* unschedule_front(): the queue, without the stream.
UnscheduleFront(s) ==
    IF write_queue # <<>> /\ Head(write_queue) = s THEN Tail(write_queue) ELSE write_queue

-----------------------------------------------------------------------------
(* Streams come and go.                                                    *)

\* maybe_close() of a stream that has become x: the session forgets it.
MaybeClose(s, x) ==
    streams' = IF x.closed /\ x.handle # "held" THEN streams \ {s}
               ELSE streams

\* fail() of a stream: neither direction matters any more.
Fail(x) == [x EXCEPT !.closed = TRUE, !.out = 0, !.rx = "over", !.tx = "over",
                     !.blocked = FALSE]

\* on_closed(): who waits for a stream is told that none will come.
OnClosed ==
    /\ closed_ec' = TRUE
    /\ accept_queue' = <<>> /\ write_queue' = <<>>
    /\ accept' = FALSE
    /\ UNCHANGED opened

\* handle_error() of either role, as far as streams go: the connection is over, and
\* fail_streams() has told them.  What users do when they are told comes after that.
HandleError ==
    /\ closed' = TRUE
    /\ OnClosed
    /\ st' = [s \in Streams |-> IF s \in streams THEN Fail(st[s]) ELSE st[s]]
    /\ streams' = {s \in streams : Attached(s)}
    /\ timer' = FALSE

\* clear_streams(): a handle that is left is detached from its stream.
ClearStreams ==
    /\ OnClosed
    /\ st' = [s \in Streams |-> IF s \in streams /\ Attached(s)
                                THEN [Fail(st[s]) EXCEPT !.handle = "detached"] ELSE st[s]]
    /\ streams' = {}

\* The destructor, or do_destroy() of a server that goes away.
Destroy ==
    /\ pass = 0 /\ ~reading /\ ~gone
    /\ ClearStreams
    /\ closed' = TRUE /\ gone' = TRUE /\ timer' = FALSE
    /\ UNCHANGED <<remote, ready, write_posted, reading, pass, inflight, credit, mute, user>>

-----------------------------------------------------------------------------
(* accept_stream() and open_stream().                                      *)

\* Fault: the newest stream is the first to be accepted.
OpenRemoteStreamInFront(s, x) ==
    IF s \in streams \/ s \notin remote \/ closed_ec
    THEN /\ st' = IF s \in streams THEN [st EXCEPT ![s] = x] ELSE st
         /\ UNCHANGED <<streams, accepting>>
    ELSE /\ streams' = streams \cup {s}
         /\ opened' = Append(opened, s)
         /\ accept' = FALSE
         /\ st' = IF accept THEN [st EXCEPT ![s] = [x EXCEPT !.handle = "held"]]
                  ELSE [st EXCEPT ![s] = x]
         /\ accept_queue' = IF accept THEN accept_queue ELSE <<s>> \o accept_queue

\* open_remote_stream() for a stream that has become x by what arrived, and
\* deliver_accepted(): a stream we do not know is queued, and given to who waits for one.
OpenRemoteStream(s, x) ==
    IF s \in streams \/ s \notin remote \/ closed_ec
    THEN /\ st' = IF s \in streams THEN [st EXCEPT ![s] = x] ELSE st
         /\ UNCHANGED <<streams, accepting>>
    ELSE LET queue == Append(accept_queue, s) IN
         /\ streams' = streams \cup {s}
         /\ opened' = Append(opened, s)
         /\ accept' = FALSE
         /\ IF accept
            THEN /\ st' = [st EXCEPT ![s] = x, ![Head(queue)].handle = "held"]
                 /\ accept_queue' = Tail(queue)
            ELSE /\ st' = [st EXCEPT ![s] = x]
                 /\ accept_queue' = queue

\* async_accept_stream(): from the queue, or else by waiting.  The queue may hold the last
\* reference to a stream that is over; it goes with the call, and detaches the handle.
AcceptStream ==
    /\ connection = "held" /\ pass = 0 /\ ~accept
    /\ \/ /\ accept_queue # <<>>
          /\ LET s == Head(accept_queue) IN
             st' = [st EXCEPT ![s].handle = IF s \in streams THEN "held" ELSE "detached"]
          /\ accept_queue' = Tail(accept_queue)
          /\ UNCHANGED accept
       \/ /\ accept_queue = <<>> /\ ~closed_ec
          /\ accept' = TRUE
          /\ UNCHANGED <<st, accept_queue>>
    /\ UNCHANGED <<conn, closed, closed_ec, streams, opened, writing, engine, user>>

CancelAccept ==
    /\ accept /\ pass = 0
    /\ accept' = FALSE
    /\ UNCHANGED <<conn, closed, closed_ec, streams, st, opened, accept_queue, writing,
                   engine, user>>

OpenStream(s) ==
    /\ connection = "held" /\ pass = 0 /\ s \notin remote /\ st[s].ngtcp2 = "none"
    /\ ~closed_ec /\ ~closed /\ ready
    /\ streams' = streams \cup {s}
    /\ st' = [st EXCEPT ![s].ngtcp2 = "open", ![s].handle = "held"]
    /\ UNCHANGED <<conn, closed, closed_ec, accepting, writing, engine, user>>

-----------------------------------------------------------------------------
(* The user of a stream.                                                   *)

MayUse(s) == st[s].handle = "held" /\ pass = 0

\* A write, of data or of the end of the body.
Write(s) ==
    /\ MayUse(s) /\ st[s].tx = "open" /\ ~st[s].closed /\ st[s].out = 0
    /\ \/ Schedule(s, [st[s] EXCEPT !.out = MaxOut])
       \/ Schedule(s, [st[s] EXCEPT !.tx = "ending"])
    /\ UNCHANGED <<conn, closed, closed_ec, streams, accepting, engine, user>>

\* A read takes what there is, and consume_stream() tells the peer.
Read(s) ==
    /\ MayUse(s) /\ st[s].unread
    /\ st' = [st EXCEPT ![s].unread = FALSE]
    /\ WakeWrite
    /\ UNCHANGED <<conn, closed, closed_ec, streams, accepting, write_queue, engine, user>>

\* Both handles are released: delete_reader() stops the peer, delete_writer() resets a body
\* that was not ended.
Release(s) ==
    LET x == [st[s] EXCEPT !.handle = "gone", !.unread = FALSE,
                           !.rx = IF @ = "open" THEN "over" ELSE @,
                           !.tx = IF @ = "open" THEN "over" ELSE @,
                           !.out = IF st[s].tx = "open" THEN 0 ELSE @]
    IN
    /\ MayUse(s)
    /\ st' = [st EXCEPT ![s] = x]
    /\ MaybeClose(s, x)
    /\ write_posted' = (write_posted \/ "open" \in {st[s].rx, st[s].tx})
    /\ inflight' = (inflight \/ "open" \in {st[s].rx, st[s].tx})
    /\ UNCHANGED <<conn, closed, closed_ec, accepting, write_queue, reading, pass, credit, timer,
                   mute, user>>

-----------------------------------------------------------------------------
(* What ngtcp2 reports while a packet is read.                             *)

\* A datagram has arrived, and may acknowledge what is in flight, or bring MAX_DATA.
BeginRead ==
    /\ pass = 0 /\ ~reading /\ ~closed
    /\ reading' = TRUE
    /\ inflight' \in {inflight, FALSE} /\ credit' \in {credit, TRUE}
    /\ UNCHANGED <<conn, closed, closed_ec, streams, st, accepting, writing, pass, timer, mute,
                   user>>

\* start_application(), once, and on_ready(): the handler gets the connection later.
StartApplication ==
    /\ reading /\ ~closed /\ ~ready
    /\ ready' = TRUE
    /\ connection' = "posted"
    /\ UNCHANGED <<remote, gone, closed, closed_ec, streams, st, accepting, writing, engine,
                   closing>>

Known(s) == st[s].ngtcp2 = "open" \/ (st[s].ngtcp2 = "none" /\ s \in remote)

\* A callback about a stream that has become x; whether ngtcp2 has to answer it.
Report(s, x, answer) ==
    /\ reading /\ ready /\ ~closed
    /\ OpenRemoteStream(s, [x EXCEPT !.ngtcp2 = "open"])
    /\ inflight' = (inflight \/ answer)
    /\ UNCHANGED <<conn, closed, closed_ec, writing, reading, pass, credit, timer, mute, user>>

\* recv_stream_data(), or stream_open() without data.
RecvStreamData(s) ==
    /\ Known(s) /\ st[s].rx = "open"
    /\ \/ Report(s, [st[s] EXCEPT !.unread = TRUE], FALSE)
       \/ Report(s, [st[s] EXCEPT !.unread = TRUE, !.rx = "over"], FALSE)
       \/ st[s].ngtcp2 = "none" /\ Report(s, st[s], FALSE)

\* stream_reset(): the peer gives up, and what was not read is dropped.
StreamReset(s) ==
    /\ Known(s) /\ st[s].rx = "open"
    /\ Report(s, [st[s] EXCEPT !.rx = "over", !.unread = FALSE], FALSE)

\* recv_stop_sending(): ngtcp2 has reset our side.
RecvStopSending(s) ==
    /\ Known(s) /\ st[s].tx \in {"open", "ending"}
    /\ Report(s, [st[s] EXCEPT !.tx = "over", !.out = 0], TRUE)

\* stream_close(): both directions are over, and nothing is in flight.
StreamClose(s) ==
    /\ reading /\ ready /\ ~closed /\ ~inflight
    /\ st[s].ngtcp2 = "open" /\ st[s].rx = "over" /\ st[s].tx = "over"
    /\ LET x == [Fail(st[s]) EXCEPT !.ngtcp2 = "closed"] IN
       /\ st' = [st EXCEPT ![s] = x]
       /\ MaybeClose(s, x)
    /\ UNCHANGED <<conn, closed, closed_ec, accepting, writing, engine, user>>

ExtendMaxStreamData(s) ==
    /\ reading /\ ready /\ ~closed /\ s \in streams /\ st[s].blocked
    /\ Schedule(s, [st[s] EXCEPT !.blocked = FALSE])
    /\ UNCHANGED <<conn, closed, closed_ec, streams, accepting, engine, user>>

-----------------------------------------------------------------------------
(* Writing.                                                                *)

\* flush_write(), up to the call into ngtcp2.
FlushWrite == pass' = IF closed THEN 0 ELSE MaxPackets

\* Everything that has arrived is read: the answer is written.
EndRead ==
    /\ reading
    /\ reading' = FALSE
    /\ FlushWrite
    /\ UNCHANGED <<conn, closed, closed_ec, streams, st, accepting, writing, inflight, credit,
                   timer, mute, user>>

\* What wake_write() has posted.
RunFlush ==
    /\ write_posted /\ pass = 0 /\ ~reading
    /\ write_posted' = FALSE
    /\ FlushWrite
    /\ UNCHANGED <<conn, closed, closed_ec, streams, st, accepting, write_queue, reading,
                   inflight, credit, timer, mute, user>>

\* handle_expiry(): something is sent again.
HandleExpiry ==
    /\ timer /\ pass = 0 /\ ~reading /\ inflight
    /\ timer' = FALSE
    /\ FlushWrite
    /\ UNCHANGED <<conn, closed, closed_ec, streams, st, accepting, writing, reading,
                   inflight, credit, mute, user>>

\* next_stream_data(): a stream that is gone, blocked or has nothing to send leaves the queue.
DropFront ==
    /\ pass > 0 /\ credit /\ write_queue # <<>>
    /\ LET s == Head(write_queue) IN
       /\ s \notin streams \/ st[s].blocked \/ ~HasToSend(st[s])
       /\ st' = [st EXCEPT ![s].scheduled = (@ /\ s \notin streams)]
    /\ write_queue' = Tail(write_queue)
    /\ UNCHANGED <<conn, closed, closed_ec, streams, accepting, write_posted, engine, user>>

\* The stream that next_stream_data() offers.
Offered(s) ==
    /\ pass > 0 /\ credit /\ write_queue # <<>> /\ s = Head(write_queue)
    /\ s \in streams /\ ~st[s].blocked /\ HasToSend(st[s])

\* Fault: a stream stays in front until it has nothing more to send.
OnStreamDataWrittenInFront(s, x) ==
    /\ st' = [st EXCEPT ![s] = [x EXCEPT !.scheduled = TRUE]]
    /\ UNCHANGED write_queue

\* on_stream_data_written() for a stream that has become x: to the back of the queue.
OnStreamDataWritten(s, x) ==
    /\ st' = [st EXCEPT ![s] = [x EXCEPT !.scheduled = TRUE]]
    /\ write_queue' = Append(UnscheduleFront(s), s)

\* The rest of flush_write(): update_timer(), unless send_datagrams() has failed, as it does
\* on a server, and which is nobody's error; then timer_ is left as it is.
FlushEnds ==
    \/ mute' = FALSE /\ timer' = TRUE
    \/ mute' = ~timer /\ UNCHANGED timer

\* write_pkt(): some of the data went into the packet, which is complete or has room for
\* more (NGTCP2_ERR_WRITE_MORE), and has used up the credit or not.
WritePkt(s) ==
    /\ Offered(s)
    /\ OnStreamDataWritten(s, IF st[s].out > 0
                              THEN [st[s] EXCEPT !.out = @ - 1,
                                                 !.tx = IF st[s].out = 1 /\ @ = "ending"
                                                        THEN "over" ELSE @]
                              ELSE [st[s] EXCEPT !.tx = "over"])
    /\ pass' \in {pass, pass - 1}
    /\ inflight' = TRUE /\ credit' \in BOOLEAN
    /\ IF pass' = 0 THEN FlushEnds ELSE UNCHANGED <<timer, mute>>
    /\ UNCHANGED <<conn, closed, closed_ec, streams, accepting, write_posted, reading, user>>

\* NGTCP2_ERR_STREAM_DATA_BLOCKED: on_stream_blocked().
OnStreamBlocked(s) ==
    /\ Offered(s)
    /\ st' = [st EXCEPT ![s].blocked = TRUE, ![s].scheduled = FALSE]
    /\ write_queue' = UnscheduleFront(s)
    /\ UNCHANGED <<conn, closed, closed_ec, streams, accepting, write_posted, engine, user>>

\* The pass ends: there is nothing to offer, or no room or credit for it.
EndPass ==
    /\ pass > 0 /\ (write_queue = <<>> \/ inflight \/ ~credit)
    /\ pass' = 0
    /\ FlushEnds
    /\ UNCHANGED <<conn, closed, closed_ec, streams, st, accepting, writing, reading,
                   inflight, credit, user>>

-----------------------------------------------------------------------------
(* The end of the connection.                                              *)

\* The idle timeout: handle_expiry() of a connection whose peer is silent.
IdleClose ==
    /\ timer /\ pass = 0 /\ ~reading /\ ~closed
    /\ HandleError
    /\ UNCHANGED <<conn, write_posted, reading, pass, inflight, credit, mute, user>>

\* on_read() or write_streams() fails, or the peer has closed the connection.
ConnectionFails ==
    /\ reading \/ pass > 0
    /\ ~closed
    /\ HandleError
    /\ reading' = FALSE /\ pass' = 0
    /\ UNCHANGED <<conn, write_posted, inflight, credit, mute, user>>

\* The handler of a server is launched with the connection, unless it is over, or
\* quic::connect() returns it to a client in either case.
HandlerStarts ==
    /\ connection = "posted" /\ pass = 0 /\ ~reading
    /\ connection' \in IF closed_ec THEN {"gone", "held"} ELSE {"held"}
    /\ UNCHANGED <<conn, closed, closed_ec, streams, st, accepting, writing, engine, closing>>

\* Connection::close(), and the release of the handle by a user that does not wait on it.
CloseConnection ==
    /\ connection = "held" /\ pass = 0 /\ ~closing
    /\ connection' \in {"held"} \cup IF accept THEN {} ELSE {"gone"}
    /\ closing' = TRUE
    /\ UNCHANGED <<conn, closed, closed_ec, streams, st, accepting, writing, engine>>

\* What close_connection() has posted.
RunClose ==
    /\ closing /\ pass = 0 /\ ~reading
    /\ closing' = FALSE
    /\ IF closed THEN UNCHANGED <<closed, closed_ec, streams, st, accepting, write_queue, timer>>
       ELSE HandleError
    /\ UNCHANGED <<conn, write_posted, reading, pass, inflight, credit, mute, connection>>

-----------------------------------------------------------------------------
Engine ==
    \/ EndRead \/ RunFlush \/ HandleExpiry \/ DropFront \/ EndPass
    \/ HandlerStarts \/ RunClose
    \/ \E s \in Streams : WritePkt(s)

Next ==
    \/ Engine \/ Destroy
    \/ AcceptStream \/ CancelAccept \/ CloseConnection
    \/ BeginRead \/ StartApplication \/ IdleClose \/ ConnectionFails
    \/ \E s \in Streams :
        \/ OpenStream(s) \/ Write(s) \/ Read(s) \/ Release(s)
        \/ RecvStreamData(s) \/ StreamReset(s) \/ RecvStopSending(s) \/ StreamClose(s)
        \/ ExtendMaxStreamData(s) \/ OnStreamBlocked(s)

Spec == Init /\ [][Next]_vars

-----------------------------------------------------------------------------
\* Accepting (open_remote_stream(), deliver_accepted(), async_accept_stream()): each stream
\* of the peer is given out once, in the order in which they were opened, and none waits
\* while somebody waits for it; nobody waits for a stream once the connection is over.
AcceptedInOrder ==
    /\ accept => accept_queue = <<>> /\ ~closed_ec
    /\ ~closed_ec => \E k \in 0 .. Len(opened) :
        /\ accept_queue = SubSeq(opened, k + 1, Len(opened))
        /\ \A i \in 1 .. Len(opened) : (st[opened[i]].handle # "none") <=> (i <= k)

\* wake_write(), schedule(): a stream that has something to send and credit to send it is
\* in the write queue, once, and is written by a pass that goes on, is posted or comes with
\* the answer to what is being read; or else by the one that follows from the peer's MAX_DATA,
\* if the credit of the connection is used up, or from what is in flight.  For that there is
\* a timer, unless it was the timer that has started the last pass, or one like it, and the
\* pass could not be sent: then flush_write() has returned before it would arm it again.
WriteComes ==
    \A s \in streams :
        HasToSend(st[s]) /\ ~st[s].blocked /\ ~closed =>
            /\ Cardinality({i \in DOMAIN write_queue : write_queue[i] = s}) = 1
            /\ \/ write_posted \/ reading \/ pass > 0
               \/ ~credit
               \/ inflight /\ (timer \/ mute)

\* The stream has something to send, and only waits for its turn.
Waits(s) == s \in streams /\ HasToSend(st[s]) /\ ~st[s].blocked /\ ~closed

\* The streams that are offered before it.
Ahead(s) ==
    {write_queue[i] : i \in {j \in DOMAIN write_queue : \A k \in 1 .. j : write_queue[k] # s}}

\* Round robin (next_stream_data(), on_stream_data_written()): no stream gets ahead of one that
\* waits, whatever is scheduled, blocked, reset or released in the meantime, and one that had
\* its turn, over as many passes as it takes, is behind it.  So each of the others is written
\* at most once before it, however much they have to send.
NoOvertaking ==
    [][\A s \in Streams : Waits(s) /\ Waits(s)' /\ ~WritePkt(s) =>
        Ahead(s)' \subseteq Ahead(s) \ {x \in Streams : WritePkt(x)}]_vars

=============================================================================
