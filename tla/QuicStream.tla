----------------------------- MODULE QuicStream -----------------------------
(***************************************************************************)
(* One QUIC stream: QuicStream with its QuicReader and QuicWriter          *)
(* (src/src/quic/stream.cpp), as a plain stream (PlainStream,              *)
(* src/src/quic/streams.cpp) and as the stream of an HTTP/3 client or      *)
(* server (Http3Stream, src/src/h3/stream.cpp), with what ngtcp2 and       *)
(* nghttp3 report to it.                                                   *)
(*                                                                         *)
(* A read handler is called from the loop of call_read_handler(), and may  *)
(* resume the user right there: pc says where that loop is, and the user   *)
(* acts while it is "called".  The same goes for fail().  Completions of   *)
(* writes are posted.                                                      *)
(*                                                                         *)
(* The incoming body is a sequence of numbered units; of the outgoing one  *)
(* the offsets are kept.  A user has one read, one write and one           *)
(* get_response() in progress at a time, and does not release a handle     *)
(* under its own operation.                                                *)
(***************************************************************************)
EXTENDS Integers, Sequences, FiniteSetsExt

CONSTANTS
    Kinds,      \* which of "plain", "client" and "server" streams there are
    MaxUnits,   \* bound: units of body that travel in the two directions together
    MaxChunk    \* bound: units in a frame, in a read buffer and in a write

ASSUME KindsAssumption == Kinds \subseteq {"plain", "client", "server"}
ASSUME BoundsAssumption == MaxUnits \in Nat /\ MaxChunk \in Nat \ {0}

VARIABLES
    kind, mode,
    \* ngtcp2: the state of each direction and of the stream, and whether we stopped reading
    rx, tx, strm, stopped,
    \* the incoming body; handler is the size of the buffer to read into, or 0
    received, pending_read, incoming, eof_received, read_handler, read_aborted, pc, fin_next,
    \* what the reader was given, and what the last read said about the body
    delivered, last,
    \* the outgoing body, see InitWrite
    w,
    \* the life of the stream, and its handles
    closed, failing, registered, reader, writer,
    \* history: the user gave up in the handler of the last data of a body
    gave_up,
    \* HTTP/3: header sections, and the response on the side of the client
    headers_submitted, headers_received, response_handler, response_delivered, failure_ec

engine == <<kind, mode, rx, tx, strm, stopped>>
reading == <<received, pending_read, incoming, eof_received, read_handler, read_aborted, pc,
             fin_next, delivered, last>>
life == <<closed, failing, registered, gave_up>>
response == <<headers_submitted, headers_received, response_handler, response_delivered,
              failure_ec>>
vars == <<engine, reading, w, life, reader, writer, response>>

Plain == kind = "plain"

\* The fields of the writing side.  op is the write the user waits for: its handler is
\* held, or was posted.  end_told: an end of the body was reported as done.  scheduled: in
\* the write queue of the application, for HTTP/3 in that of nghttp3.
InitWrite ==
    [active |-> FALSE, size |-> 0, is_eof |-> FALSE, op |-> "none",
     base |-> 0, copied |-> 0, queued |-> 0, offered |-> 0, sent |-> 0, acked |-> 0,
     chunks |-> {}, eof_submitted |-> FALSE, fin_offered |-> FALSE, aborted |-> FALSE,
     scheduled |-> FALSE, blocked |-> FALSE, end_told |-> FALSE]

\* A plain stream is opened with both handles.  That of a client has a writer, and its
\* request header is on the way; that of a server comes into being with a request header.
Init ==
    /\ kind \in Kinds
    /\ mode \in CASE kind = "client" -> {"Staged"}
                  [] kind = "server" -> {"ZeroCopy"}
                  [] OTHER -> {"Staged", "ZeroCopy"}
    /\ rx = "open" /\ tx = "open" /\ strm = "open" /\ stopped = FALSE
    /\ received = 0 /\ pending_read = <<>> /\ incoming = <<>> /\ eof_received = FALSE
    /\ read_handler = 0 /\ read_aborted = FALSE /\ pc = "out" /\ fin_next = FALSE
    /\ delivered = <<>> /\ last = "nothing"
    /\ w = InitWrite
    /\ closed = FALSE /\ failing = "no" /\ registered = TRUE /\ gave_up = FALSE
    /\ reader = IF kind = "client" THEN "none" ELSE "attached"
    /\ writer = "attached"
    /\ headers_submitted = (kind # "server") /\ headers_received = (kind # "client")
    /\ response_handler = FALSE /\ response_delivered = FALSE /\ failure_ec = "none"

WriteState ==
    [active : BOOLEAN, size : Nat, is_eof : BOOLEAN, op : {"none", "held", "posted"},
     base : Nat, copied : Nat, queued : Nat, offered : Nat, sent : Nat, acked : Nat,
     chunks : SUBSET Nat, eof_submitted : BOOLEAN, fin_offered : BOOLEAN, aborted : BOOLEAN,
     scheduled : BOOLEAN, blocked : BOOLEAN, end_told : BOOLEAN]

\* Type invariant: every field has a value the code can give it.
TypeOK ==
    /\ kind \in Kinds /\ mode \in {"ZeroCopy", "Staged"}
    /\ rx \in {"open", "fin", "reset"} /\ tx \in {"open", "reset"}
    /\ strm \in {"open", "closed"} /\ stopped \in BOOLEAN
    /\ received \in 0 .. MaxUnits
    /\ pending_read \in Seq(1 .. MaxUnits) /\ incoming \in Seq(1 .. MaxUnits)
    /\ delivered \in Seq(1 .. MaxUnits) /\ read_handler \in 0 .. MaxChunk
    /\ eof_received \in BOOLEAN /\ read_aborted \in BOOLEAN /\ fin_next \in BOOLEAN
    /\ closed \in BOOLEAN /\ registered \in BOOLEAN /\ gave_up \in BOOLEAN
    /\ headers_submitted \in BOOLEAN /\ headers_received \in BOOLEAN
    /\ response_handler \in BOOLEAN /\ response_delivered \in BOOLEAN
    /\ pc \in {"out", "enter", "called"} /\ failing \in {"no", "outer", "inner"}
    /\ last \in {"nothing", "data", "eof", "partial"}
    /\ w \in WriteState
    /\ w.size <= MaxUnits /\ w.queued <= MaxUnits
    /\ reader \in {"none", "attached", "eof", "partial", "gone"}
    /\ writer \in {"attached", "ended", "cut", "gone"}
    /\ failure_ec \in {"none", "header_limit", "other"}

\* Neither ngtcp2 nor a posted handler runs while another function of the stream does.
Idle == pc = "out" /\ failing = "no" /\ ~fin_next

\* The user acts between such calls, or from within a handler that was called, until it
\* waits for its next read.
UserActs ==
    \/ pc = "called" /\ read_handler = 0
    \/ pc = "out" /\ (failing # "no" \/ ~fin_next)

\* The FIN that came with the data being delivered is noted when their handler returns:
\* a user that gives up in between does so on a body that is complete.
GivesUp == gave_up' = (gave_up \/ fin_next)

\* maybe_close(), given the handles: the session forgets the stream.  A response that is
\* still waited for ends with it.
MaybeClose(rd, wr, c) ==
    LET erase == rd # "attached" /\ wr # "attached" /\ c IN
    /\ registered' = (registered /\ ~erase)
    /\ response_handler' = (response_handler /\ ~erase)

-----------------------------------------------------------------------------
(* The incoming body.                                                      *)

\* call_read_handler() from outside of its loop: the loop starts, unless it is running.
CallReadHandler == pc' = IF pc = "out" THEN "enter" ELSE pc

Taken(n, s) == IF n < Len(s) THEN n ELSE Len(s)

\* A turn of the loop: the handler is called with what is queued, and then with the chunk
\* that is being delivered ...
TurnWithData ==
    LET k == Taken(read_handler, pending_read)
        m == Taken(read_handler - k, incoming)
    IN /\ read_handler > 0 /\ pending_read \o incoming # <<>>
       /\ delivered' = delivered \o SubSeq(pending_read, 1, k) \o SubSeq(incoming, 1, m)
       /\ pending_read' = SubSeq(pending_read, k + 1, Len(pending_read))
       /\ incoming' = SubSeq(incoming, m + 1, Len(incoming))
       /\ last' = "data" /\ pc' = "called" /\ read_handler' = 0

\* ... or with how the body has ended ...
TurnWithEnd ==
    /\ read_handler > 0 /\ pending_read \o incoming = <<>>
    /\ \/ eof_received /\ last' = "eof"
       \/ ~eof_received /\ (closed \/ read_aborted) /\ last' = "partial"
    /\ pc' = "called" /\ read_handler' = 0
    /\ UNCHANGED <<pending_read, incoming, delivered>>

\* Fault: what nobody took is parked in front of what was parked before.
LeaveLoopInFront ==
    /\ \/ read_handler = 0
       \/ pending_read \o incoming = <<>> /\ ~eof_received /\ ~closed /\ ~read_aborted
    /\ pc' = "out"
    /\ pending_read' = incoming \o pending_read /\ incoming' = <<>>
    /\ UNCHANGED <<read_handler, delivered, last>>

\* ... or the loop is left, and on_data_chunk() parks what nobody took.
LeaveLoop ==
    /\ \/ read_handler = 0
       \/ pending_read \o incoming = <<>> /\ ~eof_received /\ ~closed /\ ~read_aborted
    /\ pc' = "out"
    /\ pending_read' = pending_read \o incoming /\ incoming' = <<>>
    /\ UNCHANGED <<read_handler, delivered, last>>

ReadLoop ==
    /\ pc # "out" /\ failing # "inner"
    /\ TurnWithData \/ TurnWithEnd \/ LeaveLoop
    /\ UNCHANGED <<engine, received, eof_received, read_aborted, fin_next, w, life, reader,
                   writer, response>>

\* Units of the body arrive: on_data_chunk(), and on_eof() right after it if the FIN is there.
Arrives(n, fin) ==
    /\ Idle /\ registered /\ strm = "open" /\ rx = "open" /\ ~stopped
    /\ n + (IF fin THEN 1 ELSE 0) > 0
    /\ received + n + w.queued + w.size <= MaxUnits
    /\ received' = received + n
    /\ incoming' = [i \in 1 .. n |-> received + i]
    /\ fin_next' = fin /\ rx' = IF fin THEN "fin" ELSE rx
    /\ pc' = IF n > 0 THEN "enter" ELSE pc
    /\ UNCHANGED <<kind, mode, tx, strm, stopped, pending_read, eof_received, read_handler,
                   read_aborted, delivered, last, w, life, reader, writer, response>>

\* A STREAM frame of a plain stream ...
RecvStreamData(n, fin) == Plain /\ Arrives(n, fin)

\* ... and one that nghttp3 reads, for body that comes after the header section.
H3RecvStreamData(n, fin) == ~Plain /\ headers_received /\ Arrives(n, fin)

\* Fault: the end of the body is noted, but a read that waits is not told.
OnEofSilent ==
    /\ fin_next /\ pc = "out" /\ failing = "no"
    /\ fin_next' = FALSE /\ eof_received' = TRUE
    /\ UNCHANGED <<engine, received, pending_read, incoming, read_handler, read_aborted, pc,
                   delivered, last, w, life, reader, writer, response>>

OnEof ==
    /\ fin_next /\ pc = "out" /\ failing = "no"
    /\ fin_next' = FALSE /\ eof_received' = TRUE
    /\ CallReadHandler
    /\ UNCHANGED <<engine, received, pending_read, incoming, read_handler, read_aborted,
                   delivered, last, w, life, reader, writer, response>>

\* abort_reading(): a body that has arrived in full is not affected.
AbortReading ==
    IF eof_received \/ read_aborted
    THEN UNCHANGED <<read_aborted, pending_read, incoming, pc>>
    ELSE /\ read_aborted' = TRUE
         /\ pending_read' = <<>> /\ incoming' = <<>>
         /\ CallReadHandler

\* RESET_STREAM of the peer.
RecvReset ==
    /\ Idle /\ registered /\ Plain /\ strm = "open" /\ rx = "open"
    /\ rx' = "reset"
    /\ AbortReading
    /\ UNCHANGED <<kind, mode, tx, strm, stopped, received, eof_received, read_handler,
                   fin_next, delivered, last, w, life, reader, writer, response>>

\* nghttp3 keeps it to itself until the stream is closed.
H3RecvReset ==
    /\ Idle /\ registered /\ ~Plain /\ strm = "open" /\ rx = "open"
    /\ rx' = "reset"
    /\ UNCHANGED <<kind, mode, tx, strm, stopped, reading, w, life, reader, writer, response>>

\* What the peer still sends after STOP_SENDING is not given to the application.
RecvUnread ==
    /\ Idle /\ strm = "open" /\ rx = "open" /\ stopped
    /\ rx' = "reset"
    /\ UNCHANGED <<kind, mode, tx, strm, stopped, reading, w, life, reader, writer, response>>

\* async_read_some().
ReadSome(n) ==
    /\ UserActs /\ reader = "attached" /\ read_handler = 0
    /\ read_handler' = n
    /\ CallReadHandler
    /\ UNCHANGED <<engine, received, pending_read, incoming, eof_received, read_aborted,
                   fin_next, delivered, last, w, life, reader, writer, response>>

\* The stream is gone: detach() has latched what there is to say.
ReadDetached ==
    /\ UserActs /\ reader \in {"eof", "partial"}
    /\ last' = reader
    /\ UNCHANGED <<engine, received, pending_read, incoming, eof_received, read_handler,
                   read_aborted, pc, fin_next, delivered, w, life, reader, writer, response>>

CancelRead ==
    /\ UserActs /\ reader = "attached" /\ read_handler > 0
    /\ read_handler' = 0
    /\ UNCHANGED <<engine, received, pending_read, incoming, eof_received, read_aborted, pc,
                   fin_next, delivered, last, w, life, reader, writer, response>>

\* ~QuicReader(): delete_reader().  For a plain stream, ngtcp2 calls back to say that it
\* stopped reading, which is abort_reading().
ReleaseReader ==
    /\ UserActs /\ reader \notin {"none", "gone"} /\ read_handler = 0
    /\ reader' = "gone"
    /\ LET stop == reader = "attached" /\ ~eof_received /\ ~closed /\ ~read_aborted IN
       /\ stopped' = (stopped \/ stop)
       /\ read_aborted' = (read_aborted \/ (stop /\ Plain))
    /\ pending_read' = <<>> /\ incoming' = <<>>
    /\ IF reader = "attached" THEN MaybeClose("gone", writer, closed)
       ELSE UNCHANGED <<registered, response_handler>>
    /\ UNCHANGED <<kind, mode, rx, tx, strm, received, eof_received, read_handler, pc,
                   fin_next, delivered, last, w, closed, failing, gave_up, writer,
                   headers_submitted, headers_received, response_delivered, failure_ec>>

\* Stream::stop_sending(), which a plain stream has.
StopSending ==
    /\ UserActs /\ Plain
    /\ reader = "attached" \/ writer = "attached"
    /\ ~closed /\ ~read_aborted /\ ~eof_received
    /\ stopped' = TRUE
    /\ AbortReading /\ GivesUp
    /\ UNCHANGED <<kind, mode, rx, tx, strm, received, eof_received, read_handler, fin_next,
                   delivered, last, w, closed, failing, registered, reader, writer, response>>

-----------------------------------------------------------------------------
(* The outgoing body: what the methods of the stream do to w.              *)

\* Completes the active write, and gives the buffer back to the caller.
FinishActiveWrite(v) ==
    [v EXCEPT !.active = FALSE, !.size = 0,
              !.op = IF v.op = "held" THEN "posted" ELSE v.op,
              !.end_told = v.end_told \/ (v.op = "held" /\ v.is_eof)]

\* There is something to send: schedule() of a plain stream, or nghttp3 is told.
OnWritable(v) == [v EXCEPT !.scheduled = v.scheduled \/ ~Plain \/ ~v.blocked]

\* kWriteChunkSize: a chunk has one unit, so that it is known by its offset, and the queue
\* of chunks is the set of their offsets.
WriteChunkSize == 1

\* pending_data(): what there is to send from offset from on.  In Staged mode, the next
\* chunk is carved off the caller's buffer once everything before is in packets.
PendingData(v, from) ==
    LET total == v.size
        carve == mode = "Staged" /\ v.active /\ v.sent >= v.queued /\ v.copied < total
        take == IF carve THEN Min({total - v.copied, WriteChunkSize}) ELSE 0
        u == [v EXCEPT !.copied = v.copied + take, !.queued = v.queued + take,
                       !.chunks = IF carve THEN v.chunks \cup {v.queued} ELSE v.chunks]
        end == IF mode = "ZeroCopy" THEN (IF v.active THEN Max({from, v.queued}) ELSE from)
               ELSE Max({from} \cup {c + 1 : c \in u.chunks})
        all == mode = "ZeroCopy" \/ u.copied = total
    IN IF closed \/ v.aborted THEN [w |-> v, n |-> 0, fin |-> FALSE]
       ELSE [w |-> u, n |-> end - from,
             fin |-> u.active /\ u.is_eof /\ all /\ end >= u.queued]

\* The stack holds on to everything up to end, and to the FIN.
OnOffered(v, end, fin) ==
    LET u == [v EXCEPT !.offered = Max({v.offered, Min({end, v.queued})}),
                       !.fin_offered = v.fin_offered \/ fin]
    IN IF fin /\ u.active /\ u.size = 0 THEN FinishActiveWrite(u) ELSE u

\* It is in packets up to end.
OnSent(v, end) ==
    LET u == [v EXCEPT !.sent = Min({end, v.offered})]
    IN IF end <= v.sent THEN v
       ELSE IF mode # "Staged" \/ ~u.active \/ u.sent < u.queued \/ u.size = 0 THEN u
       ELSE IF u.copied = u.size THEN FinishActiveWrite(u)
       ELSE OnWritable(u)

\* The peer has acknowledged it up to end: chunks are dropped, a ZeroCopy write completes.
OnAcked(v, end) ==
    LET e == Min({end, v.offered})
        u == [v EXCEPT !.acked = e, !.chunks = {c \in v.chunks : c + 1 > e}]
    IN IF e <= v.acked THEN v
       ELSE IF mode = "ZeroCopy" /\ u.active /\ u.size > 0 /\ u.acked >= u.base + u.size
       THEN FinishActiveWrite(u) ELSE u

\* abort_writing().
AbortWriting(v) ==
    [v EXCEPT !.aborted = TRUE, !.active = FALSE,
              !.size = IF v.active THEN 0 ELSE v.size,
              !.op = IF v.active /\ v.op = "held" THEN "posted" ELSE v.op]

-----------------------------------------------------------------------------
(* Sending.                                                                *)

\* ngtcp2 asks the front of the write queue of plain streams for data: next_stream_data()
\* finds that there is none ...
Unschedule ==
    /\ Idle /\ registered /\ Plain /\ w.scheduled
    /\ LET p == PendingData(w, w.sent) IN
       /\ p.n = 0 /\ (~p.fin \/ w.fin_offered)
       /\ w' = [p.w EXCEPT !.scheduled = FALSE]
    /\ UNCHANGED <<engine, reading, life, reader, writer, response>>

\* ... or ngtcp2 has put k units of it into a packet: on_stream_data_written() ...
WriteStream(k) ==
    /\ Idle /\ registered /\ Plain /\ w.scheduled /\ tx = "open"
    /\ LET p == PendingData(w, w.sent)
           v == OnOffered([p.w EXCEPT !.scheduled = FALSE], w.sent + k, p.fin /\ k = p.n)
       IN /\ k \in 1 .. p.n \/ (k = 0 /\ p.n = 0 /\ p.fin /\ ~w.fin_offered)
          /\ w' = OnWritable(OnSent(v, v.sent + k))
    /\ UNCHANGED <<engine, reading, life, reader, writer, response>>

\* ... or the peer allows no more: on_stream_blocked().
StreamBlocked ==
    /\ Idle /\ registered /\ Plain /\ w.scheduled /\ tx = "open" /\ ~w.blocked
    /\ PendingData(w, w.sent).n > 0
    /\ w' = [PendingData(w, w.sent).w EXCEPT !.blocked = TRUE, !.scheduled = FALSE]
    /\ UNCHANGED <<engine, reading, life, reader, writer, response>>

\* data_reader(): nghttp3 asks for more of the body, and keeps what it is given.
DataReader ==
    /\ Idle /\ registered /\ ~Plain /\ headers_submitted /\ w.scheduled
    /\ LET p == PendingData(w, w.offered) IN
       w' = IF p.n = 0 /\ ~p.fin THEN [p.w EXCEPT !.scheduled = FALSE]
            ELSE [OnOffered(p.w, w.offered + p.n, p.fin) EXCEPT !.scheduled = ~p.fin]
    /\ UNCHANGED <<engine, reading, life, reader, writer, response>>

\* on_write_offered(): k more units of the body are in packets.
OnWriteOffered(v, k) == OnSent(v, v.sent + k)

\* ngtcp2 has put k units of what nghttp3 holds into a packet.  A bare FIN is not told.
WriteOffered(k) ==
    /\ Idle /\ registered /\ ~Plain /\ tx = "open" /\ strm = "open" /\ ~w.blocked
    /\ k \in 1 .. (w.offered - w.sent)
    /\ w' = OnWriteOffered(w, k)
    /\ UNCHANGED <<engine, reading, life, reader, writer, response>>

\* Or the peer allows no more of it: nghttp3 picks other streams until that changes.
H3StreamBlocked ==
    /\ Idle /\ registered /\ ~Plain /\ w.scheduled /\ tx = "open" /\ ~w.blocked
    /\ w.offered > w.sent
    /\ w' = [w EXCEPT !.blocked = TRUE]
    /\ UNCHANGED <<engine, reading, life, reader, writer, response>>

\* k units are acknowledged.
Acknowledged(k) ==
    /\ Idle /\ registered /\ tx = "open" /\ strm = "open"
    /\ k \in 1 .. (w.sent - w.acked)
    /\ UNCHANGED <<engine, reading, life, reader, writer, response>>

AckedStreamData(k) == Plain /\ Acknowledged(k) /\ w' = OnAcked(w, w.acked + k)

\* on_write_acked(): nghttp3 tells of the body only, by its length.
OnWriteAcked(v, k) == OnAcked(v, v.acked + k)

H3AckedStreamData(k) == ~Plain /\ Acknowledged(k) /\ w' = OnWriteAcked(w, k)

\* The peer allows more.
Unblocked ==
    /\ Idle /\ registered /\ strm = "open" /\ w.blocked
    /\ UNCHANGED <<engine, reading, life, reader, writer, response>>

ExtendMaxStreamData == Plain /\ Unblocked /\ w' = OnWritable([w EXCEPT !.blocked = FALSE])

\* nghttp3 has kept the stream in its queue.
H3ExtendMaxStreamData == ~Plain /\ Unblocked /\ w' = [w EXCEPT !.blocked = FALSE]

\* STOP_SENDING of the peer, which ngtcp2 answers with RESET_STREAM.
RecvStopSending ==
    /\ Idle /\ registered /\ strm = "open" /\ tx = "open"
    /\ tx' = "reset"
    /\ w' = IF Plain THEN AbortWriting(w) ELSE w
    /\ UNCHANGED <<kind, mode, rx, strm, stopped, reading, life, reader, writer, response>>

-----------------------------------------------------------------------------
(* Writing.                                                                *)

\* start_write(), for a write that is none of the special cases ...
StartWrite(n, eof) ==
    /\ UserActs /\ writer = "attached" /\ headers_submitted /\ w.op = "none"
    /\ ~w.eof_submitted /\ ~closed /\ ~w.aborted
    /\ n > 0 \/ eof
    /\ received + w.queued + n <= MaxUnits
    /\ w' = OnWritable([w EXCEPT
           !.eof_submitted = eof, !.active = TRUE, !.size = n, !.base = w.queued,
           !.copied = 0, !.is_eof = eof, !.op = "held",
           !.queued = IF mode = "ZeroCopy" THEN w.queued + n ELSE w.queued])
    /\ UNCHANGED <<engine, reading, life, reader, writer, response>>

\* Fault: to end a body again is always answered with success.
EndAgainAlways ==
    /\ UserActs /\ writer = "attached" /\ w.op = "none" /\ w.eof_submitted
    /\ w' = [w EXCEPT !.end_told = TRUE]
    /\ UNCHANGED <<engine, reading, life, reader, writer, response>>

\* ... and for one that ends a body which was ended before: a FIN that is still owed is
\* adopted, and otherwise the answer is how far it has come.
EndAgain ==
    /\ UserActs /\ writer = "attached" /\ w.op = "none" /\ w.eof_submitted
    /\ w' = IF w.active /\ w.is_eof /\ ~closed /\ ~w.aborted THEN [w EXCEPT !.op = "held"]
            ELSE [w EXCEPT !.end_told = w.end_told \/ ~(closed \/ w.aborted) \/ w.fin_offered]
    /\ UNCHANGED <<engine, reading, life, reader, writer, response>>

\* The stream is gone: detach() has latched whether the body was ended.
EndDetached ==
    /\ UserActs /\ writer = "ended"
    /\ w' = [w EXCEPT !.end_told = TRUE]
    /\ UNCHANGED <<engine, reading, life, reader, writer, response>>

\* Fault: a write that is cancelled with unacknowledged data does not reset the stream.
MustResetNever == FALSE

\* A cancelled ZeroCopy write must take back what the stack still points to.
MustReset ==
    mode = "ZeroCopy" /\ w.offered > w.acked /\ ~closed /\ ~w.aborted

\* bind_write_cancellation(): the FIN of a bare end stays on its way, any other write is
\* abandoned, and so is the end it was to be, unless its FIN goes out with the chunks.
CancelWrite ==
    /\ UserActs /\ w.op = "held"
    /\ \/ /\ w.is_eof /\ w.size = 0
          /\ w' = [w EXCEPT !.op = "posted"]
          /\ UNCHANGED <<tx, stopped, closed, gave_up>>
       \/ /\ ~(w.is_eof /\ w.size = 0)
          /\ tx' = IF MustReset THEN "reset" ELSE tx
          /\ stopped' = (stopped \/ (MustReset /\ ~Plain))
          /\ closed' = (closed \/ (MustReset /\ ~Plain))
          /\ IF MustReset /\ ~Plain THEN GivesUp ELSE UNCHANGED gave_up
          /\ w' = [w EXCEPT
                 !.aborted = w.aborted \/ (MustReset /\ Plain),
                 !.queued = IF mode = "ZeroCopy" THEN w.offered ELSE w.queued,
                 !.eof_submitted = /\ w.eof_submitted
                                   /\ ~(w.is_eof /\ (mode = "ZeroCopy" \/ ~w.fin_offered)),
                 !.active = FALSE, !.size = 0, !.op = "posted"]
    /\ UNCHANGED <<kind, mode, rx, strm, reading, failing, registered, reader, writer, response>>

\* A completion that was posted runs.
RunPosted ==
    /\ Idle /\ w.op = "posted"
    /\ w' = [w EXCEPT !.op = "none"]
    /\ UNCHANGED <<engine, reading, life, reader, writer, response>>

\* Stream::reset_stream(), which a plain stream has.
ResetStream ==
    /\ UserActs /\ Plain /\ registered
    /\ reader = "attached" \/ writer = "attached"
    /\ ~closed /\ ~w.aborted
    /\ tx' = "reset" /\ w' = AbortWriting(w)
    /\ UNCHANGED <<kind, mode, rx, strm, stopped, reading, life, reader, writer, response>>

-----------------------------------------------------------------------------
(* The end of a stream.                                                    *)

\* fail(): a read that waits is told first, and may resume the user there.
Fail(ec) ==
    /\ closed' = TRUE
    /\ failing' = IF pc = "out" THEN "outer" ELSE "inner"
    /\ read_handler' = 0
    /\ last' = IF read_handler > 0 /\ ec = "error" /\ ~eof_received THEN "partial" ELSE last

\* What becomes of a write that waits.
FailEndsWrites(v) ==
    [v EXCEPT !.active = FALSE, !.size = IF v.active THEN 0 ELSE v.size,
              !.op = IF v.active /\ v.op = "held" THEN "none" ELSE v.op]

\* The rest of fail(): on_failed(), which tells a get_response() that waits, the write that
\* waits, and maybe_close().
FailReturns ==
    /\ failing = "inner" \/ (failing = "outer" /\ pc = "out")
    /\ failing' = "no"
    /\ failure_ec' = IF kind = "client" /\ failure_ec = "none" THEN "other" ELSE failure_ec
    /\ w' = FailEndsWrites(w)
    /\ LET now == ~headers_received /\ ~response_delivered /\ response_handler
           erase == reader # "attached" /\ writer # "attached"
       IN /\ response_delivered' = (response_delivered \/ now)
          /\ response_handler' = (response_handler /\ ~now /\ ~erase)
          /\ registered' = (registered /\ ~erase)
    /\ UNCHANGED <<engine, reading, closed, gave_up, reader, writer, headers_submitted,
                   headers_received>>

\* ~QuicWriter(), of a writer that was detached ...
ReleaseWriter ==
    /\ UserActs /\ writer \in {"ended", "cut"} /\ w.op = "none"
    /\ writer' = "gone"
    /\ UNCHANGED <<engine, reading, w, life, reader, response>>

\* ... delete_writer() of a plain stream ...
ReleasePlainWriter ==
    /\ UserActs /\ Plain /\ writer = "attached" /\ w.op = "none"
    /\ writer' = "gone"
    /\ LET cut == ~closed /\ ~w.aborted /\ ~w.eof_submitted IN
       /\ tx' = IF cut THEN "reset" ELSE tx
       /\ w' = IF cut THEN AbortWriting(w) ELSE w
    /\ MaybeClose(reader, "gone", closed)
    /\ UNCHANGED <<kind, mode, rx, strm, stopped, reading, closed, failing, gave_up, reader,
                   headers_submitted, headers_received, response_delivered, failure_ec>>

\* ... and of an HTTP/3 stream, where a message cut short ends the whole exchange.
ReleaseH3Writer ==
    /\ UserActs /\ ~Plain /\ writer = "attached" /\ w.op = "none" /\ ~response_handler
    /\ writer' = "gone"
    /\ \/ /\ closed \/ (headers_submitted /\ w.eof_submitted)
          /\ MaybeClose(reader, "gone", closed)
          /\ UNCHANGED <<tx, stopped, closed, failing, gave_up, read_handler, last>>
       \/ /\ ~closed /\ ~headers_submitted
          /\ tx' = "reset" /\ stopped' = TRUE /\ closed' = TRUE /\ GivesUp
          /\ MaybeClose(reader, "gone", TRUE)
          /\ UNCHANGED <<failing, read_handler, last>>
       \/ /\ ~closed /\ headers_submitted /\ ~w.eof_submitted
          /\ tx' = "reset" /\ stopped' = TRUE /\ GivesUp
          /\ Fail("error")
          /\ UNCHANGED <<registered, response_handler>>
    /\ UNCHANGED <<kind, mode, rx, strm, received, pending_read, incoming, eof_received,
                   read_aborted, pc, fin_next, delivered, w, reader, headers_submitted,
                   headers_received, response_delivered, failure_ec>>

\* NGTCP2_STREAM_CLOSE_FLAG_APP_ERROR_CODE_SET.
WasReset == rx = "reset" \/ tx = "reset" \/ stopped

\* ngtcp2 is done with both directions.
Closes(ec) ==
    /\ Idle /\ registered /\ strm = "open" /\ rx # "open"
    /\ tx = "reset" \/ (w.fin_offered /\ w.acked = w.queued)
    /\ strm' = "closed"
    /\ Fail(ec)
    /\ UNCHANGED <<kind, mode, rx, tx, stopped, received, pending_read, incoming, eof_received,
                   read_aborted, pc, fin_next, delivered, w, registered, gave_up, reader, writer,
                   response>>

StreamClose == Plain /\ Closes(IF WasReset THEN "error" ELSE "ok")

\* HTTP/3 knows a reset without error, H3_NO_ERROR.
H3StreamClose(ec) == ~Plain /\ (ec = "ok" \/ WasReset) /\ Closes(ec)

\* fail_streams(): the connection is over.
ConnectionFails ==
    /\ Idle /\ registered /\ strm = "open"
    /\ strm' = "closed"
    /\ Fail("error")
    /\ UNCHANGED <<kind, mode, rx, tx, stopped, received, pending_read, incoming, eof_received,
                   read_aborted, pc, fin_next, delivered, w, registered, gave_up, reader, writer,
                   response>>

\* QuicReader::detach() and QuicWriter::detach().
DetachReader == IF eof_received /\ pending_read \o incoming = <<>> THEN "eof" ELSE "partial"

DetachWriter == IF w.eof_submitted /\ w.fin_offered THEN "ended" ELSE "cut"

\* clear_streams() of the destructor of the session, and detach_all() of the stream.
SessionEnds ==
    /\ Idle /\ registered
    /\ registered' = FALSE /\ strm' = "closed"
    /\ reader' = IF reader = "attached" THEN DetachReader ELSE reader
    /\ writer' = IF writer = "attached" THEN DetachWriter ELSE writer
    /\ read_handler' = 0
    /\ last' = IF read_handler > 0 THEN "partial" ELSE last
    /\ w' = FailEndsWrites(w)
    /\ response_handler' = FALSE
    /\ UNCHANGED <<kind, mode, rx, tx, stopped, received, pending_read, incoming, eof_received,
                   read_aborted, pc, fin_next, delivered, closed, failing, gave_up,
                   headers_submitted, headers_received, response_delivered, failure_ec>>

-----------------------------------------------------------------------------
(* HTTP/3: requests and responses.                                         *)

\* The header section of a response is complete.  One that is too large is failed, and
\* takes its stream with it.
OnHeadersComplete(too_large) ==
    /\ Idle /\ registered /\ strm = "open" /\ rx = "open" /\ ~stopped
    /\ kind = "client" /\ ~headers_received /\ failure_ec = "none"
    /\ headers_received' = ~too_large
    /\ failure_ec' = IF too_large THEN "header_limit" ELSE failure_ec
    /\ tx' = (IF too_large THEN "reset" ELSE tx) /\ stopped' = too_large
    /\ response_delivered' = response_handler /\ response_handler' = FALSE
    /\ reader' = IF response_handler /\ ~too_large THEN "attached" ELSE reader
    /\ UNCHANGED <<kind, mode, rx, strm, reading, w, life, writer, headers_submitted>>

\* async_get_response().
GetResponse ==
    /\ UserActs /\ kind = "client" /\ writer = "attached"
    /\ ~response_delivered /\ ~response_handler
    /\ LET now == headers_received \/ closed IN
       /\ response_delivered' = now /\ response_handler' = ~now
    /\ reader' = IF headers_received THEN "attached" ELSE reader
    /\ UNCHANGED <<engine, reading, w, life, writer, headers_submitted, headers_received,
                   failure_ec>>

CancelGetResponse ==
    /\ UserActs /\ response_handler
    /\ response_handler' = FALSE
    /\ UNCHANGED <<engine, reading, w, life, reader, writer, headers_submitted,
                   headers_received, response_delivered, failure_ec>>

\* async_submit() of a response.
SubmitResponse ==
    /\ UserActs /\ kind = "server" /\ writer = "attached" /\ ~closed /\ ~headers_submitted
    /\ headers_submitted' = TRUE
    /\ w' = [w EXCEPT !.scheduled = TRUE]
    /\ UNCHANGED <<engine, reading, life, reader, writer, headers_received, response_handler,
                   response_delivered, failure_ec>>

-----------------------------------------------------------------------------
Sends == Unschedule \/ DataReader \/ \E k \in 0 .. MaxUnits : WriteStream(k) \/ WriteOffered(k)

Acks == \E k \in 1 .. MaxUnits : AckedStreamData(k) \/ H3AckedStreamData(k)

\* What the code and the stack do by themselves.
Goes ==
    \/ Sends \/ Acks \/ ExtendMaxStreamData \/ H3ExtendMaxStreamData
    \/ OnEof \/ ReadLoop \/ FailReturns \/ RunPosted

User ==
    \/ \E n \in 1 .. MaxChunk : ReadSome(n)
    \/ ReadDetached \/ CancelRead \/ ReleaseReader \/ StopSending
    \/ \E n \in 0 .. MaxChunk, eof \in BOOLEAN : StartWrite(n, eof)
    \/ EndAgain \/ EndDetached \/ CancelWrite \/ ResetStream
    \/ ReleaseWriter \/ ReleasePlainWriter \/ ReleaseH3Writer
    \/ GetResponse \/ CancelGetResponse \/ SubmitResponse

Peer ==
    \/ \E n \in 0 .. MaxChunk, fin \in BOOLEAN :
           RecvStreamData(n, fin) \/ H3RecvStreamData(n, fin)
    \/ RecvReset \/ H3RecvReset \/ RecvUnread \/ RecvStopSending
    \/ StreamBlocked \/ H3StreamBlocked \/ StreamClose
    \/ \E too_large \in BOOLEAN : OnHeadersComplete(too_large)
    \/ \E ec \in {"ok", "error"} : H3StreamClose(ec)
    \/ ConnectionFails \/ SessionEnds

Next == Goes \/ User \/ Peer

Spec == Init /\ [][Next]_vars

-----------------------------------------------------------------------------
(* Properties.                                                             *)

Body == INSTANCE BodyReader WITH
    arrived <- received, ended <- eof_received,
    cut <- closed \/ read_aborted \/ ~registered,
    given <- delivered, told <- last

\* call_read_handler() and detach() implement the contract of a Reader: whatever is
\* aborted, failed or released, from within a handler or not, the body is given out in
\* order, its end is told truly, and once.  One step is exempt: a user that gave up in the
\* handler of the last data may be told the end of the body that came with them, even
\* though it was told of a cut, or what it had not read was dropped: recv_stream_data() looks at
\* read_aborted before it delivers the data of a frame, and not again before their end.
ToldAnyway == gave_up /\ Body!Arrive /\ last' = "eof" /\ UNCHANGED delivered

ReaderContract == Body!Init /\ [][Body!Next \/ ToldAnyway]_(Body!vars)

Unsent ==
    LET p == PendingData(w, IF Plain THEN w.sent ELSE w.offered) IN
    /\ registered /\ strm = "open" /\ headers_submitted /\ ~(Plain /\ w.blocked)
    /\ p.n > 0 \/ (p.fin /\ ~w.fin_offered)

\* What waits, waits for something that can still come: data, an acknowledgement, or a
\* response, on a stream that is neither closed, failed nor aborted.  And a stream that has
\* something to send, and is allowed to, is in the write queue.
NothingWaits ==
    /\ Unsent => w.scheduled
    /\ Idle =>
        /\ read_handler > 0 =>
               /\ registered /\ strm = "open" /\ ~read_aborted
               /\ ~eof_received /\ pending_read = <<>>
        /\ w.op = "held" => registered /\ strm = "open" /\ w.active /\ ~w.aborted
        /\ response_handler => registered /\ strm = "open" /\ ~headers_received

\* WriteMode: what the stack was given and may send again is there.  ZeroCopy: in the
\* buffer of a write that is not completed; Staged: in a chunk.
BufferKept ==
    (strm = "open" /\ tx = "open" /\ w.offered > w.acked) =>
        IF mode = "ZeroCopy"
        THEN w.active /\ w.op = "held" /\ w.base <= w.acked /\ w.offered <= w.base + w.size
        ELSE w.acked .. (w.offered - 1) \subseteq w.chunks

\* A FIN ends a body that was meant to end there, and its end is reported as done only if
\* the FIN was handed over: start_write(), delete_writer() and cancellation.
EndIsTrue ==
    /\ (w.fin_offered /\ tx = "open" /\ strm = "open") =>
           w.eof_submitted /\ w.queued = w.offered
    /\ (writer = "gone" /\ tx = "open" /\ strm = "open" /\ headers_submitted) => w.eof_submitted
    /\ w.end_told => w.fin_offered

=============================================================================
