------------------------------ MODULE H2Stream ------------------------------
(***************************************************************************)
(* One HTTP/2 stream: NGHttp2Stream with its NGHttp2Reader and             *)
(* NGHttp2Writer (src/src/h2/stream.cpp), and what NGHttp2Session does for *)
(* it from the callbacks of nghttp2 (src/src/h2/session.cpp).              *)
(*                                                                         *)
(* Everything happens on one executor.  What makes it hard is that a       *)
(* parked operation is completed by calling its handler, which may resume  *)
(* the user right there, inside call_read_handler() or close_stream(), or  *)
(* later, if the runtime posts it.  So these two functions are cut where   *)
(* they call a handler: the user may, but need not, act in between.        *)
(*                                                                         *)
(* The body that is received is a sequence of numbered units.  Of the body *)
(* that is sent, only how much of a write is left is of interest.          *)
(*                                                                         *)
(* A user has one read, one write and one get_response() in progress at a  *)
(* time, and does not release a reader under a read, which the code        *)
(* asserts.  The posted completion of a cancelled operation is taken for   *)
(* immediate: nothing in the stream tells the two apart.                   *)
(***************************************************************************)
EXTENDS Naturals, Sequences

CONSTANTS
    MaxData,    \* bound: units of body that arrive on the stream
    MaxChunk    \* bound: units in a DATA frame, in a read buffer and in a write

ASSUME MaxDataAssumption == MaxData \in Nat
ASSUME MaxChunkAssumption == MaxChunk \in Nat \ {0}

VARIABLES
    role,               \* whose side of the stream this is
    \* nghttp2: the header of the peer has arrived, ours was submitted and sent, RST_STREAM
    \* was submitted, the stream is not closed yet, and units of body given to on_data()
    headers, submitted, rst, live, received,
    \* the incoming body; read_handler is the size of the buffer to read into, or 0, view the
    \* argument of call_read_handler(), and pc where that has called the read handler
    eof_received, read_buffer, pending_read_buffers, view, read_handler, pc,
    \* what the reader was given, and what the last read said about the body
    delivered, last,
    \* the outgoing body; write_buffer is what is left of it
    write_handler, write_buffer, eof_requested, eof_submitted, is_deferred,
    \* the response, on the side of the client
    response_handler, has_response, response_error, response_delivered,
    \* the life of the stream: close_stream() is calling the handler of a write, the
    \* stream is in streams_, and has not been destroyed
    closed, closing, close_deferred, registered, alive,
    \* the handles: a reader is detached with the error that it latched
    reader, writer

engine == <<role, headers, submitted, rst, live, received>>
reading == <<eof_received, read_buffer, pending_read_buffers, view, read_handler, pc,
             delivered, last>>
writing == <<write_handler, write_buffer, eof_requested, eof_submitted, is_deferred>>
response == <<response_handler, has_response, response_error, response_delivered>>
life == <<closed, closing, close_deferred, registered, alive>>
handles == <<reader, writer>>
vars == <<engine, reading, writing, response, life, handles>>

\* Type invariant: every field of a stream and of its handles has a value the code can
\* give it, and no more than the body is received, stored and delivered.
TypeOK ==
    /\ role \in {"client", "server"}
    /\ headers \in BOOLEAN /\ submitted \in {"no", "queued", "sent", "failed"} /\ rst \in BOOLEAN /\ live \in BOOLEAN
    /\ received \in 0 .. MaxData
    /\ eof_received \in BOOLEAN
    /\ read_buffer \in Seq(1 .. MaxData)
    /\ pending_read_buffers \in Seq(Seq(1 .. MaxData))
    /\ view \in Seq(1 .. MaxData)
    /\ read_handler \in 0 .. MaxChunk
    /\ pc \in {"out", "data", "eof", "last"}
    /\ delivered \in Seq(1 .. MaxData)
    /\ last \in {"nothing", "data", "eof", "partial"}
    /\ write_handler \in BOOLEAN /\ write_buffer \in 0 .. MaxChunk
    /\ eof_requested \in BOOLEAN /\ eof_submitted \in BOOLEAN /\ is_deferred \in BOOLEAN
    /\ response_handler \in BOOLEAN /\ has_response \in BOOLEAN
    /\ response_error \in BOOLEAN /\ response_delivered \in BOOLEAN
    /\ closed \in BOOLEAN /\ closing \in BOOLEAN /\ close_deferred \in BOOLEAN
    /\ registered \in BOOLEAN /\ alive \in BOOLEAN
    /\ reader \in {"none", "attached", "eof", "partial", "gone"}
    /\ writer \in {"attached", "detached", "gone"}

\* A client's stream comes from async_submit(), and has a writer.  A server's comes from
\* a HEADERS frame, and on_request() gives it a reader and a writer.
Init ==
    /\ role \in {"client", "server"}
    /\ headers = (role = "server") /\ submitted = IF role = "client" THEN "queued" ELSE "no"
    /\ rst = FALSE /\ live = TRUE /\ received = 0
    /\ eof_received = FALSE
    /\ read_buffer = <<>> /\ pending_read_buffers = <<>> /\ view = <<>>
    /\ read_handler = 0 /\ pc = "out" /\ delivered = <<>> /\ last = "nothing"
    /\ write_handler = FALSE /\ write_buffer = 0
    /\ eof_requested = FALSE /\ eof_submitted = FALSE /\ is_deferred = FALSE
    /\ response_handler = FALSE /\ has_response = FALSE
    /\ response_error = FALSE /\ response_delivered = FALSE
    /\ closed = FALSE /\ closing = FALSE /\ close_deferred = FALSE
    /\ registered = TRUE /\ alive = TRUE
    /\ reader = IF role = "server" THEN "attached" ELSE "none"
    /\ writer = "attached"

-----------------------------------------------------------------------------
(* call_read_handler().                                                    *)

\* finish_deferred_close(), with the values the caller leaves behind: the second call of
\* close_stream() has nothing left to do but to erase the stream.
FinishDeferredClose(rd, eof, buffer, handler) ==
    LET finish == /\ close_deferred /\ handler = 0
                  /\ rd # "attached" \/ (eof /\ buffer = <<>>)
    IN /\ close_deferred' = (close_deferred /\ ~finish)
       /\ registered' = (registered /\ ~finish)

\* What is left of the argument of call_read_handler() is stored.
Store(buffer, buffers, rest) ==
    IF buffer = <<>> THEN buffers
    ELSE IF buffers = <<>> THEN <<buffer>>
    ELSE IF rest # <<>> THEN Append(buffers, rest) ELSE buffers

\* The read handler is called with data ...
CallWithData(buffer, buffers, rest, handler) ==
    LET copied == IF handler < Len(buffer) THEN handler ELSE Len(buffer) IN
    /\ handler > 0 /\ buffer # <<>>
    /\ delivered' = delivered \o SubSeq(buffer, 1, copied)
    /\ read_buffer' = SubSeq(buffer, copied + 1, Len(buffer))
    /\ pending_read_buffers' = buffers /\ view' = rest
    /\ last' = "data" /\ pc' = "data"
    /\ read_handler' = 0
    /\ UNCHANGED <<close_deferred, registered>>

\* ... or with what there is to say about the end of the body ...
CallWithEnd(buffer, buffers, rest, handler) ==
    /\ handler > 0 /\ buffer = <<>>
    /\ \/ eof_received' /\ last' = "eof" /\ pc' = "eof"
       \/ ~eof_received' /\ closed /\ last' = "partial" /\ pc' = "last"
    /\ read_handler' = 0
    /\ read_buffer' = <<>> /\ pending_read_buffers' = buffers /\ view' = <<>>
    /\ UNCHANGED <<delivered, close_deferred, registered>>

\* ... or not: there is none, or nothing to call it with.
NoCall(buffer, buffers, rest, handler) ==
    /\ handler = 0 \/ (buffer = <<>> /\ ~eof_received' /\ ~closed)
    /\ read_handler' = handler
    /\ read_buffer' = buffer /\ view' = <<>>
    /\ pending_read_buffers' = Store(buffer, buffers, rest)
    /\ pc' = "out"
    /\ FinishDeferredClose(reader, eof_received', buffer, handler)
    /\ UNCHANGED <<delivered, last>>

\* Its loop.
Deliver(buffer, buffers, rest, handler) ==
    \/ CallWithData(buffer, buffers, rest, handler)
    \/ CallWithEnd(buffer, buffers, rest, handler)
    \/ NoCall(buffer, buffers, rest, handler)

\* call_read_handler(data), other than from within itself.
CallReadHandler(data, handler) ==
    \/ /\ handler = 0
       /\ read_handler' = 0
       /\ pending_read_buffers' = IF data = <<>> THEN pending_read_buffers
                                  ELSE Append(pending_read_buffers, data)
       /\ read_buffer' = IF pending_read_buffers = <<>> /\ data # <<>> THEN data
                         ELSE read_buffer
       /\ FinishDeferredClose(reader, eof_received', read_buffer', 0)
       /\ UNCHANGED <<view, pc, delivered, last>>
    \/ /\ handler > 0
       /\ IF pending_read_buffers = <<>>
          THEN Deliver(data, <<>>, read_buffer, handler)
          ELSE Deliver(read_buffer, pending_read_buffers, data, handler)

\* The read handler has returned.  Meanwhile, the user may have started another read,
\* or released the reader.
ReadHandlerReturns ==
    /\ pc # "out"
    /\ UNCHANGED eof_received
    /\ \/ /\ pc = "data" /\ read_buffer # <<>>
          /\ Deliver(read_buffer, pending_read_buffers, view, read_handler)
       \/ /\ pc = "data" /\ read_buffer = <<>>
          /\ IF Len(pending_read_buffers) > 1
             THEN Deliver(pending_read_buffers[2], Tail(pending_read_buffers), view, read_handler)
             ELSE Deliver(view, <<>>, <<>>, read_handler)
       \/ pc = "eof" /\ Deliver(<<>>, pending_read_buffers, <<>>, read_handler)
       \/ /\ pc = "last" /\ pc' = "out"
          /\ FinishDeferredClose(reader, eof_received, read_buffer, read_handler)
          /\ UNCHANGED <<read_buffer, pending_read_buffers, view, read_handler, delivered, last>>
    /\ UNCHANGED <<engine, writing, response, closed, closing, alive, handles>>

-----------------------------------------------------------------------------
(* What the callbacks of nghttp2 do, none of which comes while another, or *)
(* a read handler, is running.                                             *)

Idle == pc = "out" /\ ~closing

\* A chunk of a DATA frame: on_data().
OnData(n) ==
    /\ Idle /\ live /\ headers /\ ~eof_received
    /\ n > 0 /\ received + n <= MaxData
    /\ received' = received + n
    /\ UNCHANGED eof_received
    /\ CallReadHandler([i \in 1 .. n |-> received + i], read_handler)
    /\ UNCHANGED <<role, headers, submitted, rst, live, writing, response, closed, closing, alive,
                   handles>>

\* Fault: the end of the body is noted, but a read that waits is not told.
OnEofSilent ==
    /\ Idle /\ live /\ headers /\ ~eof_received
    /\ eof_received' = TRUE
    /\ UNCHANGED <<engine, read_buffer, pending_read_buffers, view, read_handler, pc, delivered,
                   last, writing, response, life, handles>>

\* END_STREAM, on a DATA or HEADERS frame: on_eof().
OnEof ==
    /\ Idle /\ live /\ headers /\ ~eof_received
    /\ eof_received' = TRUE
    /\ CallReadHandler(<<>>, read_handler)
    /\ UNCHANGED <<engine, writing, response, closed, closing, alive, handles>>

\* deliver_response(), given what there is to deliver.  A failure is the last thing a
\* stream that is closed was kept for.
DeliverResponse(has, error, handler) ==
    LET now == handler /\ (has \/ error) IN
    /\ response_handler' = (handler /\ ~now)
    /\ response_delivered' = (response_delivered \/ now)
    /\ reader' = IF now /\ ~error THEN "attached" ELSE reader
    /\ registered' = (registered /\ ~(now /\ error /\ closed))

\* The HEADERS frame of a response: on_response().  One that is too large is failed.
OnResponse(too_large) ==
    /\ Idle /\ live /\ submitted = "sent" /\ ~headers
    /\ headers' = TRUE
    /\ has_response' = ~too_large /\ response_error' = too_large
    /\ rst' = (rst \/ too_large)
    /\ DeliverResponse(~too_large, too_large, response_handler)
    /\ UNCHANGED <<role, submitted, live, received, reading, writing, closed, closing,
                   close_deferred, alive, writer>>

\* nghttp2 sends the HEADERS frame that was submitted.  One that it can not send, as it is
\* too large, ends the stream: by itself that of a request, and that of a response through
\* on_frame_not_send_callback().
SendHeaders(fits) ==
    /\ Idle /\ live /\ submitted = "queued"
    /\ submitted' = IF fits THEN "sent" ELSE "failed"
    /\ rst' = (rst \/ (~fits /\ role = "server"))
    /\ UNCHANGED <<role, headers, live, received, reading, writing, response, life, handles>>

\* producer_callback(), for n units of body: nghttp2 asks for the next DATA frame.
Produce(n) ==
    /\ Idle /\ live /\ submitted = "sent" /\ ~closed /\ ~is_deferred /\ ~eof_submitted
    /\ \/ /\ ~write_handler /\ n = 0
          /\ is_deferred' = TRUE
          /\ UNCHANGED <<write_handler, write_buffer, eof_submitted>>
       \/ /\ write_handler
          /\ n \in 0 .. write_buffer /\ (n = 0 => write_buffer = 0)
          /\ write_buffer' = write_buffer - n
          /\ eof_submitted' = (eof_requested /\ n = write_buffer)
          /\ write_handler' = (n < write_buffer)
          /\ UNCHANGED is_deferred
    /\ UNCHANGED <<engine, reading, eof_requested, response, life, handles>>

\* Fault: a response that nobody has asked for yet goes with the stream.
KeepNever == FALSE

\* The stream is kept for a response that nobody has asked for yet.
KeepForResponse == ~response_delivered /\ (has_response \/ response_error)

\* The end of close_stream(): the stream is kept for now, or erased, which ends what is
\* still waiting.
KeepOrErase ==
    LET unread == reader = "attached" /\ eof_received /\ read_buffer # <<>>
        erase == ~KeepForResponse /\ ~unread
    IN /\ closing' = FALSE
       /\ close_deferred' = (~KeepForResponse /\ unread)
       /\ registered' = (registered /\ ~erase)
       /\ read_handler' = IF erase THEN 0 ELSE read_handler
       /\ last' = IF erase /\ read_handler > 0 THEN "partial" ELSE last
       /\ response_handler' = (response_handler /\ ~erase)

\* on_stream_close_callback(): close_stream(), which first calls the handler of a write.
CloseStream ==
    /\ Idle /\ live
    /\ live' = FALSE /\ closed' = TRUE
    /\ write_handler' = FALSE
    /\ \/ /\ write_handler /\ closing' = TRUE
          /\ UNCHANGED <<close_deferred, registered, read_handler, last, response_handler>>
       \/ ~write_handler /\ KeepOrErase
    /\ UNCHANGED <<role, headers, submitted, rst, received, eof_received, read_buffer,
                   pending_read_buffers, view, pc, delivered, write_buffer, eof_requested,
                   eof_submitted, is_deferred, has_response, response_error,
                   response_delivered, alive, handles>>

\* That handler has returned.
WriteHandlerReturns ==
    /\ closing /\ pc = "out"
    /\ KeepOrErase
    /\ UNCHANGED <<engine, eof_received, read_buffer, pending_read_buffers, view, pc, delivered,
                   writing, has_response, response_error, response_delivered, closed, alive,
                   handles>>

\* nghttp2 closes a stream that has ended both ways, or once RST_STREAM is sent ...
StreamEnds == (rst \/ (eof_submitted /\ eof_received)) /\ CloseStream

\* ... or received, or the connection fails.
StreamReset == CloseStream

\* Fault: a detached reader remembers whether the stream was still open.
DetachReaderOpen == IF closed THEN "partial" ELSE "eof"

\* NGHttp2Reader::detach().
DetachReader == IF eof_received /\ read_buffer = <<>> THEN "eof" ELSE "partial"

\* ~NGHttp2Stream(): the handles are detached, and what is still waiting is ended.
DestroyStream ==
    /\ alive' = FALSE /\ registered' = FALSE /\ live' = FALSE
    /\ reader' = IF reader = "attached" THEN DetachReader ELSE reader
    /\ writer' = IF writer = "attached" THEN "detached" ELSE writer
    /\ response_handler' = FALSE /\ write_handler' = FALSE
    /\ read_handler' = 0
    /\ last' = IF read_handler > 0 THEN "partial" ELSE last
    /\ UNCHANGED <<role, headers, submitted, rst, received, eof_received, read_buffer,
                   pending_read_buffers, view, pc, delivered, write_buffer, eof_requested,
                   eof_submitted, is_deferred, has_response, response_error,
                   response_delivered, closed, closing, close_deferred>>

\* The deletion that close_stream() has posted.
DeleteStream == Idle /\ alive /\ ~registered /\ DestroyStream

\* The send loop is over: streams_.clear().
SessionEnds == Idle /\ alive /\ registered /\ DestroyStream

-----------------------------------------------------------------------------
(* What the user does, at any time.                                        *)

\* async_read_some().  From within a read handler, call_read_handler() leaves the read to
\* the call that is in progress.
Read(n) ==
    /\ reader = "attached" /\ read_handler = 0
    /\ UNCHANGED eof_received
    /\ \/ pc = "out" /\ CallReadHandler(<<>>, n)
       \/ /\ pc # "out" /\ read_handler' = n
          /\ UNCHANGED <<read_buffer, pending_read_buffers, view, pc, delivered, last,
                         close_deferred, registered>>
    /\ UNCHANGED <<engine, writing, response, closed, closing, alive, handles>>

\* ... on a reader that is detached.
ReadDetached ==
    /\ reader \in {"eof", "partial"}
    /\ last' = reader
    /\ UNCHANGED <<engine, eof_received, read_buffer, pending_read_buffers, view, read_handler,
                   pc, delivered, writing, response, life, handles>>

CancelRead ==
    /\ read_handler > 0
    /\ read_handler' = 0
    /\ UNCHANGED <<engine, eof_received, read_buffer, pending_read_buffers, view, pc, delivered,
                   last, writing, response, life, handles>>

\* async_submit() of a response.
Submit ==
    /\ writer = "attached" /\ submitted = "no"
    /\ submitted' = "queued"
    /\ UNCHANGED <<role, headers, rst, live, received, reading, writing, response, life, handles>>

\* async_write() and async_write_eof() of n units, where nothing answers it at once:
\* neither an empty write, nor one after the end, nor one on a stream that is closed.
Write(n, eof) ==
    /\ writer = "attached" /\ ~write_handler
    /\ n > 0 \/ eof
    /\ eof_requested => n = 0 /\ ~eof_submitted
    /\ ~closed
    /\ write_buffer' = n
    /\ eof_requested' = (eof_requested \/ eof)
    /\ write_handler' = TRUE
    /\ is_deferred' = FALSE
    /\ UNCHANGED <<engine, reading, eof_submitted, response, life, handles>>

CancelWrite ==
    /\ write_handler
    /\ write_handler' = FALSE
    /\ UNCHANGED <<engine, reading, write_buffer, eof_requested, eof_submitted, is_deferred,
                   response, life, handles>>

\* async_get_response(), unless it was delivered already.
GetResponse ==
    /\ role = "client" /\ writer = "attached"
    /\ ~response_handler /\ ~response_delivered
    /\ DeliverResponse(has_response, response_error, TRUE)
    /\ UNCHANGED <<engine, reading, writing, has_response, response_error, closed, closing,
                   close_deferred, alive, writer>>

CancelGetResponse ==
    /\ response_handler
    /\ response_handler' = FALSE
    /\ UNCHANGED <<engine, reading, writing, has_response, response_error, response_delivered,
                   life, handles>>

\* Fault: a stream whose body is not read to its end is left open.
ResetUnlessEnded(rd, wr) == ~closed /\ wr # "attached" /\ ~eof_submitted

\* maybe_close_stream() submits RST_STREAM.
MaybeCloseStream(rd, wr) ==
    /\ ~closed /\ wr # "attached"
    /\ ~eof_submitted \/ (~eof_received /\ rd # "attached")

\* ~NGHttp2Reader() and delete_reader().
DropReader ==
    /\ reader \in {"attached", "eof", "partial"} /\ read_handler = 0
    /\ reader' = "gone"
    /\ \/ /\ reader = "attached"
          /\ rst' = (rst \/ MaybeCloseStream("gone", writer))
          /\ IF pc = "out" THEN FinishDeferredClose("gone", eof_received, read_buffer, 0)
             ELSE UNCHANGED <<close_deferred, registered>>
       \/ reader # "attached" /\ UNCHANGED <<rst, close_deferred, registered>>
    /\ UNCHANGED <<role, headers, submitted, live, received, reading, writing, response, closed,
                   closing, alive, writer>>

\* ~NGHttp2Writer() and delete_writer().
DropWriter ==
    /\ writer \in {"attached", "detached"}
    /\ writer' = "gone"
    /\ rst' = (rst \/ (writer = "attached" /\ MaybeCloseStream(reader, "gone")))
    /\ UNCHANGED <<role, headers, submitted, live, received, reading, writing, response, life,
                   reader>>

-----------------------------------------------------------------------------
Engine ==
    \/ \E n \in 1 .. MaxChunk : OnData(n)
    \/ OnEof
    \/ \E too_large \in BOOLEAN : OnResponse(too_large)
    \/ \E fits \in BOOLEAN : SendHeaders(fits)
    \/ \E n \in 0 .. MaxChunk : Produce(n)
    \/ StreamReset \/ SessionEnds

\* What is under way, and goes on by itself.
Progress == ReadHandlerReturns \/ StreamEnds \/ WriteHandlerReturns \/ DeleteStream

User ==
    \/ \E n \in 1 .. MaxChunk : Read(n)
    \/ ReadDetached \/ CancelRead
    \/ Submit
    \/ \E n \in 0 .. MaxChunk, eof \in BOOLEAN : Write(n, eof)
    \/ CancelWrite
    \/ GetResponse \/ CancelGetResponse
    \/ DropReader \/ DropWriter

Next == Engine \/ Progress \/ User

Spec == Init /\ [][Next]_vars

\* What was called returns, what was posted runs, and nghttp2 closes a stream that has
\* ended both ways or has to be reset, for which it needs no flow control window.
FairSpec == Spec /\ WF_vars(Progress)

-----------------------------------------------------------------------------
(* Properties.                                                             *)

Body == INSTANCE BodyReader WITH
    arrived <- received, ended <- eof_received, cut <- closed \/ ~alive,
    given <- delivered, told <- last

\* docs/end-of-body.rst: "The two are the whole difference between "the peer is done" and
\* "the peer is gone", and neither degrades into the other".  The reader of a stream keeps
\* the contract of a Reader, when its handler is called inside of a callback of nghttp2,
\* when the stream closes before its body was read, and when it goes away under its reader.
ReaderContract == Body!Spec

\* A stream that was kept for a response, and that nobody has told to go since.
Kept == closed /\ ~closing /\ registered /\ ~close_deferred

\* What waits, waits for something that can still come: a read for data, the end, or the
\* destruction of the stream, get_response() for a response, or the same, and a write for
\* nghttp2 to ask for it, which it does as the stream is resumed.
NothingStuck ==
    /\ (read_handler > 0 /\ pc = "out") =>
        /\ alive /\ reader = "attached"
        /\ read_buffer = <<>> /\ ~eof_received
        /\ closed => closing \/ ~registered \/ Kept
    /\ write_handler => alive /\ ~closed /\ ~is_deferred
    /\ response_handler => /\ alive /\ ~has_response /\ ~response_error
                           /\ closed => closing \/ ~registered

\* programmers-guide.rst: "A cancelled get_response() can be started again", and a response
\* that came before it was asked for is not lost with its stream.
ResponseKept ==
    (/\ has_response \/ response_error
     /\ ~response_delivered
     /\ alive /\ writer = "attached") => registered

\* A stream that nobody holds any more is let go of, unless it is kept for a response that
\* nobody has asked for: that one stays until the session ends (close_stream()).
ReleasedGoes ==
    (reader \in {"none", "gone"} /\ writer = "gone" /\ ~response_handler)
        ~> (~registered \/ Kept)
=============================================================================
