----------------------------- MODULE H2v2Stream -----------------------------
(***************************************************************************)
(* One HTTP/2 stream on top of version 2 of nghttp2: NGHttp2Stream with    *)
(* its reader and its writer (src/src/h2v2/stream.cpp), and what           *)
(* NGHttp2Session does for it from the callbacks of the library            *)
(* (src/src/h2v2/session.cpp).  H2Stream is its sibling for version 1.     *)
(*                                                                         *)
(* Version 2 takes a body by reference.  A response is written by          *)
(* ZeroCopy: nghttp2 reads from the buffer of the user until it has framed *)
(* all of it.  A request is Staged, through chunks of the stream.  And it  *)
(* calls a write handler from within nghttp2_conn_write(), while a frame   *)
(* is being built, so the user may act there.  Like call_read_handler()    *)
(* and close_stream(), data_reader() and on_write_offset() are cut where   *)
(* they call a handler.                                                    *)
(*                                                                         *)
(* A user has one read, one write and one get_response() in progress at a  *)
(* time, and does not release a reader under a read, or a writer under a   *)
(* write.                                                                  *)
(***************************************************************************)
EXTENDS Naturals, Sequences

CONSTANTS
    MaxData,    \* bound: units of body that arrive on the stream
    MaxChunk,   \* bound: units in a DATA frame, in a read buffer and in a write
    ChunkSize   \* write_chunk_size, in units

ASSUME MaxDataAssumption == MaxData \in Nat
ASSUME MaxChunkAssumption == MaxChunk \in Nat \ {0}
ASSUME ChunkSizeAssumption == ChunkSize \in Nat \ {0}

VARIABLES
    role,               \* whose side of the stream this is, which gives its WriteMode
    \* nghttp2: the header of the peer has arrived, ours was submitted, the stream is to be
    \* reset, it is not closed yet, and units of body given to on_data()
    headers, submitted, rst, live, received,
    \* ... units that it was given and has not framed, and END_STREAM was framed
    vec, fin,
    \* the incoming body, as in H2Stream
    eof_received, read_buffer, pending_read_buffers, view, read_handler, pc, delivered, last,
    \* the outgoing body: unoffered is what is left of write_buffer after offered_, asking
    \* tells that a write handler is running inside of nghttp2_conn_write(), and ended what
    \* the last write_eof() was told
    write_handler, unoffered, write_cancelled, eof_requested, eof_submitted, is_deferred,
    asking, ended,
    \* the response, on the side of the client
    response_handler, has_response, response_error, response_delivered,
    \* the life of the stream, as in H2Stream; posted is the reset of maybe_close_stream()
    closed, closing, close_deferred, registered, alive, posted,
    \* the handles: a reader is detached with the error that it latched
    reader, writer

engine == <<role, headers, submitted, rst, live, received>>
framing == <<vec, fin>>
reading == <<eof_received, read_buffer, pending_read_buffers, view, read_handler, pc,
             delivered, last>>
writing == <<write_handler, unoffered, write_cancelled, eof_requested, eof_submitted,
             is_deferred, asking, ended>>
response == <<response_handler, has_response, response_error, response_delivered>>
life == <<closed, closing, close_deferred, registered, alive, posted>>
handles == <<reader, writer>>
vars == <<engine, framing, reading, writing, response, life, handles>>

\* Type invariant: every field of a stream and of its handles has a value the code can
\* give it.
TypeOK ==
    /\ role \in {"client", "server"}
    /\ {headers, submitted, rst, live, fin, eof_received, write_handler, write_cancelled,
        eof_requested, eof_submitted, is_deferred, asking, response_handler, has_response,
        response_error, response_delivered, closed, closing, close_deferred, registered,
        alive, posted} \subseteq BOOLEAN
    /\ received \in 0 .. MaxData
    /\ {read_buffer, view, delivered} \subseteq Seq(1 .. MaxData)
    /\ pending_read_buffers \in Seq(Seq(1 .. MaxData))
    /\ read_handler \in 0 .. MaxChunk /\ pc \in {"out", "data", "eof", "last"}
    /\ last \in {"nothing", "data", "eof", "partial"}
    /\ ended \in {"nothing", "ok", "failed"}
    /\ {vec, unoffered} \subseteq 0 .. MaxChunk + ChunkSize
    /\ reader \in {"none", "attached", "eof", "partial", "gone"}
    /\ writer \in {"none", "attached", "detached", "gone"}

ZeroCopy == role = "server"

\* A client's stream comes from async_submit(), and has a writer.  A server's comes from
\* create_stream(), and has neither a reader nor a writer before on_request().
Init ==
    /\ role \in {"client", "server"}
    /\ headers = FALSE /\ submitted = (role = "client")
    /\ rst = FALSE /\ live = TRUE /\ received = 0 /\ vec = 0 /\ fin = FALSE
    /\ eof_received = FALSE
    /\ read_buffer = <<>> /\ pending_read_buffers = <<>> /\ view = <<>>
    /\ read_handler = 0 /\ pc = "out" /\ delivered = <<>> /\ last = "nothing"
    /\ write_handler = FALSE /\ unoffered = 0 /\ write_cancelled = FALSE
    /\ eof_requested = FALSE /\ eof_submitted = FALSE /\ is_deferred = FALSE
    /\ asking = FALSE /\ ended = "nothing"
    /\ response_handler = FALSE /\ has_response = FALSE
    /\ response_error = FALSE /\ response_delivered = FALSE
    /\ closed = FALSE /\ closing = FALSE /\ close_deferred = FALSE
    /\ registered = TRUE /\ alive = TRUE /\ posted = FALSE
    /\ reader = "none"
    /\ writer = IF role = "client" THEN "attached" ELSE "none"

-----------------------------------------------------------------------------
(* call_read_handler().                                                    *)

\* finish_deferred_close(), with the values the caller leaves behind: the second call of
\* close_stream() has nothing left to do but to erase the stream.
FinishDeferredClose(rd, eof, buffer, handler) ==
    LET finish == /\ close_deferred /\ handler = 0
                  /\ rd # "attached" \/ (eof /\ buffer = <<>>)
    IN /\ close_deferred' = (close_deferred /\ ~finish)
       /\ registered' = (registered /\ ~finish)

\* What is left of the data is stored, in front of or behind what is pending.
Store(buffer, buffers, rest) ==
    IF buffer = <<>> THEN buffers
    ELSE IF buffers = <<>> THEN <<buffer>>
    ELSE IF rest # <<>> THEN Append(buffers, rest) ELSE buffers

\* A turn of its loop: the read handler is called with data, ...
CallWithData(buffer, buffers, rest, handler) ==
    LET copied == IF handler < Len(buffer) THEN handler ELSE Len(buffer) IN
    /\ handler > 0 /\ buffer # <<>>
    /\ delivered' = delivered \o SubSeq(buffer, 1, copied)
    /\ read_buffer' = SubSeq(buffer, copied + 1, Len(buffer))
    /\ pending_read_buffers' = buffers /\ view' = rest
    /\ read_handler' = 0 /\ last' = "data" /\ pc' = "data"
    /\ UNCHANGED <<close_deferred, registered>>

\* ... with the end of the body, as often as the user reads again, or with its being cut, ...
CallWithEnd(buffer, buffers, handler) ==
    /\ handler > 0 /\ buffer = <<>>
    /\ \/ eof_received' /\ last' = "eof" /\ pc' = "eof"
       \/ ~eof_received' /\ closed /\ last' = "partial" /\ pc' = "last"
    /\ read_handler' = 0
    /\ read_buffer' = <<>> /\ pending_read_buffers' = buffers /\ view' = <<>>
    /\ UNCHANGED <<delivered, close_deferred, registered>>

\* ... or not at all: there is none, or nothing to call it with.
NoCall(buffer, buffers, rest, handler) ==
    /\ handler = 0 \/ (buffer = <<>> /\ ~eof_received' /\ ~closed)
    /\ read_handler' = handler
    /\ read_buffer' = buffer /\ view' = <<>>
    /\ pending_read_buffers' = Store(buffer, buffers, rest)
    /\ pc' = "out"
    /\ FinishDeferredClose(reader, eof_received', buffer, handler)
    /\ UNCHANGED <<delivered, last>>

Deliver(buffer, buffers, rest, handler) ==
    \/ CallWithData(buffer, buffers, rest, handler)
    \/ CallWithEnd(buffer, buffers, handler)
    \/ NoCall(buffer, buffers, rest, handler)

\* call_read_handler(data), other than from within itself.
CallReadHandler(data, handler) ==
    \/ /\ handler = 0
       /\ read_handler' = 0
       /\ pending_read_buffers' = IF data = <<>> THEN pending_read_buffers
                                  ELSE Append(pending_read_buffers, data)
       /\ read_buffer' = IF pending_read_buffers = <<>> /\ data # <<>> THEN data
                         ELSE read_buffer
       /\ FinishDeferredClose(reader, eof_received', read_buffer', 0)
       /\ UNCHANGED <<view, pc, delivered, last>>
    \/ /\ handler > 0
       /\ IF pending_read_buffers = <<>>
          THEN Deliver(data, <<>>, read_buffer, handler)
          ELSE Deliver(read_buffer, pending_read_buffers, data, handler)

\* Fault: the buffer that was delivered is not taken off those that are pending.
NextBufferAgain ==
    IF pending_read_buffers # <<>>
    THEN [buffer |-> pending_read_buffers[1], buffers |-> pending_read_buffers, rest |-> view]
    ELSE [buffer |-> view, buffers |-> <<>>, rest |-> <<>>]

\* Where the loop goes on when read_buffer_ was delivered: with the next buffer that is
\* pending, or with the data of the call.
NextBuffer ==
    IF Len(pending_read_buffers) > 1
    THEN [buffer |-> pending_read_buffers[2], buffers |-> Tail(pending_read_buffers), rest |-> view]
    ELSE [buffer |-> view, buffers |-> <<>>, rest |-> <<>>]

\* The read handler has returned.  Meanwhile, the user may have started another read,
\* or released the reader.
ReadHandlerReturns ==
    /\ pc # "out"
    /\ UNCHANGED eof_received
    /\ \/ /\ pc = "data" /\ read_buffer # <<>>
          /\ Deliver(read_buffer, pending_read_buffers, view, read_handler)
       \/ /\ pc = "data" /\ read_buffer = <<>>
          /\ Deliver(NextBuffer.buffer, NextBuffer.buffers, NextBuffer.rest, read_handler)
       \/ pc = "eof" /\ Deliver(<<>>, pending_read_buffers, <<>>, read_handler)
       \/ /\ pc = "last" /\ pc' = "out"
          /\ FinishDeferredClose(reader, eof_received, read_buffer, read_handler)
          /\ UNCHANGED <<read_buffer, pending_read_buffers, view, read_handler, delivered, last>>
    /\ UNCHANGED <<engine, framing, writing, response, closed, closing, alive, posted, handles>>

-----------------------------------------------------------------------------
(* The callbacks of nghttp2, none of which comes while another is running. *)

Idle == pc = "out" /\ ~closing /\ ~asking

\* on_recv_data(): on_data().
OnData(n) ==
    /\ Idle /\ live /\ headers /\ ~eof_received
    /\ n > 0 /\ received + n <= MaxData
    /\ received' = received + n
    /\ UNCHANGED eof_received
    /\ CallReadHandler([i \in 1 .. n |-> received + i], read_handler)
    /\ UNCHANGED <<role, headers, submitted, rst, live, framing, writing, response, closed,
                   closing, alive, posted, handles>>

\* on_end_stream_remote(): on_eof().
OnEof ==
    /\ Idle /\ live /\ headers /\ ~eof_received
    /\ eof_received' = TRUE
    /\ CallReadHandler(<<>>, read_handler)
    /\ UNCHANGED <<engine, framing, writing, response, closed, closing, alive, posted, handles>>

\* deliver_response(), given what there is to deliver.  A failure is the last thing a
\* stream that is closed was kept for.
DeliverResponse(has, error, handler) ==
    LET now == handler /\ (has \/ error) IN
    /\ response_handler' = (handler /\ ~now)
    /\ response_delivered' = (response_delivered \/ now)
    /\ reader' = IF now /\ ~error THEN "attached" ELSE reader
    /\ registered' = (registered /\ ~(now /\ error /\ closed))

\* on_recv_header(): the fields of a section are stored, until they are more than
\* max_header_size_.  All that is left of them here is whether the section is too large.
OnRecvHeader == BOOLEAN

\* on_request(): the request handler is launched, with a reader and a writer; or another
\* that refuses the request.
OnRequest ==
    /\ reader' = "attached" /\ writer' = "attached"
    /\ UNCHANGED <<rst, registered, response>>

\* on_response().  A response whose header is too large is failed.
OnResponse(too_large) ==
    /\ has_response' = ~too_large /\ response_error' = too_large
    /\ rst' = (rst \/ too_large)
    /\ DeliverResponse(~too_large, too_large, response_handler)
    /\ UNCHANGED writer

\* on_end_headers().
OnEndHeaders(too_large) ==
    /\ Idle /\ live /\ ~headers
    /\ headers' = TRUE
    /\ \/ role = "server" /\ OnRequest
       \/ role = "client" /\ OnResponse(too_large)
    /\ UNCHANGED <<role, submitted, live, received, framing, reading, writing, closed, closing,
                   close_deferred, alive, posted>>

\* nghttp2 asks for more of the body only when it has framed all that it was given.
Asks == Idle /\ live /\ submitted /\ ~rst /\ ~is_deferred /\ vec = 0 /\ ~fin

\* data_reader(): there is no write, so the stream waits to be resumed, unless the end of
\* the body is what is asked for again.
ReaderDefers ==
    /\ Asks /\ ~write_handler
    /\ is_deferred' = ~eof_submitted
    /\ fin' = eof_submitted
    /\ UNCHANGED <<engine, vec, reading, write_handler, unoffered, write_cancelled, eof_requested,
                   eof_submitted, asking, ended, response, life, handles>>

\* ... the write has nothing left but the end of the body.
ReaderEnds ==
    /\ Asks /\ write_handler /\ unoffered = 0
    /\ eof_submitted' = TRUE /\ ended' = "ok"
    /\ write_handler' = FALSE /\ asking' = TRUE
    /\ UNCHANGED <<engine, framing, reading, unoffered, write_cancelled, eof_requested,
                   is_deferred, response, life, handles>>

\* ... the whole of the write, or its next chunk.  A Staged write is complete with the last.
ReaderOffers ==
    /\ Asks /\ write_handler /\ unoffered > 0
    /\ vec' = IF ZeroCopy \/ unoffered < ChunkSize THEN unoffered ELSE ChunkSize
    /\ unoffered' = unoffered - vec'
    /\ eof_submitted' = (unoffered' = 0 /\ eof_requested)
    /\ write_handler' = (ZeroCopy \/ unoffered' > 0)
    /\ asking' = ~write_handler'
    /\ ended' = IF eof_submitted' /\ ~ZeroCopy THEN "ok" ELSE ended
    /\ UNCHANGED <<engine, fin, reading, write_cancelled, eof_requested, is_deferred, response,
                   life, handles>>

\* on_write_stream_data_offset(): on_write_offset(), for the n units of a DATA frame.  A
\* ZeroCopy write is complete with the last.
OnWriteOffset(n) ==
    LET complete == ZeroCopy /\ write_handler /\ n = vec IN
    /\ Idle /\ live /\ n \in 1 .. vec
    /\ vec' = vec - n
    /\ write_handler' = (write_handler /\ ~complete)
    /\ asking' = complete
    /\ ended' = IF complete /\ eof_submitted THEN "ok" ELSE ended
    /\ fin' = (~complete /\ eof_submitted /\ n = vec)
    /\ UNCHANGED <<engine, reading, unoffered, write_cancelled, eof_requested, eof_submitted,
                   is_deferred, response, life, handles>>

\* The write handler has returned, and nghttp2 completes the frame, unless the stream was
\* reset meanwhile.
FrameGoesOn ==
    /\ asking /\ pc = "out"
    /\ asking' = FALSE
    /\ fin' = (eof_submitted /\ vec = 0 /\ ~rst)
    /\ UNCHANGED <<engine, vec, reading, write_handler, unoffered, write_cancelled, eof_requested,
                   eof_submitted, is_deferred, ended, response, life, handles>>

\* The stream is kept for a response that nobody has asked for yet.
KeepForResponse == ~response_delivered /\ (has_response \/ response_error)

\* The end of close_stream(): the stream is kept for now, or erased, which ends what is
\* still waiting.
KeepOrErase ==
    LET unread == reader = "attached" /\ eof_received /\ read_buffer # <<>>
        erase == ~KeepForResponse /\ ~unread
    IN /\ closing' = FALSE
       /\ close_deferred' = (~KeepForResponse /\ unread)
       /\ registered' = (registered /\ ~erase)
       /\ read_handler' = IF erase THEN 0 ELSE read_handler
       /\ last' = IF erase /\ read_handler > 0 THEN "partial" ELSE last
       /\ response_handler' = (response_handler /\ ~erase)

\* close_stream(), which first calls the handler of a write.
CloseStream ==
    /\ Idle /\ live
    /\ live' = FALSE /\ closed' = TRUE
    /\ write_handler' = FALSE
    /\ ended' = IF write_handler /\ eof_requested THEN "failed" ELSE ended
    /\ \/ /\ write_handler /\ closing' = TRUE
          /\ UNCHANGED <<close_deferred, registered, read_handler, last, response_handler>>
       \/ ~write_handler /\ KeepOrErase
    /\ UNCHANGED <<role, headers, submitted, rst, received, framing, eof_received, read_buffer,
                   pending_read_buffers, view, pc, delivered, unoffered, write_cancelled,
                   eof_requested, eof_submitted, is_deferred, asking, has_response,
                   response_error, response_delivered, alive, posted, handles>>

\* That handler has returned.
WriteHandlerReturns ==
    /\ closing /\ pc = "out"
    /\ KeepOrErase
    /\ UNCHANGED <<engine, framing, eof_received, read_buffer, pending_read_buffers, view, pc,
                   delivered, writing, has_response, response_error, response_delivered, closed,
                   alive, posted, handles>>

\* on_stream_close(): both sides have ended, or RST_STREAM is sent ...
StreamEnds == (rst \/ (fin /\ eof_received)) /\ CloseStream

\* ... or received; or the send loop is over, and closes the streams that are left.
StreamReset == CloseStream

\* NGHttp2Reader::detach().
DetachReader == IF eof_received /\ read_buffer = <<>> THEN "eof" ELSE "partial"

\* ~NGHttp2Stream(): the handles are detached, and what is still waiting is ended.
DestroyStream ==
    /\ alive' = FALSE /\ registered' = FALSE
    /\ reader' = IF reader = "attached" THEN DetachReader ELSE reader
    /\ writer' = IF writer = "attached" THEN "detached" ELSE writer
    /\ response_handler' = FALSE
    /\ read_handler' = 0
    /\ last' = IF read_handler > 0 THEN "partial" ELSE last
    /\ UNCHANGED <<engine, framing, eof_received, read_buffer, pending_read_buffers, view, pc,
                   delivered, writing, has_response, response_error, response_delivered, closed,
                   closing, close_deferred, posted>>

\* The deletion that close_stream() has posted.
DeleteStream == Idle /\ alive /\ ~registered /\ DestroyStream

\* The end of the send loop: streams_.clear(), with all of them closed.
SessionEnds == Idle /\ alive /\ registered /\ ~live /\ DestroyStream

-----------------------------------------------------------------------------
(* What the user does, at any time.                                        *)

\* async_read_some().  From within a read handler, call_read_handler() leaves the read to
\* the call that is in progress.
Read(n) ==
    /\ reader = "attached" /\ read_handler = 0
    /\ UNCHANGED eof_received
    /\ \/ pc = "out" /\ CallReadHandler(<<>>, n)
       \/ /\ pc # "out" /\ read_handler' = n
          /\ UNCHANGED <<read_buffer, pending_read_buffers, view, pc, delivered, last,
                         close_deferred, registered>>
    /\ UNCHANGED <<engine, framing, writing, response, closed, closing, alive, posted, handles>>

\* ... on a reader that is detached.
ReadDetached ==
    /\ reader \in {"eof", "partial"}
    /\ last' = reader
    /\ UNCHANGED <<engine, framing, eof_received, read_buffer, pending_read_buffers, view,
                   read_handler, pc, delivered, writing, response, life, handles>>

CancelRead ==
    /\ read_handler > 0
    /\ read_handler' = 0
    /\ UNCHANGED <<engine, framing, eof_received, read_buffer, pending_read_buffers, view, pc,
                   delivered, last, writing, response, life, handles>>

\* async_submit() of a response, unless nghttp2 refuses it.
Submit ==
    /\ writer = "attached" /\ ~submitted /\ live
    /\ submitted' = TRUE
    /\ UNCHANGED <<role, headers, rst, live, received, framing, reading, writing, response, life,
                   handles>>

\* Fault: a stream that is deferred is not resumed.
ResumeNever == is_deferred

\* What resume() leaves of is_deferred.
Resume == FALSE

\* async_write() and async_write_eof() of n units, where nothing answers it at once:
\* neither an empty write, nor one after the end, nor one on a stream that is closed.
Write(n, eof) ==
    /\ writer = "attached" /\ ~write_handler
    /\ n > 0 \/ eof
    /\ eof_requested => n = 0 /\ ~eof_submitted
    /\ ~closed
    /\ unoffered' = n
    /\ eof_requested' = (eof_requested \/ eof)
    /\ ended' = IF eof THEN "nothing" ELSE ended
    /\ write_handler' = TRUE
    /\ is_deferred' = Resume
    /\ UNCHANGED <<engine, framing, reading, write_cancelled, eof_submitted, asking, response,
                   life, handles>>

\* ... which says that the end is there already, once eof_submitted.
EndAgain ==
    /\ writer = "attached" /\ ~write_handler /\ eof_submitted
    /\ ended' = "ok"
    /\ UNCHANGED <<engine, framing, reading, write_handler, unoffered, write_cancelled,
                   eof_requested, eof_submitted, is_deferred, asking, response, life, handles>>

\* Fault: a cancelled write completes at once, in either mode.
MustResetNever == FALSE

\* nghttp2 may still read from the buffer of the write.
MustReset == ZeroCopy /\ vec > 0 /\ ~closed

\* Fault: the write waits for a reset that nobody has asked for.
CancelWriteSilently ==
    /\ write_handler
    /\ \/ MustReset /\ write_cancelled' = TRUE /\ UNCHANGED <<write_handler, ended>>
       \/ /\ ~MustReset
          /\ write_handler' = FALSE
          /\ ended' = IF eof_requested THEN "failed" ELSE ended
          /\ UNCHANGED write_cancelled
    /\ UNCHANGED <<engine, framing, reading, unoffered, eof_requested, eof_submitted, is_deferred,
                   asking, response, life, handles>>

\* The cancellation of a write: it completes, or the stream is reset, which completes it.
CancelWrite ==
    /\ write_handler
    /\ \/ /\ MustReset
          /\ write_cancelled' = TRUE /\ rst' = TRUE
          /\ UNCHANGED <<write_handler, ended>>
       \/ /\ ~MustReset
          /\ write_handler' = FALSE
          /\ ended' = IF eof_requested THEN "failed" ELSE ended
          /\ UNCHANGED <<write_cancelled, rst>>
    /\ UNCHANGED <<role, headers, submitted, live, received, framing, reading, unoffered,
                   eof_requested, eof_submitted, is_deferred, asking, response, life, handles>>

\* async_get_response(), unless it was delivered already.
GetResponse ==
    /\ role = "client" /\ writer = "attached"
    /\ ~response_handler /\ ~response_delivered
    /\ DeliverResponse(has_response, response_error, TRUE)
    /\ UNCHANGED <<engine, framing, reading, writing, has_response, response_error, closed,
                   closing, close_deferred, alive, posted, writer>>

CancelGetResponse ==
    /\ response_handler
    /\ response_handler' = FALSE
    /\ UNCHANGED <<engine, framing, reading, writing, has_response, response_error,
                   response_delivered, life, handles>>

\* maybe_close_stream() finds that the stream has to be reset.
Unfinished(rd, wr) ==
    /\ ~closed /\ wr # "attached"
    /\ ~eof_submitted \/ (~eof_received /\ rd # "attached")

\* Fault: the stream is reset right away.
MaybeCloseStreamNow(rd, wr) ==
    /\ rst' = (rst \/ Unfinished(rd, wr))
    /\ UNCHANGED posted

\* maybe_close_stream(): the reset is posted.
MaybeCloseStream(rd, wr) ==
    /\ posted' = (posted \/ Unfinished(rd, wr))
    /\ UNCHANGED rst

\* What it has posted.
PostedReset ==
    /\ Idle /\ posted
    /\ posted' = FALSE
    /\ rst' = (rst \/ live)
    /\ UNCHANGED <<role, headers, submitted, live, received, framing, reading, writing, response,
                   closed, closing, close_deferred, registered, alive, handles>>

\* ~NGHttp2Reader() and delete_reader().
DropReader ==
    /\ reader \in {"attached", "eof", "partial"} /\ read_handler = 0
    /\ reader' = "gone"
    /\ \/ /\ reader = "attached"
          /\ MaybeCloseStream("gone", writer)
          /\ IF pc = "out" THEN FinishDeferredClose("gone", eof_received, read_buffer, 0)
             ELSE UNCHANGED <<close_deferred, registered>>
       \/ reader # "attached" /\ UNCHANGED <<rst, posted, close_deferred, registered>>
    /\ UNCHANGED <<role, headers, submitted, live, received, framing, reading, writing, response,
                   closed, closing, alive, writer>>

\* ~NGHttp2Writer() and delete_writer().
DropWriter ==
    /\ writer \in {"attached", "detached"} /\ ~write_handler /\ ~response_handler
    /\ writer' = "gone"
    /\ \/ writer = "attached" /\ MaybeCloseStream(reader, "gone")
       \/ writer = "detached" /\ UNCHANGED <<rst, posted>>
    /\ UNCHANGED <<role, headers, submitted, live, received, framing, reading, writing, response,
                   closed, closing, close_deferred, registered, alive, reader>>

-----------------------------------------------------------------------------
Engine ==
    \/ \E n \in 1 .. MaxChunk : OnData(n)
    \/ OnEof
    \/ \E too_large \in OnRecvHeader : OnEndHeaders(too_large)
    \/ ReaderDefers \/ ReaderEnds \/ ReaderOffers
    \/ \E n \in 1 .. MaxChunk : OnWriteOffset(n)
    \/ StreamReset \/ SessionEnds

\* A handler returns to where it was called from.
Returns == ReadHandlerReturns \/ FrameGoesOn \/ WriteHandlerReturns

\* What is posted, and the send loop, which has something to send.
Loop == StreamEnds \/ DeleteStream \/ PostedReset

User ==
    \/ \E n \in 1 .. MaxChunk : Read(n)
    \/ ReadDetached \/ CancelRead
    \/ Submit
    \/ \E n \in 0 .. MaxChunk, eof \in BOOLEAN : Write(n, eof)
    \/ EndAgain \/ CancelWrite
    \/ GetResponse \/ CancelGetResponse
    \/ DropReader \/ DropWriter

Next == Engine \/ Returns \/ Loop \/ User

Spec == Init /\ [][Next]_vars

\* What was called returns.  The executor serves in order what is posted to it, so the user
\* can not keep the others from their turn; and nghttp2 closes a stream that has ended both
\* ways or has to be reset, for which it needs no flow control window.
FairSpec == Spec /\ WF_vars(Returns) /\ SF_vars(Loop)

-----------------------------------------------------------------------------
(* Properties.                                                             *)

Body == INSTANCE BodyReader WITH
    arrived <- received, ended <- eof_received, cut <- closed \/ ~alive,
    given <- delivered, told <- last

\* The reader of a stream keeps the contract of a Reader, when its handler is called inside
\* of a callback of nghttp2, when the stream closes before its body was read, and when it
\* goes away under its reader.
ReaderContract == Body!Spec

\* WriteMode: "nghttp2 keeps reading from that memory until it has framed all of it", so
\* the buffer of a ZeroCopy write is not given back while nghttp2 may read from it.
BufferKept == (ZeroCopy /\ live /\ vec > 0) => write_handler

\* maybe_close_stream(): a response whose end was accepted is not replaced by a reset, when
\* the handler that was told so lets go of the stream.  A write that was cancelled asks for
\* the reset itself, and is left out.
EndGoesOut == (ZeroCopy /\ rst /\ live /\ ended = "ok" /\ ~write_cancelled) => fin

\* What waits, waits for something that can still come: a read for data, the end, or the
\* deletion of the stream; a write to be asked for, or framed; get_response() for a response.
\* Left out are a read that is started by the handler that was just told that the body was
\* cut, and a data_reader() that nghttp2 calls with no vector to fill.
NothingStalls ==
    /\ (read_handler > 0 /\ pc = "out") =>
        /\ alive /\ reader = "attached" /\ read_buffer = <<>> /\ ~eof_received
        /\ closed => closing \/ ~registered \/ last = "partial"
    /\ write_handler => /\ alive /\ ~closed
                        /\ is_deferred => vec > 0
    /\ response_handler => /\ alive /\ ~has_response /\ ~response_error
                           /\ closed => closing \/ ~registered

\* The cancellation of a write: "That is one send loop pass away, and needs no flow control
\* window", so a write that was cancelled comes to its end; unless its user is reading past
\* the end of the body again and again, in the handler that is told so.
CancelEnds == write_cancelled ~> (~write_handler \/ pc = "eof")
=============================================================================
