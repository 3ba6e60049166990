# anyhttp in TLA+

anyhttp is an asynchronous HTTP library for C++: one interface (`Client`, `Server`,
`Session`, `Request`, `Response`) over HTTP/1.1 (Boost.Beast), HTTP/2 (nghttp2, twice) and
HTTP/3 (ngtcp2 and nghttp3), on ASIO or Corosio.  This directory holds TLA+ models of its
protocol sessions and of the server around them, the TLC configurations that check them on
small instances, and TLAPS proofs of what matters most for instances of any size.

Almost everything in anyhttp runs on one executor per connection.  So there are few data
races, and what is hard is what happens *between two suspensions of a coroutine*: operations
are started, cancelled and completed in any order, handles (`Request`, `Response`, `Session`)
are released at any time, and a completion handler may resume the user in the middle of the
function that calls it.  That is what the models are about.

## 1. Inventory

| Component | State it keeps | Operations | Module |
|---|---|---|---|
| HTTP/1.1 client session (`h1/session.cpp`: `ClientSession`, `RequestWriter`, `BeastResponseReader`) | `sending_`, `requests_sent_`, `responses_read_`, `send_failed_`, `receive_failed_`, `StreamOps`; per request: `cancelled_`, `eof_submitted_`, `response_requested_`, the parser | submit, write, write_eof, get_response, read_some, cancellation, release of each handle, shutdown(), destroy() | `H1Client` |
| HTTP/1.1 server session (`ServerSession`, `BeastRequestReader`, `ResponseWriter`) | `closed_`, readers and writers per request, the coroutine do_session() | do_session() with h2c upgrade, the handler's read, submit, write, write_eof, end_connection(), destroy() | `H1Server` |
| Server and accept loop (`server_impl.cpp`) | `sessions_`, `destroyed_` under `session_mutex_`; acceptor; `sessionCounter`, `sessionDone` | accept, detect, register, unregister, sweep, destroy() | `Server` |
| HTTP/2 stream (`h2/stream.cpp`, parts of `h2/session.cpp`) | `read_buffer_`, `pending_read_buffers_`, `eof_received_`, `write_buffer_`, `is_deferred_`, `has_response_`, `response_error_`, `closed_`, `close_deferred_`, handles | on_data, on_eof, on_response, producer callback, close_stream(), read, write, get_response, cancel, release, destructor | `H2Stream` |
| HTTP/2 session (`h2/session.cpp`, `h2/session_details.hpp`) | `streams_`, `last_id_`, `send_ready_`, `recv_done_`, `send_failed_`, `goaway_sent_`, `session_done_` | do_session(), send_loop(), recv_loop(), end_connection(), async_submit(), close_stream(), shutdown() with its timer, destroy() | `H2Session` |
| HTTP/2 stream, second engine (`h2v2/stream.cpp`) | as `H2Stream`, with `write_cancelled_`, the offsets offered and framed, and a reset that is posted | as above, with data_reader() and on_write_offset(), ZeroCopy and Staged writes | `H2v2Stream` |
| HTTP/2 session, second engine (`h2v2/session.cpp`, `session_details.hpp`) | `streams_`, `closing_`, `recv_done_`, `send_failed_`, `timer_` | do_session(), both loops, the connection timer, async_submit(), shutdown(), destroy() | `H2v2Session` |
| QUIC streams (`quic/stream.cpp`, `quic/streams.cpp`) and HTTP/3 streams (`h3/stream.cpp`, `client.cpp`, `server.cpp`) | chunks not acknowledged, offsets, credit, resets, parked operations, header sections | read, write, acknowledge, extend, reset, stop, fail, close, release | `QuicStream` |
| QUIC session (`quic/session.cpp`), `StreamApplication`, `Connection` | `streams_`, `accept_queue_`, `write_queue_`, `write_posted_`, timer, `closed_` | accept_stream(), open_stream(), write scheduling, flush_write(), close | `QuicSession` |
| QUIC server (`quic/server.cpp`) | the table of connection IDs, batches on strands, closing and draining periods, the registry | route, create, read, expire, close, erase, destroy | `QuicServer` |
| QUIC client (`quic/client.cpp`) | the session per endpoint, `ready_`, `closed_` | async_connect(), do_session(), close(), handle_expiry() | `QuicClient` |
| Client and Alt-Svc (`client_impl.cpp`) | `alt_svc_` with its expiry | on_alt_svc(), alt_svc(), async_connect() over TCP, TLS or QUIC | `Client` |
| Reader and Writer handles (`reader.cpp`, `writer.cpp`, `common.hpp`) | the implementation they own | read_some, reset, move | part of the sessions; what a reader promises is `BodyReader` |
| `Event`, `Timer`, `Signal` (`asio/runtime.hpp`, `asio/net.hpp`) | set, waiter | set, clear, wait, cancel, notify | part of `H1Client` (`idle`), `Server` (`signal`) and the HTTP/2 sessions (timers) |
| File handler (`file_handler.cpp`) | none | range parsing, one pass over a file | not modelled, see section 8 |
| Request handlers, TLS, detection, Corosio, applications | — | — | not modelled, see section 8 |

Who calls whom.  `Server` accepts a connection, detects its protocol, creates a session,
registers it and runs `do_session()`; a handler of the user is started for each request with a
`Request` and a `Response`.  `Client` connects and gets a `Session`, on which requests are
submitted.  A reader or writer points to its session or stream, and is *detached* when that
goes away first; a session keeps pointers to the reader and writer that use its connection,
and is told when those go away first.  The HTTP/2 session feeds bytes into nghttp2 and gets
callbacks, which call handlers of the streams.

What makes a component correct, and what is hard about it:

- *HTTP/1.1.*  Several requests are pipelined on one stream of bytes.  Nothing but a few
  counters and flags keeps bytes of one message from ending up in another, after operations
  that were cancelled half way, and handles that were released early, have left the connection
  in any state.  The end of the connection (TLS close_notify, FIN, drain, close) must not overlap
  other operations, and must come.
- *HTTP/2 streams.*  nghttp2 keeps order between streams; what is left to the stream is to
  give the body to reads of any size and at any time, including from within the read handler,
  to tell the end of a body from a truncated one even if the stream is gone, to resume nghttp2 when there
  is something to write, and to live as long as somebody needs it, and no longer.
- *HTTP/2 session.*  Two loops share one engine, and wake each other up.  A request submitted
  while they end, GOAWAY, and the two seconds of shutdown() are the hard cases.
- *Server.*  Sessions are registered and removed on many threads while destroy() sweeps; the frame of
  the accept loop must outlive every connection, and must end.
- *HTTP/2, second engine.*  The library reads from the buffers of the user, and calls back while it builds a frame:
  a buffer must not be given back too early, and the end of a body must not be replaced by a reset.
- *QUIC streams.*  What was sent may have to be sent again, so the data of a write outlive it; the end of a body, its
  cancellation, a reset and a release come in any order; and data must not wait for a write pass that nobody starts.
- *QUIC server.*  Datagrams are routed by a table that lags behind the sessions, which live on strands of their own;
  timers that were queued run on sessions that are closing; and whoever is destroyed must be found.
- *Client.*  An attempt to connect fails, is cancelled or is given up for the next one while its session goes on by itself.

`PROJECT.json` lists, under `hazards`, each of these at the line where it bites.

## 2. Plan

Done: all modules of section 3, checked; every invariant, action property and refinement that a passing run checks, proved for
instances of any size.  What is left to TLC is liveness (end of section 6).

Left: a safety contract of `Client`, which has liveness properties only; the file handler and `parse_alt_svc()`, if they
are ever to be more than functions of their input.

Each component has one passing run that checks invariants, action properties and, under its fair specification, liveness
together; `QuicSession` has no liveness property.  There is one violation run; other disagreements of code and documentation that the
models have shown are described in section 4.

## 3. Modules

A step is what one coroutine or callback does between two suspensions; an operation on the stream is one
action that starts it and another that resumes after it, with the world changed in between.  In `H1Client`
and `H1Server`, an operation is *parked* in the reactor, where `io::cancel()` and `io::close()` find
it, or its completion is *queued* on the executor, where they do not: that is the difference
behind most of the hard cases.

**H1Client** (`h1/session.cpp`).  A request is its place on the connection (`RequestWriter::sequence`).
The variables are the fields of `ClientSession` and, as functions of the request, those of its writer and
of the reader of its last `get_response()`.  The stream is what the peer has of each request
(nothing, cut in the header, open, cut in a chunk, complete), which response comes next, and
which reader took bytes of which response.  Actions: `Submit`, `Write`, `GetResponse`, `Read` and their
completions (`HeadWritten`, `BodyWritten`, `WriteFailed`, ...), `CancelWrite`, `CancelRead`, the
releases of each handle, `Shutdown`, and the steps of the shutdown coroutine (wait for idle, TLS
shutdown, FIN, drain, close).

**H1Server** (`h1/session.cpp`).  `do_session()` as a program counter, with the operation it waits for itself;
per request, the reader and the writer, and the handler that may read, write, cancel, release,
throw and return in any order.  The code lets a handler move its request or its response to where they
outlive it, with an operation in flight, and does not wait for it: the constant `Outlive` is the set of what handlers
may leave behind (`HandlerLeaves`), and what is left behind is detached when do_session() goes on (`NextRequest`, `DetachWriters`).
The run has handlers that leave nothing behind; what holds of those that do is proved (section 6).

**Server** (`server_impl.cpp`).  The accept loop, `handle_connection()` per connection, and `destroy()`,
on threads of their own: a step is one critical section of `session_mutex_`, or what lies
between two suspensions.  A session is what `H1Server` promises: told to end, it ends (`DestroyEnds`).

**H2Stream** (`h2/stream.cpp`, `close_stream()` of `h2/session.cpp`).  One stream of either role.
`call_read_handler()` and `close_stream()` are cut where they call a handler, as the user may be
resumed right there and read again, write, or release things: `pc` and `closing` say so.  The body is a
sequence of numbered units, so that order, loss and duplication show.  nghttp2 is what its callbacks may
be called with.

**H2Session** (`h2/session_details.hpp`, `async_submit()` and `close_stream()` of `h2/session.cpp`).  do_session() of
either side and its two loops around one engine: the send loop is ready, waits for `send_ready_`, or has a write
parked or queued; the receive loop has a read parked or queued.  nghttp2 is what it has to send (`frame`, or the GOAWAY of
`nghttp2_session_terminate_session()`), the requests it has to start, the streams it has open, the limit of the peer, and what
it knows of GOAWAY, from which follow `nghttp2_session_want_read()` and `..._want_write()`, which the loops ask.  The limit is
that of nghttp2 until SETTINGS of the peer arrive, and may change with any that follow: async_submit() compares
the streams there are with the limit known at that moment, so that a request may have been accepted which nghttp2 then holds
back (`queued`).  The GOAWAY that close_stream() submits is none of these: it names a stream of our own, which nghttp2 refuses, so
that it never reaches the wire, as `h2v2/session.cpp:643-653` says of the same call.  A stream is in
`streams_` or not and open for nghttp2 or not; what keeps it in `streams_` is in `H2Stream`.  The timer of shutdown() may
expire and run after it was cancelled.  The latch of `send_ready_` is not a variable: the send loop clears it, asks
nghttp2 and waits for it in one step.

**BodyReader** (`common.hpp`, `docs/end-of-body.rst`).  The abstract specification of a reader: what has arrived, whether
the peer has ended the body, whether it is cut, what was given out, and what the last read said.  `H2Stream`,
`H2v2Stream` and `QuicStream` instantiate it with their fields (`Body == INSTANCE BodyReader WITH ...`), and
`ReaderContract` is its specification as a property of theirs.

**H2v2Stream** (`h2v2/stream.cpp`) is the sibling of `H2Stream`.  A write handler is called from inside of
`nghttp2_conn_write()`, so data_reader() and on_write_offset() are cut there as well (`asking`).  A response is written by
ZeroCopy (the library has `vec` units that point into the user's buffer), a request is Staged in chunks.

**H2v2Session** (`h2v2/session_details.hpp`, `session.cpp`) is the sibling of `H2Session`: `closing_` may be set by any call of
the library, and the send loop arms a timer before it sleeps; a timer is a set, as an expiry may be queued while
the timer is armed again.

**QuicStream** (`quic/stream.cpp`, `quic/streams.cpp`, `h3/stream.cpp`).  One stream, plain or of an HTTP/3 client or server, in
either write mode.  `call_read_handler()` and `fail()` are cut where they call a handler.  The outgoing body is its offsets:
written by the user, staged (`queued`), given to the stack (`offered`), in a packet (`sent`), acknowledged (`acked`).
The chunks of a Staged write are the set of the offsets that they hold.
`gave_up` is a history variable: the user stopped reading, or gave up the exchange, in the handler of the last data of a body, before
the FIN that came with them was noted.
For HTTP/3, nghttp3 sits in between, and its own queue is `scheduled`.

**QuicSession** (`quic/session.cpp`, `quic/streams.cpp`, `quic/connection.cpp`).  One connection with several plain streams, of
which `QuicStream` has the details: the queue of streams to accept, the round-robin queue of streams to write, the
write pass that flush_write() and write_pkt() make, posted by wake_write() or following what was read, and the end.
A pass ends with the queue, the room in packets, or the credit of the connection (`credit`).  On a server, sendmsg() may
fail, and then flush_write() returns before it arms the timer: `FlushEnds` has both outcomes, and `mute` is history that says that a
connection was left without a timer that way.

**QuicServer** (`quic/server.cpp`).  The receive loop, which sorts a batch of datagrams by session and posts them to the
strands, the strands, and the thread that destroys the server; shared are the table of connection IDs and the registry.  A step
ends where a mutex is locked next.

**QuicClient**, **Client** (`quic/client.cpp`, `client_impl.cpp`).  `Client` extends `QuicClient` and composes the two: the
coroutine of Client::Impl::async_connect(), the cache of the alternative service, which changes at any time, and
quic::async_connect(), which tries one endpoint after the other, with a session and a receive loop for each.
Cancellation is that of ASIO: once a coroutine is cancelled, the next thing it awaits throws.  An attempt that
is launched after the cancellation is `late` (history).

`QuicServer` and `QuicClient` are not composed with one another: each of them has the other side and the network as an
environment in which any datagram may come at any time, be lost, late or repeated, which allows more than any composition would.

`MC*.tla` extend these for TLC, `*Proofs.tla` for TLAPS.  `map` in `PROJECT.json` says which lines each
definition stands for.  The operators that a comment calls a *Fault* are no part of the specifications: each
is a plausible bug of the definition that follows it, and is there to show that a property would find it.

### Assumptions about the user

What the code asserts, or its documentation demands: one read per reader, one write per writer and one
get_response() per request at a time; a reader is not released under its read, nor a writer under its write (HTTP/2, QUIC); a request is not
released while its get_response() is suspended (HTTP/1.1); a Response that came with an error is not
read from.  Otherwise, anything goes, at any time.

`H1Server!Outlive` is the only constant that stands for what users do: no handler leaves anything behind in `h1_server`, as the
properties of that run do not hold otherwise (see the observations).

## 4. Runs

All passing runs use `CHECK_DEADLOCK FALSE`: a session, a stream and a server do come to an end,
after which there is nothing left to do.  That nothing is stuck before is what the liveness properties say.

| Run | Checks | Shows |
|---|---|---|
| `h1_client` | `WireOrder`, `ResponseIntegrity`, `TeardownAlone`, `SafetyInv`, `DestroyEndsShutdown` | requests go out one after the other and completely; each reader gets its own response and starts at its beginning; the orderly end has the stream for itself; a destroyed session ends its shutdown() |
| `h1_server` | `RequestsAligned`, `ResponsesInOrder`, `NothingServedLate`, `DestroyEnds` | with handlers that leave nothing behind: a request is parsed where it starts; responses do not mix; one that is cut or says close is the last; nothing new is served after destroy(); the session ends |
| `server` | `Inv`, `Drains` | no session escapes destroy(); the accept loop outlives all connections, misses no wake-up, and ends |
| `h2_stream` | `ReaderContract`, `NothingStuck`, `ResponseKept`, `ReleasedGoes` | the stream implements `BodyReader`; nothing waits for what can not come; a response is not lost with its stream; a stream that nobody holds is let go of |
| `h2_session` | `NoLostWakeUp`, `NotHeldBack`, `GoawayFirst`, `DestroyEnds` | the send loop never waits with something to send; nghttp2 holds no request back but those that were made before the last SETTINGS arrived, whatever the limits are and whichever streams are kept; the session does not end the connection without a GOAWAY, unless the peer sent one or nothing can be written; a destroyed session and its shutdown() end |
| `h2v2_stream` | `ReaderContract`, `BufferKept`, `EndGoesOut`, `NothingStalls`, `CancelEnds` | the stream implements `BodyReader`; nghttp2 never reads from a buffer that was given back; an end that was accepted is not replaced by a reset; nothing waits for what can not come; a cancelled write ends |
| `h2v2_session` | `SleepsSafely`, `ClosingEnds` | the send loop never sleeps with something to send, or without the timer it needs; a connection that is closing ends, whoever noticed it |
| `quic_stream` | `ReaderContract`, `NothingWaits`, `BufferKept`, `EndIsTrue` | plain and HTTP/3 streams implement `BodyReader`, but for the end of a body told to a user that gave up in the handler of its last data; nothing waits in vain, and what is to be sent is scheduled; what may have to be sent again is there; the end of a body is sent and reported truly |
| `quic_session` | `AcceptedInOrder`, `WriteComes`, `NoOvertaking` | streams are accepted once and in order; what is to be sent has a write pass coming, from MAX_DATA or from a timer, if a pass that could not be sent has not left the connection without one; streams take turns, so that none starves another |
| `quic_server` | `OneSession`, `CloseIsLast`, `Forgets`, `ShutdownEnds` | an Initial that comes twice makes one session; nothing follows a CONNECTION_CLOSE; a session that is over leaves the table; destroying the server ends all of it |
| `client` | `ConnectEnds`, `ClosedLoopEnds` | async_connect() ends, and no session goes on that nobody has, but one that was launched after a cancellation and gets connected; close() ends the receive loop |

`TypeOK` of every module holds on these instances as well; the runs do not list it among what
they show; the proofs have it as the first part of their invariants.

One run ends in a violation.  It checks a sentence of the code's comments, quoted in the findings of `PROJECT.json`:
`quic_server_idle` (`SilentIsForgotten`).  When sendmsg() fails in the flush that a timer has started, `flush_write()` returns before
`update_timer()`, so nothing ends the session if its client is gone, where `session.hpp` says that flush_write() "re-arms the
expiry timer" and `test_server.cpp` that "Only the idle timer can notice".  `Forgets`, and `WriteComes` of `QuicSession`, leave such a
session out (`mute`).

### Observations

What the models have shown besides.  Each is a behaviour of the code as it is; the properties above say in their
comments what they leave out on account of it.

HTTP/1.1 and the server:

- An operation of a request or response that outlives its handler overlaps the read of the next header, the next response, or
  end_connection(), although "the previous request, if still around, is done with the stream" (`h1/session.cpp:1040`) and the end of
  the connection comes "with nothing on the stream any more" (`session.hpp:112`).  The bytes it takes may be those of the next
  header.  `NoneOutlives` is the hypothesis of the theorems that need it.
- ClientSession::shutdown() waits without a limit for an operation whose completion was queued when it cancelled, and which goes
  on; `session.hpp`: "Each of those waits is limited to two seconds".  Only destroy() ends it (`DestroyEndsShutdown`).
- The Response of a get_response() that was cancelled before it received anything shuts the receiving side down when it is
  released, under the second attempt that "we can allow".
- A handler of the HTTP/1.1 server that returns without having ended its response lets the next one follow the incomplete one.
- After a cancelled write_eof() on HTTP/1.1, another one is answered with canceled, where `end-of-body.rst` has it adopt the end
  that is on its way.
- A client that connects and says nothing is not registered yet, so destroy() does not reach it, and the io_context does not
  drain: `Drains` is checked with clients that say something (`TalkingSpec`).  There is no time limit for a TLS handshake, on
  either side; `ConnectEnds` leaves that of the client out.

HTTP/2:

- close_stream() keeps a stream whose response nobody has asked for, and neither delete_writer() nor maybe_close_stream() does
  anything for a stream that is closed already.  It stays in `streams_` until the session ends, and counts against the limit, although
  `h2/session.cpp:520` has "a stream being gone from here once it is closed both ways".  `ReleasedGoes` leaves it out (`Kept`).
- A read that is started on a stream which was kept for its response, in the handler that reported partial_message, waits until the
  session ends.
- A request that is made before the SETTINGS of the peer have arrived, or before they lower the limit, is accepted and then held back by
  nghttp2, without would_block; `NotHeldBack` leaves those out (`settled`).
- A write handler that is called from close_stream() and asks for a failed response erases the stream under its caller.
- A GOAWAY of the peer that arrives while a stream is open is not answered, as the send loop ends first; `GoawayFirst` leaves it out.
- The GOAWAY that `close_stream()` submits for the last stream is refused by nghttp2 and never sent; the result is not looked at.
- io::cancel() at the end of send_loop() does not end a read whose completion is queued; the receive loop then reads again, and the
  session waits for the peer (both engines; `ClosingEnds` leaves it out).
- A request that is submitted when the send loop is over is accepted, and never served (both engines).
- In the second engine, the library is called again, by the send loop and by close_stream(), after a call of it has failed; and a
  data_reader() that is asked for no vectors at all defers the stream with a write pending, which nothing resumes.
- A write on a closed stream reports connection_reset where `end-of-body.rst` has connection_aborted; the branch of delete_reader()
  that discards unread data is never taken.
- A `Timer` whose expiry is queued calls back although it was cancelled, where `asio/runtime.hpp` says that it does not.

QUIC and HTTP/3:

- recv_stream_data() looks at `read_aborted` before it delivers the data of a frame, and not again before its end, so that a user
  who calls stop_sending() in the handler of the last data is told afterwards that the body has ended, where reads are to
  "report errors::partial_message from then on" (`quic.hpp:151`).  The same goes for an HTTP/3 exchange that is given up there.
  `ReaderContract` exempts that step, and no other (`ToldAnyway`).
- If async_connect() is cancelled when an attempt has signalled its failure, but before it resumes, the session of the next endpoint is
  launched, and the wait for it throws before destroy() is called: "left alone, it goes on sending to the peer until the idle
  timeout" (`client.cpp:465`).  `ConnectEnds` leaves an attempt out that was launched that late and gets connected; one that does not
  runs into its idle timeout.
- A stream of the peer that is complete and closed before accept_stream() is called is destroyed by it, and its body lost.
- A stream of HTTP/3 that the peer resets only tells nghttp3, so a read on the server waits until the stream closes; a reset with
  H3_NO_ERROR completes a waiting read with success and no data.
- A session that handle_error() ends outside of a batch, with an empty CONNECTION_CLOSE, is not
  erased from the table.
- There is no way back from an HTTP/3 alternative that does not work to TCP, until its "ma" runs out.

### Bounds

| Bound | Value | Why it is enough |
|---|---|---|
| `H1Client!MaxRequests` | 2 | order is a relation between two requests: one that is incomplete, cut or cancelled, and one after it |
| `H1Client!MaxAttempts` | 2 | a get_response() that was cancelled, and one more |
| `H1Server!MaxRequests` | 3 | one in the past that is still held, one being served, one in the buffer |
| `Server!Connections` | 3 | one being served, one registering, one arriving while destroy() sweeps |
| `H2Stream!MaxData`, `MaxChunk` | 3, 2 | a frame can arrive behind one that is half read, and a read can take less than, as much as, or more than is there |
| `H2Session!MaxStreams`, `InitialLimit`, `Limits` | 2, 2, {0, 1, 2} | two requests before SETTINGS that allow for one or none, or one that has to wait for the other; limits that go up and down |
| `H2v2Stream!MaxData`, `MaxChunk`, `ChunkSize` | 3, 2, 1 | as for `H2Stream`; and a Staged write takes two chunks |
| `H2v2Session!MaxStreams` | 2 | a request that comes while another is open, or after the GOAWAY |
| `QuicStream!MaxUnits`, `MaxChunk` | 3, 2 | a write is cut into chunks and acknowledged in parts while some of the incoming body is buffered; either direction may have all three |
| `QuicSession!Streams`, `MaxOut`, `MaxPackets` | 2, 2, 1 | one stream that has more to send than fits into a pass, and another that waits; a pass that is over before the queue is empty |
| `QuicServer!Clients`, `Sessions`, `MaxBatch`, `MaxDatagrams` | 1, 2, 2, 3 | the Initial of a client twice in a batch, or in two, or again after its session is over; sessions of two clients share nothing but the table |
| `QuicClient!Attempts` | 2 | an endpoint that is given up, and the next one |

The proofs do not depend on them.

## 5. Fairness

The executor runs what is ready: weak fairness of resumptions.  An operation that is resumed over
and over ends, as headers, chunks and buffers are finite: strong fairness of its end (`H1Client`, `H1Server`).
An operation on a side of the socket that was shut down fails, and timers fire.  Nothing is assumed of the
peer, nor of the user, with two exceptions that are stated where they are used: `H1Server` assumes that
a handler returns if its operations let it, and does not go on for ever to start operations on a session that was
destroyed; `TalkingSpec` of `Server` assumes that a client says something or goes away.  `H2Stream` assumes that what
was called returns, what was posted runs, and nghttp2 closes a stream that has ended both ways or is to be reset.
`H2Session` assumes, on top of weak fairness of its loops, that a write that is resumed over and over is complete in the end
(strong fairness of `WriteDone`), and that what is parked on a socket that was shut down ends.
`H2v2Stream` has strong fairness of what the executor serves in order (`Loop`), as the user can not keep it from its turn, and
`H2v2Session` assumes that the peer takes what is written, or that TCP gives up.  `QuicServer` assumes that timers fire, and
that a connection over which nothing comes any more is idle at last.  `Client` assumes that the system resolves a name and connects, or reports an error, and that a QUIC
handshake that does not finish runs into its idle timeout; nothing is assumed of a TLS handshake.
In `H1Client`, fairness is that of any write and any read, not of each: there is at most one at a time.

## 6. Proofs

`H1ClientProofs` proves, for every `MaxRequests` and `MaxAttempts`:

- `TypeCorrect`: type correctness;
- `Safety`: the inductive invariant `SafetyInv`, from which follow
- `RequestsInOrder` (`WireOrder`), `ResponsesMatch` (`ResponseIntegrity`), `OneOperationEach` (`StreamExclusive`) and
  `OrderlyEnd` (`TeardownAlone`, `NotifyIntact`).

None of these is inductive by itself.  `SafetyInv` adds what the code keeps in its fields to make them so.
`SendOrder`: all requests but the last are complete, and only the last is being written.  `SendState`,
`SendingIsIncomplete`: `sending_` is the one request that is attached and incomplete; if there is an
incomplete one and `sending_` is null, then `send_failed_` is latched, so that nothing can be submitted behind it.
`ReceiveState`: a reader that is not finished is that of the next response.  `Taken`: bytes of a
response went to the reader of its last attempt only.  `EndState`: once shutdown() has begun, nothing new gets on the stream,
the event is set only when nothing is on it, and `intact` stays true to what the peer has got.
There is one lemma per part, with a step per action.

`ServerProofs` proves, for every finite set of connections: `Safety` (types, and `Inv`: the counter is the number of
connections that are not over, by the theorems about cardinality; every session served is registered or
has been told to end; whoever waits has something to wait for), `NoSessionEscapes` and `LoopOutlives`.

`H1ServerProofs` proves, for every `MaxRequests` and whatever outlives its handler: `TypeCorrect` and `StartedInTime`
(`NothingStartedLate`), from the part of the invariant that does not need more (`Anyhow`): a request is detached before
do_session() waits for the next header, and a response before a later one exists (`Detached`).  If handlers leave nothing behind
(`NoneOutlives`), it proves `Safety` (`IInv`), `ParsersAligned` (`RequestsAligned`), `NothingIsServedLate` (`NothingServedLate`) and
`InOrder` (`ResponsesInOrder`).  An operation that is left behind reads what do_session() takes for a header, so that the hypothesis is
needed.  What makes them inductive is that
only the request being served is held or has operations on the stream, and only while its handler runs (`Owned`); that a
handle that is gone has nothing in progress (`Attached`), and a request that was not read has no response (`Fresh`); that
do_session() starts no handler (`Over`) once a response says close or was cut (`LastServed`) or one was started after
destroy() (`Late`); and that a body which was not read is known to a reader that will read it, or the session is closed
(`Aligned`).

`H2SessionProofs` proves, for any number of requests and any limits of the peer, whenever it changes them: `TypeCorrect`,
`NoWakeUpIsLost` (`NoLostWakeUp`), `NoneHeldBack` (`NotHeldBack`) and `GoawayComesFirst` (`GoawayFirst`).  The first two are inductive
together with what holds before do_session() begins (`AtStart`).  `NotHeldBack` relates what nghttp2 has open to its limit, where
the code compares the size of `streams_`: it needs that all that nghttp2 has open or queued is in `streams_`, and that `streams_`
fits into the limit once a request was let through since the last SETTINGS (`Counted`).  The last one needs the history of a GOAWAY: a termination that was asked for is pending or was
sent (`TermPending`), who ends reading has asked for one (`RecvDoneTold`), the send loop ends only after one, or when
it has failed (`SendDoneTold`), and the connection is ended in good order only after that loop (`EndsInOrder`).

The same module instantiates `H2v2Session` as `V2` and proves `V2NoWakeUpIsLost` (`SleepsSafely`).  What makes it
inductive is that the send loop waits only while do_session() runs the loops (`V2Looping`), so that an expiry which is handled
finds a connection and wakes it up, and that whoever sets `closing_` has ended the loop or made the library fail
(`V2ClosingKnown`), so that the loop does not go to sleep after it.

`H2StreamProofs` proves, for bodies and frames of any length: `TypeCorrect`, `NothingIsStuck` (`NothingStuck`), `ResponseIsKept`
(`ResponseKept`), and `ReaderImplements` (`ReaderContract`): the stream implements `BodyReader`.  The heart of it is `Stored`: what was
delivered are the first units of the body, and what is left of the first buffer, the other buffers and the data that just
arrive are runs of numbers, each of which begins where the one before it ends, up to the unit received last (`Chain`).
This is stated by position, so that no proof needs induction over the queue of buffers: consuming from the
first buffer, going on to the next, storing what is left and receiving a frame are one lemma each, about
sequences only.  `Told` says that what the last read has reported of the end is true, and that a detached handle knows the same;
`Lives` and `Responds` say which of nghttp2, stream, reader, writer and response outlives which.  As call_read_handler() is cut where
it calls the user, a step of it is looked at once (`Deliver`, `CallReadHandler`) and cited by each action it is part of.  Each
step is then shown to be a step of `BodyReader` or to leave its variables alone.  `ContractPromises` shows that `BodyReader`
is worth implementing: of whoever does, what was given out is a prefix of the body, and all of it when the end was told, and
what was told of the end is final (`Promised`, `Final`); `BodyIsWhole` draws that conclusion for the stream.

The same module instantiates `H2v2Stream` as `V2` and proves, for bodies and frames of any length and chunks of any size greater than
zero: `V2TypeCorrect`, `V2KeepsBuffers` (`BufferKept`), `V2EndsResponse` (`EndGoesOut`), `V2NothingIsStuck` (`NothingStalls`),
`V2ReaderImplements` (`ReaderContract`) and `V2BodyIsWhole`.  The size of a chunk is a constexpr of the code; a hypothesis of
each theorem says that it is not zero, and TLC evaluates the same assumption of `H2v2Stream`.  The read side is that of
`H2Stream`, and so are `Stored`, `Told`, `Lives` and `Parked` and the lemmas about call_read_handler(): they are stated of the
variables that both modules have, and cited by both.  The write side is new.  `BufferKept` is not inductive, as a
write may complete in on_write_offset(), in a cancellation, or when the stream closes: `V2Writes` says what a write that waits has
still to offer or to have framed, and `V2Framed` that whatever the library has not framed belongs to a write whose handler
is there.  `EndGoesOut` needs the rest of `V2Framed`: who resets a stream, or posts that, is not the writer of a
response unless it has cancelled a write, and between the acceptance of an end and its frame there is no step in which a
reset could get in.

`QuicStreamProofs` proves, for bodies of any length, plain and HTTP/3 streams of either role and both write modes: `TypeCorrect`, `Wakes`
(`NothingWaits`), `KeepsBuffers` (`BufferKept`), `EndsTruly` (`EndIsTrue`) and `ReaderRefines` (`ReaderContract`).  The invariant has two halves.  `ReadInv`: the units delivered, queued and being
delivered follow each other (`Stored`), and the flags of the stream, its handles and its waiting operations agree
on whether more can come (`Over`, `Handles`, `Waiting`, `Responds`).  `OutInv(w)` is about the record of the outgoing
body: the order of its offsets, and that chunks are just what is queued and not acknowledged (`Offsets`); that a ZeroCopy
write begins where everything before it is acknowledged (`Held`), without which its buffer could be given back by an
acknowledgement of older data; that the end is handed over with the last of the body (`Ends`); and that a stream which
has something to hand over, and is not kept from it, is in the write queue (`Due`).  It is stated of any such record,
so each method of the stream is one lemma from a record to a record, and an action cites those of the methods it
calls.  The refinement needs `Told`, as above, and `Whole`: a body that has arrived in full is given up only by a
reader that leaves, or by a user in the handler of the last data (`gave_up`), which is the step that `ReaderContract` exempts.

`QuicServerProofs` proves, for any number of clients, sessions and datagrams: `OneSessionEach` (`OneSession`) and `NothingAfterClose`
(`CloseIsLast`).  The invariant is that the connection ID which a client has chosen leads to its session until that is
closed (`Leads`), and that who has sent CONNECTION_CLOSE, or waits for the end of its closing or draining period, is closed
(`ClosedFirst`).  A handler on a strand is looked at apart from the table: what it leaves of a session is an `Outcome` of
what it found, and only a closed session leaves the table (`Handled`).

`QuicSessionProofs` proves, for any streams and any amount of data: `AcceptOrder` (`AcceptedInOrder`), `WritesCome` (`WriteComes`) and `TakesTurns`
(`NoOvertaking`).  While the
connection is open, the flags of each stream agree with one another and with `streams_` (`StreamOK`), the write queue holds just the
streams that are marked as scheduled, once each (`Queued`), a pass that looks at it is running or bound to come (`Looked`: from MAX_DATA, from a timer, or the session is
`mute`), and the
accept queue is what is left of the streams that were opened, in their order (`Accepting`).  When it is closed, both
queues are empty (`Over`).  `NoOvertaking` then follows step by step: a stream that waits is in the queue before and after a step
(`Queued`), and the queue only grows at its end, loses its first, or moves that to its end (`QueueSteps`).

All invariants were checked by TLC on the instances of section 4, or slightly larger ones, before they were proved.  The only
assumptions are those on constants, which TLC evaluates in every run, and the hypotheses named above.

Out of the reach of the prover, and left to TLC: liveness and fairness (`DestroyEndsShutdown`, `DestroyEnds` of both
sessions, `Drains`, `ReleasedGoes`, `CancelEnds`, `ClosingEnds`, `Forgets`, `ShutdownEnds`, `ConnectEnds`,
`ClosedLoopEnds`) and anything about ENABLED; what recursively defined functions compute for every input.  `Client` has
liveness properties only, so nothing of it is proved.

## 7. Reproducing

    tlc -config H1Client.cfg MCH1Client
    tlapm H1ClientProofs.tla

and likewise for the other runs in `PROJECT.json`, and for the other `*Proofs.tla`.  Each module takes one to three minutes.

## 8. Not modelled

Contents of headers and bodies, and their formatting; TLS; flow control windows; logging; the engines Beast,
nghttp2, ngtcp2 and nghttp3 themselves, of which only what the code sees of them is modelled.
The lifetime of C++ objects is modelled where a flag or pointer of the code stands for it (detached, erased,
destroyed), not as memory; the FIXME in BeastSession::destroy() about a use after free is of that kind.

- *QUIC.*  Migration of connections and the retirement of connection IDs, GRO and GSO, and failures of RAND_bytes() and of
  setting TLS up.  (A second batch that is queued behind an init() that has failed in one of these would be read with a
  connection that is not there.)  The control streams of HTTP/3 belong to nghttp3.
- *Alt-Svc and ranges.*  `parse_alt_svc()` and the range parser of the file handler are sequential functions from a text to a
  record; what follows from their result is in `Client`, or one pass over a file.
- *Request handlers* (echo, dump and the like) are users of the interface without a state of their own, as which
  the sessions have a user that does anything.
- *Corosio* is an alternative to ASIO behind the same functions.  Detection of the protocol is one step of `Server`.
  Applications and utilities have no protocol logic.
- *Resource failures*: nghttp2_submit_request2() refuses a request only when the numbers of a connection are used up.
