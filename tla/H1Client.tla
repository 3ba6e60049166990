------------------------------ MODULE H1Client ------------------------------
(***************************************************************************)
(* The HTTP/1.1 client session: ClientSession, RequestWriter and           *)
(* BeastResponseReader of src/src/h1/session.cpp, on one connection.       *)
(*                                                                         *)
(* Everything runs on one executor, so a step of the model is what one     *)
(* coroutine does between two suspensions.  An operation on the stream is  *)
(* started by one action, makes progress while others run, and is resumed  *)
(* by another action, with the session possibly shut down, released or     *)
(* deleted in between.                                                     *)
(*                                                                         *)
(* A request is named by its sequence (RequestWriter::sequence), its place *)
(* on the connection.  Abstracted away: what header and body contain, the  *)
(* kind of stream (TLS or not), and the Alt-Svc field of a response.       *)
(*                                                                         *)
(* The caller keeps to what the API demands of it: one write per request   *)
(* and one read per response at a time (both asserted by the code), a      *)
(* request is not released while its get_response() is suspended, and a    *)
(* Response that came with an error is not read from.                      *)
(***************************************************************************)
EXTENDS Naturals, FiniteSets

CONSTANTS
    MaxRequests,    \* bound: requests submitted in the life of the session
    MaxAttempts     \* bound: calls of get_response() that start, per request

ASSUME MaxRequestsAssumption == MaxRequests \in Nat \ {0}
ASSUME MaxAttemptsAssumption == MaxAttempts \in Nat \ {0}

Requests == 0 .. MaxRequests - 1
NoRequest == MaxRequests                \* sending_ == nullptr

\* Where an operation on the stream is.  "parked": waiting in the reactor, where
\* io::cancel() and io::close() find it.  "queued": its completion waits to run on
\* the executor, where they do not.  "canceled" and "ended": so does that, with
\* operation_canceled and with another error or the end of the stream.
Phases == {"idle", "parked", "queued", "canceled", "ended"}

\* What the peer has got of a request: nothing, part of its header, the header and
\* whole chunks of the body, part of a chunk, all of it.
Delivered == {"nothing", "headcut", "open", "bodycut", "complete"}

VARIABLES
    \* ClientSession
    sending, requests_sent, responses_read, send_failed, receive_failed,
    \* StreamOps::idle is set (StreamOps::pending and writes are InFlight below)
    idle,
    \* the Session handle and the coroutine of shutdown()
    session, ending, intact,
    \* RequestWriter, per request
    writer, wsession, wop, wphase, cancelled, eof_submitted, response_requested, has_body,
    \* BeastResponseReader, per request: the one of its last get_response()
    reader, rsession, rphase, parsed, finished, attempts,
    \* responses still held of attempts cancelled before they received anything
    stale,
    \* the stream: which sides are open, what the peer has of each request, the
    \* response next on the connection and which readers took bytes of which response
    tx, rx, sent, rxnext, took

svars == <<sending, requests_sent, responses_read, send_failed, receive_failed>>
evars == <<session, ending, intact>>
wvars == <<writer, wsession, wop, wphase, cancelled, eof_submitted, response_requested, has_body>>
rvars == <<reader, rsession, rphase, parsed, finished, attempts, stale>>
stream == <<tx, rx, sent, rxnext, took>>
vars == <<svars, idle, evars, wvars, rvars, stream>>

Bools == [Requests -> BOOLEAN]

TypeSession ==
    /\ sending \in Requests \cup {NoRequest}
    /\ requests_sent \in 0 .. MaxRequests
    /\ responses_read \in Nat
    /\ send_failed \in BOOLEAN /\ receive_failed \in BOOLEAN /\ idle \in BOOLEAN
    /\ session \in {"open", "released", "deleted"}
    /\ ending \in {"no", "waiting", "teardown", "fin", "draining", "closed"}
    /\ intact \in BOOLEAN
TypeWriters ==
    /\ writer \in [Requests -> {"none", "submitting", "held", "zombie", "gone"}]
    /\ wsession \in Bools /\ cancelled \in Bools /\ eof_submitted \in Bools
    /\ response_requested \in Bools /\ has_body \in Bools
    /\ wop \in [Requests -> {"head", "data", "eof"}]
    /\ wphase \in [Requests -> Phases]
TypeReaders ==
    /\ reader \in [Requests -> {"none", "header", "held", "zombie", "gone"}]
    /\ rsession \in Bools /\ finished \in Bools
    /\ rphase \in [Requests -> Phases]
    /\ parsed \in [Requests -> {"nothing", "header", "done"}]
    /\ attempts \in [Requests -> 0 .. MaxAttempts]
    /\ stale \in [Requests -> Nat]
TypeStream ==
    /\ tx \in BOOLEAN /\ rx \in BOOLEAN
    /\ sent \in [Requests -> Delivered]
    /\ rxnext \in 0 .. MaxRequests
    /\ took \in [0 .. MaxRequests -> SUBSET (Requests \X (0 .. MaxAttempts))]

\* Type invariant: every field of the session, its requests and its responses has a
\* value the code can give it (declarations of h1/session.hpp and WriterBase).
TypeOK == TypeSession /\ TypeWriters /\ TypeReaders /\ TypeStream

Init ==
    /\ sending = NoRequest /\ requests_sent = 0 /\ responses_read = 0
    /\ send_failed = FALSE /\ receive_failed = FALSE
    /\ idle = FALSE
    /\ session = "open" /\ ending = "no" /\ intact = TRUE
    /\ writer = [r \in Requests |-> "none"]
    /\ wsession = [r \in Requests |-> FALSE]
    /\ wop = [r \in Requests |-> "head"]
    /\ wphase = [r \in Requests |-> "idle"]
    /\ cancelled = [r \in Requests |-> FALSE]
    /\ eof_submitted = [r \in Requests |-> FALSE]
    /\ response_requested = [r \in Requests |-> FALSE]
    /\ has_body = [r \in Requests |-> FALSE]
    /\ reader = [r \in Requests |-> "none"]
    /\ rsession = [r \in Requests |-> FALSE]
    /\ rphase = [r \in Requests |-> "idle"]
    /\ parsed = [r \in Requests |-> "nothing"]
    /\ finished = [r \in Requests |-> FALSE]
    /\ attempts = [r \in Requests |-> 0]
    /\ stale = [r \in Requests |-> 0]
    /\ tx = TRUE /\ rx = TRUE
    /\ sent = [r \in Requests |-> "nothing"]
    /\ rxnext = 0
    /\ took = [q \in 0 .. MaxRequests |-> {}]

-----------------------------------------------------------------------------
(* StreamOps: the operations on the stream, each guarded by a StreamOp.    *)

Writes == {r \in Requests : wphase[r] # "idle"}
Reads == {r \in Requests : rphase[r] # "idle"}
InFlight == Writes # {} \/ Reads # {}

\* Fault: the last write sets the event, with a read still on the stream.
WriteOpEndsEarly(r) == idle' = (idle \/ Writes = {r})

\* ~StreamOp(): the last operation to end sets the event shutdown() waits for.
WriteOpEnds(r) == idle' = (idle \/ (Writes = {r} /\ Reads = {}))
ReadOpEnds(r) == idle' = (idle \/ (Reads = {r} /\ Writes = {}))

\* The socket, which is outside of this code: it takes bytes of a parked write...
SocketWritable(r) ==
    /\ wphase[r] = "parked" /\ tx
    /\ wphase' = [wphase EXCEPT ![r] = "queued"]
    /\ sent' = [sent EXCEPT ![r] = IF wop[r] = "head" THEN "headcut" ELSE "bodycut"]
    /\ UNCHANGED <<svars, idle, evars, writer, wsession, wop, cancelled, eof_submitted,
                   response_requested, has_body, rvars, tx, rx, rxnext, took>>

\* ... has bytes of the next response for a parked read, once the peer has the header
\* of its request (what arrived before the receiving side was shut down stays readable) ...
PeerAnswers == rxnext < MaxRequests /\ sent[rxnext] \in {"open", "bodycut", "complete"}

SocketReadable(r) ==
    /\ rphase[r] = "parked" /\ PeerAnswers
    /\ rphase' = [rphase EXCEPT ![r] = "queued"]
    /\ UNCHANGED <<svars, idle, evars, wvars, reader, rsession, parsed, finished, attempts,
                   stale, stream>>

\* ... or fails the one or the other: always, once that side has been shut down.
SocketEndsWrite(r) ==
    /\ wphase[r] = "parked"
    /\ wphase' = [wphase EXCEPT ![r] = "ended"]
    /\ UNCHANGED <<svars, idle, evars, writer, wsession, wop, cancelled, eof_submitted,
                   response_requested, has_body, rvars, stream>>

SocketEndsRead(r) ==
    /\ rphase[r] = "parked"
    /\ rphase' = [rphase EXCEPT ![r] = "ended"]
    /\ UNCHANGED <<svars, idle, evars, wvars, reader, rsession, parsed, finished, attempts,
                   stale, stream>>

\* The cancellation of one operation by its caller: it reaches a composed operation
\* between two of its steps as well.
CancelWrite(r) ==
    /\ wphase[r] \in {"parked", "queued"}
    /\ wphase' = [wphase EXCEPT ![r] = "canceled"]
    /\ UNCHANGED <<svars, idle, evars, writer, wsession, wop, cancelled, eof_submitted,
                   response_requested, has_body, rvars, stream>>

CancelRead(r) ==
    /\ rphase[r] \in {"parked", "queued"}
    /\ rphase' = [rphase EXCEPT ![r] = "canceled"]
    /\ UNCHANGED <<svars, idle, evars, wvars, reader, rsession, parsed, finished, attempts,
                   stale, stream>>

-----------------------------------------------------------------------------
(* Sending requests.                                                       *)

\* ClientSession::submit(), what is answered without touching the connection.
SubmitResult ==
    IF send_failed THEN "connection_aborted"
    ELSE IF sending # NoRequest THEN "would_block" ELSE "started"

\* ClientSession::submit() up to the suspension in write_head().
Submit(body) ==
    /\ session = "open" /\ requests_sent < MaxRequests
    /\ SubmitResult = "started"
    /\ LET r == requests_sent IN
       /\ writer' = [writer EXCEPT ![r] = "submitting"]
       /\ wsession' = [wsession EXCEPT ![r] = TRUE]
       /\ has_body' = [has_body EXCEPT ![r] = body]
       /\ wop' = [wop EXCEPT ![r] = "head"]
       /\ wphase' = [wphase EXCEPT ![r] = "parked"]
       /\ sending' = r
    /\ requests_sent' = requests_sent + 1
    /\ UNCHANGED <<responses_read, send_failed, receive_failed, idle, evars, cancelled,
                   eof_submitted, response_requested, rvars, stream>>

\* WriterBase::write(), the entry ladder.
WriteResult(r, empty, eof) ==
    CASE empty /\ ~eof -> "ok"
      [] ~(empty /\ ~eof) /\ eof_submitted[r] -> IF empty THEN "ok" ELSE "broken_pipe"
      [] ~(empty /\ ~eof) /\ ~eof_submitted[r] /\ ~wsession[r] -> "connection_aborted"
      [] ~(empty /\ ~eof) /\ ~eof_submitted[r] /\ wsession[r] /\ cancelled[r] -> "canceled"
      [] OTHER -> "started"

\* WriterBase::write() and write_eof() up to the suspension in h1::write().
Write(r, eof) ==
    /\ writer[r] = "held" /\ wphase[r] = "idle"
    /\ WriteResult(r, ~eof, eof) = "started" \/ WriteResult(r, FALSE, eof) = "started"
    /\ wop' = [wop EXCEPT ![r] = IF eof THEN "eof" ELSE "data"]
    /\ wphase' = [wphase EXCEPT ![r] = "parked"]
    /\ UNCHANGED <<svars, idle, evars, writer, wsession, cancelled, eof_submitted,
                   response_requested, has_body, rvars, stream>>

\* h1::write_until() and io::write(): more to be written, so the operation goes on.
WriteContinues(r) ==
    /\ wphase[r] = "queued"
    /\ wphase' = [wphase EXCEPT ![r] = "parked"]
    /\ UNCHANGED <<svars, idle, evars, writer, wsession, wop, cancelled, eof_submitted,
                   response_requested, has_body, rvars, stream>>

\* RequestWriter::header_written() without an error: the end of submit().
HeadWritten(r) ==
    /\ wop[r] = "head" /\ wphase[r] = "queued"
    /\ WriteOpEnds(r)
    /\ wphase' = [wphase EXCEPT ![r] = "idle"]
    /\ writer' = [writer EXCEPT ![r] = "held"]
    /\ sent' = [sent EXCEPT ![r] = IF has_body[r] THEN "open" ELSE "complete"]
    /\ eof_submitted' = [eof_submitted EXCEPT ![r] = ~has_body[r]]
    /\ sending' = IF ~has_body[r] /\ wsession[r] THEN NoRequest ELSE sending
    /\ UNCHANGED <<requests_sent, responses_read, send_failed, receive_failed, evars, wsession,
                   wop, cancelled, response_requested, has_body, rvars, tx, rx, rxnext, took>>

\* RequestWriter::header_written() with one, and request_failed().
HeadFailed(r) ==
    /\ wop[r] = "head" /\ wphase[r] \in {"canceled", "ended"}
    /\ WriteOpEnds(r)
    /\ wphase' = [wphase EXCEPT ![r] = "idle"]
    /\ writer' = [writer EXCEPT ![r] = "held"]
    /\ cancelled' = [cancelled EXCEPT ![r] = TRUE]
    /\ send_failed' = (send_failed \/ wsession[r])
    /\ sending' = IF wsession[r] THEN NoRequest ELSE sending
    /\ UNCHANGED <<requests_sent, responses_read, receive_failed, evars, wsession, wop,
                   eof_submitted, response_requested, has_body, rvars, stream>>

\* Fault: a request released before its end does not fail the connection.
RequestReleasedQuietly(r, sending_, send_failed_) ==
    /\ sending' = IF wsession[r] /\ sending_ = r THEN NoRequest ELSE sending_
    /\ send_failed' = send_failed_
    /\ receive_failed' = (receive_failed \/ (wsession[r] /\ ~response_requested[r]))
    /\ writer' = [writer EXCEPT ![r] = "gone"]
    /\ wsession' = [wsession EXCEPT ![r] = FALSE]

\* ~RequestWriter() and request_released(), with sending_ and send_failed_ as they are
\* when the last reference goes.
RequestReleased(r, sending_, send_failed_) ==
    /\ sending' = IF wsession[r] /\ sending_ = r THEN NoRequest ELSE sending_
    /\ send_failed' = (send_failed_ \/ (wsession[r] /\ sending_ = r))
    /\ receive_failed' = (receive_failed \/ (wsession[r] /\ ~response_requested[r]))
    /\ writer' = [writer EXCEPT ![r] = "gone"]
    /\ wsession' = [wsession EXCEPT ![r] = FALSE]

\* The handle of a request is released.  A write in progress holds the writer until
\* it ends.
ReleaseRequest(r) ==
    /\ writer[r] = "held" /\ reader[r] # "header"
    /\ \/ /\ wphase[r] = "idle"
          /\ RequestReleased(r, sending, send_failed)
       \/ /\ wphase[r] # "idle"
          /\ writer' = [writer EXCEPT ![r] = "zombie"]
          /\ UNCHANGED <<sending, send_failed, receive_failed, wsession>>
    /\ UNCHANGED <<requests_sent, responses_read, idle, evars, wop, wphase, cancelled,
                   eof_submitted, response_requested, has_body, rvars, stream>>

\* What follows the end of WriterBase::write(): self.reset(), which deletes a writer
\* nobody holds any more.
WriteReturns(r, sending_, send_failed_) ==
    \/ /\ writer[r] = "zombie"
       /\ RequestReleased(r, sending_, send_failed_)
    \/ /\ writer[r] # "zombie"
       /\ sending' = sending_ /\ send_failed' = send_failed_
       /\ UNCHANGED <<receive_failed, writer, wsession>>

\* WriterBase::write() resumed without an error: body_ended() and request_complete().
BodyWritten(r) ==
    /\ wop[r] # "head" /\ wphase[r] = "queued"
    /\ WriteOpEnds(r)
    /\ wphase' = [wphase EXCEPT ![r] = "idle"]
    /\ sent' = [sent EXCEPT ![r] = IF wop[r] = "eof" THEN "complete" ELSE "open"]
    /\ eof_submitted' = [eof_submitted EXCEPT ![r] = @ \/ wop[r] = "eof"]
    /\ WriteReturns(r, IF wop[r] = "eof" /\ wsession[r] THEN NoRequest ELSE sending, send_failed)
    /\ UNCHANGED <<requests_sent, responses_read, evars, wop, cancelled, response_requested,
                   has_body, rvars, tx, rx, rxnext, took>>

\* WriterBase::write() resumed with an error: write_failed() and request_failed().  A
\* cancelled write also shuts down the sending side.
WriteFailed(r) ==
    /\ wop[r] # "head" /\ wphase[r] \in {"canceled", "ended"}
    /\ WriteOpEnds(r)
    /\ wphase' = [wphase EXCEPT ![r] = "idle"]
    /\ cancelled' = [cancelled EXCEPT ![r] = TRUE]
    /\ tx' = (tx /\ ~(wphase[r] = "canceled" /\ wsession[r]))
    /\ WriteReturns(r, IF wsession[r] THEN NoRequest ELSE sending, send_failed \/ wsession[r])
    /\ UNCHANGED <<requests_sent, responses_read, evars, wop, eof_submitted,
                   response_requested, has_body, rvars, rx, sent, rxnext, took>>

-----------------------------------------------------------------------------
(* Receiving responses.                                                    *)

\* Fault: a response is read out of turn.
GetResponseResultAnyTurn(r) ==
    IF response_requested[r] THEN "already_started"
    ELSE IF ~wsession[r] \/ receive_failed THEN "connection_aborted" ELSE "started"

\* RequestWriter::get_response(), what is answered without touching the connection.
GetResponseResult(r) ==
    IF response_requested[r] THEN "already_started"
    ELSE IF ~wsession[r] \/ receive_failed THEN "connection_aborted"
    ELSE IF r # responses_read THEN "would_block" ELSE "started"

\* RequestWriter::get_response() up to the suspension in h1::read_header().
GetResponse(r) ==
    /\ writer[r] = "held" /\ attempts[r] < MaxAttempts
    /\ GetResponseResult(r) = "started"
    /\ response_requested' = [response_requested EXCEPT ![r] = TRUE]
    /\ attempts' = [attempts EXCEPT ![r] = @ + 1]
    /\ reader' = [reader EXCEPT ![r] = "header"]
    /\ rsession' = [rsession EXCEPT ![r] = TRUE]
    /\ rphase' = [rphase EXCEPT ![r] = "parked"]
    /\ parsed' = [parsed EXCEPT ![r] = "nothing"]
    /\ finished' = [finished EXCEPT ![r] = FALSE]
    /\ UNCHANGED <<svars, idle, evars, writer, wsession, wop, wphase, cancelled, eof_submitted,
                   has_body, stale, stream>>

\* basic_parser::put(): the reader takes what is next on the connection; the parser
\* knows whether it has got_some().
Take(r) ==
    /\ rxnext < MaxRequests
    /\ took' = [took EXCEPT ![rxnext] = @ \cup {<<r, attempts[r]>>}]
GotSome(r) == \E q \in 0 .. MaxRequests : <<r, attempts[r]>> \in took[q]

\* BeastReader::finish() and ClientSession::reader_finished().
Finish(r, complete) ==
    LET counts == rsession[r] /\ ~finished[r] IN
    /\ finished' = [finished EXCEPT ![r] = @ \/ rsession[r]]
    /\ responses_read' = IF counts /\ complete THEN responses_read + 1 ELSE responses_read
    /\ receive_failed' = (receive_failed \/ (counts /\ ~complete))

\* h1::read_header() and h1::read_some(): the parser needs more input, so the operation
\* goes on, whether its reader is still attached or not.
ReadContinues(r) ==
    /\ rphase[r] = "queued"
    /\ Take(r)
    /\ rphase' = [rphase EXCEPT ![r] = "parked"]
    /\ UNCHANGED <<svars, idle, evars, wvars, reader, rsession, parsed, finished, attempts,
                   stale, tx, rx, sent, rxnext>>

\* get_response() resumed with a header; \E last: the response ends with it.
HeaderRead(r, last) ==
    /\ reader[r] = "header" /\ rphase[r] = "queued"
    /\ ReadOpEnds(r)
    /\ Take(r)
    /\ rphase' = [rphase EXCEPT ![r] = "idle"]
    /\ reader' = [reader EXCEPT ![r] = "held"]
    /\ parsed' = [parsed EXCEPT ![r] = IF last THEN "done" ELSE "header"]
    /\ rxnext' = IF last THEN rxnext + 1 ELSE rxnext
    /\ \/ last /\ Finish(r, TRUE)
       \/ ~last /\ UNCHANGED <<finished, responses_read, receive_failed>>
    /\ UNCHANGED <<sending, requests_sent, send_failed, evars, wvars, rsession, attempts, stale,
                   tx, rx, sent>>

\* get_response() cancelled before the parser got anything: another attempt is
\* allowed, and the Response it returns holds a reader that counts as finished.
HeaderCancelled(r) ==
    /\ reader[r] = "header" /\ rphase[r] = "canceled" /\ ~GotSome(r)
    /\ ReadOpEnds(r)
    /\ rphase' = [rphase EXCEPT ![r] = "idle"]
    /\ reader' = [reader EXCEPT ![r] = "none"]
    /\ rsession' = [rsession EXCEPT ![r] = FALSE]
    /\ stale' = [stale EXCEPT ![r] = IF rsession[r] THEN @ + 1 ELSE @]
    /\ response_requested' = [response_requested EXCEPT ![r] = FALSE]
    /\ UNCHANGED <<svars, evars, writer, wsession, wop, wphase, cancelled, eof_submitted,
                   has_body, parsed, finished, attempts, stream>>

\* get_response() resumed with any other error.
HeaderFailed(r) ==
    /\ reader[r] = "header"
    /\ rphase[r] = "ended" \/ (rphase[r] = "canceled" /\ GotSome(r))
    /\ ReadOpEnds(r)
    /\ rphase' = [rphase EXCEPT ![r] = "idle"]
    /\ reader' = [reader EXCEPT ![r] = "held"]
    /\ UNCHANGED <<svars, evars, wvars, rsession, parsed, finished, attempts, stale, stream>>

\* BeastReader::read_some() up to its suspension.  What it answers at once (a parser
\* that is done, a reader that is detached) changes nothing.
Read(r) ==
    /\ reader[r] = "held" /\ rphase[r] = "idle"
    /\ parsed[r] = "header" /\ rsession[r]
    /\ rphase' = [rphase EXCEPT ![r] = "parked"]
    /\ UNCHANGED <<svars, idle, evars, wvars, reader, rsession, parsed, finished, attempts,
                   stale, stream>>

\* ~BeastReader() of a reader that nobody holds any more, after its last operation.
ReaderAfter(r) == [reader EXCEPT ![r] = IF @ = "zombie" THEN "gone" ELSE @]
AttachedAfter(r) == [rsession EXCEPT ![r] = @ /\ reader[r] # "zombie"]

\* BeastReader::read_some() resumed with data (last: and the end of the body), with
\* partial_message if it is detached and there is none, or, for a body that the end of
\* the connection ends, with that.
BodyRead(r, last) ==
    /\ reader[r] # "header"
    /\ rphase[r] = "queued" \/ (last /\ rphase[r] = "ended")
    /\ ReadOpEnds(r)
    /\ Take(r)
    /\ rphase' = [rphase EXCEPT ![r] = "idle"]
    /\ parsed' = [parsed EXCEPT ![r] = IF last THEN "done" ELSE @]
    /\ rxnext' = IF last THEN rxnext + 1 ELSE rxnext
    /\ \/ (last \/ reader[r] = "zombie") /\ Finish(r, last)
       \/ ~(last \/ reader[r] = "zombie") /\ UNCHANGED <<finished, responses_read, receive_failed>>
    /\ reader' = ReaderAfter(r) /\ rsession' = AttachedAfter(r)
    /\ UNCHANGED <<sending, requests_sent, send_failed, evars, wvars, attempts, stale,
                   tx, rx, sent>>

\* BeastReader::read_some() resumed with an error.
ReadFailed(r) ==
    /\ reader[r] # "header" /\ rphase[r] \in {"canceled", "ended"}
    /\ ReadOpEnds(r)
    /\ rphase' = [rphase EXCEPT ![r] = "idle"]
    /\ \/ reader[r] = "zombie" /\ Finish(r, FALSE)
       \/ reader[r] # "zombie" /\ UNCHANGED <<finished, responses_read, receive_failed>>
    /\ reader' = ReaderAfter(r) /\ rsession' = AttachedAfter(r)
    /\ UNCHANGED <<sending, requests_sent, send_failed, evars, wvars, parsed, attempts, stale,
                   stream>>

\* A Response goes away.  Reader::reset() calls BeastReader::destroy(), which shuts down
\* the receiving side under a response that has not been read to its end; assigning
\* another Response to it (Reader::operator=) does not.  A read in progress holds the
\* reader until it ends.
DropResponse(r, destroyed) ==
    /\ reader[r] = "held"
    /\ rx' = (rx /\ ~(destroyed /\ parsed[r] # "done" /\ rsession[r]))
    /\ \/ (destroyed \/ rphase[r] = "idle") /\ Finish(r, parsed[r] = "done")
       \/ ~(destroyed \/ rphase[r] = "idle")
          /\ UNCHANGED <<finished, responses_read, receive_failed>>
    /\ reader' = [reader EXCEPT ![r] = IF rphase[r] = "idle" THEN "gone" ELSE "zombie"]
    /\ rsession' = [rsession EXCEPT ![r] = @ /\ rphase[r] # "idle"]
    /\ UNCHANGED <<sending, requests_sent, send_failed, idle, evars, wvars, rphase, parsed,
                   attempts, stale, tx, sent, rxnext, took>>

\* The same for the Response of an attempt that was cancelled before it received
\* anything: its parser is not done, but its reader is finished.
DropStale(r, destroyed) ==
    /\ stale[r] > 0
    /\ stale' = [stale EXCEPT ![r] = @ - 1]
    /\ rx' = (rx /\ ~destroyed)
    /\ UNCHANGED <<svars, idle, evars, wvars, reader, rsession, rphase, parsed, finished,
                   attempts, tx, sent, rxnext, took>>

-----------------------------------------------------------------------------
(* Ending the session.                                                     *)

\* detach_writers() and detach_readers().
Detach ==
    /\ wsession' = [r \in Requests |-> FALSE]
    /\ rsession' = [r \in Requests |-> FALSE]
    /\ stale' = [r \in Requests |-> 0]

\* io::cancel() and io::close(): what is parked completes, what is queued already stays.
CancelParked(phase) == [r \in Requests |-> IF phase[r] = "parked" THEN "canceled" ELSE phase[r]]
CancelStream ==
    /\ wphase' = CancelParked(wphase)
    /\ rphase' = CancelParked(rphase)

\* Whether the stream is in a state to be ended in order.
Intact == ~send_failed /\ Writes = {}

\* ClientSession::shutdown() up to its first suspension; another call does nothing.
Shutdown ==
    /\ session = "open" /\ ending = "no"
    /\ intact' = Intact
    /\ send_failed' = TRUE /\ receive_failed' = TRUE /\ sending' = NoRequest
    /\ Detach
    /\ CancelStream
    /\ ending' = IF InFlight THEN "waiting" ELSE "teardown"
    /\ idle' = (idle /\ ~InFlight)
    /\ UNCHANGED <<requests_sent, responses_read, session, writer, wop, cancelled, eof_submitted,
                   response_requested, has_body, reader, parsed, finished, attempts, stream>>

\* ... resumed when the last operation is off the stream.
ShutdownIdle ==
    /\ ending = "waiting" /\ idle
    /\ ending' = "teardown"
    /\ UNCHANGED <<svars, idle, session, intact, wvars, rvars, stream>>

\* BeastSession::end_connection(): the close_notify (async_teardown, two seconds at
\* most), if the stream is intact ...
Teardown ==
    /\ ending = "teardown"
    /\ ending' = "fin"
    /\ UNCHANGED <<svars, idle, session, intact, wvars, rvars, stream>>

\* ... a FIN, unless the peer is gone already ...
SendFin ==
    /\ ending = "fin"
    /\ tx' = FALSE
    /\ ending' \in {"draining", "closed"}
    /\ session' = IF ending' = "closed" /\ session = "released" THEN "deleted" ELSE session
    /\ UNCHANGED <<svars, idle, intact, wvars, rvars, rx, sent, rxnext, took>>

\* ... and io::close(), once io::drain() has seen the peer's FIN or two seconds pass.
CloseStream ==
    /\ ending = "draining"
    /\ ending' = "closed"
    /\ session' = IF session = "released" THEN "deleted" ELSE session
    /\ UNCHANGED <<svars, idle, intact, wvars, rvars, stream>>

\* Fault: the receiving side is left open.
DestroySending ==
    /\ tx' = (tx /\ ending = "closed")
    /\ rx' = rx

\* BeastSession::destroy(): shuts down both sides, unless the stream is closed already.
Destroy ==
    /\ tx' = (tx /\ ending = "closed")
    /\ rx' = (rx /\ ending = "closed")

\* Session::reset().  Without a shutdown() in progress, which holds the session, this
\* is also ~BeastSession(): readers and writers are detached and the stream is closed.
ReleaseSession ==
    /\ session = "open"
    /\ Destroy
    /\ \/ /\ ending \in {"no", "closed"}
          /\ session' = "deleted"
          /\ Detach
          /\ CancelStream
       \/ /\ ending \notin {"no", "closed"}
          /\ session' = "released"
          /\ UNCHANGED <<wsession, wphase, rsession, rphase, stale>>
    /\ UNCHANGED <<svars, idle, ending, intact, writer, wop, cancelled,
                   eof_submitted, response_requested, has_body, reader, parsed, finished,
                   attempts, sent, rxnext, took>>

-----------------------------------------------------------------------------
\* What the caller does.
Caller ==
    \/ \E body \in BOOLEAN : Submit(body)
    \/ \E r \in Requests :
        \/ \E eof \in BOOLEAN : Write(r, eof)
        \/ GetResponse(r)
        \/ Read(r)
        \/ CancelWrite(r) \/ CancelRead(r)
        \/ ReleaseRequest(r)
        \/ \E destroyed \in BOOLEAN : DropResponse(r, destroyed) \/ DropStale(r, destroyed)
    \/ Shutdown
    \/ ReleaseSession

\* What the peer and the network do.
Peer == \E r \in Requests :
    SocketWritable(r) \/ SocketReadable(r) \/ SocketEndsWrite(r) \/ SocketEndsRead(r)

\* What the executor runs: an operation of request r that is resumed ...
WriteEnds(r) == HeadWritten(r) \/ HeadFailed(r) \/ BodyWritten(r) \/ WriteFailed(r)
ReadEnds(r) ==
    \/ HeaderCancelled(r) \/ HeaderFailed(r) \/ ReadFailed(r)
    \/ \E last \in BOOLEAN : HeaderRead(r, last) \/ BodyRead(r, last)

\* ... and the coroutine of shutdown().
ResumeShutdown == ShutdownIdle \/ Teardown \/ SendFin \/ CloseStream

Next ==
    \/ Caller
    \/ Peer
    \/ \E r \in Requests : WriteContinues(r) \/ ReadContinues(r) \/ WriteEnds(r) \/ ReadEnds(r)
    \/ ResumeShutdown

Spec == Init /\ [][Next]_vars

\* The executor runs what is ready to run (the two-second limits of Teardown and
\* CloseStream are timers on it).  An operation ends if it is resumed over and over: a
\* buffer is finite, and so are the header, up to header_limit, and a chunk.  On a side
\* of the socket that has been shut down, it ends as well.  Nothing is assumed of the
\* caller or of the peer.
Fairness ==
    /\ SF_vars(\E r \in Requests : WriteEnds(r))
    /\ SF_vars(\E r \in Requests : ReadEnds(r))
    /\ WF_vars(\E r \in Requests : ~tx /\ SocketEndsWrite(r))
    /\ WF_vars(\E r \in Requests : ~rx /\ SocketEndsRead(r))
    /\ WF_vars(ResumeShutdown)

FairSpec == Spec /\ Fairness

-----------------------------------------------------------------------------
(* Properties.                                                             *)

\* Pipelined requests reach the connection one after the other and completely: bytes of
\* a request go out only when the peer has all of every earlier one and nothing of any
\* later one, whatever was cancelled, released or shut down before (session.hpp,
\* "Only one request can be incomplete at a time").
WireOrder ==
    [][\A r \in Requests : sent'[r] # sent[r] =>
          /\ \A q \in Requests : q < r => sent[q] = "complete"
          /\ \A q \in Requests : q > r => sent[q] = "nothing"]_vars

\* No reader takes bytes of a response to another request, and none starts in the
\* middle of a response that an earlier attempt has taken bytes of: responses are
\* matched by nothing but sequence and responses_read_.
ResponseIntegrity ==
    \A q \in 0 .. MaxRequests :
        /\ \A t \in took[q] : t[1] = q
        /\ \A t, u \in took[q] : t = u

\* At most one write and one read are on the stream at a time, which is all that a
\* socket or a TLS stream can take, though nothing in the code locks it.
StreamExclusive ==
    /\ \A r, q \in Writes : r = q
    /\ \A r, q \in Reads : r = q

\* end_connection() has the stream for itself: "TLS shutdown must not overlap a read".
TeardownAlone == ending \in {"teardown", "fin", "draining", "closed"} => ~InFlight

\* A close_notify is only sent on a stream that was not left in the middle of a
\* message by a write that was interrupted.
NotifyIntact ==
    (ending \in {"fin", "draining", "closed"} /\ intact) =>
        \A r \in Requests : sent[r] \notin {"headcut", "bodycut"}

\* eof_submitted, which answers every later write from then on, session or no session,
\* is set exactly if the peer has got the end of the request.
EndMeansEnd == \A r \in Requests : eof_submitted[r] <=> sent[r] = "complete"

\* sending_ is the one request that can still be written to: what request_complete()
\* asserts whenever a write ends a body.
SendingIsIncomplete ==
    \A r \in Requests :
        (wsession[r] /\ ~eof_submitted[r] /\ ~cancelled[r]) => sending = r

\* A shutdown() stuck on an operation that nothing ends is over once the session is
\* destroyed as well.
DestroyEndsShutdown == (ending = "waiting" /\ session = "released") ~> (ending = "closed")

-----------------------------------------------------------------------------
(* The inductive invariant behind the safety properties, for the proofs in *)
(* H1ClientProofs.  A session that is deleted has no fields any more, and  *)
(* nothing but the operations still in flight moves after that.            *)

Over == session = "deleted"

\* A request that does not exist yet has left no trace.
Fresh(r) ==
    /\ ~wsession[r] /\ ~cancelled[r] /\ ~eof_submitted[r]
    /\ wphase[r] = "idle" /\ sent[r] = "nothing"

\* Requests are created in order; only the last one can be anything but complete, and
\* only that one is written to.
SendOrder ==
    /\ \A r \in Requests : writer[r] = "none" <=> r >= requests_sent
    /\ \A r \in Requests : r >= requests_sent => Fresh(r)
    /\ \A r \in Requests : r + 1 < requests_sent => sent[r] = "complete"
    /\ \A r \in Requests : wphase[r] # "idle" =>
        r + 1 = requests_sent /\ ~eof_submitted[r] /\ ~cancelled[r]
    /\ \A r \in Requests : writer[r] = "zombie" => wphase[r] # "idle" /\ wop[r] # "head"
    /\ \A r \in Requests : writer[r] = "submitting" <=> (wphase[r] # "idle" /\ wop[r] = "head")

\* What sending_ and send_failed_ say of the requests.
SendState ==
    /\ (sending # NoRequest /\ ~Over) =>
        wsession[sending] /\ ~eof_submitted[sending] /\ ~cancelled[sending] /\ ~send_failed
    /\ \A r \in Requests : wsession[r] => ~Over /\ writer[r] # "gone"
    /\ \A r \in Requests : (~wsession[r] /\ wphase[r] # "idle") => send_failed \/ Over
    /\ \A r \in Requests : r < requests_sent =>
        sent[r] = "complete" \/ sending = r \/ send_failed \/ Over
    /\ \A r \in Requests : cancelled[r] => send_failed \/ Over
    /\ \A r \in Requests : sent[r] \in {"headcut", "bodycut"} => wphase[r] # "idle" \/ cancelled[r]

\* A reader that has not been reported as finished is the one of the response that is
\* next, and so is one with a read in flight.
Unfinished(r) == rsession[r] /\ ~finished[r] /\ reader[r] \in {"header", "held", "zombie"}

ReceiveState ==
    /\ \A r \in Requests : Unfinished(r) => responses_read = r /\ rxnext = r
    /\ \A r \in Requests : rphase[r] # "idle" =>
        /\ responses_read = r /\ rxnext = r /\ parsed[r] # "done"
        /\ reader[r] \in {"header", "held", "zombie"}
        /\ Unfinished(r) \/ receive_failed \/ Over
    /\ \A r \in Requests : rsession[r] => ~Over
    /\ \A r \in Requests : reader[r] # "none" => response_requested[r]
    /\ \A r \in Requests : rsession[r] /\ reader[r] \in {"header", "held"} =>
        (finished[r] <=> parsed[r] = "done")
    /\ \A r \in Requests : reader[r] = "header" => parsed[r] = "nothing" /\ rphase[r] # "idle"
    /\ \A r \in Requests : reader[r] = "zombie" => rphase[r] # "idle"
    /\ rxnext = responses_read \/ receive_failed \/ Over

\* Only the last attempt to get a response has taken any of it.
Taken ==
    /\ \A q \in 0 .. MaxRequests : \A t \in took[q] :
        q \in Requests /\ t = <<q, attempts[q]>>
    /\ \A r \in Requests : ~response_requested[r] => took[r] = {}

\* What shutdown() has established by the time it waits.
EndState ==
    /\ ending # "no" =>
        /\ send_failed /\ receive_failed
        /\ \A r \in Requests : ~wsession[r] /\ ~rsession[r]
    /\ (ending = "waiting" /\ idle) => ~InFlight
    /\ TeardownAlone
    /\ (ending # "no" /\ intact) =>
        Writes = {} /\ \A r \in Requests : sent[r] \notin {"headcut", "bodycut"}

\* The inductive invariant: together, these imply every safety property above.
SafetyInv ==
    /\ SendOrder
    /\ SendState
    /\ SendingIsIncomplete
    /\ EndMeansEnd
    /\ ReceiveState
    /\ Taken
    /\ EndState
=============================================================================
