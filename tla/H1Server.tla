------------------------------ MODULE H1Server ------------------------------
(***************************************************************************)
(* The HTTP/1.1 server session: ServerSession::do_session(),               *)
(* BeastRequestReader and ResponseWriter of src/src/h1/session.cpp, on one *)
(* connection, with the request handler that is the user's.                *)
(*                                                                         *)
(* As in H1Client, a step is what one coroutine does between two           *)
(* suspensions.  Requests are named by the order they arrive in.           *)
(* Abstracted away: what header and body contain, and TLS.  A response     *)
(* without a body is ended with write_eof() like any other.                *)
(*                                                                         *)
(* The handler submits a response once, and has one read and one write in  *)
(* progress at a time, which the code asserts.                             *)
(***************************************************************************)
EXTENDS Naturals, FiniteSets

CONSTANTS
    MaxRequests,    \* bound: requests the client sends on the connection
    Outlive         \* what a handler may keep from going with it: sets of "request", "response"

ASSUME MaxRequestsAssumption == MaxRequests \in Nat \ {0}
ASSUME OutliveAssumption == Outlive \subseteq SUBSET {"request", "response"}

Requests == 0 .. MaxRequests - 1

\* Where an operation on the stream is, see H1Client.
Phases == {"idle", "parked", "queued", "canceled", "ended"}

VARIABLES
    \* do_session(): where it is, the phase of the operation it waits for itself, how many
    \* headers it has read, and need_eof of the request it serves
    pc, phase, served, need_eof,
    \* BeastSession::closed_; destroy() has been called, and handlers started after that
    closed, destroyed, late,
    \* BeastRequestReader, per request
    reader, rsession, rphase, parsed,
    \* ResponseWriter, per request (says_close: its header says "Connection: close")
    writer, wsession, wop, wphase, cancelled, eof_submitted, says_close,
    \* the stream: its open sides, what the peer has of each response, what is next in the
    \* direction of the server, and whether a parser was given what it is not meant for
    tx, rx, sent, rxat, misread

mvars == <<pc, phase, served, need_eof>>
cvars == <<closed, destroyed, late>>
rvars == <<reader, rsession, rphase, parsed>>
wvars == <<writer, wsession, wop, wphase, cancelled, eof_submitted, says_close>>
stream == <<tx, rx, sent, rxat, misread>>
vars == <<mvars, cvars, rvars, wvars, stream>>

Bools == [Requests -> BOOLEAN]

\* Type invariant: every field of the session, its requests and responses has a value
\* the code can give it.
TypeOK ==
    /\ pc \in {"header", "reject", "upgrade", "handler", "upgraded", "teardown", "fin",
               "draining", "done", "thrown", "deleted"}
    /\ phase \in Phases /\ served \in 0 .. MaxRequests /\ need_eof \in BOOLEAN
    /\ closed \in BOOLEAN /\ destroyed \in BOOLEAN /\ late \in 0 .. MaxRequests
    /\ reader \in [Requests -> {"none", "held", "zombie", "gone"}]
    /\ rsession \in Bools /\ rphase \in [Requests -> Phases]
    /\ parsed \in [Requests -> {"header", "done"}]
    /\ writer \in [Requests -> {"none", "held", "zombie", "gone"}]
    /\ wsession \in Bools /\ wphase \in [Requests -> Phases]
    /\ wop \in [Requests -> {"head", "data", "eof"}]
    /\ cancelled \in Bools /\ eof_submitted \in Bools /\ says_close \in Bools
    /\ tx \in BOOLEAN /\ rx \in BOOLEAN
    /\ sent \in [Requests -> {"nothing", "headcut", "open", "bodycut", "complete"}]
    /\ rxat \in {"boundary", "header", "body"} /\ misread \in BOOLEAN

Init ==
    /\ pc = "header" /\ phase = "parked" /\ served = 0 /\ need_eof = FALSE
    /\ closed = FALSE /\ destroyed = FALSE /\ late = 0
    /\ reader = [r \in Requests |-> "none"]
    /\ rsession = [r \in Requests |-> FALSE]
    /\ rphase = [r \in Requests |-> "idle"]
    /\ parsed = [r \in Requests |-> "header"]
    /\ writer = [r \in Requests |-> "none"]
    /\ wsession = [r \in Requests |-> FALSE]
    /\ wop = [r \in Requests |-> "head"]
    /\ wphase = [r \in Requests |-> "idle"]
    /\ cancelled = [r \in Requests |-> FALSE]
    /\ eof_submitted = [r \in Requests |-> FALSE]
    /\ says_close = [r \in Requests |-> FALSE]
    /\ tx = TRUE /\ rx = TRUE
    /\ sent = [r \in Requests |-> "nothing"]
    /\ rxat = "boundary" /\ misread = FALSE

-----------------------------------------------------------------------------
(* The socket, which is outside of this code: bytes taken and given, or an *)
(* error, which a side that has been shut down always gives in the end.    *)

\* The session is deleted and its stream with it.
Gone == pc = "deleted"

Writing == pc \in {"reject", "upgrade"}

\* What arrived before the receiving side was shut down stays readable.
SocketSession ==
    /\ phase = "parked"
    /\ phase' \in {"queued", "ended"}
    /\ phase' = "queued" => IF Writing THEN tx ELSE rxat = "body" \/ served < MaxRequests
    /\ UNCHANGED <<pc, served, need_eof, cvars, rvars, wvars, stream>>

SocketReads(r) ==
    /\ rphase[r] = "parked"
    /\ \/ rphase' = [rphase EXCEPT ![r] = "queued"]
       \/ rphase' = [rphase EXCEPT ![r] = "ended"]
    /\ UNCHANGED <<mvars, cvars, reader, rsession, parsed, wvars, stream>>

SocketWrites(r) ==
    /\ wphase[r] = "parked"
    /\ \/ /\ tx
          /\ wphase' = [wphase EXCEPT ![r] = "queued"]
          /\ sent' = [sent EXCEPT ![r] = IF wop[r] = "head" THEN "headcut" ELSE "bodycut"]
       \/ /\ wphase' = [wphase EXCEPT ![r] = "ended"]
          /\ UNCHANGED sent
    /\ UNCHANGED <<mvars, cvars, rvars, writer, wsession, wop, cancelled, eof_submitted,
                   says_close, tx, rx, rxat, misread>>

-----------------------------------------------------------------------------
(* do_session().                                                           *)

\* The top of its loop: the next header, or the end of the connection.  The request
\* that was served is detached.
NextRequest(closed_, rsession_) ==
    \/ /\ ~closed_ /\ ~need_eof
       /\ rsession' = [r \in Requests |-> FALSE]
       /\ pc' = "header" /\ phase' = "parked"
    \/ /\ closed_ \/ need_eof
       /\ rsession' = rsession_
       /\ pc' = "teardown" /\ UNCHANGED phase

\* h1::read_header() goes on, with what it got given to the parser.
HeaderContinues ==
    /\ pc = "header" /\ phase = "queued"
    /\ phase' = "parked"
    /\ misread' = (misread \/ rxat = "body")
    /\ rxat' = IF rxat = "boundary" THEN "header" ELSE rxat
    /\ UNCHANGED <<pc, served, need_eof, cvars, rvars, wvars, tx, rx, sent>>

\* detach_writers(), and the response of the request whose header was read.
DetachWriters == wsession' = [r \in Requests |-> r = served]

\* A header has been read (complete: and the request has no body): the response that was
\* served before is detached, and the handler runs.
HeaderRead(complete, eof) ==
    /\ pc = "header" /\ phase = "queued" /\ served < MaxRequests
    /\ pc' = "handler" /\ phase' = "idle"
    /\ served' = served + 1 /\ need_eof' = eof
    /\ late' = IF destroyed THEN late + 1 ELSE late
    /\ reader' = [reader EXCEPT ![served] = "held"]
    /\ rsession' = [rsession EXCEPT ![served] = TRUE]
    /\ parsed' = [parsed EXCEPT ![served] = IF complete THEN "done" ELSE "header"]
    /\ writer' = [writer EXCEPT ![served] = "held"]
    /\ DetachWriters
    /\ misread' = (misread \/ rxat = "body")
    /\ rxat' = IF complete THEN "boundary" ELSE "body"
    /\ UNCHANGED <<closed, destroyed, rphase, wop, wphase, cancelled, eof_submitted, says_close,
                   tx, rx, sent>>

\* A header that asks for h2c, and gets it: 101 is written.
HeaderUpgrades ==
    /\ pc = "header" /\ phase = "queued" /\ served < MaxRequests
    /\ pc' = "upgrade" /\ phase' = "parked"
    /\ served' = served + 1
    /\ misread' = (misread \/ rxat = "body")
    /\ rxat' = "boundary"
    /\ UNCHANGED <<need_eof, cvars, rvars, wvars, tx, rx, sent>>

\* header_limit: 431 is written.
HeaderTooLarge ==
    /\ pc = "header" /\ phase = "queued"
    /\ pc' = "reject" /\ phase' = "parked"
    /\ misread' = (misread \/ rxat = "body")
    /\ rxat' = IF rxat = "boundary" THEN "header" ELSE rxat
    /\ UNCHANGED <<served, need_eof, cvars, rvars, wvars, tx, rx, sent>>

\* Any other error: the end of the stream, or what the parser says of the bytes it got.
HeaderFailed ==
    /\ pc = "header" /\ phase \in {"queued", "canceled", "ended"}
    /\ pc' = "teardown" /\ phase' = "idle"
    /\ UNCHANGED <<served, need_eof, cvars, rvars, wvars, stream>>

\* h1::write_message() goes on.
MessageContinues ==
    /\ Writing /\ phase = "queued"
    /\ phase' = "parked"
    /\ UNCHANGED <<pc, served, need_eof, cvars, rvars, wvars, stream>>

\* The 431 is out, or failed.
RejectWritten ==
    /\ pc = "reject" /\ phase \in {"queued", "canceled", "ended"}
    /\ pc' = "teardown" /\ phase' = "idle"
    /\ UNCHANGED <<served, need_eof, cvars, rvars, wvars, stream>>

\* The 101 is out: the stream is handed over to an HTTP/2 session.  Or it failed.
UpgradeWritten ==
    /\ pc = "upgrade" /\ phase \in {"queued", "canceled", "ended"}
    /\ pc' = IF phase = "queued" THEN "upgraded" ELSE "teardown"
    /\ phase' = "idle"
    /\ UNCHANGED <<served, need_eof, cvars, rvars, wvars, stream>>

\* Fault: a body that has not been read is not noticed.
UnreadMissed(r) == reader[r] = "none"

\* BeastReader::destroy(), of the request that is served.
Unread(r) == reader[r] = "held" /\ parsed[r] # "done" /\ rsession[r]

\* The handler is over, and its parameters, the request and the response, go with it, unless
\* they have been moved to where they outlive it.
HandlerLeaves(r, keep) ==
    /\ pc = "handler"
    /\ "request" \in keep \/ rphase[r] = "idle"
    /\ "response" \in keep \/ wphase[r] = "idle"
    /\ reader' = [reader EXCEPT ![r] = IF "request" \in keep THEN @ ELSE "gone"]
    /\ writer' = [writer EXCEPT ![r] = IF "response" \in keep THEN @ ELSE "gone"]
    /\ wsession' = [wsession EXCEPT ![r] = @ /\ "response" \in keep]

\* The handler returns.
HandlerReturns(keep) ==
    LET r == served - 1
        unread == "request" \notin keep /\ Unread(r)
    IN
    /\ HandlerLeaves(r, keep)
    /\ rx' = (rx /\ ~unread)
    /\ closed' = (closed \/ unread)
    /\ NextRequest(closed \/ unread, [rsession EXCEPT ![r] = @ /\ "request" \in keep])
    /\ UNCHANGED <<served, need_eof, destroyed, late, rphase, parsed, wop, wphase, cancelled,
                   eof_submitted, says_close, tx, sent, rxat, misread>>

\* The handler throws, which ends do_session() as well.  Only a system_error shuts the
\* connection down first.
HandlerThrows(keep) ==
    LET r == served - 1
        unread == "request" \notin keep /\ Unread(r)
    IN
    /\ HandlerLeaves(r, keep) /\ pc' = "thrown"
    /\ \/ tx' = FALSE /\ rx' = FALSE
       \/ tx' = tx /\ rx' = (rx /\ ~unread)
    /\ closed' = (closed \/ unread)
    /\ rsession' = [rsession EXCEPT ![r] = @ /\ "request" \in keep]
    /\ UNCHANGED <<phase, served, need_eof, destroyed, late, rphase, parsed, wop, wphase,
                   cancelled, eof_submitted, says_close, sent, rxat, misread>>

\* end_connection(): a close_notify ...
Teardown ==
    /\ pc = "teardown" /\ pc' = "fin"
    /\ UNCHANGED <<phase, served, need_eof, cvars, rvars, wvars, stream>>

\* ... a FIN ...
SendFin ==
    /\ pc = "fin" /\ pc' = "draining"
    /\ tx' = FALSE
    /\ UNCHANGED <<phase, served, need_eof, cvars, rvars, wvars, rx, sent, rxat, misread>>

\* io::cancel() and io::close(): what is parked completes, what is queued already stays.
Canceled(p) == IF p = "parked" THEN "canceled" ELSE p
CancelAll ==
    /\ rphase' = [r \in Requests |-> Canceled(rphase[r])]
    /\ wphase' = [r \in Requests |-> Canceled(wphase[r])]

\* ... and io::close(): at once if the peer is gone already, or else when it has ended its
\* side or two seconds have passed.
CloseStream ==
    /\ pc \in {"fin", "draining"} /\ pc' = "done"
    /\ tx' = FALSE
    /\ CancelAll
    /\ UNCHANGED <<phase, served, need_eof, cvars, reader, rsession, parsed, writer, wsession,
                   wop, cancelled, eof_submitted, says_close, rx, sent, rxat, misread>>

\* do_session() is over, and the server lets go of the session: ~BeastSession().
ReleaseSession ==
    /\ pc \in {"done", "thrown", "upgraded"}
    /\ pc' = "deleted"
    /\ rsession' = [r \in Requests |-> FALSE]
    /\ wsession' = [r \in Requests |-> FALSE]
    /\ CancelAll
    /\ UNCHANGED <<phase, served, need_eof, cvars, reader, parsed, writer, wop, cancelled,
                   eof_submitted, says_close, stream>>

\* Fault: the requests in the buffer are not given up.
DestroyStreamOnly ==
    /\ UNCHANGED closed
    /\ tx' = (tx /\ pc = "done") /\ rx' = (rx /\ pc = "done")
    /\ phase' = Canceled(phase)
    /\ CancelAll

\* Fault: what is pending on the stream is not ended.
DestroyFlagOnly ==
    /\ closed' = TRUE
    /\ UNCHANGED <<tx, rx, phase, rphase, wphase>>

\* BeastSession::destroy(), which does nothing to a stream that is closed already, and what
\* ServerSession adds to it.
DestroyStream ==
    /\ closed' = TRUE
    /\ tx' = (tx /\ pc = "done") /\ rx' = (rx /\ pc = "done")
    /\ phase' = Canceled(phase)
    /\ CancelAll

\* ServerSession::destroy(), called when the server goes away.  A stream that
\* has been handed over is for the HTTP/2 session to end.
Destroy ==
    /\ ~destroyed /\ ~Gone
    /\ destroyed' = TRUE
    /\ \/ /\ pc = "upgraded"
          /\ UNCHANGED <<closed, tx, rx, phase, rphase, wphase>>
       \/ pc # "upgraded" /\ DestroyStream
    /\ UNCHANGED <<pc, served, need_eof, late, reader, rsession, parsed, writer, wsession, wop,
                   cancelled, eof_submitted, says_close, sent, rxat, misread>>

-----------------------------------------------------------------------------
(* What a handler does with its request.                                   *)

\* BeastReader::read_some() up to its suspension.
Read(r) ==
    /\ reader[r] = "held" /\ rphase[r] = "idle"
    /\ parsed[r] = "header" /\ rsession[r]
    /\ rphase' = [rphase EXCEPT ![r] = "parked"]
    /\ UNCHANGED <<mvars, cvars, reader, rsession, parsed, wvars, stream>>

\* What the parser of request r takes is meant for it only in the body of that.
Take(r) == misread' = (misread \/ ~(rxat = "body" /\ r + 1 = served))

\* h1::read_some() goes on.
ReadContinues(r) ==
    /\ rphase[r] = "queued"
    /\ Take(r)
    /\ rphase' = [rphase EXCEPT ![r] = "parked"]
    /\ UNCHANGED <<mvars, cvars, reader, rsession, parsed, wvars, tx, rx, sent, rxat>>

\* A reader that nobody holds any more is deleted with its last operation.
ReaderAfter(r) ==
    /\ reader' = [reader EXCEPT ![r] = IF @ = "zombie" THEN "gone" ELSE @]
    /\ rsession' = [rsession EXCEPT ![r] = @ /\ reader[r] # "zombie"]

\* BeastReader::read_some() resumed with data, and with the end of the body (last).
BodyRead(r, last) ==
    /\ rphase[r] = "queued"
    /\ Take(r)
    /\ rphase' = [rphase EXCEPT ![r] = "idle"]
    /\ parsed' = [parsed EXCEPT ![r] = IF last THEN "done" ELSE @]
    /\ rxat' = IF last /\ rxat = "body" THEN "boundary" ELSE rxat
    /\ ReaderAfter(r)
    /\ UNCHANGED <<mvars, cvars, wvars, tx, rx, sent>>

\* ... and with an error, of the stream or of the parser.
ReadFailed(r) ==
    /\ rphase[r] \in {"queued", "canceled", "ended"}
    /\ rphase' = [rphase EXCEPT ![r] = "idle"]
    /\ ReaderAfter(r)
    /\ UNCHANGED <<mvars, cvars, parsed, wvars, stream>>

CancelRead(r) ==
    /\ rphase[r] \in {"parked", "queued"}
    /\ rphase' = [rphase EXCEPT ![r] = "canceled"]
    /\ UNCHANGED <<mvars, cvars, reader, rsession, parsed, wvars, stream>>

\* The request is released: BeastReader::destroy() shuts down the receiving side under a
\* request that has not been read to its end.
DropRequest(r) ==
    /\ reader[r] = "held"
    /\ rphase[r] = "idle" \/ "request" \in UNION Outlive
    /\ rx' = (rx /\ ~Unread(r))
    /\ closed' = (closed \/ Unread(r))
    /\ reader' = [reader EXCEPT ![r] = IF rphase[r] = "idle" THEN "gone" ELSE "zombie"]
    /\ rsession' = [rsession EXCEPT ![r] = @ /\ rphase[r] # "idle"]
    /\ UNCHANGED <<mvars, destroyed, late, rphase, parsed, wvars, tx, sent, rxat, misread>>

-----------------------------------------------------------------------------
(* What a handler does with its response.                                  *)

\* ResponseWriter::submit() up to its suspension.
Submit(r, close) ==
    /\ writer[r] = "held" /\ wphase[r] = "idle"
    /\ sent[r] = "nothing" /\ ~cancelled[r] /\ wsession[r]
    /\ closed' = (closed \/ close)
    /\ says_close' = [says_close EXCEPT ![r] = close]
    /\ wop' = [wop EXCEPT ![r] = "head"]
    /\ wphase' = [wphase EXCEPT ![r] = "parked"]
    /\ UNCHANGED <<mvars, destroyed, late, rvars, writer, wsession, cancelled, eof_submitted,
                   stream>>

\* WriterBase::write() and write_eof() up to the suspension.
Write(r, eof) ==
    /\ writer[r] = "held" /\ wphase[r] = "idle"
    /\ sent[r] = "open"
    /\ ~eof_submitted[r] /\ wsession[r] /\ ~cancelled[r]
    /\ wop' = [wop EXCEPT ![r] = IF eof THEN "eof" ELSE "data"]
    /\ wphase' = [wphase EXCEPT ![r] = "parked"]
    /\ UNCHANGED <<mvars, cvars, rvars, writer, wsession, cancelled, eof_submitted, says_close,
                   stream>>

WriteContinues(r) ==
    /\ wphase[r] = "queued"
    /\ wphase' = [wphase EXCEPT ![r] = "parked"]
    /\ UNCHANGED <<mvars, cvars, rvars, writer, wsession, wop, cancelled, eof_submitted,
                   says_close, stream>>

\* A writer that nobody holds any more is deleted with its last operation.
WriterAfter(r) ==
    /\ writer' = [writer EXCEPT ![r] = IF @ = "zombie" THEN "gone" ELSE @]
    /\ wsession' = [wsession EXCEPT ![r] = @ /\ writer[r] # "zombie"]

\* Resumed without an error.
Written(r) ==
    /\ wphase[r] = "queued"
    /\ wphase' = [wphase EXCEPT ![r] = "idle"]
    /\ sent' = [sent EXCEPT ![r] = IF wop[r] = "eof" THEN "complete" ELSE "open"]
    /\ eof_submitted' = [eof_submitted EXCEPT ![r] = @ \/ wop[r] = "eof"]
    /\ WriterAfter(r)
    /\ UNCHANGED <<mvars, cvars, rvars, wop, cancelled, says_close, tx, rx, rxat, misread>>

\* Fault: a response that could not be written does not end the session.
WriteFailedIgnored(r) == closed' = closed

\* ResponseWriter::write_failed().
WriteFailedCloses(r) == closed' = (closed \/ wsession[r])

\* Resumed with one: nothing more of this response reaches the stream.
WriteFailed(r) ==
    /\ wphase[r] \in {"canceled", "ended"}
    /\ wphase' = [wphase EXCEPT ![r] = "idle"]
    /\ cancelled' = [cancelled EXCEPT ![r] = TRUE]
    /\ WriteFailedCloses(r)
    /\ tx' = (tx /\ ~(wphase[r] = "canceled" /\ wop[r] # "head" /\ wsession[r]))
    /\ WriterAfter(r)
    /\ UNCHANGED <<mvars, destroyed, late, rvars, wop, eof_submitted, says_close, rx, sent, rxat,
                   misread>>

CancelWrite(r) ==
    /\ wphase[r] \in {"parked", "queued"}
    /\ wphase' = [wphase EXCEPT ![r] = "canceled"]
    /\ UNCHANGED <<mvars, cvars, rvars, writer, wsession, wop, cancelled, eof_submitted,
                   says_close, stream>>

\* The response is released.
DropResponse(r) ==
    /\ writer[r] = "held"
    /\ wphase[r] = "idle" \/ "response" \in UNION Outlive
    /\ writer' = [writer EXCEPT ![r] = IF wphase[r] = "idle" THEN "gone" ELSE "zombie"]
    /\ wsession' = [wsession EXCEPT ![r] = @ /\ wphase[r] # "idle"]
    /\ UNCHANGED <<mvars, cvars, rvars, wop, wphase, cancelled, eof_submitted, says_close,
                   stream>>

-----------------------------------------------------------------------------
\* An operation of request r that is resumed, and over.
ReadEnds(r) == ReadFailed(r) \/ \E last \in BOOLEAN : BodyRead(r, last)
WriteEnds(r) == Written(r) \/ WriteFailed(r)

\* do_session(), resumed by its own operation ...
SessionResumes ==
    \/ \E complete, eof \in BOOLEAN : HeaderRead(complete, eof)
    \/ HeaderUpgrades \/ HeaderTooLarge \/ HeaderFailed \/ RejectWritten \/ UpgradeWritten

\* ... or by its handler.
HandlerEnds == \E keep \in Outlive : HandlerReturns(keep) \/ HandlerThrows(keep)

SessionEnds == Teardown \/ SendFin \/ CloseStream

Handler == \E r \in Requests :
    \/ Read(r) \/ CancelRead(r) \/ DropRequest(r)
    \/ \E close \in BOOLEAN : Submit(r, close)
    \/ \E eof \in BOOLEAN : Write(r, eof)
    \/ CancelWrite(r) \/ DropResponse(r)

Next ==
    \/ SocketSession
    \/ \E r \in Requests : SocketReads(r) \/ SocketWrites(r)
    \/ HeaderContinues \/ MessageContinues
    \/ \E r \in Requests :
        ReadContinues(r) \/ WriteContinues(r) \/ ReadEnds(r) \/ WriteEnds(r)
    \/ SessionResumes \/ HandlerEnds \/ SessionEnds
    \/ Handler
    \/ ReleaseSession
    \/ Destroy

Spec == Init /\ [][Next]_vars

\* A handler starts an operation.
Starts == \E r \in Requests :
    \/ rphase[r] = "idle" /\ rphase'[r] # "idle"
    \/ wphase[r] = "idle" /\ wphase'[r] # "idle"

\* The executor runs what is ready, an operation that is resumed over and over is over in
\* the end, and one on a side of the socket that was shut down fails.  A handler returns
\* or throws, if its operations let it, and does not go on starting operations for ever
\* after the session was destroyed, which all fail.
Fairness ==
    /\ SF_vars(SessionResumes)
    /\ WF_vars(SessionEnds)
    /\ SF_vars(HandlerEnds)
    /\ <>[][destroyed => ~Starts]_vars
    /\ WF_vars((IF Writing THEN ~tx ELSE ~rx) /\ SocketSession /\ phase' = "ended")
    /\ SF_vars(\E r \in Requests : ReadEnds(r))
    /\ SF_vars(\E r \in Requests : WriteEnds(r))
    /\ WF_vars(~rx /\ \E r \in Requests : SocketReads(r) /\ rphase'[r] = "ended")
    /\ WF_vars(~tx /\ \E r \in Requests : SocketWrites(r) /\ wphase'[r] = "ended")

FairSpec == Spec /\ Fairness

-----------------------------------------------------------------------------
(* Properties.                                                             *)

\* What outlives its handler, which do_session() does not wait for, is detached: no read is
\* started on a request once do_session() waits for the next header, and no write on a
\* response once a later request has a handler (detach_readers(), detach_writers()).
NothingStartedLate ==
    [][\A r \in Requests :
        /\ rphase[r] = "idle" /\ rphase'[r] # "idle" => r + 1 = served /\ pc # "header"
        /\ wphase[r] = "idle" /\ wphase'[r] # "idle" =>
             \A q \in Requests : q > r => writer[q] = "none"]_vars

\* A response that its handler gave up without having failed or asked for its end.
Abandoned(q) == ~eof_submitted[q] /\ ~cancelled[q]

\* What reaches the peer of a response, or of the 431 and 101 that do_session() writes
\* itself, comes after the whole of all responses before it, unless their handlers have
\* returned without ending them, which is not noticed.
ResponsesInOrder ==
    [][/\ \A r \in Requests : sent'[r] # sent[r] =>
            \A q \in Requests : q < r => sent[q] = "complete" \/ Abandoned(q)
       /\ (Writing /\ phase = "parked" /\ phase' = "queued") =>
            \A q \in Requests : sent[q] \in {"nothing", "complete"} \/ Abandoned(q)]_vars

\* A parser is never given bytes of another message: a request is read from its first
\* byte on, and a body by the reader of that request only.
RequestsAligned == ~misread

\* A response that says "close" is the last one, and so is one that could not be written:
\* "whatever the client has pipelined behind this request goes unserved".  Likewise for
\* destroy(), "Neither should the requests still in the buffer be served", apart from one
\* whose header has arrived, but not been looked at yet.
NothingServedLate ==
    /\ late <= 1
    /\ \A r \in Requests : (says_close[r] \/ cancelled[r]) =>
          \A q \in Requests : q > r => writer[q] = "none"

\* A session that is destroyed ends, whatever the peer does.
DestroyEnds == destroyed ~> (pc \in {"done", "thrown", "upgraded", "deleted"})
=============================================================================
