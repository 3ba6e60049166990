----------------------------- MODULE H2Session ------------------------------
(***************************************************************************)
(* An HTTP/2 session: do_session(), send_loop(), recv_loop() and           *)
(* shutdown() of src/include/anyhttp/h2/session_details.hpp, and           *)
(* async_submit() and close_stream() of src/src/h2/session.cpp, around one *)
(* engine of nghttp2.  What a single stream does is in H2Stream; here, it  *)
(* is in streams_ or not, open for nghttp2 or not, and has frames to send. *)
(*                                                                         *)
(* Everything happens on one executor.  A step is what one of the two      *)
(* loops, the coroutine of shutdown(), or the user does between two        *)
(* suspensions.  An operation on the connection is "parked" while          *)
(* io::cancel() finds it, and "queued", "canceled" or "ended" (with an     *)
(* error, or the end of the connection) while its completion waits to run. *)
(***************************************************************************)
EXTENDS Naturals, FiniteSets

CONSTANTS
    MaxStreams,     \* bound: the requests made on the connection
    InitialLimit,   \* what nghttp2 allows at a time before it has SETTINGS of the peer
    Limits          \* the values of SETTINGS_MAX_CONCURRENT_STREAMS that the peer sends

ASSUME MaxStreamsAssumption == MaxStreams \in Nat \ {0}
ASSUME LimitAssumption == InitialLimit \in Nat /\ Limits \subseteq Nat

Ids == 1 .. MaxStreams
Phases == {"parked", "queued", "canceled", "ended"}

VARIABLES
    role,
    \* nghttp2: the frames it has to send ("term", the GOAWAY of
    \* nghttp2_session_terminate_session(), and "frame" for all others), the requests that it
    \* has to start, the streams it has open, the limit of the peer, and what it knows of
    \* GOAWAY
    out, queued, open, limit, terminating, goaway_recv,
    \* NGHttp2Session; goaway_sent also is NGHTTP2_GOAWAY_TERM_SENT, as every GOAWAY that
    \* goes out is that of a termination
    streams, last_id, recv_done, send_failed, goaway_sent,
    \* history: the last stream that was made before the last SETTINGS arrived
    settled,
    \* the coroutines: do_session(), and where the loops are
    do, send, recv, threw,
    \* shutdown(): its coroutine, and its timer
    shutdown, timer,
    \* destroy() has shut the socket down
    destroyed

requests == <<queued, limit, settled>>
engine == <<out, open, terminating, goaway_recv, requests>>
fields == <<streams, last_id, recv_done, send_failed, goaway_sent>>
ending == <<shutdown, timer, destroyed>>
vars == <<role, engine, fields, do, send, recv, threw, ending>>

\* Type invariant: the session and its loops are in a state of the code, and the streams
\* it holds are ones that were made.
TypeOK ==
    /\ role \in {"client", "server"}
    /\ out \subseteq {"frame", "term"}
    /\ last_id \in 0 .. MaxStreams /\ settled \in 0 .. last_id
    /\ open \subseteq 1 .. last_id /\ streams \subseteq 1 .. last_id
    /\ queued \subseteq (1 .. last_id) \ open
    /\ limit \in Nat
    /\ terminating \in BOOLEAN /\ goaway_recv \in BOOLEAN
    /\ recv_done \in BOOLEAN /\ send_failed \in BOOLEAN
    /\ goaway_sent \in BOOLEAN
    /\ do \in {"start", "loops", "ending", "over"}
    /\ send \in {"ready", "waiting", "done"} \cup Phases
    /\ recv \in {"done"} \cup Phases
    /\ threw \in BOOLEAN
    /\ shutdown \in {"no", "waiting", "returned"}
    /\ timer \in {"off", "armed", "expired"}
    /\ destroyed \in BOOLEAN

\* A session that was just made, and whose do_session() was launched.
Init ==
    /\ role \in {"client", "server"}
    /\ out = {} /\ queued = {} /\ open = {} /\ limit = InitialLimit
    /\ terminating = FALSE /\ goaway_recv = FALSE
    /\ streams = {} /\ last_id = 0 /\ settled = 0
    /\ recv_done = FALSE /\ send_failed = FALSE /\ goaway_sent = FALSE
    /\ do = "start" /\ send = "ready" /\ recv = "parked" /\ threw = FALSE
    /\ shutdown = "no" /\ timer = "off" /\ destroyed = FALSE

-----------------------------------------------------------------------------
(* nghttp2, as far as the session asks it.                                 *)

\* nghttp2_session_want_read().
WantRead == ~goaway_sent /\ (open # {} \/ ~goaway_recv)

\* What nghttp2_session_mem_send() looks for: frames, and requests to start, which it holds
\* back as long as the peer does not allow another one.
Sendable == out # {} \/ (queued # {} /\ Cardinality(open) < limit)

\* nghttp2_session_want_write().
WantWrite == ~goaway_sent /\ Sendable

\* nghttp2_session_check_request_allowed().
RequestAllowed ==
    /\ role = "client" /\ ~goaway_recv /\ ~terminating
    /\ WantRead \/ WantWrite

\* What nghttp2_session_terminate_session() adds to what is to be sent.
Termination == IF terminating THEN {} ELSE {"term"}

-----------------------------------------------------------------------------
(* Helpers of the session.                                                 *)

\* start_write(): a loop that waits for the event is posted.  That the event is latched is
\* not seen: the loop clears it, asks nghttp2 and waits in one step, and a loop that does not
\* wait asks nghttp2 again in any case.
StartWrite(send_) == send' = IF send_ = "waiting" THEN "ready" ELSE send_

\* io::cancel(): what is parked is canceled, and what is queued is not.
Canceled(phase) == IF phase = "parked" THEN "canceled" ELSE phase

-----------------------------------------------------------------------------
(* do_session().                                                           *)

\* Its beginning: SETTINGS are submitted, and a request that was upgraded from HTTP/1.1
\* becomes stream 1, unless nghttp2 refuses its settings.  What has been received already is
\* what the receive loop finds first.
Start(upgrade, accepted, received) ==
    /\ do = "start"
    /\ upgrade => role = "server"
    /\ do' = "loops"
    /\ terminating' = (upgrade /\ ~accepted)
    /\ out' = {"frame"} \cup (IF upgrade /\ ~accepted THEN {"term"} ELSE {})
    /\ last_id' = IF upgrade /\ accepted THEN 1 ELSE 0
    /\ open' = 1 .. last_id' /\ streams' = 1 .. last_id'
    /\ recv' = IF received THEN "queued" ELSE "parked"
    /\ UNCHANGED <<role, requests, goaway_recv, recv_done, send_failed, goaway_sent, send, threw,
                   ending>>

\* Both loops are over.  If one has thrown, so does do_session().
LoopsEnd ==
    /\ do = "loops" /\ send = "done" /\ recv = "done"
    /\ do' = IF threw THEN "over" ELSE "ending"
    /\ UNCHANGED <<role, engine, fields, send, recv, threw, ending>>

\* end_connection(), each of its waits is limited to two seconds, and the deletion of the
\* engine.
EndConnection ==
    /\ do = "ending"
    /\ do' = "over"
    /\ out' = {} /\ queued' = {} /\ open' = {}
    /\ UNCHANGED <<role, limit, settled, terminating, goaway_recv, fields, send, recv, threw,
                   ending>>

-----------------------------------------------------------------------------
(* send_loop().                                                            *)

\* Its end, after the last write or without one.
SendEnds(failed) ==
    /\ send' = "done"
    /\ send_failed' = (send_failed \/ failed)
    /\ recv' = Canceled(recv)
    /\ streams' = {}

\* The requests that nghttp2_session_mem_send() may start, in their order, and leave fewer
\* than it may have open while it does so.  Those that were reset, and all of them once there
\* is a GOAWAY, are closed instead.
MayStart(started, closed) ==
    /\ started \subseteq queued
    /\ \A s \in started, q \in queued \ started : s < q
    /\ started # {} => /\ Cardinality(open \ closed) < limit
                      /\ Cardinality((open \cup started) \ closed) <= limit
    /\ goaway_recv \/ terminating => started \subseteq closed

\* nghttp2_session_mem_send() gives some of what there is to send, and starts requests, which
\* may have data; it is then written, if it is anything.  That may end streams, of which
\* some are kept in streams_ (see KeepOrErase of H2Stream).
SendFrames(taken, started, closed, erased, data) ==
    /\ do = "loops" /\ send = "ready"
    /\ taken \subseteq out /\ MayStart(started, closed) /\ (taken # {} \/ started # {})
    /\ closed \subseteq open \cup started /\ ("frame" \notin taken => closed \subseteq started)
    /\ erased \subseteq closed \cap streams
    /\ data => started \ closed # {}
    /\ out' = (out \ taken) \cup (IF data THEN {"frame"} ELSE {})
    /\ queued' = queued \ started /\ open' = (open \cup started) \ closed
    /\ streams' = streams \ erased
    /\ goaway_sent' = (goaway_sent \/ "term" \in taken)
    /\ send' = IF taken = {} /\ started \subseteq closed THEN "ready" ELSE "parked"
    /\ UNCHANGED <<role, limit, settled, terminating, goaway_recv, last_id, recv_done, send_failed,
                   do, recv, threw, ending>>

\* There is nothing to send: wait for more, or end.
SendNothing ==
    /\ do = "loops" /\ send = "ready" /\ ~Sendable
    /\ \/ /\ ~recv_done /\ WantRead
          /\ send' = "waiting"
          /\ UNCHANGED <<streams, send_failed, recv>>
       \/ /\ recv_done \/ ~WantRead
          /\ SendEnds(FALSE)
    /\ UNCHANGED <<role, engine, last_id, recv_done, goaway_sent, do, threw, ending>>

\* nghttp2_session_mem_send() fails: the connection is closed and the loop throws.
SendThrows ==
    /\ do = "loops" /\ send = "ready" /\ Sendable
    /\ send' = "done" /\ threw' = TRUE
    /\ recv' = Canceled(recv)
    /\ UNCHANGED <<role, engine, fields, do, ending>>

\* io::write() is resumed: there is more of it to be written, ...
WriteContinues ==
    /\ send = "queued" /\ send' = "parked"
    /\ UNCHANGED <<role, engine, fields, do, recv, threw, ending>>

\* ... or it is complete, ...
WriteDone ==
    /\ send = "queued" /\ send' = "ready"
    /\ UNCHANGED <<role, engine, fields, do, recv, threw, ending>>

\* ... or has failed.
WriteFails ==
    /\ send \in {"canceled", "ended"}
    /\ SendEnds(TRUE)
    /\ UNCHANGED <<role, engine, last_id, recv_done, goaway_sent, do, threw, ending>>

-----------------------------------------------------------------------------
(* recv_loop().                                                            *)

\* Fault: the end of the loop is not told to the send loop.
RecvEndsSilently(out_, terminating_) ==
    LET goaway == ~goaway_sent /\ ~terminating_ IN
    /\ recv' = "done" /\ recv_done' = TRUE
    /\ out' = out_ \cup (IF goaway THEN {"term"} ELSE {})
    /\ terminating' = (terminating_ \/ goaway)
    /\ UNCHANGED send

\* Fault: the loop ends without a GOAWAY.
RecvEndsQuietly(out_, terminating_) ==
    /\ recv' = "done" /\ recv_done' = TRUE
    /\ out' = out_ /\ terminating' = terminating_
    /\ StartWrite(send)

\* Its end: a GOAWAY, unless one was sent already.
RecvEnds(out_, terminating_) ==
    LET goaway == ~goaway_sent /\ ~terminating_ IN
    /\ recv' = "done" /\ recv_done' = TRUE
    /\ out' = out_ \cup (IF goaway THEN {"term"} ELSE {})
    /\ terminating' = (terminating_ \/ goaway)
    /\ StartWrite(send)

\* io::read_some() is resumed with data, which handle_buffer_contents() passes to nghttp2:
\* that may open streams on a server, end some, of which some are kept, bring a GOAWAY, be an
\* error that terminates the session, and leave frames to be sent.  Then the loop goes on if
\* nghttp2 wants to.
Receive(opened, closed, erased, goaway, error, frame) ==
    /\ do = "loops" /\ recv = "queued" /\ ~goaway_sent
    /\ opened \subseteq {last_id + 1} \cap Ids
    /\ opened # {} => role = "server" /\ ~terminating
    /\ closed \subseteq open /\ erased \subseteq closed \cap streams
    /\ last_id' = last_id + Cardinality(opened)
    /\ open' = (open \cup opened) \ closed
    /\ streams' = (streams \cup opened) \ erased
    /\ goaway_recv' = (goaway_recv \/ goaway)
    /\ LET out_ == out \cup (IF frame THEN {"frame"} ELSE {})
                       \cup (IF error THEN Termination ELSE {})
           more == \/ open' # {} \/ ~goaway_recv' \/ out_ # {}
                   \/ queued # {} /\ Cardinality(open') < limit
       IN \/ /\ more
             /\ out' = out_ /\ terminating' = (terminating \/ error)
             /\ recv' = IF threw THEN "ended" ELSE "parked"
             /\ StartWrite(send)
             /\ UNCHANGED recv_done
          \/ ~more /\ RecvEnds(out_, terminating)
    /\ UNCHANGED <<role, requests, send_failed, goaway_sent, do, threw, ending>>

\* The same with SETTINGS of the server, which limit its streams from now on, those that are
\* made already included, and which are acknowledged.
ReceiveSettings(value) ==
    /\ do = "loops" /\ recv = "queued" /\ ~goaway_sent /\ role = "client"
    /\ limit' = value /\ settled' = last_id
    /\ out' = out \cup {"frame"}
    /\ recv' = IF threw THEN "ended" ELSE "parked"
    /\ StartWrite(send)
    /\ UNCHANGED <<role, open, queued, terminating, goaway_recv, fields, do, threw, ending>>

\* The same once the last GOAWAY was sent: nghttp2 ignores what is received.
ReceiveLate ==
    /\ do = "loops" /\ recv = "queued" /\ goaway_sent
    /\ RecvEnds(out, terminating)
    /\ UNCHANGED <<role, open, requests, goaway_recv, streams, last_id, send_failed, goaway_sent,
                   do, threw, ending>>

\* io::read_some() is resumed with an error, or the end of the connection.
ReceiveEnds ==
    /\ do = "loops" /\ recv \in {"canceled", "ended"}
    /\ RecvEnds(out, terminating)
    /\ UNCHANGED <<role, open, requests, goaway_recv, streams, last_id, send_failed, goaway_sent,
                   do, threw, ending>>

-----------------------------------------------------------------------------
(* The connection, and the peer at its other end.                          *)

\* The peer takes bytes, sends some, ...
SocketWritable ==
    /\ send = "parked" /\ ~destroyed
    /\ send' = "queued"
    /\ UNCHANGED <<role, engine, fields, do, recv, threw, ending>>

SocketReadable ==
    /\ do = "loops" /\ recv = "parked" /\ ~destroyed
    /\ recv' = "queued"
    /\ UNCHANGED <<role, engine, fields, do, send, threw, ending>>

\* ... or is gone.
WriteBreaks ==
    /\ send = "parked" /\ send' = "ended"
    /\ UNCHANGED <<role, engine, fields, do, recv, threw, ending>>

ReadBreaks ==
    /\ do = "loops" /\ recv = "parked"
    /\ recv' = "ended"
    /\ UNCHANGED <<role, engine, fields, do, send, threw, ending>>

-----------------------------------------------------------------------------
(* What the user does, who is given the session after do_session() was     *)
(* launched, and so never before its beginning.                            *)

\* The engine exists: it is not deleted if do_session() has thrown.
HasEngine == do \in {"loops", "ending"} \/ (do = "over" /\ threw)

\* Fault: the streams that nghttp2 has open are counted, and not the ones it has not started.
SubmitCountsOpen ==
    /\ HasEngine /\ RequestAllowed /\ ~destroyed
    /\ Cardinality(open) < limit
    /\ last_id < MaxStreams
    /\ last_id' = last_id + 1
    /\ queued' = queued \cup {last_id'} /\ streams' = streams \cup {last_id'}
    /\ StartWrite(send)
    /\ UNCHANGED <<role, out, open, limit, settled, terminating, goaway_recv, recv_done,
                   send_failed, goaway_sent, do, recv, threw, ending>>

\* async_submit(), where it is not refused with canceled or, at the limit that the peer has
\* set by now, with would_block.
Submit ==
    /\ HasEngine /\ RequestAllowed /\ ~destroyed
    /\ Cardinality(streams) < limit
    /\ last_id < MaxStreams
    /\ last_id' = last_id + 1
    /\ queued' = queued \cup {last_id'} /\ streams' = streams \cup {last_id'}
    /\ StartWrite(send)
    /\ UNCHANGED <<role, out, open, limit, settled, terminating, goaway_recv, recv_done,
                   send_failed, goaway_sent, do, recv, threw, ending>>

\* A response is submitted, a body written or read, or a stream reset; that makes no frame of
\* a request which was not started.
UseStream(frame) ==
    /\ HasEngine /\ streams # {} /\ (frame => ~(streams \subseteq queued))
    /\ out' = out \cup (IF frame THEN {"frame"} ELSE {})
    /\ StartWrite(send)
    /\ UNCHANGED <<role, open, requests, terminating, goaway_recv, fields, do, recv, threw, ending>>

\* A stream that was kept is finished with: by reading the rest of it, which also calls
\* start_write(), or by releasing it, which does not.
FinishStream(s, reads) ==
    /\ HasEngine /\ s \in streams \ (open \cup queued)
    /\ streams' = streams \ {s}
    /\ IF reads THEN StartWrite(send) ELSE UNCHANGED send
    /\ UNCHANGED <<role, engine, last_id, recv_done, send_failed, goaway_sent, do, recv, threw,
                   ending>>

\* shutdown(), up to its wait.
Shutdown ==
    /\ role = "client" /\ shutdown = "no" /\ do \in {"loops", "ending"} /\ ~destroyed
    /\ shutdown' = "waiting" /\ timer' = "armed"
    /\ LET goaway == ~goaway_sent IN
       /\ out' = out \cup (IF goaway THEN Termination ELSE {})
       /\ terminating' = (terminating \/ goaway)
    /\ recv_done' = TRUE
    /\ StartWrite(send)
    /\ UNCHANGED <<role, open, requests, goaway_recv, streams, last_id, send_failed, goaway_sent,
                   do, recv, threw, destroyed>>

\* The two seconds are over: the completion of the timer is queued, ...
TimerExpires ==
    /\ timer = "armed" /\ timer' = "expired"
    /\ UNCHANGED <<role, engine, fields, do, send, recv, threw, shutdown, destroyed>>

\* ... and runs, even if the timer was cancelled in between.
TimerRuns ==
    /\ timer = "expired" /\ timer' = "off"
    /\ send' = Canceled(send)
    /\ recv' = IF do = "loops" THEN Canceled(recv) ELSE recv
    /\ UNCHANGED <<role, engine, fields, do, threw, shutdown, destroyed>>

\* session_done_ was set.
ShutdownReturns ==
    /\ shutdown = "waiting" /\ do = "over"
    /\ shutdown' = "returned"
    /\ timer' = IF timer = "armed" THEN "off" ELSE timer
    /\ UNCHANGED <<role, engine, fields, do, send, recv, threw, destroyed>>

\* destroy(), on release of the Session or by the server: both sides of the socket are
\* shut down, unless the connection is closed already.
Destroy ==
    /\ ~destroyed /\ do \in {"loops", "ending"}
    /\ destroyed' = TRUE
    /\ UNCHANGED <<role, engine, fields, do, send, recv, threw, shutdown, timer>>

-----------------------------------------------------------------------------
SendLoop ==
    \/ \E taken \in SUBSET out, started \in SUBSET queued, data \in BOOLEAN :
        \E closed \in SUBSET (open \cup started) :
        \E erased \in SUBSET closed : SendFrames(taken, started, closed, erased, data)
    \/ SendNothing \/ WriteDone \/ WriteFails

RecvLoop ==
    \/ \E opened \in SUBSET {last_id + 1}, closed \in SUBSET open,
          goaway, error, frame \in BOOLEAN :
        \E erased \in SUBSET closed : Receive(opened, closed, erased, goaway, error, frame)
    \/ \E value \in Limits : ReceiveSettings(value)
    \/ ReceiveLate \/ ReceiveEnds

Session ==
    \/ \E upgrade, accepted, received \in BOOLEAN : Start(upgrade, accepted, received)
    \/ LoopsEnd \/ EndConnection

Peer == SocketWritable \/ SocketReadable \/ WriteBreaks \/ ReadBreaks

User ==
    \/ Submit
    \/ \E frame \in BOOLEAN : UseStream(frame)
    \/ \E s \in streams, reads \in BOOLEAN : FinishStream(s, reads)
    \/ Shutdown \/ Destroy

Next ==
    \/ SendLoop \/ WriteContinues \/ SendThrows \/ RecvLoop
    \/ Session \/ Peer \/ User
    \/ TimerExpires \/ TimerRuns \/ ShutdownReturns

Spec == Init /\ [][Next]_vars

\* The executor runs what is ready; a write that is resumed over and over is complete in the
\* end, as is what there is to send once nobody adds to it; and what is parked on a socket
\* that was shut down ends.
Fairness ==
    /\ WF_vars(SendLoop) /\ SF_vars(WriteDone) /\ WF_vars(RecvLoop) /\ WF_vars(Session)
    /\ WF_vars(ShutdownReturns)
    /\ WF_vars(destroyed /\ WriteBreaks) /\ WF_vars(destroyed /\ ReadBreaks)

FairSpec == Spec /\ Fairness

-----------------------------------------------------------------------------
(* Properties.                                                             *)

\* The send loop never waits with something to send, a request that the peer allows by now
\* included, or with the receive loop over.
NoLostWakeUp == send = "waiting" => ~Sendable /\ ~recv_done

\* async_submit() answers the limit of the peer with would_block and does not leave a request
\* to nghttp2, which would hold it back: it only does so with the ones that were made before
\* the SETTINGS that set the limit had arrived.
NotHeldBack ==
    send # "done" => \A s \in queued : s > settled => Cardinality(open) < limit

\* Endpoints send a GOAWAY before they close a connection that can still be written to
\* ("so send one, unless we have already"), if the peer has not sent one first.
GoawayFirst ==
    (do = "ending" /\ ~send_failed /\ ~goaway_recv) => goaway_sent

\* A session that is destroyed comes to its end, and so does a shutdown() of it.
DestroyEnds == destroyed ~> (do = "over" /\ shutdown # "waiting")
=============================================================================
