---------------------------- MODULE H2v2Session -----------------------------
(***************************************************************************)
(* An HTTP/2 session on top of version 2 of nghttp2: do_session(),         *)
(* send_loop(), recv_loop(), end_connection() and shutdown() of            *)
(* src/include/anyhttp/h2v2/session_details.hpp, and async_submit(),       *)
(* handle_buffer_contents(), and the connection timer of                   *)
(* src/src/h2v2/session.cpp.  What a single stream does is in H2v2Stream.  *)
(*                                                                         *)
(* Everything happens on one executor; a step is what a coroutine, a timer *)
(* or the user does between two suspensions.  As in H2Session, an          *)
(* operation on the connection is "parked" while io::cancel() finds it,    *)
(* and "queued", "canceled" or "ended" while its completion waits to run.  *)
(*                                                                         *)
(* Of the library, we assume what the code says about it: what it has to   *)
(* send, it gives to nghttp2_conn_write(), which reports that the          *)
(* connection is closing once the GOAWAY of nghttp2_conn_terminate() was   *)
(* given out, or no stream is open after that of the peer; and after a     *)
(* call that has failed, it fails or reports that it is closing.           *)
(***************************************************************************)
EXTENDS Naturals, FiniteSets

CONSTANTS
    MaxStreams      \* bound: the requests made on the connection

ASSUME MaxStreamsAssumption == MaxStreams \in Nat \ {0}

VARIABLES
    role,
    \* the library: it has frames to send, nghttp2_conn_terminate() was called and its GOAWAY
    \* given out, the peer has sent one, the streams that are open, a call has failed, and it
    \* wants to be called back by the timer
    out, term, goaway_recv, open, dead, expiry,
    \* NGHttp2Session
    streams, last_id, closing, recv_done, send_failed, goaway_sent,
    \* the coroutines: do_session(), and where the loops are
    do, send, recv, threw,
    \* timer_, with an expiry that is queued already
    timer,
    \* shutdown(), and its timer
    shutdown, deadline,
    destroyed   \* destroy() has shut the socket down

library == <<out, term, goaway_recv, open, dead, expiry>>
fields == <<streams, last_id, closing, recv_done, send_failed, goaway_sent>>
ending == <<shutdown, deadline, destroyed>>
vars == <<role, library, fields, do, send, recv, threw, timer, ending>>

\* Type invariant: every field has a value the code can give it.
TypeOK ==
    /\ role \in {"client", "server"}
    /\ {out, goaway_recv, dead, expiry, closing, recv_done, send_failed, goaway_sent, threw,
        destroyed} \subseteq BOOLEAN
    /\ term \in {"no", "queued", "sent"}
    /\ {open, streams} \subseteq SUBSET (1 .. MaxStreams) /\ last_id \in 0 .. MaxStreams
    /\ do \in {"start", "loops", "ending", "over"}
    /\ send \in {"ready", "waiting", "parked", "queued", "canceled", "ended", "done"}
    /\ recv \in {"parked", "queued", "canceled", "ended", "done"}
    /\ timer \subseteq {"armed", "queued"}
    /\ shutdown \in {"no", "waiting", "returned"} /\ deadline \in {"off", "armed", "expired"}

\* A session that was just made, and whose do_session() was launched.
Init ==
    /\ role \in {"client", "server"}
    /\ out = FALSE /\ term = "no" /\ goaway_recv = FALSE /\ open = {} /\ dead = FALSE
    /\ expiry = FALSE
    /\ streams = {} /\ last_id = 0 /\ closing = FALSE /\ recv_done = FALSE
    /\ send_failed = FALSE /\ goaway_sent = FALSE
    /\ do = "start" /\ send = "ready" /\ recv = "parked" /\ threw = FALSE
    /\ timer = {} /\ shutdown = "no" /\ deadline = "off" /\ destroyed = FALSE

-----------------------------------------------------------------------------
\* start_write(): a loop that waits for the event is posted.  A loop that does not wait
\* asks nghttp2 again in any case.
StartWrite == send' = IF send = "waiting" THEN "ready" ELSE send

\* io::cancel(): what is parked is canceled, and what is queued is not.
Canceled(phase) == IF phase = "parked" THEN "canceled" ELSE phase

\* conn is there: it is not deleted if do_session() has thrown.
HasConn == do \in {"loops", "ending"} \/ (do = "over" /\ threw)

-----------------------------------------------------------------------------
(* do_session().                                                           *)

\* Its beginning: there are SETTINGS to be sent.  What has been received already is what the
\* receive loop finds first.
Start(received) ==
    /\ do = "start" /\ do' = "loops"
    /\ out' = TRUE /\ expiry' \in BOOLEAN
    /\ recv' = IF received THEN "queued" ELSE "parked"
    /\ UNCHANGED <<role, term, goaway_recv, open, dead, fields, send, threw, timer, ending>>

\* when_both(): both loops are over.  If one has thrown, so does do_session().
LoopsEnd ==
    /\ do = "loops" /\ send = "done" /\ recv = "done"
    /\ do' = IF threw THEN "over" ELSE "ending"
    /\ UNCHANGED <<role, library, fields, send, recv, threw, timer, ending>>

\* end_connection(), whose waits are limited to two seconds; then conn is deleted.
EndConnection ==
    /\ do = "ending" /\ do' = "over"
    /\ out' = FALSE /\ open' = {}
    /\ UNCHANGED <<role, term, goaway_recv, dead, expiry, fields, send, recv, threw, timer, ending>>

-----------------------------------------------------------------------------
(* send_loop().                                                            *)

SendReady == do = "loops" /\ send = "ready"

\* nghttp2_conn_write() has reported NGHTTP2_ERR_CLOSING.
Closing == dead \/ term = "sent" \/ (goaway_recv /\ open = {} /\ ~out /\ term = "no")

\* Fault: the read goes on.
SendLeaves ==
    /\ send' = "done"
    /\ timer' = timer \ {"armed"}
    /\ streams' = {}
    /\ UNCHANGED recv

\* The end of the loop: the read is canceled, and all streams are closed.
SendEnds ==
    /\ send' = "done"
    /\ timer' = timer \ {"armed"}
    /\ recv' = Canceled(recv)
    /\ streams' = {}

\* nghttp2_conn_write() gives what there is to send, which is then written; that may end
\* streams, of which some are kept in streams_ (see KeepOrErase of H2v2Stream).
SendFrames(closed, erased) ==
    /\ SendReady /\ ~dead
    /\ out \/ term = "queued"
    /\ closed \subseteq open /\ erased \subseteq closed \cap streams
    /\ out' = FALSE
    /\ term' = IF term = "queued" THEN "sent" ELSE term
    /\ open' = open \ closed /\ streams' = streams \ erased
    /\ expiry' \in BOOLEAN
    /\ send' = "parked"
    /\ UNCHANGED <<role, goaway_recv, dead, last_id, closing, recv_done, send_failed, goaway_sent,
                   do, recv, threw, timer, ending>>

SendCloses ==
    /\ SendReady /\ Closing
    /\ closing' = TRUE
    /\ SendEnds
    /\ UNCHANGED <<role, library, last_id, recv_done, send_failed, goaway_sent, do, threw, ending>>

\* It fails: the connection is closed and the loop throws.
SendThrows ==
    /\ SendReady /\ (dead \/ out)
    /\ closing' = TRUE /\ threw' = TRUE
    /\ send' = "done"
    /\ recv' = Canceled(recv)
    /\ UNCHANGED <<role, library, streams, last_id, recv_done, send_failed, goaway_sent, do, timer,
                   ending>>

\* arm_timer_from_nghttp2().
ArmTimer ==
    IF closing THEN timer
    ELSE IF expiry THEN timer \cup {"armed"} ELSE timer \ {"armed"}

\* There is nothing to send: end, or wait for more.
SendNothing ==
    /\ SendReady /\ ~out /\ term # "queued" /\ ~Closing
    /\ \/ recv_done /\ SendEnds
       \/ /\ ~recv_done
          /\ timer' = ArmTimer
          /\ send' = "waiting"
          /\ UNCHANGED <<streams, recv>>
    /\ UNCHANGED <<role, library, last_id, closing, recv_done, send_failed, goaway_sent, do, threw,
                   ending>>

\* io::write() is resumed: it is complete, ...
WriteDone ==
    /\ send = "queued" /\ send' = "ready"
    /\ UNCHANGED <<role, library, fields, do, recv, threw, timer, ending>>

\* ... or has failed.
WriteFails ==
    /\ send \in {"canceled", "ended"}
    /\ send_failed' = TRUE
    /\ SendEnds
    /\ UNCHANGED <<role, library, last_id, closing, recv_done, goaway_sent, do, threw, ending>>

-----------------------------------------------------------------------------
(* recv_loop().                                                            *)

\* Fault: the end of the loop is not told to the send loop.
RecvEndsSilently(closing_) ==
    /\ recv' = "done" /\ recv_done' = TRUE
    /\ term' = IF ~goaway_sent /\ ~closing_ /\ term = "no" THEN "queued" ELSE term
    /\ goaway_sent' = (goaway_sent \/ ~closing_)
    /\ UNCHANGED send

\* Its end: a GOAWAY, unless one was sent already, or there is nobody to send it.
RecvEnds(closing_) ==
    /\ recv' = "done" /\ recv_done' = TRUE
    /\ term' = IF ~goaway_sent /\ ~closing_ /\ term = "no" THEN "queued" ELSE term
    /\ goaway_sent' = (goaway_sent \/ ~closing_)
    /\ StartWrite

\* io::read_some() is resumed with data, which handle_buffer_contents() gives to
\* nghttp2_conn_read(): that may open streams on a server, end some, of which some are kept,
\* bring a GOAWAY, and leave frames to be sent.
Receive(opened, closed, erased, goaway, frame) ==
    /\ do = "loops" /\ recv = "queued" /\ ~closing /\ ~dead
    /\ opened # {} => role = "server" /\ term = "no" /\ last_id < MaxStreams
    /\ closed \subseteq open /\ erased \subseteq closed \cap streams
    /\ last_id' = last_id + Cardinality(opened)
    /\ open' = (open \cup opened) \ closed
    /\ streams' = (streams \cup opened) \ erased
    /\ goaway_recv' = (goaway_recv \/ goaway)
    /\ out' = (out \/ frame) /\ expiry' \in BOOLEAN
    /\ recv' = IF threw THEN "ended" ELSE "parked"
    /\ StartWrite
    /\ UNCHANGED <<role, term, dead, closing, recv_done, send_failed, goaway_sent, do, threw, timer,
                   ending>>

\* ... or fails: the connection is flagged as closing.
ReceiveFails ==
    /\ do = "loops" /\ recv = "queued" /\ ~closing
    /\ dead' = TRUE /\ closing' = TRUE
    /\ RecvEnds(TRUE)
    /\ UNCHANGED <<role, out, goaway_recv, open, expiry, streams, last_id, send_failed, do, threw,
                   timer, ending>>

\* The data are dropped, as the connection is closing; or there is an error, or the end.
ReceiveEnds ==
    /\ do = "loops"
    /\ \/ recv = "queued" /\ closing
       \/ recv \in {"canceled", "ended"}
    /\ RecvEnds(closing)
    /\ UNCHANGED <<role, out, goaway_recv, open, dead, expiry, streams, last_id, closing,
                   send_failed, do, threw, timer, ending>>

-----------------------------------------------------------------------------
(* The connection timer.                                                   *)

TimerExpires ==
    /\ "armed" \in timer /\ timer' = {"queued"}
    /\ UNCHANGED <<role, library, fields, do, send, recv, threw, ending>>

\* handle_expiry().
HandleExpiry(fails) ==
    /\ "queued" \in timer /\ timer' = timer \ {"queued"}
    /\ IF closing \/ ~HasConn
       THEN ~fails /\ UNCHANGED <<out, expiry, dead, closing, send>>
       ELSE /\ out' \in {out, TRUE} /\ expiry' = FALSE
            /\ dead' = (dead \/ fails) /\ closing' = fails
            /\ StartWrite
    /\ UNCHANGED <<role, term, goaway_recv, open, streams, last_id, recv_done, send_failed,
                   goaway_sent, do, recv, threw, ending>>

-----------------------------------------------------------------------------
(* The connection, and the peer at its other end.                          *)

\* The peer takes bytes, sends some, ...
SocketWritable ==
    /\ send = "parked" /\ ~destroyed
    /\ send' = "queued"
    /\ UNCHANGED <<role, library, fields, do, recv, threw, timer, ending>>

SocketReadable ==
    /\ do = "loops" /\ recv = "parked" /\ ~destroyed
    /\ recv' = "queued"
    /\ UNCHANGED <<role, library, fields, do, send, threw, timer, ending>>

\* ... or is gone.
WriteBreaks ==
    /\ send = "parked" /\ send' = "ended"
    /\ UNCHANGED <<role, library, fields, do, recv, threw, timer, ending>>

ReadBreaks ==
    /\ do = "loops" /\ recv = "parked"
    /\ recv' = "ended"
    /\ UNCHANGED <<role, library, fields, do, send, threw, timer, ending>>

-----------------------------------------------------------------------------
(* What the user does.                                                     *)

\* async_submit(), unless it is refused with canceled, would_block or connection_aborted.
\* Which limit the peer has set is known to the library, which may refuse any request for it.
Submit ==
    /\ HasConn /\ ~closing
    /\ role = "client" /\ ~goaway_recv /\ term = "no" /\ ~dead
    /\ last_id < MaxStreams
    /\ last_id' = last_id + 1
    /\ open' = open \cup {last_id'} /\ streams' = streams \cup {last_id'}
    /\ out' = TRUE
    /\ StartWrite
    /\ UNCHANGED <<role, term, goaway_recv, dead, expiry, closing, recv_done, send_failed,
                   goaway_sent, do, recv, threw, timer, ending>>

\* A response is submitted, a body written or read, or a stream reset.
UseStream ==
    /\ HasConn /\ streams # {}
    /\ out' = TRUE
    /\ StartWrite
    /\ UNCHANGED <<role, term, goaway_recv, open, dead, expiry, fields, do, recv, threw, timer,
                   ending>>

\* A stream that was kept is finished with.
FinishStream(s) ==
    /\ s \in streams \ open
    /\ streams' = streams \ {s}
    /\ UNCHANGED <<role, library, last_id, closing, recv_done, send_failed, goaway_sent, do, send,
                   recv, threw, timer, ending>>

\* shutdown(), up to its wait.
Shutdown ==
    LET goaway == HasConn /\ ~closing /\ ~goaway_sent IN
    /\ role = "client" /\ shutdown = "no" /\ do \in {"loops", "ending"} /\ ~destroyed
    /\ shutdown' = "waiting" /\ deadline' = "armed"
    /\ term' = IF goaway /\ term = "no" THEN "queued" ELSE term
    /\ goaway_sent' = (goaway_sent \/ goaway)
    /\ recv_done' = TRUE
    /\ StartWrite
    /\ UNCHANGED <<role, out, goaway_recv, open, dead, expiry, streams, last_id, closing,
                   send_failed, do, recv, threw, timer, destroyed>>

\* Its two seconds are over: the completion of the timer is queued, ...
DeadlineExpires ==
    /\ deadline = "armed" /\ deadline' = "expired"
    /\ UNCHANGED <<role, library, fields, do, send, recv, threw, timer, shutdown, destroyed>>

\* ... and runs, even if the timer was cancelled in between.
DeadlineRuns ==
    /\ deadline = "expired" /\ deadline' = "off"
    /\ send' = Canceled(send)
    /\ recv' = IF do = "loops" THEN Canceled(recv) ELSE recv
    /\ UNCHANGED <<role, library, fields, do, threw, timer, shutdown, destroyed>>

\* session_done_ was set.
ShutdownReturns ==
    /\ shutdown = "waiting" /\ do = "over"
    /\ shutdown' = "returned"
    /\ deadline' = IF deadline = "armed" THEN "off" ELSE deadline
    /\ UNCHANGED <<role, library, fields, do, send, recv, threw, timer, destroyed>>

\* destroy(): both sides of the socket are shut down, unless it is closed already.
Destroy ==
    /\ ~destroyed /\ do \in {"loops", "ending"}
    /\ destroyed' = TRUE
    /\ UNCHANGED <<role, library, fields, do, send, recv, threw, timer, shutdown, deadline>>

-----------------------------------------------------------------------------
SendLoop ==
    \/ \E closed \in SUBSET open : \E erased \in SUBSET closed : SendFrames(closed, erased)
    \/ SendCloses \/ SendNothing \/ WriteDone \/ WriteFails

RecvLoop ==
    \/ \E opened \in SUBSET {last_id + 1}, closed \in SUBSET open, goaway, frame \in BOOLEAN :
        \E erased \in SUBSET closed : Receive(opened, closed, erased, goaway, frame)
    \/ ReceiveFails \/ ReceiveEnds

Session ==
    \/ \E received \in BOOLEAN : Start(received)
    \/ LoopsEnd \/ EndConnection

Timers ==
    \/ TimerExpires \/ DeadlineExpires \/ DeadlineRuns
    \/ \E fails \in BOOLEAN : HandleExpiry(fails)

Peer == SocketWritable \/ SocketReadable \/ WriteBreaks \/ ReadBreaks

User ==
    \/ Submit \/ UseStream
    \/ \E s \in streams : FinishStream(s)
    \/ Shutdown \/ Destroy

Next == SendLoop \/ SendThrows \/ RecvLoop \/ Session \/ Timers \/ Peer \/ User \/ ShutdownReturns

Spec == Init /\ [][Next]_vars

\* The executor runs what is ready, and timers expire.  The peer takes what is written, or
\* TCP gives it up; but it need not send anything.  What is parked on a socket that was shut
\* down ends.
Fairness ==
    /\ WF_vars(SendLoop) /\ WF_vars(RecvLoop) /\ WF_vars(Session) /\ WF_vars(ShutdownReturns)
    /\ WF_vars(Timers)
    /\ WF_vars(SocketWritable \/ WriteBreaks)
    /\ WF_vars(destroyed /\ ReadBreaks)

FairSpec == Spec /\ Fairness

-----------------------------------------------------------------------------
(* Properties.                                                             *)

\* The send loop never waits with something to send, or with the receive loop over, or with
\* a connection that is closing, of which nobody else would tell it; nor without the timer
\* that nghttp2 asked for ("so arm it before going to sleep"), which nobody else arms.
SleepsSafely ==
    send = "waiting" =>
        /\ ~out /\ term # "queued" /\ ~recv_done /\ ~closing
        /\ expiry => timer # {}

\* Once the connection is closing, "both loops end", and so does the session, whatever set
\* closing_, and although the peer sends nothing more.  Left out is a read that was started
\* when the send loop was over already: the cancellation in SendEnds came too early for it.
ClosingEnds == (closing /\ (send = "done" => recv # "parked")) ~> do = "over"
=============================================================================
