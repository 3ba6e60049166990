----------------------------- MODULE QuicClient -----------------------------
(***************************************************************************)
(* quic::async_connect(), src/src/quic/client.cpp: it tries one            *)
(* endpoint after the other, each with a QuicClientSession that has a      *)
(* socket, a receive loop and a timer, and returns the first whose         *)
(* handshake gets far enough.                                              *)
(*                                                                         *)
(* All of it runs on one executor, so a step is one handler.  A receive    *)
(* that has completed is queued there: from then on, cancelling the        *)
(* socket does not stop it.  The servers, and the network, may do          *)
(* anything: any datagram may come at any time, or none.                   *)
(***************************************************************************)
EXTENDS Integers, FiniteSets

CONSTANT
    Attempts        \* bound: the endpoints, 1 .. n

ASSUME AttemptsAssumption == Attempts = 1 .. Cardinality(Attempts)

VARIABLES
    att,            \* the QuicClientSessions, see NotTried
    connect,        \* the coroutine: idle, goes to the next, waits, or how it has ended
    current,        \* the endpoint it is at, or whose session it has returned
    canceled        \* whoever waits for it has cancelled it

quicVars == <<att, connect, current, canceled>>
coroutine == <<connect, current, canceled>>

\* An endpoint that was not tried: do_session() starts, receives or is over; a receive waits, or
\* is queued with what it has got; ready is application_ready_, signaled the event ready_.
\* An attempt is late when the coroutine was cancelled already as it was launched (history).
NotTried ==
    [loop |-> "none", recv |-> "none", closed |-> FALSE, timer |-> FALSE, ready |-> FALSE,
     signaled |-> FALSE, late |-> FALSE]

\* The coroutine is over, either way.
Ends == {"returned", "failed", "canceled"}

QuicInit ==
    /\ att = [a \in Attempts |-> NotTried]
    /\ connect = "idle" /\ current = 1 /\ canceled = FALSE

-----------------------------------------------------------------------------
(* A session.                                                              *)

\* close() of a session that is x, once: a CONNECTION_CLOSE is sent unless the peer is gone, a
\* receive that waits is cancelled, one that is queued or running is not, and who waits in
\* async_connect() is told.
Close(x) ==
    IF x.closed THEN x
    ELSE [x EXCEPT !.closed = TRUE, !.timer = FALSE, !.signaled = TRUE,
                   !.recv = IF @ = "waits" THEN "canceled" ELSE @]

\* do_session() starts with the Initial.  If sending it is refused, close() has run.
DoSession(a) ==
    /\ att[a].loop = "start"
    /\ \/ att' = [att EXCEPT ![a].loop = "receives", ![a].recv = "waits", ![a].timer = TRUE]
       \/ att' = [att EXCEPT ![a] = Close([@ EXCEPT !.loop = "over"])]
    /\ UNCHANGED coroutine

\* The receive completes, with a datagram, or with an error: the port is unreachable.
ReceiveCompletes(a) ==
    /\ att[a].recv = "waits"
    /\ \E got \in {"packet", "close", "error"} : att' = [att EXCEPT ![a].recv = got]
    /\ UNCHANGED coroutine

\* Fault: the receive loop does not look at closed() before it receives again.
KeepReceiving(x) == [x EXCEPT !.recv = "waits"]

\* Back in the loop of do_session() after on_read() and flush_write(), of a session that has
\* become x: it goes on, unless the session was closed meanwhile.
ReceiveAgain(x) ==
    IF x.closed THEN [x EXCEPT !.loop = "over"] ELSE [x EXCEPT !.recv = "waits"]

\* What on_read() makes of a packet, and flush_write() after it, of session x: the packet may
\* complete the handshake, and whoever is told of what it holds may close() the session at once.
ReadPacket(x) ==
    {ReceiveAgain(y) :
        y \in UNION {{z, Close(z)} : z \in {x, [x EXCEPT !.ready = TRUE, !.signaled = TRUE]}}}

\* do_session() goes on with what was received: a packet is read, and everything else, or a
\* packet that is wrong or whose answer is refused, ends the loop, which close()s the session.
Received(a) ==
    /\ att[a].recv \notin {"none", "waits"}
    /\ LET x == [att[a] EXCEPT !.recv = "none"]
       IN  \/ /\ att[a].recv = "packet"
              /\ \E y \in ReadPacket(x) : att' = [att EXCEPT ![a] = y]
           \/ att' = [att EXCEPT ![a] = Close([x EXCEPT !.loop = "over"])]
    /\ UNCHANGED coroutine

\* handle_expiry(): the server has been silent for too long, or what is to be sent again is
\* refused.
ExpiryCloses(a) ==
    /\ att[a].timer
    /\ att' = [att EXCEPT ![a] = Close(@)]
    /\ UNCHANGED coroutine

-----------------------------------------------------------------------------
(* quic::async_connect().                                                  *)

\* The next endpoint: init() may fail, otherwise do_session() is launched.  Awaiting throws in a
\* coroutine that was cancelled, so that wait_ready() is where it ends if the event of the
\* attempt before was faster than the cancellation.
TryNext ==
    /\ connect = "next" /\ current \in Attempts
    /\ \/ /\ att' = [att EXCEPT ![current].loop = "start", ![current].late = canceled]
          /\ connect' = IF canceled THEN "canceled" ELSE "waits"
          /\ UNCHANGED current
       \/ /\ current' = current + 1
          /\ UNCHANGED <<att, connect>>
    /\ UNCHANGED canceled

\* There are no more endpoints.
GiveUp ==
    /\ connect = "next" /\ current \notin Attempts
    /\ connect' = "failed"
    /\ UNCHANGED <<att, current, canceled>>

\* The caller cancels the operation.
CancelConnect ==
    /\ connect = "waits" /\ ~canceled
    /\ canceled' = TRUE
    /\ UNCHANGED <<att, connect, current>>

\* Fault: an attempt that nobody is going to use is left alone.
LeaveAlone(x) == x

\* destroy() of an attempt that nobody is going to use.
Destroy(x) == Close(x)

\* wait_ready() is over, because of the event or of the cancellation, and does not say so if
\* the cancellation comes after the event.  do_session() was launched before, and has started.
ConnectGoesOn ==
    /\ connect = "waits" /\ att[current].loop # "start"
    /\ \E ec \in BOOLEAN :
        /\ IF ec THEN canceled ELSE att[current].signaled
        /\ IF att[current].ready
           THEN connect' = "returned" /\ UNCHANGED <<att, current>>
           ELSE /\ att' = [att EXCEPT ![current] = Destroy(@)]
                /\ IF ec THEN connect' = "canceled" /\ UNCHANGED current
                   ELSE connect' = "next" /\ current' = current + 1
    /\ UNCHANGED canceled

\* destroy() or shutdown() by whoever has got the session.
UserDestroys ==
    /\ connect = "returned" /\ current \in Attempts /\ ~att[current].closed
    /\ att' = [att EXCEPT ![current] = Destroy(@)]
    /\ UNCHANGED coroutine

-----------------------------------------------------------------------------
\* The coroutine by itself, and what the executor runs of session a.
Coroutine == TryNext \/ GiveUp \/ ConnectGoesOn
Loop(a) == DoSession(a) \/ Received(a)

QuicNext ==
    \/ Coroutine \/ CancelConnect \/ UserDestroys
    \/ \E a \in Attempts : Loop(a) \/ ReceiveCompletes(a) \/ ExpiryCloses(a)
=============================================================================
