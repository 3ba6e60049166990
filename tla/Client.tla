------------------------------- MODULE Client -------------------------------
(***************************************************************************)
(* Client::Impl::async_connect(), src/src/client_impl.cpp, with the        *)
(* HTTP/3 alternative service that sessions may hear of at any time        *)
(* (Alt-Svc), and with what connecting over QUIC comes down to             *)
(* (QuicClient).  There is one connect at a time.                          *)
(***************************************************************************)
EXTENDS QuicClient

VARIABLES
    config,         \* what the user has configured, see Configs
    alt,            \* alt_svc_: none, known, or known and expired
    route           \* where the connect goes: to the origin, or to the alternative service

clientVars == <<config, alt, route>>
vars == <<quicVars, clientVars>>

\* Endpoints are given or have to be resolved, the URL says https or not, alternative services
\* are followed or not.
Configs == [protocol : {"tcp", "h3"}, given : BOOLEAN, https : BOOLEAN, follow : BOOLEAN]

Init ==
    /\ QuicInit
    /\ config \in Configs /\ alt = "none" /\ route = "none"

\* Type invariant: every field has a value the code can give it.
TypeOK ==
    /\ att \in [Attempts ->
         [loop : {"none", "start", "receives", "over"},
          recv : {"none", "waits", "canceled", "error", "packet", "close"},
          closed : BOOLEAN, timer : BOOLEAN, ready : BOOLEAN, signaled : BOOLEAN,
          late : BOOLEAN]]
    /\ connect \in {"idle", "resolves", "connects", "handshake", "next", "waits"} \cup Ends
    /\ current \in 0 .. Cardinality(Attempts) + 1
    /\ canceled \in BOOLEAN
    /\ config \in Configs /\ alt \in {"none", "known", "expired"}
    /\ route \in {"none", "origin", "alternative"}

-----------------------------------------------------------------------------
(* The alternative service.                                                *)

\* on_alt_svc(): a session is told of an alternative service, or that there is none any more.
OnAltSvc ==
    /\ config.follow
    /\ alt' \in {"known", "none"}
    /\ UNCHANGED <<quicVars, config, route>>

\* What "ma" says of it has run out, see alt_svc().
AltSvcExpires ==
    /\ alt = "known"
    /\ alt' = "expired"
    /\ UNCHANGED <<quicVars, config, route>>

-----------------------------------------------------------------------------
(* async_connect().                                                        *)

\* What there are endpoints for is connected to: over QUIC or TCP.
Over(r) == IF r = "alternative" \/ config.protocol = "h3" THEN "next" ELSE "connects"

\* The user connects.  An alternative service takes precedence, unless there are endpoints.
Connect ==
    /\ connect = "idle"
    /\ route' = IF ~config.given /\ alt = "known" THEN "alternative" ELSE "origin"
    /\ connect' = IF config.given THEN Over("origin") ELSE "resolves"
    /\ UNCHANGED <<att, current, canceled, config, alt>>

\* The name is resolved, or it is not, or to nothing at all.  Here and below, a cancellation is
\* one of the errors.
Resolve ==
    /\ connect = "resolves"
    /\ connect' \in {Over(route), "failed"}
    /\ UNCHANGED <<att, current, canceled, clientVars>>

\* start_session() of what is not QUIC: it is launched, and returned.
StartSession == connect' = "returned" /\ current' = 0

\* The TCP connection is there, or none of the endpoints could be reached.
TcpConnects ==
    /\ connect = "connects"
    /\ \/ connect' = "failed" /\ UNCHANGED current
       \/ config.https /\ connect' = "handshake" /\ UNCHANGED current
       \/ ~config.https /\ StartSession
    /\ UNCHANGED <<att, canceled, clientVars>>

\* The TLS handshake succeeds, or it does not, or it is cancelled.
TlsHandshake ==
    /\ connect = "handshake"
    /\ \/ connect' = "failed" /\ UNCHANGED current
       \/ StartSession
    /\ UNCHANGED <<att, canceled, clientVars>>

-----------------------------------------------------------------------------
Connecting == Resolve \/ TcpConnects

Next ==
    \/ OnAltSvc \/ AltSvcExpires \/ Connect \/ Connecting \/ TlsHandshake
    \/ QuicNext /\ UNCHANGED clientVars

Spec == Init /\ [][Next]_vars

\* The executor runs what is posted to it, and the system resolves and connects, or reports an
\* error.  A handshake of QUIC that does not finish ends with the idle timeout, one of TLS does
\* not have to end; nor has anybody to end a connection that is in use, or anything to arrive.
FairSpec ==
    /\ Spec
    /\ WF_vars(Connecting) /\ WF_vars(Coroutine /\ UNCHANGED clientVars)
    /\ \A a \in Attempts :
        /\ WF_vars(Loop(a) /\ UNCHANGED clientVars)
        /\ WF_vars(~att[a].ready /\ ExpiryCloses(a) /\ UNCHANGED clientVars)

-----------------------------------------------------------------------------
\* async_connect() ends, whatever the servers do, unless one over TCP is silent in the TLS
\* handshake, for which there is no time limit; and the receive loop of every QUIC session that
\* it does not return ends, too (wait_ready(), destroy() of what nobody is going to use), or is
\* that of a session that was launched too late for destroy(), and gets connected.
ConnectEnds ==
    connect \notin Ends \cup {"idle", "handshake"} ~>
        /\ connect \in Ends \cup {"handshake"}
        /\ \A a \in Attempts : connect # "returned" \/ a # current
                                 => \/ att[a].loop \in {"none", "over"}
                                    \/ att[a].late /\ att[a].ready

\* close() ends the receive loop of its session (do_session()), also if it is called by somebody
\* who was told of a packet, while there is no receive that could be cancelled.
ClosedLoopEnds ==
    \A a \in Attempts : att[a].closed ~> att[a].loop = "over"
=============================================================================
