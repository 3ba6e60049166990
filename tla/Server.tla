------------------------------- MODULE Server -------------------------------
(***************************************************************************)
(* The life of a server and its TCP connections: Server::Impl of           *)
(* src/src/server_impl.cpp, with tcp_accept_loop(), one                    *)
(* handle_connection() per connection, the registry of sessions, and       *)
(* destroy(), which the owner of the server calls on a thread of its own.  *)
(*                                                                         *)
(* With Config::use_strand, accept loop and connections run on strands of  *)
(* their own, on several threads: a step is what one of them does in one   *)
(* critical section of session_mutex_, or between two suspensions.         *)
(*                                                                         *)
(* A session is what do_session() of H1Server promises: once destroy() has *)
(* run on its executor, it ends.  HTTP/3 is left out.                      *)
(***************************************************************************)
EXTENDS Naturals, FiniteSets

CONSTANTS
    Connections,    \* bound: the connections that clients make
    None            \* no connection

ASSUME ConnectionsAssumption == IsFiniteSet(Connections) /\ None \notin Connections

VARIABLES
    loop,           \* tcp_accept_loop(): where it is
    open,           \* acceptor_ is open
    arrived,        \* the connection io::accept() is about to return, or None
    counter,        \* sessionCounter
    signal,         \* sessionDone has a wake-up pending
    sessions,       \* sessions_
    destroyed,      \* destroyed_
    conn,           \* handle_connection(), per connection: where it is
    ending          \* session->destroy(), per connection: dispatched, or run

vars == <<loop, open, arrived, counter, signal, sessions, destroyed, conn, ending>>

\* Type invariant: the server has a registry of sessions, a count of connections, and
\* each connection is somewhere in handle_connection().
TypeOK ==
    /\ loop \in {"accepting", "awake", "waiting", "done"}
    /\ open \in BOOLEAN /\ signal \in BOOLEAN /\ destroyed \in BOOLEAN
    /\ arrived \in Connections \cup {None}
    /\ counter \in Nat
    /\ sessions \in SUBSET Connections
    /\ conn \in [Connections ->
            {"none", "arrived", "detecting", "ready", "serving", "served", "leaving", "gone"}]
    /\ ending \in [Connections -> {"no", "dispatched", "run"}]

\* Server::Impl::Impl() and start().
Init ==
    /\ loop = "accepting" /\ open = TRUE /\ arrived = None
    /\ counter = 0 /\ signal = FALSE
    /\ sessions = {} /\ destroyed = FALSE
    /\ conn = [c \in Connections |-> "none"]
    /\ ending = [c \in Connections |-> "no"]

-----------------------------------------------------------------------------
(* Clients, which are outside of this code.                                *)

\* A connection is established, and the completion of io::accept() queued.
Connect(c) ==
    /\ loop = "accepting" /\ open /\ arrived = None /\ conn[c] = "none"
    /\ arrived' = c
    /\ conn' = [conn EXCEPT ![c] = "arrived"]
    /\ UNCHANGED <<loop, open, counter, signal, sessions, destroyed, ending>>

\* detail::detect() and io::handshake() have what they wait for from the client ...
Detect(c) ==
    /\ conn[c] = "detecting"
    /\ conn' = [conn EXCEPT ![c] = "ready"]
    /\ UNCHANGED <<loop, open, arrived, counter, signal, sessions, destroyed, ending>>

\* ... or fail, because the client has gone or is not making sense.
DetectFails(c) ==
    /\ conn[c] = "detecting"
    /\ conn' = [conn EXCEPT ![c] = "leaving"]
    /\ UNCHANGED <<loop, open, arrived, counter, signal, sessions, destroyed, ending>>

\* do_session() returns, on its own account or because the session was destroyed.
SessionEnds(c) ==
    /\ conn[c] = "serving"
    /\ conn' = [conn EXCEPT ![c] = "served"]
    /\ UNCHANGED <<loop, open, arrived, counter, signal, sessions, destroyed, ending>>

-----------------------------------------------------------------------------
(* handle_connection().                                                    *)

\* add_session(), and session->destroy() if it is refused.
Register(c) ==
    /\ conn[c] = "ready"
    /\ \/ /\ ~destroyed
          /\ sessions' = sessions \cup {c}
          /\ conn' = [conn EXCEPT ![c] = "serving"]
          /\ UNCHANGED ending
       \/ /\ destroyed
          /\ conn' = [conn EXCEPT ![c] = "leaving"]
          /\ ending' = [ending EXCEPT ![c] = "run"]
          /\ UNCHANGED sessions
    /\ UNCHANGED <<loop, open, arrived, counter, signal, destroyed>>

\* remove_session(), after do_session() has returned.
Unregister(c) ==
    /\ conn[c] = "served"
    /\ sessions' = sessions \ {c}
    /\ conn' = [conn EXCEPT ![c] = "leaving"]
    /\ UNCHANGED <<loop, open, arrived, counter, signal, destroyed, ending>>

\* do_session() throws, which skips remove_session().
SessionThrows(c) ==
    /\ conn[c] = "serving"
    /\ conn' = [conn EXCEPT ![c] = "leaving"]
    /\ UNCHANGED <<loop, open, arrived, counter, signal, sessions, destroyed, ending>>

\* Fault: whether it was the last one is looked at too early.
LeaveSilently(c) ==
    /\ conn[c] = "leaving"
    /\ conn' = [conn EXCEPT ![c] = "gone"]
    /\ counter' = counter - 1
    /\ signal' = (signal \/ counter = 0)
    /\ UNCHANGED <<loop, open, arrived, sessions, destroyed, ending>>

\* The completion handler given to launch().
Leave(c) ==
    /\ conn[c] = "leaving"
    /\ conn' = [conn EXCEPT ![c] = "gone"]
    /\ counter' = counter - 1
    /\ signal' = TRUE
    /\ UNCHANGED <<loop, open, arrived, sessions, destroyed, ending>>

-----------------------------------------------------------------------------
(* destroy_on_its_executor(): what is dispatched, and when it runs.        *)

Dispatched == [c \in Connections |->
    IF c \in sessions /\ ending[c] = "no" THEN "dispatched" ELSE ending[c]]

RunDestroy(c) ==
    /\ ending[c] = "dispatched"
    /\ ending' = [ending EXCEPT ![c] = "run"]
    /\ UNCHANGED <<loop, open, arrived, counter, signal, sessions, destroyed, conn>>

-----------------------------------------------------------------------------
(* tcp_accept_loop().                                                      *)

\* A connection is counted and launched, whether the acceptor has been closed since or not.
Accept ==
    /\ loop = "accepting" /\ arrived # None
    /\ arrived' = None
    /\ counter' = counter + 1
    /\ conn' = [conn EXCEPT ![arrived] = "detecting"]
    /\ UNCHANGED <<loop, open, signal, sessions, destroyed, ending>>

\* io::accept() fails: the acceptor has been closed, or any other reason.
AcceptFails ==
    /\ loop = "accepting" /\ arrived = None
    /\ loop' = "awake"
    /\ UNCHANGED <<open, arrived, counter, signal, sessions, destroyed, conn, ending>>

\* Under the mutex: done if nothing is left, or else another sweep of the registry.
Sweep ==
    /\ loop = "awake"
    /\ \/ /\ counter = 0
          /\ loop' = "done"
          /\ UNCHANGED <<sessions, ending>>
       \/ /\ counter # 0
          /\ loop' = "waiting"
          /\ ending' = Dispatched
          /\ sessions' = {}
    /\ UNCHANGED <<open, arrived, counter, signal, destroyed, conn>>

\* sessionDone.wait() returns.
WakeUp ==
    /\ loop = "waiting" /\ signal
    /\ signal' = FALSE
    /\ loop' = "awake"
    /\ UNCHANGED <<open, arrived, counter, sessions, destroyed, conn, ending>>

-----------------------------------------------------------------------------
(* destroy().                                                              *)

CloseAcceptor ==
    /\ open
    /\ open' = FALSE
    /\ UNCHANGED <<loop, arrived, counter, signal, sessions, destroyed, conn, ending>>

\* Fault: sessions are only told by the accept loop.
DestroyFlagOnly ==
    /\ ~open /\ ~destroyed
    /\ destroyed' = TRUE
    /\ UNCHANGED <<loop, open, arrived, counter, signal, sessions, conn, ending>>

\* Under the mutex, after the acceptor has been closed.
DestroySessions ==
    /\ ~open /\ ~destroyed
    /\ destroyed' = TRUE
    /\ ending' = Dispatched
    /\ UNCHANGED <<loop, open, arrived, counter, signal, sessions, conn>>

-----------------------------------------------------------------------------
Client == \E c \in Connections : Connect(c) \/ Detect(c) \/ DetectFails(c)

Connection(c) ==
    Register(c) \/ Unregister(c) \/ Leave(c)

Session(c) == SessionEnds(c) \/ SessionThrows(c)

AcceptLoop == Accept \/ Sweep \/ WakeUp

Next ==
    \/ Client
    \/ \E c \in Connections : Connection(c) \/ Session(c) \/ RunDestroy(c)
    \/ AcceptLoop
    \/ AcceptFails
    \/ CloseAcceptor
    \/ DestroySessions

Spec == Init /\ [][Next]_vars

\* The threads run what is ready to run.  An accept on a closed acceptor fails, destroy()
\* does both of its steps, and a session that is destroyed ends.
Fairness ==
    /\ WF_vars(AcceptLoop)
    /\ WF_vars(~open /\ AcceptFails)
    /\ WF_vars(DestroySessions)
    /\ \A c \in Connections :
        /\ WF_vars(Connection(c))
        /\ WF_vars(RunDestroy(c))
        /\ WF_vars(ending[c] = "run" /\ Session(c))

FairSpec == Spec /\ Fairness

\* The same with clients that say something, or go away.
TalkingSpec ==
    /\ FairSpec
    /\ \A c \in Connections : WF_vars(Detect(c) \/ DetectFails(c))

-----------------------------------------------------------------------------
(* Properties.                                                             *)

\* No session escapes a server that is destroyed, whatever thread registers it when: "a
\* session registered after that sweep would never be torn down".
NoneEscapes ==
    destroyed => \A c \in Connections : conn[c] = "serving" => ending[c] # "no"

\* The accept loop has the local variables that the completion handlers of connections
\* refer to, and keeps the server alive: it ends after the last of them.
LoopIsLast ==
    loop = "done" => arrived = None /\ \A c \in Connections : conn[c] \in {"none", "gone"}

\* A notify() that is dropped because one is pending is never missed: "whenever the waiter
\* is about to block, none is pending, and every session still counted has its own notify()
\* ahead of it".
NoLostWakeUp ==
    (loop = "waiting" /\ ~signal) => \E c \in Connections : conn[c] \notin {"none", "gone"}

\* A destroyed server comes to its end, provided that no client stays silent.
Drains == destroyed ~> (loop = "done")

-----------------------------------------------------------------------------
(* The inductive invariant behind the safety properties.                   *)

\* The connections that are launched and not over yet: what sessionCounter counts.
Active == {c \in Connections : conn[c] \notin {"none", "arrived", "gone"}}

Counted == counter = Cardinality(Active)

Arriving ==
    /\ \A c \in Connections : conn[c] = "arrived" <=> arrived = c
    /\ arrived # None => loop = "accepting"

\* A session that is served is in the registry, or has been told to end.
Registered == \A c \in Connections : conn[c] = "serving" => c \in sessions \/ ending[c] # "no"

Inv ==
    /\ Counted
    /\ Arriving
    /\ Registered
    /\ NoneEscapes
    /\ LoopIsLast
    /\ (loop = "waiting" /\ ~signal) => counter # 0
=============================================================================
