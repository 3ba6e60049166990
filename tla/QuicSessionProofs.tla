------------------------- MODULE QuicSessionProofs -------------------------
(***************************************************************************)
(* Proofs about QuicSession, for any streams, whoever opens them, and any  *)
(* amount of data.                                                         *)
(*                                                                         *)
(* While the connection is open, the invariant says of each stream, apart  *)
(* from all others, what its flags say about each other (StreamOK); that   *)
(* the write queue holds just the streams that are marked as scheduled     *)
(* (Queued), and somebody is about to look at it (Looked); and that the    *)
(* accept queue is what is left of the streams that were opened            *)
(* (Accepting).  When it is closed, both queues are empty (Over).          *)
(***************************************************************************)
EXTENDS QuicSession, FiniteSetTheorems, TLAPS

Stream ==
    [ngtcp2 : {"none", "open", "closed"}, rx : {"open", "over"}, tx : {"open", "ending", "over"},
     handle : {"none", "held", "detached", "gone"}, closed : BOOLEAN, unread : BOOLEAN,
     out : 0 .. MaxOut, scheduled : BOOLEAN, blocked : BOOLEAN]

\* The types that matter to what follows.
Types ==
    /\ remote \subseteq Streams /\ streams \subseteq Streams
    /\ st \in [Streams -> Stream]
    /\ opened \in Seq(remote) /\ accept_queue \in Seq(remote) /\ write_queue \in Seq(Streams)
    /\ pass \in Nat
    /\ closed \in BOOLEAN /\ accept \in BOOLEAN

In(q, s) == \E i \in 1 .. Len(q) : q[i] = s
NoDup(q) == \A i, j \in 1 .. Len(q) : q[i] = q[j] => i = j

\* A stream x, and whether it is in streams_: ngtcp2 and the session agree on which streams
\* there are, who is held is there, and who has something to send is scheduled.
StreamOK(x, here) ==
    /\ x.ngtcp2 = "none" => /\ ~here /\ x.handle = "none"
                            /\ ~x.scheduled /\ ~x.closed /\ ~HasToSend(x)
    /\ x.ngtcp2 = "open" => here
    /\ x.closed => x.ngtcp2 = "closed"
    /\ x.handle = "held" => here
    /\ here /\ HasToSend(x) /\ ~x.blocked => x.scheduled

\* The same of the write queue: a stream that is not there may still be in it.
Queued ==
    /\ NoDup(write_queue)
    /\ \A s \in Streams :
        /\ st[s].ngtcp2 = "none" => ~In(write_queue, s)
        /\ s \in streams => (st[s].scheduled <=> In(write_queue, s))

\* There is, or will be, a write pass that looks at the queue: at the latest, when the peer
\* grants more credit, or when something follows from what is in flight.
Looked ==
    write_queue # <<>> => \/ write_posted \/ reading \/ pass > 0
                          \/ ~credit
                          \/ inflight /\ (timer \/ mute)

\* The last of the streams that were opened are still to be accepted.
Accepting ==
    /\ accept => accept_queue = <<>>
    /\ NoDup(opened) /\ Len(accept_queue) <= Len(opened)
    /\ \A i \in 1 .. Len(accept_queue) :
        accept_queue[i] = opened[Len(opened) - Len(accept_queue) + i]
    /\ \A i \in 1 .. Len(opened) :
        /\ st[opened[i]].ngtcp2 # "none"
        /\ st[opened[i]].handle # "none" <=> i <= Len(opened) - Len(accept_queue)

\* The connection is open ...
Open ==
    /\ \A s \in Streams : StreamOK(st[s], s \in streams)
    /\ Queued /\ Looked /\ Accepting

\* ... or over.
Over == closed => ~accept /\ accept_queue = <<>> /\ write_queue = <<>>

\* The inductive invariant.
IInv == Types /\ closed_ec = closed /\ Over /\ (~closed => Open)

-----------------------------------------------------------------------------
(* Queues.                                                                 *)

\* A stream at the end of a queue that it was not in.
LEMMA AppendQueue ==
  ASSUME NEW S, NEW q \in Seq(S), NEW s \in S
  PROVE  /\ Append(q, s) \in Seq(S) /\ Append(q, s) # <<>>
         /\ \A t : In(Append(q, s), t) <=> In(q, t) \/ t = s
         /\ NoDup(q) /\ ~In(q, s) => NoDup(Append(q, s))
<1>1. /\ Append(q, s) \in Seq(S) /\ Append(q, s) # <<>> /\ Len(Append(q, s)) = Len(q) + 1
      /\ \A i \in 1 .. Len(q) + 1 : Append(q, s)[i] = IF i <= Len(q) THEN q[i] ELSE s
  OBVIOUS
<1>2. Len(q) \in Nat
  OBVIOUS
<1> DEFINE p == Append(q, s)
<1> HIDE DEF p
<1>3. \A t : In(p, t) <=> In(q, t) \/ t = s
  BY <1>1, <1>2 DEF In, p
<1>4. NoDup(q) /\ ~In(q, s) => NoDup(p)
  BY <1>1, <1>2 DEF In, NoDup, p
<1> QED BY <1>1, <1>3, <1>4 DEF p

\* The first of a queue leaves it.
LEMMA TailQueue ==
  ASSUME NEW S, NEW q \in Seq(S), q # <<>>
  PROVE  /\ Tail(q) \in Seq(S) /\ Head(q) \in S /\ In(q, Head(q))
         /\ NoDup(q) => NoDup(Tail(q)) /\ \A t : In(Tail(q), t) <=> In(q, t) /\ t # Head(q)
<1>1. /\ Tail(q) \in Seq(S) /\ Head(q) \in S /\ Len(q) \in Nat /\ Len(q) > 0
      /\ Len(Tail(q)) = Len(q) - 1 /\ Head(q) = q[1]
      /\ \A i \in 1 .. Len(q) - 1 : Tail(q)[i] = q[i + 1]
  OBVIOUS
<1> DEFINE p == Tail(q)
           h == Head(q)
<1> HIDE DEF p, h
<1>2. In(q, h)
  BY <1>1 DEF In, h
<1>3. NoDup(q) => NoDup(p)
  BY <1>1 DEF NoDup, p
<1>4. ASSUME NoDup(q), NEW t PROVE In(p, t) <=> In(q, t) /\ t # h
  <2>1. ASSUME In(p, t) PROVE In(q, t) /\ t # h
    BY <1>1, <1>4, <2>1 DEF In, NoDup, p, h
  <2>2. ASSUME In(q, t), t # h PROVE In(p, t)
    <3>1. PICK i \in 1 .. Len(q) : q[i] = t
      BY <2>2 DEF In
    <3>2. i # 1 /\ i - 1 \in 1 .. Len(q) - 1
      BY <1>1, <2>2, <3>1 DEF h
    <3> QED BY <1>1, <3>1, <3>2 DEF In, p
  <2> QED BY <2>1, <2>2
<1> QED BY <1>1, <1>2, <1>3, <1>4 DEF p, h

-----------------------------------------------------------------------------
(* Steps on one stream, while the connection is open.                      *)

\* Who waits for a stream, and which, is not changed by a step that gives none out.
LEMMA AcceptFrame ==
  ASSUME Types, Accepting, UNCHANGED <<remote, opened, accept_queue>>, accept' => accept,
         \A s \in remote : /\ st'[s].handle = "none" <=> st[s].handle = "none"
                           /\ st[s].ngtcp2 # "none" => st'[s].ngtcp2 # "none"
  PROVE  Accepting'
BY DEF Types, Accepting, NoDup

\* Stream s becomes y.
LEMMA StreamStep ==
  ASSUME Types, \A t \in Streams : StreamOK(st[t], t \in streams),
         NEW s \in Streams, NEW y \in Stream, st' = [st EXCEPT ![s] = y],
         streams' \in {streams, streams \cup {s}, streams \ {s}},
         StreamOK(y, s \in streams')
  PROVE  /\ \A t \in Streams : StreamOK(st'[t], t \in streams')
         /\ st' \in [Streams -> Stream] /\ streams' \subseteq Streams
<1>1. \A t \in Streams \ {s} : st'[t] = st[t] /\ (t \in streams' <=> t \in streams)
  BY DEF Types
<1>2. st'[s] = y
  BY DEF Types
<1>3. ASSUME NEW t \in Streams \ {s} PROVE StreamOK(st'[t], t \in streams')
  BY <1>1, <1>3 DEF StreamOK
<1>4. \A t \in Streams : StreamOK(st'[t], t \in streams')
  BY <1>2, <1>3
<1> QED BY <1>4 DEF Types

\* Stream s becomes y, which is as much in the write queue as before.
LEMMA QueueFrame ==
  ASSUME Types, Queued, NEW s \in Streams, NEW y \in Stream, st' = [st EXCEPT ![s] = y],
         streams' \in {streams, streams \cup {s}, streams \ {s}},
         UNCHANGED write_queue,
         y.ngtcp2 = "none" => st[s].ngtcp2 = "none",
         s \in streams' => (y.scheduled <=> In(write_queue, s))
  PROVE  Queued'
<1>1. \A t \in Streams \ {s} : st'[t] = st[t] /\ (t \in streams' <=> t \in streams)
  BY DEF Types
<1>2. st'[s] = y
  BY DEF Types
<1> QED BY <1>1, <1>2 DEF Queued, In, NoDup

\* What a step on stream s that has to do neither with writing nor with accepting may make
\* of it.
Changes(x, y, here) ==
    /\ y \in Stream /\ StreamOK(y, here)
    /\ y.ngtcp2 = "none" => x.ngtcp2 = "none"
    /\ y.scheduled = x.scheduled
    /\ y.handle = "none" <=> x.handle = "none"

\* Such a step preserves the invariant.
LEMMA ChangeKeeps ==
  ASSUME IInv, ~closed, NEW s \in Streams, NEW y, Changes(st[s], y, s \in streams'),
         st' = [st EXCEPT ![s] = y],
         streams' = streams \/ streams' = streams \ {s},
         write_posted => write_posted', inflight => inflight',
         UNCHANGED <<remote, closed, closed_ec, opened, accept_queue, accept, write_queue,
                     reading, pass, credit, timer, mute>>
  PROVE  IInv'
<1> USE DEF IInv, Open
<1>1. /\ \A t \in Streams : StreamOK(st'[t], t \in streams')
      /\ st' \in [Streams -> Stream] /\ streams' \subseteq Streams
  BY StreamStep DEF Changes
<1>2. Queued'
  BY QueueFrame DEF Changes, Queued
<1>3. Accepting'
  BY AcceptFrame DEF Changes, Types
<1>4. Looked' /\ Over'
  BY DEF Looked, Over
<1>5. Types'
  BY <1>1 DEF Types
<1> QED BY <1>1, <1>2, <1>3, <1>4, <1>5

\* schedule() of a stream that is there.
LEMMA ScheduleKeeps ==
  ASSUME IInv, ~closed, NEW s \in streams, NEW x \in Stream,
         x.ngtcp2 = st[s].ngtcp2, x.handle = st[s].handle, x.scheduled = st[s].scheduled,
         x.closed = st[s].closed, Schedule(s, x),
         UNCHANGED <<remote, streams, closed, closed_ec, opened, accept_queue, accept,
                     reading, pass, inflight, credit, timer, mute>>
  PROVE  IInv'
<1> USE DEF IInv, Open
<1>0. s \in Streams /\ StreamOK(st[s], TRUE)
  BY DEF Types
<1>1. CASE x.scheduled \/ x.blocked
  <2>1. st' = [st EXCEPT ![s] = x] /\ UNCHANGED <<write_queue, write_posted>>
    BY <1>1 DEF Schedule, writing
  <2>2. Changes(st[s], x, s \in streams')
    BY <1>0, <1>1 DEF Changes, StreamOK
  <2> QED BY <1>0, <2>1, <2>2, ChangeKeeps
<1>2. CASE ~x.scheduled /\ ~x.blocked
  <2> DEFINE y == [x EXCEPT !.scheduled = TRUE]
  <2>1. /\ st' = [st EXCEPT ![s] = y] /\ write_queue' = Append(write_queue, s)
        /\ write_posted'
    BY <1>2 DEF Schedule, WakeWrite
  <2>2. /\ y \in Stream /\ y.ngtcp2 = st[s].ngtcp2 /\ y.handle = st[s].handle
        /\ y.closed = st[s].closed /\ y.scheduled
    BY DEF Stream
  <2> HIDE DEF y
  <2>3. StreamOK(y, s \in streams')
    BY <1>0, <2>2 DEF StreamOK
  <2>4. /\ \A t \in Streams : StreamOK(st'[t], t \in streams')
        /\ st' \in [Streams -> Stream]
    BY <1>0, <2>1, <2>2, <2>3, StreamStep
  <2>5. ~In(write_queue, s)
    BY <1>0, <1>2 DEF Queued
  <2>6. write_queue' \in Seq(Streams) /\ NoDup(write_queue')
        /\ \A t : In(write_queue', t) <=> In(write_queue, t) \/ t = s
    BY <1>0, <2>1, <2>5, AppendQueue DEF Types, Queued
  <2>7. Queued'
    BY <1>0, <2>1, <2>2, <2>6 DEF Queued, StreamOK, Types
  <2>8. Accepting'
    BY <2>1, <2>2, AcceptFrame DEF Types
  <2>9. Types' /\ Over' /\ Looked'
    BY <2>1, <2>4, <2>6 DEF Types, Over, Looked
  <2> QED BY <2>4, <2>7, <2>8, <2>9
<1> QED BY <1>1, <1>2 DEF Stream

-----------------------------------------------------------------------------
(* The user of a stream.                                                   *)

\* A stream that somebody holds is there, as long as the connection is open.
LEMMA HeldIsThere ==
  ASSUME IInv, ~closed, NEW s \in Streams, st[s].handle = "held"
  PROVE  s \in streams
BY DEF IInv, Open, StreamOK

\* A write of data, or of the end of the body.
LEMMA WriteKeeps ==
  ASSUME IInv, ~closed, NEW s \in Streams, Write(s)
  PROVE  IInv'
<1>1. s \in streams
  BY HeldIsThere DEF Write, MayUse
<1>2. st[s] \in Stream
  BY DEF IInv, Types
<1>3. ASSUME NEW x \in Stream, Schedule(s, x), x.ngtcp2 = st[s].ngtcp2,
             x.handle = st[s].handle, x.scheduled = st[s].scheduled, x.closed = st[s].closed
      PROVE  IInv'
  BY <1>1, <1>3, ScheduleKeeps DEF Write, conn, accepting, engine
<1>4. LET x == [st[s] EXCEPT !.out = MaxOut]
      IN  x \in Stream /\ x.ngtcp2 = st[s].ngtcp2 /\ x.handle = st[s].handle
          /\ x.scheduled = st[s].scheduled /\ x.closed = st[s].closed
  BY <1>2, BoundsAssumption DEF Stream
<1>5. LET x == [st[s] EXCEPT !.tx = "ending"]
      IN  x \in Stream /\ x.ngtcp2 = st[s].ngtcp2 /\ x.handle = st[s].handle
          /\ x.scheduled = st[s].scheduled /\ x.closed = st[s].closed
  BY <1>2 DEF Stream
<1> QED BY <1>3, <1>4, <1>5 DEF Write

\* A read.
LEMMA ReadKeeps ==
  ASSUME IInv, ~closed, NEW s \in Streams, Read(s)
  PROVE  IInv'
<1> DEFINE y == [st[s] EXCEPT !.unread = FALSE]
<1>1. st[s] \in Stream /\ StreamOK(st[s], s \in streams)
  BY DEF IInv, Types, Open
<1>2. Changes(st[s], y, s \in streams)
  BY <1>1 DEF Changes, Stream, StreamOK, HasToSend
<1>3. /\ st' = [st EXCEPT ![s] = y] /\ write_posted'
      /\ UNCHANGED <<remote, streams, closed, closed_ec, opened, accept_queue, accept,
                     write_queue, reading, pass, inflight, credit, timer, mute>>
  BY <1>1 DEF Read, WakeWrite, conn, accepting, engine, IInv, Types
<1> HIDE DEF y
<1> QED BY <1>2, <1>3, ChangeKeeps

\* What is left of a stream that its user has released.
LEMMA ReleasedStream ==
  ASSUME NEW x \in Stream
  PROVE  LET y == [x EXCEPT !.handle = "gone", !.unread = FALSE,
                            !.rx = IF @ = "open" THEN "over" ELSE @,
                            !.tx = IF @ = "open" THEN "over" ELSE @,
                            !.out = IF x.tx = "open" THEN 0 ELSE @]
         IN  y \in Stream /\ y.ngtcp2 = x.ngtcp2 /\ y.scheduled = x.scheduled
             /\ y.handle = "gone" /\ y.closed = x.closed /\ y.blocked = x.blocked
             /\ (HasToSend(y) => HasToSend(x))
<1> DEFINE rx_ == IF x.rx = "open" THEN "over" ELSE x.rx
           tx_ == IF x.tx = "open" THEN "over" ELSE x.tx
           out_ == IF x.tx = "open" THEN 0 ELSE x.out
           y == [x EXCEPT !.handle = "gone", !.unread = FALSE, !.rx = rx_, !.tx = tx_,
                          !.out = out_]
<1>1. /\ rx_ \in {"open", "over"} /\ tx_ \in {"open", "ending", "over"} /\ out_ \in 0 .. MaxOut
      /\ (out_ > 0 \/ tx_ = "ending" => HasToSend(x))
  BY BoundsAssumption DEF Stream, HasToSend
<1> HIDE DEF rx_, tx_, out_
<1>2. y \in Stream /\ y.ngtcp2 = x.ngtcp2 /\ y.scheduled = x.scheduled
      /\ y.handle = "gone" /\ y.closed = x.closed /\ y.blocked = x.blocked
      /\ (HasToSend(y) => HasToSend(x))
  BY <1>1 DEF Stream, HasToSend
<1> QED BY <1>2 DEF rx_, tx_, out_

\* Both handles are released.
LEMMA ReleaseKeeps ==
  ASSUME IInv, ~closed, NEW s \in Streams, Release(s)
  PROVE  IInv'
<1> DEFINE y == [st[s] EXCEPT !.handle = "gone", !.unread = FALSE,
                              !.rx = IF @ = "open" THEN "over" ELSE @,
                              !.tx = IF @ = "open" THEN "over" ELSE @,
                              !.out = IF st[s].tx = "open" THEN 0 ELSE @]
<1>1. st[s] \in Stream /\ StreamOK(st[s], s \in streams) /\ st[s].handle = "held"
  BY DEF IInv, Types, Open, Release, MayUse
<1>2. /\ st' = [st EXCEPT ![s] = y] /\ MaybeClose(s, y)
      /\ (write_posted => write_posted') /\ (inflight => inflight')
      /\ UNCHANGED <<remote, closed, closed_ec, opened, accept_queue, accept,
                     write_queue, reading, pass, credit, timer, mute>>
  BY DEF Release, conn, accepting
<1>3. streams' = streams \/ (streams' = streams \ {s} /\ y.closed)
  BY <1>2 DEF MaybeClose
<1>4. y \in Stream /\ y.ngtcp2 = st[s].ngtcp2 /\ y.scheduled = st[s].scheduled
      /\ y.handle = "gone" /\ y.closed = st[s].closed /\ y.blocked = st[s].blocked
      /\ (HasToSend(y) => HasToSend(st[s]))
  BY <1>1, ReleasedStream
<1> HIDE DEF y
<1>5. Changes(st[s], y, s \in streams')
  BY <1>1, <1>3, <1>4 DEF Changes, StreamOK
<1> QED BY <1>2, <1>3, <1>5, ChangeKeeps

\* open_stream().
LEMMA OpenStreamKeeps ==
  ASSUME IInv, ~closed, NEW s \in Streams, OpenStream(s)
  PROVE  IInv'
<1> USE DEF IInv, Open
<1> DEFINE y == [st[s] EXCEPT !.ngtcp2 = "open", !.handle = "held"]
<1>1. st[s] \in Stream /\ StreamOK(st[s], s \in streams) /\ st[s].ngtcp2 = "none"
  BY DEF Types, OpenStream
<1>2. /\ st' = [st EXCEPT ![s] = y] /\ streams' = streams \cup {s} /\ s \notin remote
      /\ UNCHANGED <<remote, closed, closed_ec, opened, accept_queue, accept,
                     write_queue, write_posted, reading, pass, inflight, credit, timer, mute>>
  BY <1>1 DEF OpenStream, conn, accepting, writing, engine, Types
<1>3. y \in Stream /\ y.ngtcp2 = "open" /\ y.handle = "held" /\ ~y.scheduled /\ ~y.closed
      /\ ~HasToSend(y)
  BY <1>1 DEF Stream, HasToSend, StreamOK
<1> HIDE DEF y
<1>4. /\ \A t \in Streams : StreamOK(st'[t], t \in streams')
      /\ st' \in [Streams -> Stream] /\ streams' \subseteq Streams
  BY <1>2, <1>3, StreamStep DEF StreamOK
<1>5. Queued'
  BY <1>1, <1>2, <1>3, QueueFrame DEF Queued
<1>6. Accepting'
  BY <1>2, AcceptFrame DEF Types
<1>7. Types' /\ Over' /\ Looked'
  BY <1>2, <1>4 DEF Types, Over, Looked
<1> QED BY <1>2, <1>4, <1>5, <1>6, <1>7

-----------------------------------------------------------------------------
(* What ngtcp2 reports.                                                    *)

\* A callback about stream s that has become x, which is as much scheduled and held as before,
\* and has nothing more to send.
LEMMA ReportKeeps ==
  ASSUME IInv, NEW s \in Streams, NEW x \in Stream, NEW answer \in BOOLEAN, Known(s),
         x.handle = st[s].handle, x.closed = st[s].closed, x.scheduled = st[s].scheduled,
         x.blocked = st[s].blocked, HasToSend(x) => HasToSend(st[s]),
         Report(s, x, answer)
  PROVE  IInv'
<1> USE DEF IInv, Open
<1> DEFINE y == [x EXCEPT !.ngtcp2 = "open"]
<1>1. /\ ~closed /\ OpenRemoteStream(s, y) /\ (inflight => inflight')
      /\ UNCHANGED <<remote, closed, closed_ec, write_queue, write_posted, reading, pass, credit,
                     timer, mute>>
  BY DEF Report, conn, writing
<1>2. st[s] \in Stream /\ StreamOK(st[s], s \in streams)
  BY <1>1 DEF Types
<1>3. /\ y \in Stream /\ y.ngtcp2 = "open" /\ y.handle = x.handle /\ y.closed = x.closed
      /\ y.scheduled = x.scheduled /\ y.blocked = x.blocked /\ HasToSend(y) = HasToSend(x)
  BY DEF Stream, HasToSend
<1> HIDE DEF y
<1>4. st[s].ngtcp2 # "closed" /\ ~st[s].closed
  BY <1>2 DEF Known, StreamOK
<1>5. CASE s \in streams
  <2>1. /\ st' = [st EXCEPT ![s] = y]
        /\ UNCHANGED <<streams, opened, accept_queue, accept>>
    BY <1>1, <1>5 DEF OpenRemoteStream, accepting
  <2>2. Changes(st[s], y, s \in streams')
    BY <1>2, <1>3, <1>4, <1>5, <2>1 DEF Changes, StreamOK
  <2> QED BY <1>1, <2>1, <2>2, ChangeKeeps
<1>6. CASE s \notin streams
  <2>1. st[s].ngtcp2 = "none" /\ s \in remote /\ st[s].handle = "none" /\ ~st[s].scheduled
        /\ ~HasToSend(st[s])
    BY <1>2, <1>6 DEF Known, StreamOK
  <2> DEFINE z == IF accept THEN [y EXCEPT !.handle = "held"] ELSE y
  <2>2. /\ z \in Stream /\ z.ngtcp2 = "open" /\ ~z.closed /\ ~z.scheduled /\ ~HasToSend(z)
        /\ z.handle = IF accept THEN "held" ELSE "none"
    BY <1>3, <1>4, <2>1 DEF Stream, HasToSend
  <2>3. /\ streams' = streams \cup {s} /\ opened' = Append(opened, s) /\ accept' = FALSE
        /\ st' = [st EXCEPT ![s] = z]
        /\ accept_queue' = IF accept THEN <<>> ELSE Append(accept_queue, s)
    <3>1. CASE accept
      <4>1. accept_queue = <<>>
        BY <1>1, <3>1 DEF Accepting
      <4>2. Append(accept_queue, s) = <<s>> /\ Head(<<s>>) = s /\ Tail(<<s>>) = <<>>
        BY <4>1
      <4>3. /\ streams' = streams \cup {s} /\ opened' = Append(opened, s) /\ accept' = FALSE
            /\ st' = [st EXCEPT ![s] = y, ![s].handle = "held"] /\ accept_queue' = <<>>
        BY <1>1, <1>6, <2>1, <3>1, <4>2 DEF OpenRemoteStream
      <4> QED BY <3>1, <4>3 DEF Types
    <3>2. CASE ~accept
      BY <1>1, <1>6, <2>1, <3>2 DEF OpenRemoteStream
    <3> QED BY <3>1, <3>2
  <2> HIDE DEF z
  <2>4. /\ \A t \in Streams : StreamOK(st'[t], t \in streams')
        /\ st' \in [Streams -> Stream] /\ streams' \subseteq Streams
    <3>1. StreamOK(z, s \in streams')
      BY <2>2, <2>3 DEF StreamOK
    <3> QED BY <1>1, <2>2, <2>3, <3>1, StreamStep
  <2>5. Queued'
    BY <1>1, <2>1, <2>2, <2>3, QueueFrame DEF Queued
  <2>6. opened' \in Seq(remote) /\ accept_queue' \in Seq(remote)
    BY <2>1, <2>3 DEF Types
  <2>7. Accepting'
    <3>1. ~In(opened, s)
      BY <1>1, <2>1 DEF Accepting, In
    <3>2. NoDup(opened')
      BY <1>1, <2>1, <2>3, <3>1, AppendQueue DEF Accepting, Types
    <3>3. /\ Len(opened) \in Nat /\ Len(accept_queue) \in Nat
          /\ Len(opened') = Len(opened) + 1 /\ opened'[Len(opened) + 1] = s
          /\ \A i \in 1 .. Len(opened) : opened'[i] = opened[i] /\ opened[i] \in remote
                                         /\ opened[i] # s
      BY <2>3, <3>1 DEF Types, In
    <3>4. \A i \in 1 .. Len(opened) : st'[opened'[i]] = st[opened[i]]
      BY <2>3, <3>3 DEF Types
    <3>5. st'[s] = z
      BY <2>3 DEF Types
    <3>6. CASE accept
      <4>1. accept_queue = <<>> /\ accept_queue' = <<>> /\ Len(accept_queue) = 0
        BY <1>1, <2>3, <3>6 DEF Accepting
      <4> QED BY <1>1, <2>2, <2>3, <3>2, <3>3, <3>4, <3>5, <3>6, <4>1 DEF Accepting
    <3>7. CASE ~accept
      <4>1. /\ Len(accept_queue') = Len(accept_queue) + 1
            /\ accept_queue'[Len(accept_queue) + 1] = s
            /\ \A i \in 1 .. Len(accept_queue) : accept_queue'[i] = accept_queue[i]
        BY <2>3, <3>7 DEF Types
      <4> DEFINE n == Len(opened)
                 m == Len(accept_queue)
      <4>2. /\ n \in Nat /\ m \in Nat /\ m <= n
            /\ \A i \in 1 .. m : accept_queue[i] = opened[n - m + i]
            /\ \A i \in 1 .. n : /\ st[opened[i]].ngtcp2 # "none"
                                 /\ st[opened[i]].handle # "none" <=> i <= n - m
        BY <1>1, <3>3 DEF Accepting
      <4>3. /\ Len(opened') = n + 1 /\ opened'[n + 1] = s /\ Len(accept_queue') = m + 1
            /\ accept_queue'[m + 1] = s /\ \A i \in 1 .. n : opened'[i] = opened[i]
            /\ \A i \in 1 .. m : accept_queue'[i] = accept_queue[i]
        BY <3>3, <4>1
      <4> HIDE DEF n, m
      <4>4. ASSUME NEW i \in 1 .. Len(accept_queue')
            PROVE  accept_queue'[i] = opened'[Len(opened') - Len(accept_queue') + i]
        <5>1. CASE i = m + 1
          <6>1. Len(opened') - Len(accept_queue') + i = n + 1
            BY <4>2, <4>3, <5>1
          <6> QED BY <4>3, <5>1, <6>1
        <5>2. CASE i \in 1 .. m
          <6>1. Len(opened') - Len(accept_queue') + i = n - m + i /\ n - m + i \in 1 .. n
            BY <4>2, <4>3, <5>2
          <6> QED BY <4>2, <4>3, <5>2, <6>1
        <5> QED BY <4>2, <4>3, <5>1, <5>2
      <4>5. ASSUME NEW i \in 1 .. Len(opened')
            PROVE  /\ st'[opened'[i]].ngtcp2 # "none"
                   /\ st'[opened'[i]].handle # "none" <=> i <= Len(opened') - Len(accept_queue')
        <5>1. CASE i = n + 1
          BY <2>2, <3>5, <3>7, <4>2, <4>3, <5>1
        <5>2. CASE i \in 1 .. n
          <6>1. st'[opened'[i]] = st[opened[i]]
            BY <3>4, <5>2 DEF n
          <6> QED BY <4>2, <4>3, <5>2, <6>1
        <5> QED BY <4>2, <4>3, <5>1, <5>2
      <4>6. Len(accept_queue') <= Len(opened')
        BY <4>2, <4>3
      <4> QED BY <2>3, <3>2, <4>4, <4>5, <4>6 DEF Accepting
    <3> QED BY <3>6, <3>7
  <2>8. Types' /\ Over' /\ Looked'
    BY <1>1, <2>3, <2>4, <2>6 DEF Types, Over, Looked
  <2> QED BY <1>1, <2>4, <2>5, <2>7, <2>8
<1> QED BY <1>5, <1>6

\* What the callbacks about a stream may make of it.
Reports(x) ==
    {[x EXCEPT !.unread = TRUE], [x EXCEPT !.unread = TRUE, !.rx = "over"], x,
     [x EXCEPT !.rx = "over", !.unread = FALSE],
     [x EXCEPT !.tx = "over", !.out = 0]}

Reported(x, y) ==
    /\ y \in Stream
    /\ y.handle = x.handle /\ y.closed = x.closed /\ y.scheduled = x.scheduled
    /\ y.blocked = x.blocked /\ (HasToSend(y) => HasToSend(x))

\* That has to do neither with the queues nor with who holds the stream.
LEMMA ReportedStream ==
  ASSUME NEW x \in Stream, NEW y \in Reports(x)
  PROVE  Reported(x, y)
<1> DEFINE P(z) == Reported(x, z)
<1>1. P([x EXCEPT !.unread = TRUE]) /\ P([x EXCEPT !.unread = TRUE, !.rx = "over"]) /\ P(x)
  BY DEF Stream, HasToSend, Reported
<1>2. P([x EXCEPT !.rx = "over", !.unread = FALSE])
  BY DEF Stream, HasToSend, Reported
<1>3. P([x EXCEPT !.tx = "over", !.out = 0])
  <2>1. ASSUME NEW out \in 0 .. MaxOut, ~(out > 0) PROVE P([x EXCEPT !.tx = "over", !.out = out])
    BY <2>1 DEF Stream, HasToSend, Reported
  <2>2. 0 \in 0 .. MaxOut /\ ~(0 > 0)
    BY BoundsAssumption
  <2> HIDE DEF P
  <2> QED BY <2>1, <2>2
<1> QED BY <1>1, <1>2, <1>3 DEF Reports

\* The callbacks that may be the first about a stream of the peer.
LEMMA ReportsKeep ==
  ASSUME IInv, NEW s \in Streams, RecvStreamData(s) \/ StreamReset(s) \/ RecvStopSending(s)
  PROVE  IInv'
<1> DEFINE x == st[s]
<1>1. x \in Stream
  BY DEF IInv, Types
<1>2. PICK y \in Reports(x), answer \in BOOLEAN : Report(s, y, answer)
  BY DEF RecvStreamData, StreamReset, RecvStopSending, Reports
<1>3. Known(s)
  BY DEF RecvStreamData, StreamReset, RecvStopSending
<1> HIDE DEF x
<1>4. Reported(x, y)
  BY <1>1, ReportedStream
<1>5. /\ y \in Stream
      /\ y.handle = x.handle /\ y.closed = x.closed /\ y.scheduled = x.scheduled
      /\ y.blocked = x.blocked /\ (HasToSend(y) => HasToSend(x))
  BY <1>4 DEF Reported
<1> QED BY <1>2, <1>3, <1>5, ReportKeeps DEF x

\* A stream that is over.
LEMMA StreamCloseKeeps ==
  ASSUME IInv, NEW s \in Streams, StreamClose(s)
  PROVE  IInv'
<1> DEFINE y == [Fail(st[s]) EXCEPT !.ngtcp2 = "closed"]
<1>1. /\ ~closed /\ st' = [st EXCEPT ![s] = y] /\ MaybeClose(s, y) /\ st[s].ngtcp2 = "open"
      /\ UNCHANGED <<remote, closed, closed_ec, opened, accept_queue, accept, write_queue,
                     write_posted, reading, pass, inflight, credit, timer, mute>>
  BY DEF StreamClose, conn, accepting, writing, engine
<1>2. st[s] \in Stream /\ StreamOK(st[s], s \in streams)
  BY <1>1 DEF IInv, Open, Types
<1>3. /\ y \in Stream /\ y.ngtcp2 = "closed" /\ y.scheduled = st[s].scheduled
      /\ y.handle = st[s].handle /\ ~HasToSend(y)
  <2> DEFINE P(z) == /\ z \in Stream /\ z.ngtcp2 = "closed" /\ z.scheduled = st[s].scheduled
                     /\ z.handle = st[s].handle /\ ~HasToSend(z)
  <2>1. ASSUME NEW out \in 0 .. MaxOut, ~(out > 0)
        PROVE  P([[st[s] EXCEPT !.closed = TRUE, !.out = out, !.rx = "over", !.tx = "over",
                                !.blocked = FALSE] EXCEPT !.ngtcp2 = "closed"])
    BY <1>2, <2>1 DEF Stream, HasToSend
  <2>2. 0 \in 0 .. MaxOut /\ ~(0 > 0)
    BY BoundsAssumption
  <2> HIDE DEF P
  <2>3. P(y)
    BY <2>1, <2>2 DEF Fail
  <2> QED BY <2>3 DEF P
<1> HIDE DEF y
<1>4. streams' = streams \/ (streams' = streams \ {s} /\ y.handle # "held")
  BY <1>1 DEF MaybeClose
<1>5. Changes(st[s], y, s \in streams')
  BY <1>1, <1>2, <1>3, <1>4 DEF Changes, StreamOK
<1> QED BY <1>1, <1>4, <1>5, ChangeKeeps

\* A stream that gets credit.
LEMMA ExtendKeeps ==
  ASSUME IInv, NEW s \in Streams, ExtendMaxStreamData(s)
  PROVE  IInv'
<1> DEFINE x == [st[s] EXCEPT !.blocked = FALSE]
<1>1. /\ ~closed /\ s \in streams /\ Schedule(s, x)
      /\ UNCHANGED <<remote, streams, closed, closed_ec, opened, accept_queue, accept, reading,
                     pass, inflight, credit, timer, mute>>
  BY DEF ExtendMaxStreamData, conn, accepting, engine
<1>2. /\ x \in Stream /\ x.ngtcp2 = st[s].ngtcp2 /\ x.handle = st[s].handle
      /\ x.scheduled = st[s].scheduled /\ x.closed = st[s].closed
  <2>1. st[s] \in Stream
    BY DEF IInv, Types
  <2> QED BY <2>1 DEF Stream
<1> HIDE DEF x
<1> QED BY <1>1, <1>2, ScheduleKeeps

-----------------------------------------------------------------------------
(* Writing.                                                                *)

\* The front of the write queue becomes y, which leaves the queue.
LEMMA FrontLeaves ==
  ASSUME IInv, ~closed, pass > 0, write_queue # <<>>, NEW y \in Stream,
         st' = [st EXCEPT ![Head(write_queue)] = y], write_queue' = Tail(write_queue),
         StreamOK(y, Head(write_queue) \in streams),
         y.ngtcp2 = st[Head(write_queue)].ngtcp2, y.handle = st[Head(write_queue)].handle,
         Head(write_queue) \in streams => ~y.scheduled,
         UNCHANGED <<remote, streams, closed, closed_ec, opened, accept_queue, accept,
                     write_posted, reading, pass, inflight, credit, timer, mute>>
  PROVE  IInv'
<1> USE DEF IInv, Open
<1> DEFINE s == Head(write_queue)
<1>1. /\ s \in Streams /\ write_queue' \in Seq(Streams) /\ NoDup(write_queue')
      /\ \A t : In(write_queue', t) <=> In(write_queue, t) /\ t # s
  BY TailQueue DEF Types, Queued
<1> HIDE DEF s
<1>2. st' = [st EXCEPT ![s] = y] /\ StreamOK(y, s \in streams) /\ (s \in streams => ~y.scheduled)
      /\ y.ngtcp2 = st[s].ngtcp2 /\ y.handle = st[s].handle
  BY DEF s
<1>3. /\ \A t \in Streams : StreamOK(st'[t], t \in streams')
      /\ st' \in [Streams -> Stream]
  BY <1>1, <1>2, StreamStep
<1>4. Queued'
  BY <1>1, <1>2 DEF Queued, Types
<1>5. Accepting'
  BY <1>2, AcceptFrame DEF Types
<1>6. Types' /\ Over' /\ Looked'
  BY <1>1, <1>3 DEF Types, Over, Looked
<1> QED BY <1>3, <1>4, <1>5, <1>6

\* next_stream_data() and on_stream_blocked().
LEMMA DropKeeps ==
  ASSUME IInv, ~closed, DropFront \/ \E s \in Streams : OnStreamBlocked(s)
  PROVE  IInv'
<1> DEFINE s == Head(write_queue)
<1>1. pass > 0 /\ write_queue # <<>>
  BY DEF DropFront, OnStreamBlocked, Offered
<1>2. s \in Streams
  BY <1>1, TailQueue DEF IInv, Types
<1>3. st[s] \in Stream /\ StreamOK(st[s], s \in streams)
  BY <1>2 DEF IInv, Types, Open
<1>4. CASE DropFront
  <2> DEFINE y == [st[s] EXCEPT !.scheduled = (@ /\ s \notin streams)]
  <2>1. /\ st' = [st EXCEPT ![s] = y] /\ write_queue' = Tail(write_queue)
        /\ s \notin streams \/ st[s].blocked \/ ~HasToSend(st[s])
        /\ UNCHANGED <<remote, streams, closed, closed_ec, opened, accept_queue, accept,
                       write_posted, reading, pass, inflight, credit, timer, mute>>
    BY <1>2, <1>4 DEF DropFront, conn, accepting, engine, IInv, Types
  <2> HIDE DEF s
  <2>2. /\ y \in Stream /\ y.ngtcp2 = st[s].ngtcp2 /\ y.handle = st[s].handle
        /\ y.closed = st[s].closed /\ y.blocked = st[s].blocked
        /\ (s \in streams => ~y.scheduled) /\ (y.scheduled => st[s].scheduled)
        /\ HasToSend(y) = HasToSend(st[s])
    BY <1>3 DEF Stream, HasToSend
  <2> HIDE DEF y
  <2>3. StreamOK(y, s \in streams)
    BY <1>3, <2>1, <2>2 DEF StreamOK
  <2> QED BY <1>1, <2>1, <2>2, <2>3, FrontLeaves DEF s
<1>5. CASE OnStreamBlocked(s)
  <2> DEFINE y == [st[s] EXCEPT !.blocked = TRUE, !.scheduled = FALSE]
  <2>1. /\ st' = [st EXCEPT ![s] = y] /\ write_queue' = Tail(write_queue)
        /\ UNCHANGED <<remote, streams, closed, closed_ec, opened, accept_queue, accept,
                       write_posted, reading, pass, inflight, credit, timer, mute>>
    BY <1>1, <1>2, <1>5
       DEF OnStreamBlocked, UnscheduleFront, conn, accepting, engine, IInv, Types
  <2> HIDE DEF s
  <2>2. /\ y \in Stream /\ y.ngtcp2 = st[s].ngtcp2 /\ y.handle = st[s].handle
        /\ y.closed = st[s].closed /\ y.blocked /\ ~y.scheduled
        /\ HasToSend(y) = HasToSend(st[s])
    BY <1>3 DEF Stream, HasToSend
  <2> HIDE DEF y
  <2>3. StreamOK(y, s \in streams)
    BY <1>3, <2>2 DEF StreamOK
  <2> QED BY <1>1, <2>1, <2>2, <2>3, FrontLeaves DEF s
<1> QED BY <1>4, <1>5 DEF OnStreamBlocked, Offered

\* A pass that ends leaves a timer, or is known to have left none.
LEMMA ArmedOrMute == FlushEnds => timer' \/ mute'
<1>1. ASSUME mute' = ~timer, UNCHANGED timer PROVE timer' \/ mute'
  BY <1>1, Zenon
<1> QED BY <1>1 DEF FlushEnds

\* The stream that write_pkt() has offered goes to the end of the queue.
LEMMA WritePktKeeps ==
  ASSUME IInv, ~closed, NEW s \in Streams, WritePkt(s)
  PROVE  IInv'
<1> USE DEF IInv, Open
<1> DEFINE x == IF st[s].out > 0
                THEN [st[s] EXCEPT !.out = @ - 1,
                                   !.tx = IF st[s].out = 1 /\ @ = "ending" THEN "over" ELSE @]
                ELSE [st[s] EXCEPT !.tx = "over"]
           y == [x EXCEPT !.scheduled = TRUE]
           q == Tail(write_queue)
<1>1. /\ write_queue # <<>> /\ s = Head(write_queue) /\ s \in streams
      /\ st' = [st EXCEPT ![s] = y] /\ write_queue' = Append(q, s)
      /\ pass > 0 /\ pass' \in {pass, pass - 1} /\ inflight' = TRUE
      /\ (pass' = 0 => FlushEnds)
      /\ UNCHANGED <<remote, streams, closed, closed_ec, opened, accept_queue, accept>>
  BY DEF WritePkt, Offered, OnStreamDataWritten, UnscheduleFront, conn, accepting
<1>2. st[s] \in Stream /\ StreamOK(st[s], TRUE)
  BY <1>1 DEF Types
<1>3. /\ x \in Stream /\ x.ngtcp2 = st[s].ngtcp2 /\ x.handle = st[s].handle
      /\ x.closed = st[s].closed
  <2>1. CASE st[s].out > 0
    <3> DEFINE tx_ == IF st[s].out = 1 /\ st[s].tx = "ending" THEN "over" ELSE st[s].tx
    <3>1. st[s].out - 1 \in 0 .. MaxOut /\ tx_ \in {"open", "ending", "over"}
      BY <1>2, <2>1, BoundsAssumption DEF Stream
    <3>2. x = [st[s] EXCEPT !.out = st[s].out - 1, !.tx = tx_]
      BY <2>1
    <3> HIDE DEF tx_, x
    <3> QED BY <1>2, <3>1, <3>2 DEF Stream
  <2>2. CASE ~(st[s].out > 0)
    BY <1>2, <2>2 DEF Stream
  <2> QED BY <2>1, <2>2
<1> HIDE DEF x
<1>4. /\ y \in Stream /\ y.ngtcp2 = st[s].ngtcp2 /\ y.handle = st[s].handle
      /\ y.closed = st[s].closed /\ y.scheduled
  BY <1>3 DEF Stream
<1> HIDE DEF y
<1>5. /\ \A t \in Streams : StreamOK(st'[t], t \in streams')
      /\ st' \in [Streams -> Stream]
  <2>1. StreamOK(y, s \in streams')
    BY <1>1, <1>2, <1>4 DEF StreamOK
  <2> QED BY <1>1, <1>4, <2>1, StreamStep
<1>6. q \in Seq(Streams) /\ NoDup(q) /\ \A t : In(q, t) <=> In(write_queue, t) /\ t # s
  BY <1>1, TailQueue DEF Types, Queued
<1> HIDE DEF q
<1>7. /\ write_queue' \in Seq(Streams) /\ NoDup(write_queue')
      /\ \A t : In(write_queue', t) <=> In(q, t) \/ t = s
  BY <1>1, <1>6, AppendQueue
<1>8. Queued'
  BY <1>1, <1>2, <1>4, <1>6, <1>7 DEF Queued, StreamOK, Types
<1>9. Accepting'
  BY <1>1, <1>4, AcceptFrame DEF Types
<1>10. pass' \in Nat /\ (pass' > 0 \/ (inflight' /\ (timer' \/ mute')))
  <2>1. pass \in Nat
    BY DEF Types
  <2>2. pass' \in Nat
    BY <1>1, <2>1
  <2>3. pass' = 0 => inflight' /\ (timer' \/ mute')
    BY <1>1, ArmedOrMute
  <2> QED BY <2>2, <2>3
<1>11. Types' /\ Over' /\ Looked'
  BY <1>1, <1>5, <1>7, <1>10 DEF Types, Over, Looked
<1> QED BY <1>1, <1>5, <1>8, <1>9, <1>11

-----------------------------------------------------------------------------
(* Accepting.                                                              *)

\* async_accept_stream() takes the first of the queue: the next of those that were opened.
LEMMA AcceptKeeps ==
  ASSUME IInv, ~closed, AcceptStream
  PROVE  IInv'
<1> USE DEF IInv, Open
<1>1. CASE accept_queue = <<>>
  <2>1. UNCHANGED <<remote, closed, closed_ec, streams, st, opened, accept_queue, write_queue,
                    write_posted, reading, pass, inflight, credit, timer, mute>> /\ accept' = TRUE
    BY <1>1 DEF AcceptStream, conn, writing, engine
  <2>2. Accepting'
    BY <1>1, <2>1 DEF Accepting, NoDup
  <2>3. Types' /\ Over' /\ Looked' /\ Queued'
    BY <2>1 DEF Types, Over, Looked, Queued, NoDup, In
  <2> QED BY <2>1, <2>2, <2>3
<1>2. CASE accept_queue # <<>>
  <2> DEFINE s == Head(accept_queue)
             y == [st[s] EXCEPT !.handle = IF s \in streams THEN "held" ELSE "detached"]
             n == Len(opened)
             m == Len(accept_queue)
  <2>1. /\ st' = [st EXCEPT ![s] = y] /\ accept_queue' = Tail(accept_queue) /\ ~accept
        /\ UNCHANGED <<remote, closed, closed_ec, streams, opened, accept, write_queue,
                       write_posted, reading, pass, inflight, credit, timer, mute>>
    BY <1>2 DEF AcceptStream, conn, writing, engine
  <2>2. /\ m \in Nat /\ m > 0 /\ n \in Nat /\ m <= n /\ s = accept_queue[1] /\ s \in remote
        /\ s = opened[n - m + 1] /\ n - m + 1 \in 1 .. n
    <3>1. m \in Nat /\ m > 0 /\ n \in Nat /\ s = accept_queue[1] /\ s \in remote
      BY <1>2 DEF Types
    <3>2. m <= n /\ accept_queue[1] = opened[n - m + 1]
      BY <3>1 DEF Accepting
    <3> QED BY <3>1, <3>2
  <2>3. /\ Len(accept_queue') = m - 1 /\ accept_queue' \in Seq(remote)
        /\ \A i \in 1 .. m - 1 : accept_queue'[i] = accept_queue[i + 1]
    BY <1>2, <2>1 DEF Types
  <2>4. /\ \A i \in 1 .. m : accept_queue[i] = opened[n - m + i]
        /\ \A i \in 1 .. n : /\ st[opened[i]].ngtcp2 # "none" /\ opened[i] \in Streams
                             /\ st[opened[i]].handle # "none" <=> i <= n - m
        /\ NoDup(opened)
    BY DEF Accepting, Types
  <2> HIDE DEF s, n, m
  <2>5. s \in Streams /\ st[s] \in Stream /\ StreamOK(st[s], s \in streams)
        /\ st[s].ngtcp2 # "none"
    BY <2>2, <2>4 DEF Types
  <2>6. /\ y \in Stream /\ y.ngtcp2 = st[s].ngtcp2 /\ y.closed = st[s].closed
        /\ y.scheduled = st[s].scheduled /\ y.blocked = st[s].blocked
        /\ HasToSend(y) = HasToSend(st[s]) /\ y.handle # "none"
        /\ (y.handle = "held" => s \in streams)
    BY <2>5 DEF Stream, HasToSend
  <2> HIDE DEF y
  <2>7. StreamOK(y, s \in streams')
    BY <2>1, <2>5, <2>6 DEF StreamOK
  <2>8. /\ \A t \in Streams : StreamOK(st'[t], t \in streams')
        /\ st' \in [Streams -> Stream]
    BY <2>1, <2>5, <2>6, <2>7, StreamStep
  <2>9. Queued'
    BY <2>1, <2>5, <2>6, QueueFrame DEF Queued
  <2>10. Accepting'
    <3>1. ASSUME NEW i \in 1 .. m - 1
          PROVE  accept_queue'[i] = opened[n - (m - 1) + i]
      <4>1. i + 1 \in 1 .. m /\ n - m + (i + 1) = n - (m - 1) + i
        BY <2>2
      <4> QED BY <2>3, <2>4, <4>1
    <3>2. ASSUME NEW i \in 1 .. n
          PROVE  /\ st'[opened[i]].ngtcp2 # "none"
                 /\ st'[opened[i]].handle # "none" <=> i <= n - (m - 1)
      <4>1. CASE i = n - m + 1
        BY <2>1, <2>2, <2>4, <2>5, <2>6, <4>1 DEF Types
      <4>2. CASE i # n - m + 1
        <5>1. opened[i] # s
          BY <2>2, <2>4, <4>2 DEF NoDup, n
        <5>2. st'[opened[i]] = st[opened[i]]
          BY <2>1, <2>4, <5>1 DEF Types
        <5>3. i <= n - (m - 1) <=> i <= n - m
          BY <2>2, <4>2
        <5> QED BY <2>4, <5>2, <5>3
      <4> QED BY <4>1, <4>2
    <3>3. n - (m - 1) = Len(opened') - Len(accept_queue') /\ Len(opened') = n
          /\ Len(accept_queue') <= Len(opened')
      <4>1. Len(opened') = n
        BY <2>1 DEF n
      <4>2. Len(accept_queue') = m - 1
        BY <2>1, <2>3
      <4> HIDE DEF m, n
      <4> QED BY <2>2, <4>1, <4>2
    <3>4. accept' => accept_queue' = <<>>
      BY <2>1
    <3>5. NoDup(opened)'
      BY <2>1, <2>4 DEF NoDup
    <3>6. Len(accept_queue') = m - 1 /\ opened' = opened
      BY <2>1, <2>3
    <3> QED BY <3>1, <3>2, <3>3, <3>4, <3>5, <3>6 DEF Accepting
  <2>11. Types' /\ Over' /\ Looked'
    BY <2>1, <2>3, <2>8 DEF Types, Over, Looked
  <2> QED BY <2>1, <2>8, <2>9, <2>10, <2>11
<1> QED BY <1>1, <1>2

-----------------------------------------------------------------------------
(* The connection.                                                         *)

\* What fail_streams() leaves of a stream.
LEMMA FailType ==
  ASSUME NEW x \in Stream
  PROVE  Fail(x) \in Stream /\ [Fail(x) EXCEPT !.handle = "detached"] \in Stream
<1>1. ASSUME NEW out \in 0 .. MaxOut
      PROVE  [x EXCEPT !.closed = TRUE, !.out = out, !.rx = "over", !.tx = "over",
                       !.blocked = FALSE] \in Stream
  BY DEF Stream
<1>2. 0 \in 0 .. MaxOut
  BY BoundsAssumption
<1>3. Fail(x) \in Stream
  BY <1>1, <1>2 DEF Fail
<1>4. \A y \in Stream : [y EXCEPT !.handle = "detached"] \in Stream
  BY DEF Stream
<1> QED BY <1>3, <1>4

\* When the connection ends, on_closed() empties both queues.
LEMMA EndKeeps ==
  ASSUME IInv, HandleError \/ (ClearStreams /\ closed' = TRUE), UNCHANGED remote, pass' \in Nat
  PROVE  IInv'
<1>1. st' \in [Streams -> Stream] /\ streams' \subseteq Streams
  <2>1. \A s \in Streams : /\ st[s] \in Stream /\ Fail(st[s]) \in Stream
                            /\ [Fail(st[s]) EXCEPT !.handle = "detached"] \in Stream
    BY FailType DEF IInv, Types
  <2>2. CASE HandleError
    BY <2>1, <2>2 DEF HandleError, IInv, Types
  <2>3. CASE ClearStreams
    BY <2>1, <2>3 DEF ClearStreams
  <2> QED BY <2>2, <2>3
<1>2. /\ closed' = TRUE /\ closed_ec' = TRUE /\ accept_queue' = <<>> /\ write_queue' = <<>>
      /\ accept' = FALSE /\ opened' = opened
  BY DEF HandleError, ClearStreams, OnClosed
<1>3. Types' /\ Over'
  <2>1. <<>> \in Seq(remote) /\ <<>> \in Seq(Streams)
    OBVIOUS
  <2> QED BY <1>1, <1>2, <2>1 DEF IInv, Types, Over
<1> QED BY <1>2, <1>3 DEF IInv

\* Steps that leave the streams and the queues alone, and do not lose sight of the write queue.
LEMMA FrameKeeps ==
  ASSUME IInv, pass' \in Nat, accept' = accept \/ accept' = FALSE, ~closed => Looked',
         UNCHANGED <<remote, closed, closed_ec, streams, st, opened, accept_queue, write_queue>>
  PROVE  IInv'
<1>1. Types' /\ Over'
  <2>1. CASE accept' = accept
    BY <2>1 DEF IInv, Types, Over
  <2>2. CASE accept' = FALSE
    BY <2>2 DEF IInv, Types, Over
  <2> QED BY <2>1, <2>2
<1>2. ~closed => Queued' /\ Accepting' /\ \A s \in Streams : StreamOK(st'[s], s \in streams')
  BY DEF IInv, Open, Queued, In, NoDup, Accepting
<1> QED BY <1>1, <1>2 DEF IInv, Open

\* ... which are these.
LEMMA OthersKeep ==
  ASSUME IInv,
         \/ CancelAccept \/ BeginRead \/ StartApplication \/ EndRead \/ RunFlush
         \/ HandleExpiry \/ EndPass \/ HandlerStarts \/ CloseConnection
  PROVE  IInv'
<1> USE DEF conn, accepting, writing, engine, user
<1>1. pass \in Nat /\ MaxPackets \in Nat \ {0}
  BY BoundsAssumption DEF IInv, Types
<1>2. ~closed => Looked
  BY DEF IInv, Open
<1>3. CASE CancelAccept \/ StartApplication \/ HandlerStarts \/ CloseConnection
  <2>1. /\ accept' = accept \/ accept' = FALSE
        /\ UNCHANGED <<remote, closed, closed_ec, streams, st, opened, accept_queue,
                       write_queue, write_posted, reading, pass, inflight, credit, timer, mute>>
    BY <1>3 DEF CancelAccept, StartApplication, HandlerStarts, CloseConnection
  <2> QED BY <1>1, <1>2, <2>1, FrameKeeps DEF Looked
<1>4. CASE BeginRead
  <2>1. /\ reading' = TRUE
        /\ UNCHANGED <<remote, closed, closed_ec, streams, st, opened, accept_queue,
                       write_queue, accept, pass>>
    BY <1>4 DEF BeginRead
  <2> QED BY <1>1, <2>1, FrameKeeps DEF Looked
<1>5. CASE EndRead \/ RunFlush \/ HandleExpiry
  <2>1. /\ FlushWrite
        /\ UNCHANGED <<remote, closed, closed_ec, streams, st, opened, accept_queue,
                       write_queue, accept>>
    BY <1>5 DEF EndRead, RunFlush, HandleExpiry
  <2>2. pass' \in Nat /\ (~closed => pass' > 0)
    BY <1>1, <2>1 DEF FlushWrite, IInv, Types
  <2> QED BY <2>1, <2>2, FrameKeeps DEF Looked
<1>6. CASE EndPass
  <2>1. /\ write_queue = <<>> \/ inflight \/ ~credit
        /\ pass' = 0 /\ (timer' \/ mute')
        /\ UNCHANGED <<remote, closed, closed_ec, streams, st, opened, accept_queue,
                       write_queue, accept, inflight, credit>>
    BY <1>6, ArmedOrMute DEF EndPass
  <2> QED BY <2>1, FrameKeeps DEF Looked
<1> QED BY <1>3, <1>4, <1>5, <1>6

\* When the connection is over, what users still do with their streams adds to no queue.
LEMMA LateKeeps ==
  ASSUME IInv, closed, NEW s \in Streams, Write(s) \/ Read(s) \/ Release(s)
  PROVE  IInv'
<1>1. st[s] \in Stream /\ closed_ec
  BY DEF IInv, Types
<1>2. PICK y \in Stream : st' = [st EXCEPT ![s] = y]
  <2>1. CASE Write(s)
    <3>1. [st[s] EXCEPT !.out = MaxOut] \in Stream /\ [st[s] EXCEPT !.tx = "ending"] \in Stream
      BY <1>1, BoundsAssumption DEF Stream
    <3> QED BY <1>1, <2>1, <3>1 DEF Write, Schedule
  <2>2. CASE Read(s)
    <3>1. [st[s] EXCEPT !.unread = FALSE] \in Stream
      BY <1>1 DEF Stream
    <3>2. st' = [st EXCEPT ![s] = [st[s] EXCEPT !.unread = FALSE]]
      BY <2>2 DEF Read, IInv, Types
    <3> QED BY <3>1, <3>2
  <2>3. CASE Release(s)
    BY <1>1, <2>3, ReleasedStream DEF Release
  <2> QED BY <2>1, <2>2, <2>3
<1>3. /\ UNCHANGED <<remote, closed, closed_ec, opened, accept_queue, write_queue, accept, pass>>
      /\ streams' \subseteq streams
  BY <1>1 DEF Write, Schedule, Read, Release, MaybeClose, conn, accepting, writing, engine
<1>4. Types' /\ Over'
  BY <1>2, <1>3 DEF IInv, Types, Over
<1> QED BY <1>3, <1>4 DEF IInv

\* Every step preserves the invariant.
LEMMA StepKeeps == IInv /\ [Next]_vars => IInv'
<1> SUFFICES ASSUME IInv, [Next]_vars PROVE IInv'
  OBVIOUS
<1>1. CASE UNCHANGED vars
  <2>1. /\ accept' = accept
        /\ UNCHANGED <<remote, closed, closed_ec, streams, st, opened, accept_queue,
                       write_queue, write_posted, reading, pass, inflight, credit, timer, mute>>
    BY <1>1 DEF vars, conn, accepting, writing, engine
  <2> QED BY <2>1, FrameKeeps DEF IInv, Types, Open, Looked
<1>2. CASE \/ CancelAccept \/ BeginRead \/ StartApplication \/ EndRead \/ RunFlush
           \/ HandleExpiry \/ EndPass \/ HandlerStarts \/ CloseConnection
  BY <1>2, OthersKeep
<1>3. CASE Destroy \/ IdleClose \/ ConnectionFails
  <2>1. pass' = pass \/ pass' = 0
    BY <1>3 DEF Destroy, IdleClose, ConnectionFails, conn
  <2>2. pass' \in Nat
    BY <2>1 DEF IInv, Types
  <2> QED BY <1>3, <2>2, EndKeeps DEF Destroy, IdleClose, ConnectionFails, conn
<1>4. CASE RunClose
  <2>1. CASE closed
    <3>1. UNCHANGED <<remote, closed, closed_ec, streams, st, opened, accept_queue, accept,
                      write_queue, pass>>
      BY <1>4, <2>1 DEF RunClose, conn, accepting
    <3> QED BY <2>1, <3>1, FrameKeeps DEF IInv, Types
  <2>2. CASE ~closed
    BY <1>4, <2>2, EndKeeps DEF RunClose, conn, IInv, Types
  <2> QED BY <2>1, <2>2
<1>5. CASE AcceptStream
  <2>1. ~closed
    BY <1>5 DEF AcceptStream, IInv, Over
  <2> QED BY <1>5, <2>1, AcceptKeeps
<1>6. ASSUME NEW s \in Streams, Write(s) \/ Read(s) \/ Release(s) PROVE IInv'
  BY <1>6, WriteKeeps, ReadKeeps, ReleaseKeeps, LateKeeps
<1>7. ASSUME NEW s \in Streams, OpenStream(s) PROVE IInv'
  BY <1>7, OpenStreamKeeps DEF OpenStream
<1>8. ASSUME NEW s \in Streams,
             \/ RecvStreamData(s) \/ StreamReset(s) \/ RecvStopSending(s) \/ StreamClose(s)
             \/ ExtendMaxStreamData(s)
      PROVE  IInv'
  BY <1>8, ReportsKeep, StreamCloseKeeps, ExtendKeeps
<1>9. CASE DropFront \/ \E s \in Streams : WritePkt(s) \/ OnStreamBlocked(s)
  <2>1. write_queue # <<>>
    BY <1>9 DEF DropFront, WritePkt, OnStreamBlocked, Offered
  <2>2. ~closed
    BY <2>1 DEF IInv, Over
  <2> QED BY <1>9, <2>2, DropKeeps, WritePktKeeps
<1> QED BY <1>1, <1>2, <1>3, <1>4, <1>5, <1>6, <1>7, <1>8, <1>9 DEF Next, Engine

-----------------------------------------------------------------------------
(* The theorems.                                                           *)

\* The invariant holds of a connection that was just made.
LEMMA InitIInv == Init => IInv
<1> SUFFICES ASSUME Init PROVE IInv
  OBVIOUS
<1>1. InitStream \in Stream /\ StreamOK(InitStream, FALSE) /\ InitStream.ngtcp2 = "none"
  <2>1. 0 \in 0 .. MaxOut
    BY BoundsAssumption
  <2> QED BY <2>1 DEF InitStream, Stream, StreamOK, HasToSend
<1>2. Types
  <2>1. remote \subseteq Streams
    BY StreamsAssumption DEF Init
  <2>2. <<>> \in Seq(remote) /\ <<>> \in Seq(Streams)
    OBVIOUS
  <2> QED BY <1>1, <2>1, <2>2 DEF Init, Types
<1>3. \A s \in Streams : StreamOK(st[s], s \in streams) /\ s \notin streams
  <2> SUFFICES ASSUME NEW s \in Streams
               PROVE  StreamOK(st[s], s \in streams) /\ s \notin streams
    OBVIOUS
  <2>1. st[s] = InitStream /\ s \notin streams
    BY DEF Init
  <2> QED BY <1>1, <2>1 DEF StreamOK, HasToSend
<1>4. Queued /\ Looked /\ Accepting
  <2>1. Len(<<>>) = 0 /\ \A i \in 1 .. 0 : FALSE
    OBVIOUS
  <2> QED BY <1>3, <2>1 DEF Init, Queued, Looked, Accepting, NoDup, In
<1> QED BY <1>2, <1>3, <1>4 DEF Init, IInv, Over, Open

\* In every state of a connection, the parts of the invariant hold of its streams, of
\* write_queue_ and of accept_queue_.
THEOREM Safety == Spec => []IInv
BY InitIInv, StepKeeps, PTL DEF Spec

\* Each stream that the peer opens is given out once, in the order in which they were opened
\* (open_remote_stream(), deliver_accepted(), async_accept_stream()): the accept queue is
\* what is left of that order.
THEOREM AcceptOrder == Spec => []AcceptedInOrder
<1>1. ASSUME IInv PROVE AcceptedInOrder
  <2>1. accept => accept_queue = <<>> /\ ~closed_ec
    BY <1>1 DEF IInv, Over, Open, Accepting
  <2>2. ASSUME ~closed_ec
        PROVE  \E k \in 0 .. Len(opened) :
                 /\ accept_queue = SubSeq(opened, k + 1, Len(opened))
                 /\ \A i \in 1 .. Len(opened) : (st[opened[i]].handle # "none") <=> (i <= k)
    <3> DEFINE n == Len(opened)
               m == Len(accept_queue)
               k == n - m
    <3>1. /\ n \in Nat /\ m \in Nat /\ m <= n
          /\ opened \in Seq(remote) /\ accept_queue \in Seq(remote)
          /\ \A i \in 1 .. m : accept_queue[i] = opened[n - m + i]
          /\ \A i \in 1 .. n : st[opened[i]].handle # "none" <=> i <= n - m
      BY <1>1, <2>2 DEF IInv, Types, Open, Accepting
    <3>2. accept_queue = SubSeq(opened, k + 1, n)
      <4>1. /\ Len(SubSeq(opened, k + 1, n)) = m
            /\ SubSeq(opened, k + 1, n) \in Seq(remote)
            /\ \A i \in 1 .. m : SubSeq(opened, k + 1, n)[i] = opened[k + i]
        BY <3>1
      <4> QED BY <3>1, <4>1
    <3>3. k \in 0 .. n
      BY <3>1
    <3> QED BY <3>1, <3>2, <3>3
  <2> QED BY <2>1, <2>2 DEF AcceptedInOrder
<1> QED BY <1>1, Safety, PTL

\* Who has something to send and credit for it is in the write queue once, and a write pass
\* is under way, posted or bound to come (schedule(), wake_write(), next_stream_data(),
\* on_stream_data_written(), on_stream_blocked()): no order of writes, packets that are read
\* and streams that end leaves a stream behind.
THEOREM WritesCome == Spec => []WriteComes
<1>1. ASSUME IInv PROVE WriteComes
  <2> SUFFICES ASSUME NEW s \in streams, HasToSend(st[s]), ~st[s].blocked, ~closed
               PROVE  /\ Cardinality({i \in DOMAIN write_queue : write_queue[i] = s}) = 1
                      /\ \/ write_posted \/ reading \/ pass > 0
                         \/ ~credit
                         \/ inflight /\ (timer \/ mute)
    BY DEF WriteComes
  <2>1. In(write_queue, s) /\ NoDup(write_queue) /\ Looked /\ write_queue \in Seq(Streams)
    BY <1>1 DEF IInv, Types, Open, StreamOK, Queued
  <2>2. PICK i \in 1 .. Len(write_queue) : write_queue[i] = s
    BY <2>1 DEF In
  <2>3. {j \in DOMAIN write_queue : write_queue[j] = s} = {i}
    BY <2>1, <2>2 DEF NoDup
  <2>4. Cardinality({i}) = 1
    BY FS_Singleton
  <2>5. write_queue # <<>>
    BY <2>1, <2>2
  <2> QED BY <2>1, <2>3, <2>4, <2>5 DEF Looked
<1> QED BY <1>1, Safety, PTL

-----------------------------------------------------------------------------
(* Round robin.                                                            *)

\* Ahead(s), of any queue.
Before(q, s) == {q[i] : i \in {j \in DOMAIN q : \A k \in 1 .. j : q[k] # s}}

\* Who is added at the end is not before a stream that is in the queue.
LEMMA AppendBehind ==
  ASSUME NEW S, NEW q \in Seq(S), NEW x \in S, NEW s, In(q, s)
  PROVE  Before(Append(q, x), s) \subseteq Before(q, s)
<1>1. /\ Len(q) \in Nat /\ DOMAIN q = 1 .. Len(q)
      /\ DOMAIN Append(q, x) = 1 .. Len(q) + 1
      /\ \A i \in 1 .. Len(q) : Append(q, x)[i] = q[i]
  OBVIOUS
<1> DEFINE p == Append(q, x)
<1>2. PICK n \in 1 .. Len(q) : q[n] = s
  BY DEF In
<1> HIDE DEF p
<1> SUFFICES ASSUME NEW i \in DOMAIN p, \A k \in 1 .. i : p[k] # s
             PROVE  i \in DOMAIN q /\ p[i] = q[i] /\ \A k \in 1 .. i : q[k] # s
  BY DEF Before, p
<1>3. i \in 1 .. Len(q)
  BY <1>1, <1>2 DEF p
<1> QED BY <1>1, <1>3 DEF p

\* If the first of a queue leaves it, nobody gets before another, nor is it any more.
LEMMA TailBehind ==
  ASSUME NEW S, NEW q \in Seq(S), q # <<>>, NoDup(q), NEW s, Head(q) # s
  PROVE  Before(Tail(q), s) \subseteq Before(q, s) \ {Head(q)}
<1>1. /\ Len(q) \in Nat /\ Len(q) > 0 /\ DOMAIN q = 1 .. Len(q) /\ Head(q) = q[1]
      /\ DOMAIN Tail(q) = 1 .. Len(q) - 1
      /\ \A i \in 1 .. Len(q) - 1 : Tail(q)[i] = q[i + 1]
  OBVIOUS
<1> DEFINE p == Tail(q)
           h == Head(q)
<1> HIDE DEF p, h
<1> SUFFICES ASSUME NEW i \in DOMAIN p, \A k \in 1 .. i : p[k] # s
             PROVE  /\ i + 1 \in DOMAIN q /\ p[i] = q[i + 1] /\ p[i] # h
                    /\ \A k \in 1 .. i + 1 : q[k] # s
  BY DEF Before, p, h
<1>2. i \in 1 .. Len(q) - 1
  BY <1>1 DEF p
<1>3. i + 1 \in DOMAIN q /\ p[i] = q[i + 1] /\ p[i] # h
  BY <1>1, <1>2 DEF p, h, NoDup
<1>4. ASSUME NEW k \in 1 .. i + 1 PROVE q[k] # s
  <2>1. CASE k = 1
    BY <1>1, <2>1 DEF h
  <2>2. CASE k # 1
    <3>1. k - 1 \in 1 .. i /\ k - 1 \in 1 .. Len(q) - 1 /\ (k - 1) + 1 = k
      BY <1>1, <1>2, <2>2
    <3> QED BY <1>1, <3>1 DEF p
  <2> QED BY <2>1, <2>2
<1> QED BY <1>3, <1>4

\* What a step without a packet makes of the write queue, while the connection stays open.
LEMMA QueueSteps ==
  ASSUME IInv, [Next]_vars, ~closed, ~closed', \A x \in Streams : ~WritePkt(x)
  PROVE  \/ write_queue' = write_queue
         \/ \E x \in Streams : write_queue' = Append(write_queue, x)
         \/ write_queue # <<>> /\ write_queue' = Tail(write_queue)
<1> USE DEF writing
<1>1. CASE UNCHANGED vars
  BY <1>1 DEF vars
<1>2. CASE \/ CancelAccept \/ BeginRead \/ StartApplication \/ EndRead \/ RunFlush
           \/ HandleExpiry \/ EndPass \/ HandlerStarts \/ CloseConnection \/ AcceptStream
  BY <1>2 DEF CancelAccept, BeginRead, StartApplication, EndRead, RunFlush, HandleExpiry,
              EndPass, HandlerStarts, CloseConnection, AcceptStream
<1>3. CASE Destroy \/ IdleClose \/ ConnectionFails \/ RunClose
  BY <1>3 DEF Destroy, IdleClose, ConnectionFails, RunClose, HandleError
<1>4. ASSUME NEW s \in Streams, NEW x, Schedule(s, x)
      PROVE  write_queue' \in {write_queue, Append(write_queue, s)}
  BY <1>4 DEF Schedule
<1>5. ASSUME NEW s \in Streams, Write(s) \/ ExtendMaxStreamData(s)
      PROVE  write_queue' \in {write_queue, Append(write_queue, s)}
  BY <1>4, <1>5 DEF Write, ExtendMaxStreamData
<1>6. ASSUME NEW s \in Streams,
             \/ OpenStream(s) \/ Read(s) \/ Release(s) \/ RecvStreamData(s)
             \/ StreamReset(s) \/ RecvStopSending(s) \/ StreamClose(s)
      PROVE  write_queue' = write_queue
  BY <1>6 DEF OpenStream, Read, Release, RecvStreamData, StreamReset, RecvStopSending,
              StreamClose, Report
<1>7. CASE DropFront \/ \E s \in Streams : OnStreamBlocked(s)
  BY <1>7 DEF DropFront, OnStreamBlocked, Offered, UnscheduleFront
<1> QED BY <1>1, <1>2, <1>3, <1>5, <1>6, <1>7 DEF Next, Engine

\* No stream gets ahead of one that waits, and a stream that was written is behind it
\* (schedule(), next_stream_data(), on_stream_data_written(), unschedule_front()): among any
\* streams, each of the others is written at most once before it.
THEOREM TakesTurns == Spec => NoOvertaking
<1> DEFINE Turns ==
      \A s \in Streams : Waits(s) /\ Waits(s)' /\ ~WritePkt(s) =>
        Ahead(s)' \subseteq Ahead(s) \ {x \in Streams : WritePkt(x)}
<1>1. ASSUME IInv, IInv', [Next]_vars PROVE Turns
  <2> SUFFICES ASSUME NEW s \in Streams, Waits(s), Waits(s)', ~WritePkt(s)
               PROVE  Before(write_queue', s) \subseteq
                        Before(write_queue, s) \ {x \in Streams : WritePkt(x)}
    BY DEF Ahead, Before
  <2>1. /\ ~closed /\ ~closed' /\ In(write_queue, s) /\ In(write_queue', s)
        /\ NoDup(write_queue) /\ write_queue \in Seq(Streams)
    BY <1>1 DEF Waits, IInv, Types, Open, StreamOK, Queued
  <2>2. ASSUME write_queue # <<>>, s # Head(write_queue)
        PROVE  /\ Tail(write_queue) \in Seq(Streams) /\ Head(write_queue) \in Streams
               /\ In(Tail(write_queue), s)
               /\ Before(Tail(write_queue), s) \subseteq
                    Before(write_queue, s) \ {Head(write_queue)}
    BY <2>1, <2>2, TailQueue, TailBehind
  <2>3. CASE \E x \in Streams : WritePkt(x)
    <3>1. /\ write_queue # <<>> /\ s # Head(write_queue)
          /\ {x \in Streams : WritePkt(x)} = {Head(write_queue)}
          /\ write_queue' = Append(Tail(write_queue), Head(write_queue))
      <4>1. PICK x \in Streams : WritePkt(x)
        BY <2>3
      <4>2. \A y \in Streams : WritePkt(y) => y = Head(write_queue)
        BY DEF WritePkt, Offered
      <4>3. /\ write_queue # <<>> /\ x = Head(write_queue)
            /\ write_queue' = Append(UnscheduleFront(x), x)
        BY <4>1 DEF WritePkt, Offered, OnStreamDataWritten
      <4>4. {y \in Streams : WritePkt(y)} = {x}
        BY <4>1, <4>2, <4>3
      <4> QED BY <4>1, <4>3, <4>4 DEF UnscheduleFront
    <3>2. Before(write_queue', s) \subseteq Before(Tail(write_queue), s)
      BY <2>2, <3>1, AppendBehind
    <3> QED BY <2>2, <3>1, <3>2
  <2>4. CASE \A x \in Streams : ~WritePkt(x)
    <3>1. CASE write_queue' = write_queue
      BY <2>4, <3>1
    <3>2. CASE \E x \in Streams : write_queue' = Append(write_queue, x)
      BY <2>1, <2>4, <3>2, AppendBehind
    <3>3. CASE write_queue # <<>> /\ write_queue' = Tail(write_queue)
      <4>1. s # Head(write_queue)
        BY <2>1, <3>3, TailQueue
      <4> QED BY <2>2, <2>4, <3>3, <4>1
    <3> QED BY <1>1, <2>1, <2>4, <3>1, <3>2, <3>3, QueueSteps
  <2> QED BY <2>3, <2>4
<1>2. IInv /\ IInv' /\ [Next]_vars => [Turns]_vars
  BY <1>1
<1> QED BY <1>2, Safety, PTL DEF Spec, NoOvertaking
=============================================================================
