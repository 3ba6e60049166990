-------------------------- MODULE QuicServerProofs --------------------------
(***************************************************************************)
(* Proofs about QuicServer, for any number of clients, sessions and        *)
(* datagrams.                                                              *)
(*                                                                         *)
(* What happens to one session on its strand, Becomes(s, y, erases), is    *)
(* looked at apart from what it does to the table: every handler leaves    *)
(* a session behind that is an Outcome of the one it found.                *)
(***************************************************************************)
EXTENDS QuicServer, FiniteSetTheorems, TLAPS

Kinds == {"packet", "close"}
\* A batch that makes a session has a datagram, the Initial.
Batch == {b \in [new : BOOLEAN, data : Seq(Kinds)] : b.new => b.data # <<>>}
Run == [at : {"idle", "register", "feed"}, data : Seq(Kinds), read_ok : BOOLEAN]
Session ==
    [client : Clients \cup {"none"}, conn : {"none", "up", "closing", "draining"},
     closed : BOOLEAN, sent : {"nothing", "packet", "close"}, mute : BOOLEAN,
     timer : {"off", "expiry", "close"}, queued : SUBSET {"expiry", "close"},
     task : {"none", "waiting", "over"}, done : BOOLEAN, destroy : BOOLEAN,
     jobs : Seq(Batch), run : Run]

\* The types that matter to what follows: those of the sessions, and of what is posted to
\* them.
Types ==
    /\ dcids \in [Clients -> Sessions \cup {0}]
    /\ sess \in [Sessions -> Session] /\ batches \in [Sessions -> Batch]

\* A session has sent CONNECTION_CLOSE, or waits for the end of its closing or draining
\* period, only when it is closed.
ClosedFirst(x) == (x.sent = "close" \/ x.timer = "close" \/ "close" \in x.queued) => x.closed

\* The connection ID that a client has chosen leads to its session, until that is closed.
Leads ==
    \A s \in Sessions : Exists(s) /\ ~sess[s].closed => dcids[sess[s].client] = s

\* The inductive invariant.
IInv == Types /\ Leads /\ \A s \in Sessions : ClosedFirst(sess[s])

\* What a handler may make of session x.
Outcome(x, y) ==
    /\ y \in Session /\ y.client = x.client
    /\ x.closed => y.closed
    /\ x.sent = "close" => y.sent # "packet"
    /\ ClosedFirst(y)

\* A handler of session s has run.  Only a session that is closed leaves the table.
Handled(s) ==
    \E y \in Session, erases \in BOOLEAN :
        Outcome(sess[s], y) /\ (erases => y.closed) /\ Becomes(s, y, erases)

-----------------------------------------------------------------------------
(* What every handler does.                                                *)

\* No session has the number that stands for none.
LEMMA NoneIsNoSession == 0 \notin Sessions
<1>1. Cardinality(Sessions) \in Nat
  BY SessionsAssumption, FS_CardinalityType
<1>2. 0 \notin 1 .. Cardinality(Sessions)
  BY <1>1
<1> QED BY <1>2, SessionsAssumption

\* A strand that is idle.
LEMMA IdleType == Idle \in Run
BY DEF Idle, Run

\* A session that was not made is of the type of the others.
LEMMA NoSessionType == NoSession \in Session
<1>1. <<>> \in Seq(Batch) /\ {} \in SUBSET {"expiry", "close"}
  OBVIOUS
<1> QED BY <1>1, IdleType DEF Session, NoSession

\* A session that was deleted, too.
LEMMA DeletedType ==
  ASSUME NEW c \in Clients \cup {"none"}
  PROVE  LET z == [NoSession EXCEPT !.client = c, !.closed = TRUE, !.task = "over"]
         IN  z \in Session /\ z.client = c /\ z.closed /\ z.sent = "nothing"
             /\ z.timer = "off" /\ z.queued = {}
BY NoSessionType DEF Session, NoSession

\* A session becomes what the handler leaves, or is deleted, as nobody refers to it.
LEMMA UpdateOutcome ==
  ASSUME NEW s \in Sessions, NEW x \in Session, NEW y \in Session, Outcome(x, y), Update(s, y),
         sess \in [Sessions -> Session]
  PROVE  \E z \in Session : Outcome(x, z) /\ (y.closed => z.closed)
                            /\ sess' = [sess EXCEPT ![s] = z]
<1> DEFINE z == [NoSession EXCEPT !.client = y.client, !.closed = TRUE, !.task = "over"]
<1>1. z \in Session /\ z.client = y.client /\ z.closed /\ z.sent = "nothing"
      /\ z.timer = "off" /\ z.queued = {}
  <2>1. y.client \in Clients \cup {"none"}
    BY DEF Session
  <2> QED BY <2>1, DeletedType
<1>2. Outcome(x, z)
  BY <1>1 DEF Outcome, ClosedFirst
<1>3. sess' = [sess EXCEPT ![s] = y] \/ sess' = [sess EXCEPT ![s] = z]
  BY DEF Update
<1> HIDE DEF z
<1> QED BY <1>1, <1>2, <1>3

\* The invariant survives every handler, and so does the silence after a CONNECTION_CLOSE.
LEMMA HandledKeeps ==
  ASSUME IInv, NEW s \in Sessions, Handled(s), UNCHANGED batches
  PROVE  IInv' /\ \A t \in Sessions : sess[t].sent = "close" => sess'[t].sent # "packet"
<1>1. PICK y \in Session, erases \in BOOLEAN :
           Outcome(sess[s], y) /\ (erases => y.closed) /\ Becomes(s, y, erases)
  BY DEF Handled
<1>2. PICK z \in Session : /\ Outcome(sess[s], z) /\ (y.closed => z.closed)
                           /\ sess' = [sess EXCEPT ![s] = z]
  BY <1>1, UpdateOutcome DEF Becomes, IInv, Types
<1>3. dcids' = [c \in Clients |-> IF erases /\ dcids[c] = s THEN 0 ELSE dcids[c]]
  BY <1>1 DEF Becomes, Erase
<1>4. Types'
  BY <1>2, <1>3 DEF IInv, Types
<1>5. Leads'
  BY <1>1, <1>2, <1>3 DEF IInv, Types, Leads, Exists, Outcome, Session
<1>6. \A t \in Sessions : ClosedFirst(sess'[t])
  BY <1>2 DEF IInv, Types, Outcome
<1>7. \A t \in Sessions : sess[t].sent = "close" => sess'[t].sent # "packet"
  BY <1>2 DEF IInv, Types, Outcome
<1> QED BY <1>4, <1>5, <1>6, <1>7 DEF IInv, ClosedFirst

-----------------------------------------------------------------------------
(* What the handlers have in common.                                       *)

\* x is session s as far as the properties tell: a handler has only begun to run.
Begun(s, x) ==
    /\ x \in Session /\ ClosedFirst(x)
    /\ x.client = sess[s].client /\ x.closed = sess[s].closed /\ x.sent = sess[s].sent

\* A handler that has begun leaves an outcome of what it found.
LEMMA BegunHandled ==
  ASSUME NEW s \in Sessions, NEW x, Begun(s, x), NEW y, Outcome(x, y), NEW erases \in BOOLEAN,
         erases => y.closed, Becomes(s, y, erases)
  PROVE  Handled(s)
<1>1. y \in Session /\ Outcome(sess[s], y)
  BY DEF Begun, Outcome
<1> QED BY <1>1 DEF Handled

\* What handle_error() makes of a session.
LEMMA ErrorOutcome ==
  ASSUME NEW x \in Session, ClosedFirst(x)
  PROVE  LET y == [x EXCEPT !.closed = TRUE]
         IN  /\ Outcome(x, [y EXCEPT !.timer = "off", !.done = TRUE])
             /\ Outcome(x, ScheduleCloseTimer([y EXCEPT !.conn = "draining"]))
             /\ Outcome(x, ScheduleCloseTimer(SendClose([y EXCEPT !.conn = "closing"])))
             /\ Outcome(x, [y EXCEPT !.done = TRUE, !.mute = TRUE])
<1> DEFINE y == [x EXCEPT !.closed = TRUE]
<1>1. Outcome(x, [y EXCEPT !.timer = "off", !.done = TRUE])
  BY DEF Session, Outcome, ClosedFirst
<1>2. Outcome(x, ScheduleCloseTimer([y EXCEPT !.conn = "draining"]))
  BY DEF Session, Outcome, ClosedFirst, ScheduleCloseTimer
<1>3. Outcome(x, ScheduleCloseTimer(SendClose([y EXCEPT !.conn = "closing"])))
  BY DEF Session, Outcome, ClosedFirst, ScheduleCloseTimer, SendClose
<1>4. Outcome(x, [y EXCEPT !.done = TRUE, !.mute = TRUE])
  BY DEF Session, Outcome, ClosedFirst
<1> QED BY <1>1, <1>2, <1>3, <1>4

\* handle_error() closes a session, and whether its caller erases it makes no difference.
LEMMA ErrorHandled ==
  ASSUME NEW s \in Sessions, NEW x, Begun(s, x), NEW caller,
         NEW why \in {"silent", "draining", "error"}, HandleError(s, x, why, caller)
  PROVE  Handled(s)
<1> DEFINE y == [x EXCEPT !.closed = TRUE]
           y1 == [y EXCEPT !.timer = "off", !.done = TRUE]
           y2 == ScheduleCloseTimer([y EXCEPT !.conn = "draining"])
           y3 == ScheduleCloseTimer(SendClose([y EXCEPT !.conn = "closing"]))
           y4 == [y EXCEPT !.done = TRUE, !.mute = TRUE]
<1>1. Outcome(x, y1) /\ Outcome(x, y2) /\ Outcome(x, y3) /\ Outcome(x, y4)
  BY ErrorOutcome DEF Begun
<1>2. y1.closed /\ y2.closed /\ y3.closed /\ y4.closed
  BY DEF Begun, Session, ScheduleCloseTimer, SendClose
<1>3. \/ Becomes(s, y1, TRUE) \/ Becomes(s, y2, caller = "init")
      \/ Becomes(s, y3, caller = "init") \/ Becomes(s, y4, caller # "other")
  BY DEF HandleError
<1> HIDE DEF y1, y2, y3, y4
<1> QED BY <1>1, <1>2, <1>3, BegunHandled

\* What write_streams() makes of a session.
LEMMA WriteOutcome ==
  ASSUME NEW x \in Session, ~x.closed, ClosedFirst(x), NEW y \in WriteStreams(x)
  PROVE  Outcome(x, y)
<1>1. ASSUME NEW sent \in {x.sent, "packet"},
             y = [x EXCEPT !.timer = "expiry", !.mute = FALSE, !.sent = sent]
      PROVE  Outcome(x, y)
  BY <1>1 DEF Session, Outcome, ClosedFirst
<1>2. CASE y = [x EXCEPT !.mute = TRUE]
  BY <1>2 DEF Session, Outcome, ClosedFirst
<1> QED BY <1>1, <1>2 DEF WriteStreams

\* flush_write() leaves a session that is closed alone.
LEMMA FlushHandled ==
  ASSUME NEW s \in Sessions, NEW x, Begun(s, x), NEW caller, FlushWrite(s, x, caller)
  PROVE  Handled(s)
<1>1. CASE x.closed
  <2>1. Outcome(x, x)
    BY <1>1 DEF Begun, Outcome, Session
  <2> QED BY <1>1, <2>1, BegunHandled DEF FlushWrite
<1>2. ASSUME ~x.closed, NEW y \in WriteStreams(x), Becomes(s, y, FALSE) PROVE Handled(s)
  BY <1>2, WriteOutcome, BegunHandled DEF Begun
<1>3. CASE HandleError(s, x, "error", caller)
  BY <1>3, ErrorHandled
<1> QED BY <1>1, <1>2, <1>3 DEF FlushWrite

\* do_destroy() sends CONNECTION_CLOSE, unless the session is closed.
LEMMA DestroyHandled ==
  ASSUME NEW s \in Sessions, NEW x, Begun(s, x), NEW erases \in BOOLEAN,
         DoDestroy(s, x, erases)
  PROVE  Handled(s)
<1> DEFINE y == [x EXCEPT !.closed = TRUE, !.timer = "off", !.done = TRUE, !.destroy = FALSE]
           z == IF x.closed THEN y ELSE SendClose(y)
<1>1. Outcome(x, z) /\ z.closed
  BY DEF Begun, Session, Outcome, ClosedFirst, SendClose
<1>2. Becomes(s, z, erases)
  BY DEF DoDestroy
<1> HIDE DEF z
<1> QED BY <1>1, <1>2, BegunHandled

-----------------------------------------------------------------------------
(* The steps.                                                              *)

\* After a CONNECTION_CLOSE, no session sends a packet.
Quiet == \A s \in Sessions : sess[s].sent = "close" => sess'[s].sent # "packet"

\* A handler begins by taking what it handles out of a queue.
LEMMA Begins ==
  ASSUME IInv, NEW s \in Sessions
  PROVE  /\ Begun(s, sess[s])
         /\ \A e : Begun(s, [sess[s] EXCEPT !.queued = @ \ {e}])
         /\ \A run \in Run : Begun(s, [sess[s] EXCEPT !.run = run])
         /\ \A jobs \in Seq(Batch), conn \in {"up"} :
                Begun(s, [sess[s] EXCEPT !.jobs = jobs, !.conn = conn])
<1>1. sess[s] \in Session /\ ClosedFirst(sess[s])
  BY DEF IInv, Types
<1> DEFINE Same(x, y) == /\ y \in Session /\ ClosedFirst(y)
                         /\ y.client = x.client /\ y.closed = x.closed /\ y.sent = x.sent
<1>2. ASSUME NEW x \in Session, ClosedFirst(x), NEW e PROVE Same(x, [x EXCEPT !.queued = @ \ {e}])
  BY <1>2 DEF Session, ClosedFirst
<1>3. ASSUME NEW x \in Session, ClosedFirst(x), NEW run \in Run PROVE Same(x, [x EXCEPT !.run = run])
  BY <1>3 DEF Session, ClosedFirst
<1>4. ASSUME NEW x \in Session, ClosedFirst(x), NEW jobs \in Seq(Batch), NEW conn \in {"up"}
      PROVE  Same(x, [x EXCEPT !.jobs = jobs, !.conn = conn])
  BY <1>4 DEF Session, ClosedFirst
<1>5. \A x : Same(sess[s], x) => Begun(s, x)
  BY DEF Begun
<1>6. Same(sess[s], sess[s])
  BY <1>1
<1> HIDE DEF Same
<1> QED BY <1>1, <1>2, <1>3, <1>4, <1>5, <1>6

\* What ngtcp2 reports is one of the errors that handle_error() tells apart.
LEMMA ReadErrorsType ==
  ASSUME NEW kind
  PROVE  ReadErrors(kind) \subseteq {"silent", "draining", "error"}
BY DEF ReadErrors

\* What a batch hands over is again a sequence of datagrams, and of batches.
LEMMA BatchTypes ==
  ASSUME IInv, NEW s \in Sessions, sess[s].jobs # <<>>
  PROVE  /\ Tail(sess[s].jobs) \in Seq(Batch) /\ Head(sess[s].jobs) \in Batch
<1>1. sess[s].jobs \in Seq(Batch)
  BY DEF IInv, Types, Session
<1> QED BY <1>1

\* process_quic_batch() with an Initial.
LEMMA RunInitHandled ==
  ASSUME IInv, NEW s \in Sessions, RunInit(s)
  PROVE  Handled(s)
<1> DEFINE job == Head(sess[s].jobs)
           x == [sess[s] EXCEPT !.jobs = Tail(@), !.conn = "up"]
           going == [at |-> "register", data |-> Tail(job.data), read_ok |-> TRUE]
           y == [x EXCEPT !.run = going]
<1>1. job \in Batch /\ job.new /\ Tail(sess[s].jobs) \in Seq(Batch)
  BY BatchTypes DEF RunInit
<1>2. Begun(s, x)
  BY <1>1, Begins
<1>3. going \in Run
  <2>1. job.data \in Seq(Kinds) /\ job.data # <<>>
    BY <1>1 DEF Batch
  <2>2. Tail(job.data) \in Seq(Kinds)
    BY <2>1
  <2> QED BY <2>2 DEF Run
<1>4. Outcome(x, y)
  <2> HIDE DEF x, going
  <2> QED BY <1>2, <1>3 DEF Begun, Session, Outcome, ClosedFirst
<1>5. CASE Becomes(s, y, FALSE)
  <2> HIDE DEF x, y
  <2> QED BY <1>2, <1>4, <1>5, BegunHandled
<1>6. ASSUME NEW why \in ReadErrors(Head(job.data)), HandleError(s, x, why, "init")
      PROVE  Handled(s)
  <2> HIDE DEF x
  <2> QED BY <1>2, <1>6, ReadErrorsType, ErrorHandled
<1> QED BY <1>5, <1>6 DEF RunInit

\* One datagram of a batch.
LEMMA FeedHandled ==
  ASSUME IInv, NEW s \in Sessions, Feed(s)
  PROVE  Handled(s)
<1> DEFINE kind == Head(sess[s].run.data)
           x == [sess[s] EXCEPT !.run.data = Tail(@)]
           y == IF x.conn = "closing" THEN ResendConnClose(x) ELSE x
           z == [x EXCEPT !.run.read_ok = TRUE]
<1>1. sess[s].run \in Run /\ sess[s].run.data # <<>>
  BY DEF IInv, Types, Session, Feed
<1>2. Begun(s, x)
  <2>1. [sess[s].run EXCEPT !.data = Tail(@)] \in Run
    <3>1. Tail(sess[s].run.data) \in Seq(Kinds)
      BY <1>1 DEF Run
    <3> QED BY <1>1, <3>1 DEF Run
  <2>2. x = [sess[s] EXCEPT !.run = [sess[s].run EXCEPT !.data = Tail(@)]]
    BY DEF IInv, Types, Session
  <2> QED BY <2>1, <2>2, Begins
<1> HIDE DEF x, kind
<1>3. CASE x.closed /\ Becomes(s, y, FALSE)
  <2>1. Outcome(x, y)
    BY <1>2, <1>3 DEF Begun, Session, Outcome, ClosedFirst, ResendConnClose, SendClose
  <2> HIDE DEF y
  <2> QED BY <1>2, <1>3, <2>1, BegunHandled
<1>4. CASE Becomes(s, z, FALSE)
  <2>1. [x.run EXCEPT !.read_ok = TRUE] \in Run
    BY <1>2 DEF Begun, Session, Run
  <2>2. Outcome(x, z)
    BY <1>2, <2>1 DEF Begun, Session, Outcome, ClosedFirst
  <2> HIDE DEF z
  <2> QED BY <1>2, <1>4, <2>2, BegunHandled
<1>5. ASSUME NEW why \in ReadErrors(kind), HandleError(s, x, why, "batch")
      PROVE  Handled(s)
  BY <1>2, <1>5, ReadErrorsType, ErrorHandled
<1> QED BY <1>3, <1>4, <1>5 DEF Feed, x, kind

\* The end of a closing or draining period, and that of do_session().
LEMMA EndOutcome ==
  ASSUME NEW x \in Session, ClosedFirst(x)
  PROVE  /\ "close" \in x.queued =>
              LET y == [x EXCEPT !.queued = @ \ {"close"}, !.done = TRUE]
              IN  Outcome(x, y) /\ y.closed
         /\ Outcome(x, [x EXCEPT !.task = "over"])
BY DEF Session, Outcome, ClosedFirst

\* The other handlers of a strand.
LEMMA OthersHandled ==
  ASSUME IInv, NEW s \in Sessions,
         \/ FlushBatch(s) \/ CloseTimerRuns(s) \/ SessionEnds(s) \/ RunDestroy(s)
         \/ ApplicationRuns(s) \/ IdleExpires(s) \/ ExpiryRuns(s)
  PROVE  Handled(s)
<1>1. CASE FlushBatch(s)
  <2> DEFINE x == [sess[s] EXCEPT !.run = Idle]
  <2>1. Begun(s, x)
    BY IdleType, Begins
  <2>2. FlushWrite(s, x, "batch") \/ Becomes(s, x, FALSE)
    BY <1>1 DEF FlushBatch
  <2> HIDE DEF x
  <2>3. Outcome(x, x)
    BY <2>1 DEF Begun, Outcome, Session
  <2> QED BY <2>1, <2>2, <2>3, FlushHandled, BegunHandled
<1>2. CASE CloseTimerRuns(s)
  <2> DEFINE x == [sess[s] EXCEPT !.queued = @ \ {"close"}, !.done = TRUE]
  <2>1. Outcome(sess[s], x) /\ Becomes(s, x, TRUE) /\ x.closed
    BY <1>2, EndOutcome DEF CloseTimerRuns, IInv, Types
  <2> HIDE DEF x
  <2> QED BY <2>1, Begins, BegunHandled
<1>3. CASE SessionEnds(s)
  <2> DEFINE x == [sess[s] EXCEPT !.task = "over"]
  <2>1. Outcome(sess[s], x) /\ Becomes(s, x, FALSE)
    BY <1>3, EndOutcome DEF SessionEnds, IInv, Types
  <2> HIDE DEF x
  <2> QED BY <2>1, Begins, BegunHandled
<1>4. CASE RunDestroy(s)
  BY <1>4, Begins, DestroyHandled DEF RunDestroy
<1>5. CASE ApplicationRuns(s)
  BY <1>5, Begins, FlushHandled DEF ApplicationRuns
<1>6. CASE IdleExpires(s)
  BY <1>6, Begins, ErrorHandled DEF IdleExpires
<1>7. CASE ExpiryRuns(s)
  BY <1>7, Begins, FlushHandled DEF ExpiryRuns
<1> QED BY <1>1, <1>2, <1>3, <1>4, <1>5, <1>6, <1>7

\* A step that makes another record of a session, and leaves alone what the invariant and
\* Quiet are about.
LEMMA KeepsAll ==
  ASSUME IInv, Types', UNCHANGED dcids,
         \A s \in Sessions :
            /\ sess'[s].client = sess[s].client /\ sess'[s].closed = sess[s].closed
            /\ sess'[s].sent = sess[s].sent /\ ClosedFirst(sess'[s])
  PROVE  IInv' /\ Quiet
<1>1. Leads'
  BY DEF IInv, Leads, Exists
<1>2. (\A s \in Sessions : ClosedFirst(sess[s]))'
  BY DEF ClosedFirst
<1> QED BY <1>1, <1>2 DEF IInv, Quiet

\* process_quic_batch() begins with a batch that is not the first, or goes on to read one; a
\* timer expires.
LEMMA StrandMoves ==
  ASSUME IInv, NEW s \in Sessions, RunBatch(s) \/ Register(s) \/ TimerFires(s)
  PROVE  IInv' /\ Quiet
<1>0. sess \in [Sessions -> Session] /\ sess[s] \in Session /\ ClosedFirst(sess[s])
  BY DEF IInv, Types
<1>1. ASSUME NEW x \in Session, sess' = [sess EXCEPT ![s] = x], UNCHANGED <<dcids, batches>>,
             x.client = sess[s].client, x.closed = sess[s].closed, x.sent = sess[s].sent,
             ClosedFirst(x)
      PROVE  IInv' /\ Quiet
  <2>1. Types'
    BY <1>1 DEF IInv, Types
  <2>2. \A t \in Sessions :
            /\ sess'[t].client = sess[t].client /\ sess'[t].closed = sess[t].closed
            /\ sess'[t].sent = sess[t].sent /\ ClosedFirst(sess'[t])
    BY <1>0, <1>1 DEF IInv
  <2> QED BY <1>1, <2>1, <2>2, KeepsAll
<1>2. CASE RunBatch(s)
  <2> DEFINE run == [at |-> "feed", data |-> Head(sess[s].jobs).data, read_ok |-> FALSE]
             x == [sess[s] EXCEPT !.jobs = Tail(@), !.run = run]
  <2>1. Tail(sess[s].jobs) \in Seq(Batch) /\ Head(sess[s].jobs) \in Batch
    BY <1>2, BatchTypes DEF RunBatch
  <2>2. run \in Run
    BY <2>1 DEF Batch, Run
  <2>3. sess' = [sess EXCEPT ![s] = x] /\ UNCHANGED <<dcids, batches>>
    BY <1>0, <1>2 DEF RunBatch, table, receiver
  <2> HIDE DEF run
  <2>4. /\ x \in Session /\ ClosedFirst(x)
        /\ x.client = sess[s].client /\ x.closed = sess[s].closed /\ x.sent = sess[s].sent
    BY <1>0, <2>1, <2>2 DEF Session, ClosedFirst
  <2> HIDE DEF x
  <2> QED BY <1>1, <2>3, <2>4
<1>3. CASE Register(s) /\ AddSession
  <2> DEFINE x == [sess[s] EXCEPT !.task = "waiting", !.run.at = "feed"]
  <2>1. [sess[s].run EXCEPT !.at = "feed"] \in Run
    BY <1>0 DEF Session, Run
  <2>2. sess' = [sess EXCEPT ![s] = x] /\ UNCHANGED <<dcids, batches>>
    BY <1>0, <1>3 DEF Register, receiver
  <2>3. /\ x \in Session /\ ClosedFirst(x)
        /\ x.client = sess[s].client /\ x.closed = sess[s].closed /\ x.sent = sess[s].sent
    BY <1>0, <2>1 DEF Session, ClosedFirst
  <2> HIDE DEF x
  <2> QED BY <1>1, <2>2, <2>3
<1>4. CASE Register(s) /\ ~AddSession
  <2>1. Handled(s)
    BY <1>4, IdleType, Begins, DestroyHandled DEF Register
  <2> QED BY <1>4, <2>1, HandledKeeps DEF Register, receiver, Quiet
<1>5. CASE TimerFires(s)
  <2> DEFINE x == [sess[s] EXCEPT !.timer = "off", !.queued = @ \cup {sess[s].timer}]
  <2>1. sess' = [sess EXCEPT ![s] = x] /\ UNCHANGED <<dcids, batches>> /\ sess[s].timer # "off"
    BY <1>0, <1>5 DEF TimerFires, table, receiver
  <2>2. /\ x \in Session /\ ClosedFirst(x)
        /\ x.client = sess[s].client /\ x.closed = sess[s].closed /\ x.sent = sess[s].sent
    BY <1>0, <2>1 DEF Session, ClosedFirst
  <2> HIDE DEF x
  <2> QED BY <1>1, <2>1, <2>2
<1> QED BY <1>2, <1>3, <1>4, <1>5

\* udp_on_read(): no session that is alive has the connection ID of one that is made, as that
\* would be in the table.
LEMMA ReceiveKeeps ==
  ASSUME IInv, Receive
  PROVE  IInv' /\ Quiet
<1>1. ASSUME NEW s \in Sessions, NEW kind \in Kinds, DemuxKnown(s, kind)
      PROVE  IInv' /\ Quiet
  <2>1. batches[s] \in Batch /\ batches[s].data \in Seq(Kinds)
    BY DEF IInv, Types, Batch
  <2>2. [batches[s] EXCEPT !.data = Append(@, kind)] \in Batch
    BY <2>1 DEF Batch
  <2>3. batches' \in [Sessions -> Batch]
    BY <1>1, <2>2 DEF DemuxKnown, IInv, Types
  <2>4. Types' /\ UNCHANGED <<dcids, sess>>
    BY <1>1, <2>3 DEF DemuxKnown, IInv, Types
  <2> QED BY <2>4, KeepsAll DEF IInv
<1>2. ASSUME NEW s \in Sessions, NEW c \in Clients, DemuxNew(c, s)
      PROVE  IInv' /\ Quiet
  <2> DEFINE x == [sess[s] EXCEPT !.client = c]
  <2>1. /\ sess' = [sess EXCEPT ![s] = x] /\ dcids' = [dcids EXCEPT ![c] = s]
        /\ dcids[c] = 0
    BY <1>2 DEF DemuxNew, Publish, IInv, Types
  <2>2. x \in Session /\ x.client = c /\ ClosedFirst(x) /\ x.sent = sess[s].sent
    <3>1. sess[s] \in Session /\ ClosedFirst(sess[s])
      BY DEF IInv, Types
    <3> QED BY <3>1 DEF Session, ClosedFirst
  <2> HIDE DEF x
  <2>3. Types'
    <3>1. [new |-> TRUE, data |-> <<"packet">>] \in Batch
      BY DEF Batch, Kinds
    <3> QED BY <1>2, <2>1, <2>2, <3>1 DEF DemuxNew, IInv, Types
  <2>4. Leads'
    BY <2>1, <2>2, NoneIsNoSession DEF IInv, Types, Leads, Exists, Session
  <2>5. (\A t \in Sessions : ClosedFirst(sess[t]))' /\ Quiet
    BY <2>1, <2>2 DEF IInv, Types, ClosedFirst, Quiet
  <2> QED BY <2>3, <2>4, <2>5 DEF IInv
<1> QED BY <1>1, <1>2 DEF Receive, Kinds

\* The batch of a session joins those that wait for its strand.
LEMMA PostKeeps ==
  ASSUME IInv, PostBatches
  PROVE  IInv' /\ Quiet
<1> DEFINE Posted(s) == [sess[s] EXCEPT !.jobs = Append(@, batches[s])]
<1>1. ASSUME NEW s \in Sessions
      PROVE  /\ Posted(s) \in Session /\ ClosedFirst(Posted(s))
             /\ Posted(s).client = sess[s].client /\ Posted(s).closed = sess[s].closed
             /\ Posted(s).sent = sess[s].sent
  <2>1. sess[s] \in Session /\ batches[s] \in Batch /\ ClosedFirst(sess[s])
    BY DEF IInv, Types
  <2>2. Append(sess[s].jobs, batches[s]) \in Seq(Batch)
    BY <2>1 DEF Session
  <2> QED BY <2>1, <2>2 DEF Session, ClosedFirst
<1>2. /\ sess' = [s \in Sessions |-> IF batches[s] = NoBatch THEN sess[s] ELSE Posted(s)]
      /\ batches' = [s \in Sessions |-> NoBatch] /\ UNCHANGED dcids
  BY DEF PostBatches, table
<1> HIDE DEF Posted
<1>3. NoBatch \in Batch
  BY DEF NoBatch, Batch
<1>4. Types'
  BY <1>1, <1>2, <1>3 DEF IInv, Types
<1>5. \A s \in Sessions :
          /\ sess'[s].client = sess[s].client /\ sess'[s].closed = sess[s].closed
          /\ sess'[s].sent = sess[s].sent /\ ClosedFirst(sess'[s])
  BY <1>1, <1>2 DEF IInv
<1> QED BY <1>2, <1>4, <1>5, KeepsAll

\* destroy() of the server only tells the sessions.
LEMMA DestroyKeeps ==
  ASSUME IInv, DestroyServer
  PROVE  IInv' /\ Quiet
<1> DEFINE Told(s) == [sess[s] EXCEPT !.destroy = @ \/ s \in registry]
<1>1. ASSUME NEW s \in Sessions
      PROVE  /\ Told(s) \in Session /\ ClosedFirst(Told(s))
             /\ Told(s).client = sess[s].client /\ Told(s).closed = sess[s].closed
             /\ Told(s).sent = sess[s].sent
  <2>1. sess[s] \in Session /\ ClosedFirst(sess[s])
    BY DEF IInv, Types
  <2>2. (sess[s].destroy \/ s \in registry) \in BOOLEAN
    OBVIOUS
  <2> QED BY <2>1, <2>2 DEF Session, ClosedFirst
<1>2. /\ sess' = [s \in Sessions |-> Told(s)] /\ UNCHANGED <<batches, dcids>>
  BY DEF DestroyServer, table, receiver
<1> HIDE DEF Told
<1>3. Types'
  BY <1>1, <1>2 DEF IInv, Types
<1> QED BY <1>1, <1>2, <1>3, KeepsAll

\* Every step keeps the invariant, and silence after a CONNECTION_CLOSE.
LEMMA StepKeeps ==
  ASSUME IInv, [Next]_vars
  PROVE  IInv' /\ Quiet
<1>1. CASE Receive
  BY <1>1, ReceiveKeeps
<1>2. CASE PostBatches
  BY <1>2, PostKeeps
<1>3. CASE DestroyServer
  BY <1>3, DestroyKeeps
<1>4. CASE UNCHANGED <<dcids, sess, batches>>
  BY <1>4, KeepsAll DEF IInv, Types
<1>5. ASSUME NEW s \in Sessions, RunBatch(s) \/ Register(s) \/ TimerFires(s)
      PROVE  IInv' /\ Quiet
  BY <1>5, StrandMoves
<1>6. ASSUME NEW s \in Sessions, RunInit(s) \/ Feed(s)
      PROVE  IInv' /\ Quiet
  BY <1>6, RunInitHandled, FeedHandled, HandledKeeps DEF RunInit, Feed, receiver, Quiet
<1>7. ASSUME NEW s \in Sessions,
             \/ FlushBatch(s) \/ CloseTimerRuns(s) \/ SessionEnds(s) \/ RunDestroy(s)
             \/ ApplicationRuns(s) \/ IdleExpires(s) \/ ExpiryRuns(s)
      PROVE  IInv' /\ Quiet
  <2>1. UNCHANGED batches
    BY <1>7 DEF FlushBatch, CloseTimerRuns, SessionEnds, RunDestroy, ApplicationRuns,
                IdleExpires, ExpiryRuns, receiver
  <2> QED BY <1>7, <2>1, OthersHandled, HandledKeeps DEF Quiet
<1>8. CASE ReceiveLoopEnds \/ CloseSocket \/ UNCHANGED vars
  BY <1>4, <1>8 DEF ReceiveLoopEnds, CloseSocket, vars, table, receiver
<1> QED BY <1>1, <1>2, <1>3, <1>5, <1>6, <1>7, <1>8 DEF Next, ReceiveLoop, Strand

-----------------------------------------------------------------------------
(* The theorems.                                                           *)

\* The invariant holds when the server has made no session.
LEMMA InitIInv == Init => IInv
<1> SUFFICES ASSUME Init PROVE IInv
  OBVIOUS
<1>1. NoBatch \in Batch
  BY DEF NoBatch, Batch
<1>2. Types
  BY <1>1, NoSessionType DEF Init, Types
<1>3. \A s \in Sessions : sess[s].client = "none" /\ ClosedFirst(sess[s])
  BY DEF Init, NoSession, ClosedFirst
<1> QED BY <1>2, <1>3 DEF IInv, Leads, Exists

\* In every state that the server reaches, the connection ID that a client has chosen leads
\* to the session that is alive for it (udp_on_read(), erase_quic_session()), and only a
\* session that is closed has sent CONNECTION_CLOSE or waits for the end of a closing or
\* draining period (handle_error(), do_destroy(), schedule_close_timer()).
THEOREM Safety == Spec => []IInv
<1>1. IInv /\ [Next]_vars => IInv'
  BY StepKeeps
<1> QED BY <1>1, InitIInv, PTL DEF Spec

\* No client has two sessions that are alive, however often its Initial arrives and whatever
\* batch it is in (udp_on_read()): both would be what its connection ID leads to.
THEOREM OneSessionEach == Spec => []OneSession
<1>1. IInv => OneSession
  BY DEF IInv, Leads, OneSession, Exists
<1> QED BY <1>1, Safety, PTL

\* CONNECTION_CLOSE is the last that a session sends: a flush or a timer that was queued
\* before finds it closed (flush_write(), handle_expiry()), and what answers a late datagram
\* is the CONNECTION_CLOSE again (resend_conn_close()).
THEOREM NothingAfterClose == Spec => CloseIsLast
<1>1. IInv /\ [Next]_vars =>
        [\A s \in Sessions : sess[s].sent = "close" => sess'[s].sent # "packet"]_vars
  BY StepKeeps DEF Quiet
<1> QED BY <1>1, Safety, PTL DEF Spec, CloseIsLast
=============================================================================
