-------------------------- MODULE H2SessionProofs ---------------------------
(***************************************************************************)
(* Proofs about H2Session, for any number of requests and any limits, and  *)
(* about its sibling H2v2Session, which is instantiated as V2.             *)
(***************************************************************************)
EXTENDS H2Session, FiniteSetTheorems, TLAPS

\* Before do_session() has begun, neither loop has done anything.
AtStart ==
    do = "start" => /\ send = "ready" /\ queued = {} /\ open = {} /\ settled = 0
                    /\ ~terminating /\ ~goaway_sent

\* A termination that was asked for is waiting to be sent, or a GOAWAY was sent, as long as
\* there is an engine.
TermPending == do # "over" /\ terminating => "term" \in out \/ goaway_sent

\* Who ends reading has asked for a GOAWAY, or knows that there was one.
RecvDoneTold == recv_done => terminating \/ goaway_sent

\* The send loop does not end by itself before a GOAWAY went either way.
SendDoneTold == send = "done" => send_failed \/ threw \/ goaway_sent \/ goaway_recv

\* The connection is ended in good order only after both loops are over, and none has thrown.
EndsInOrder == do = "ending" => send = "done" /\ ~threw

\* What async_submit() counts holds all that nghttp2 has to start or has open, as long as the
\* session is served; and once it has let a request through, that is not more than the peer has
\* allowed in its last SETTINGS.
Counted ==
    /\ role = "server" => queued = {}
    /\ send # "done" =>
        /\ open \subseteq streams /\ queued \subseteq streams
        /\ role = "client" =>
            \A s \in streams : s > settled => Cardinality(streams) <= limit

\* The inductive invariant.
IInv ==
    /\ TypeOK /\ AtStart /\ TermPending /\ RecvDoneTold /\ SendDoneTold /\ EndsInOrder
    /\ NoLostWakeUp /\ Counted

-----------------------------------------------------------------------------
(* Type correctness.                                                       *)

\* What nghttp2 has open, and what is in streams_, are finitely many.
LEMMA Finite ==
  ASSUME TypeOK
  PROVE  IsFiniteSet(open) /\ IsFiniteSet(streams)
<1>1. IsFiniteSet(1 .. last_id)
  BY FS_Interval DEF TypeOK
<1> QED BY <1>1, FS_Subset DEF TypeOK

\* A frame opens one stream at most: the next one, or none.
LEMMA OpenedOne ==
  ASSUME TypeOK, NEW opened, opened \subseteq {last_id + 1} \cap Ids
  PROVE  \/ opened = {} /\ Cardinality(opened) = 0
         \/ opened = {last_id + 1} /\ last_id + 1 <= MaxStreams /\ Cardinality(opened) = 1
<1>1. CASE opened = {}
  BY <1>1, FS_EmptySet
<1>2. CASE opened # {}
  <2>1. opened = {last_id + 1} /\ last_id + 1 \in Ids
    BY <1>2
  <2>2. Cardinality(opened) = 1
    BY <2>1, FS_Singleton
  <2> QED BY <2>1, <2>2, MaxStreamsAssumption DEF Ids, TypeOK
<1> QED BY <1>1, <1>2

\* Every step of the session and its loops leaves each field with a value of its type.
LEMMA TypeStep ==
  ASSUME TypeOK, AtStart, [Next]_vars
  PROVE  TypeOK'
<1> USE MaxStreamsAssumption DEF TypeOK, Phases, engine, fields, ending, requests
<1>1. ASSUME NEW taken \in SUBSET out, NEW started \in SUBSET queued, NEW data \in BOOLEAN,
             NEW closed \in SUBSET (open \cup started), NEW erased \in SUBSET closed,
             SendFrames(taken, started, closed, erased, data)
      PROVE  TypeOK'
  BY <1>1 DEF SendFrames
<1>2. CASE SendNothing
  <2>1. CASE send' = "waiting" /\ UNCHANGED <<streams, send_failed, recv>>
    BY <1>2, <2>1 DEF SendNothing
  <2>2. CASE SendEnds(FALSE)
    BY <1>2, <2>2 DEF SendNothing, SendEnds, Canceled
  <2> QED BY <1>2, <2>1, <2>2 DEF SendNothing
<1>3. CASE WriteContinues
  BY <1>3 DEF WriteContinues
<1>4. CASE WriteDone
  BY <1>4 DEF WriteDone
<1>5. CASE WriteFails
  BY <1>5 DEF WriteFails, SendEnds, Canceled
<1>6. CASE SendThrows
  BY <1>6 DEF SendThrows, Canceled
<1>7. ASSUME NEW opened \in SUBSET {last_id + 1}, NEW closed \in SUBSET open,
             NEW erased \in SUBSET closed,
             NEW goaway \in BOOLEAN, NEW error \in BOOLEAN, NEW frame \in BOOLEAN,
             Receive(opened, closed, erased, goaway, error, frame)
      PROVE  TypeOK'
  <2>1. /\ last_id' \in 0 .. MaxStreams /\ open' \subseteq 1 .. last_id'
        /\ streams' \subseteq 1 .. last_id'
        /\ settled' \in 0 .. last_id' /\ queued' \subseteq (1 .. last_id') \ open'
    <3>1. /\ opened \subseteq {last_id + 1} \cap Ids /\ last_id' = last_id + Cardinality(opened)
          /\ open' = (open \cup opened) \ closed /\ streams' = (streams \cup opened) \ erased
          /\ UNCHANGED <<settled, queued>>
      BY <1>7 DEF Receive, requests
    <3>2. CASE opened = {} /\ Cardinality(opened) = 0
      BY <3>1, <3>2
    <3>3. CASE /\ opened = {last_id + 1} /\ last_id + 1 <= MaxStreams
               /\ Cardinality(opened) = 1
      BY <3>1, <3>3
    <3> QED BY <3>1, <3>2, <3>3, OpenedOne
  <2>2. /\ out' \subseteq {"frame", "term"} /\ terminating' \in BOOLEAN
        /\ recv_done' \in BOOLEAN
        /\ recv' \in {"done"} \cup Phases /\ send' \in {"ready", "waiting", "done"} \cup Phases
    <3> DEFINE out_ == out \cup (IF frame THEN {"frame"} ELSE {})
                           \cup (IF error THEN Termination ELSE {})
    <3>1. out_ \subseteq {"frame", "term"}
      BY DEF Termination
    <3>2. CASE RecvEnds(out_, terminating)
      BY <3>1, <3>2 DEF RecvEnds, StartWrite
    <3>3. CASE /\ out' = out_ /\ terminating' = (terminating \/ error)
               /\ recv' = IF threw THEN "ended" ELSE "parked"
               /\ StartWrite(send) /\ UNCHANGED recv_done
      BY <3>1, <3>3 DEF StartWrite
    <3> HIDE DEF out_
    <3> QED BY <1>7, <3>2, <3>3 DEF Receive, out_
  <2>3. /\ goaway_recv' \in BOOLEAN
        /\ UNCHANGED <<role, requests, send_failed, goaway_sent, do, threw, ending>>
    BY <1>7 DEF Receive
  <2> QED BY <2>1, <2>2, <2>3
<1>8. CASE ReceiveLate
  BY <1>8 DEF ReceiveLate, RecvEnds, StartWrite
<1>9. CASE ReceiveEnds
  BY <1>9 DEF ReceiveEnds, RecvEnds, StartWrite
<1>10. ASSUME NEW upgrade \in BOOLEAN, NEW accepted \in BOOLEAN, NEW received \in BOOLEAN,
              Start(upgrade, accepted, received)
       PROVE  TypeOK'
  BY <1>10 DEF Start, AtStart, requests
<1>11. CASE LoopsEnd
  BY <1>11 DEF LoopsEnd
<1>12. CASE EndConnection
  BY <1>12 DEF EndConnection
<1>13. CASE SocketWritable
  BY <1>13 DEF SocketWritable
<1>14. CASE SocketReadable
  BY <1>14 DEF SocketReadable
<1>15. CASE WriteBreaks
  BY <1>15 DEF WriteBreaks
<1>16. CASE ReadBreaks
  BY <1>16 DEF ReadBreaks
<1>17. CASE Submit
  BY <1>17 DEF Submit, StartWrite
<1>18. ASSUME NEW frame \in BOOLEAN, UseStream(frame) PROVE TypeOK'
  BY <1>18 DEF UseStream, StartWrite
<1>19. ASSUME NEW s \in streams, NEW reads \in BOOLEAN, FinishStream(s, reads) PROVE TypeOK'
  BY <1>19 DEF FinishStream, StartWrite
<1>20. CASE Shutdown
  BY <1>20 DEF Shutdown, StartWrite, Termination
<1>21. CASE Destroy
  BY <1>21 DEF Destroy
<1>22. CASE TimerExpires
  BY <1>22 DEF TimerExpires
<1>23. CASE TimerRuns
  BY <1>23 DEF TimerRuns, Canceled
<1>24. CASE ShutdownReturns
  BY <1>24 DEF ShutdownReturns
<1>25. CASE UNCHANGED vars
  BY <1>25 DEF vars
<1>26. ASSUME NEW value \in Limits, ReceiveSettings(value) PROVE TypeOK'
  BY <1>26, LimitAssumption DEF ReceiveSettings, StartWrite
<1> HIDE DEF TypeOK
<1> QED
  BY <1>1, <1>2, <1>3, <1>4, <1>5, <1>6, <1>7, <1>8, <1>9, <1>10, <1>11, <1>12, <1>13,
     <1>14, <1>15, <1>16, <1>17, <1>18, <1>19, <1>20, <1>21, <1>22, <1>23, <1>24, <1>25,
     <1>26
     DEF Next, SendLoop, RecvLoop, Session, Peer, User

-----------------------------------------------------------------------------
(* The parts of the invariant.                                             *)

\* do_session() begins once, and before that, nothing goes on.
LEMMA AtStartStep ==
  ASSUME TypeOK, AtStart, [Next]_vars
  PROVE  AtStart'
<1> USE DEF TypeOK, AtStart, HasEngine, engine, fields, ending, requests
<1>1. ASSUME NEW taken \in SUBSET out, NEW started \in SUBSET queued, NEW data \in BOOLEAN,
             NEW closed \in SUBSET (open \cup started), NEW erased \in SUBSET closed,
             SendFrames(taken, started, closed, erased, data)
      PROVE  AtStart'
  BY <1>1 DEF SendFrames
<1>2. CASE SendNothing
  BY <1>2 DEF SendNothing, SendEnds, Canceled
<1>3. CASE WriteContinues \/ WriteDone \/ SocketWritable \/ SocketReadable \/ WriteBreaks \/
           ReadBreaks
  BY <1>3 DEF WriteContinues, WriteDone, SocketWritable, SocketReadable, WriteBreaks, ReadBreaks
<1>4. CASE WriteFails \/ SendThrows
  BY <1>4 DEF WriteFails, SendEnds, Canceled, SendThrows
<1>5. ASSUME NEW opened \in SUBSET {last_id + 1}, NEW closed \in SUBSET open,
             NEW erased \in SUBSET closed,
             NEW goaway \in BOOLEAN, NEW error \in BOOLEAN, NEW frame \in BOOLEAN,
             Receive(opened, closed, erased, goaway, error, frame)
      PROVE  AtStart'
  BY <1>5 DEF Receive, RecvEnds, StartWrite
<1>6. CASE ReceiveLate \/ ReceiveEnds \/ (\E value \in Limits : ReceiveSettings(value))
  BY <1>6 DEF ReceiveLate, RecvEnds, StartWrite, ReceiveEnds, ReceiveSettings
<1>7. ASSUME NEW upgrade \in BOOLEAN, NEW accepted \in BOOLEAN, NEW received \in BOOLEAN,
             Start(upgrade, accepted, received)
      PROVE  AtStart'
  BY <1>7 DEF Start
<1>8. CASE LoopsEnd \/ EndConnection
  BY <1>8 DEF LoopsEnd, EndConnection
<1>9. CASE Submit \/ (\E frame \in BOOLEAN : UseStream(frame))
  BY <1>9 DEF Submit, StartWrite, UseStream
<1>10. ASSUME NEW s \in streams, NEW reads \in BOOLEAN, FinishStream(s, reads) PROVE AtStart'
  BY <1>10 DEF FinishStream, StartWrite
<1>11. CASE Shutdown
  BY <1>11 DEF Shutdown, StartWrite
<1>12. CASE Destroy \/ TimerExpires \/ TimerRuns \/ ShutdownReturns
  BY <1>12 DEF Destroy, TimerExpires, TimerRuns, Canceled, ShutdownReturns
<1>13. CASE UNCHANGED vars
  BY <1>13 DEF vars
<1> HIDE DEF TypeOK, AtStart
<1> QED
  BY <1>1, <1>2, <1>3, <1>4, <1>5, <1>6, <1>7, <1>8, <1>9, <1>10, <1>11, <1>12, <1>13
     DEF Next, SendLoop, RecvLoop, Session, Peer, User

\* nghttp2_session_terminate_session() is asked for once, and its GOAWAY stays in the queue
\* until it is sent.
LEMMA TermStep ==
  ASSUME TypeOK, AtStart, TermPending, [Next]_vars
  PROVE  TermPending'
<1> USE DEF TypeOK, AtStart, TermPending, engine, fields, ending, requests
<1>1. ASSUME NEW taken \in SUBSET out, NEW started \in SUBSET queued, NEW data \in BOOLEAN,
             NEW closed \in SUBSET (open \cup started), NEW erased \in SUBSET closed,
             SendFrames(taken, started, closed, erased, data)
      PROVE  TermPending'
  BY <1>1 DEF SendFrames
<1>2. CASE SendNothing
  BY <1>2 DEF SendNothing, SendEnds, Canceled
<1>3. CASE WriteContinues \/ WriteDone \/ SocketWritable \/ SocketReadable \/ WriteBreaks \/
           ReadBreaks
  BY <1>3 DEF WriteContinues, WriteDone, SocketWritable, SocketReadable, WriteBreaks, ReadBreaks
<1>4. CASE WriteFails \/ SendThrows
  BY <1>4 DEF WriteFails, SendEnds, Canceled, SendThrows
<1>5. ASSUME NEW opened \in SUBSET {last_id + 1}, NEW closed \in SUBSET open,
             NEW erased \in SUBSET closed,
             NEW goaway \in BOOLEAN, NEW error \in BOOLEAN, NEW frame \in BOOLEAN,
             Receive(opened, closed, erased, goaway, error, frame)
      PROVE  TermPending'
  <2>1. "term" \in out => "term" \in out'
    BY <1>5 DEF Receive, RecvEnds
  <2>2. terminating' /\ ~terminating => "term" \in out'
    BY <1>5 DEF Receive, RecvEnds, Termination
  <2>3. UNCHANGED <<do, goaway_sent>>
    BY <1>5 DEF Receive
  <2> QED BY <2>1, <2>2, <2>3
<1>6. CASE ReceiveLate \/ ReceiveEnds \/ (\E value \in Limits : ReceiveSettings(value))
  BY <1>6 DEF ReceiveLate, RecvEnds, StartWrite, ReceiveEnds, ReceiveSettings
<1>7. ASSUME NEW upgrade \in BOOLEAN, NEW accepted \in BOOLEAN, NEW received \in BOOLEAN,
             Start(upgrade, accepted, received)
      PROVE  TermPending'
  BY <1>7 DEF Start
<1>8. CASE LoopsEnd \/ EndConnection
  BY <1>8 DEF LoopsEnd, EndConnection
<1>9. CASE Submit \/ (\E frame \in BOOLEAN : UseStream(frame))
  BY <1>9 DEF Submit, StartWrite, UseStream
<1>10. ASSUME NEW s \in streams, NEW reads \in BOOLEAN, FinishStream(s, reads) PROVE TermPending'
  BY <1>10 DEF FinishStream, StartWrite
<1>11. CASE Shutdown
  BY <1>11 DEF Shutdown, StartWrite, Termination
<1>12. CASE Destroy \/ TimerExpires \/ TimerRuns \/ ShutdownReturns
  BY <1>12 DEF Destroy, TimerExpires, TimerRuns, Canceled, ShutdownReturns
<1>13. CASE UNCHANGED vars
  BY <1>13 DEF vars
<1> HIDE DEF TypeOK, AtStart, TermPending
<1> QED
  BY <1>1, <1>2, <1>3, <1>4, <1>5, <1>6, <1>7, <1>8, <1>9, <1>10, <1>11, <1>12, <1>13
     DEF Next, SendLoop, RecvLoop, Session, Peer, User

\* Both the end of recv_loop() and shutdown() see to it that there is a GOAWAY.
LEMMA RecvDoneStep ==
  ASSUME TypeOK, AtStart, RecvDoneTold, [Next]_vars
  PROVE  RecvDoneTold'
<1> USE DEF TypeOK, AtStart, RecvDoneTold, engine, fields, ending, requests
<1>1. ASSUME NEW taken \in SUBSET out, NEW started \in SUBSET queued, NEW data \in BOOLEAN,
             NEW closed \in SUBSET (open \cup started), NEW erased \in SUBSET closed,
             SendFrames(taken, started, closed, erased, data)
      PROVE  RecvDoneTold'
  BY <1>1 DEF SendFrames
<1>2. CASE SendNothing
  BY <1>2 DEF SendNothing, SendEnds, Canceled
<1>3. CASE WriteContinues \/ WriteDone \/ SocketWritable \/ SocketReadable \/ WriteBreaks \/
           ReadBreaks
  BY <1>3 DEF WriteContinues, WriteDone, SocketWritable, SocketReadable, WriteBreaks, ReadBreaks
<1>4. CASE WriteFails \/ SendThrows
  BY <1>4 DEF WriteFails, SendEnds, Canceled, SendThrows
<1>5. ASSUME NEW opened \in SUBSET {last_id + 1}, NEW closed \in SUBSET open,
             NEW erased \in SUBSET closed,
             NEW goaway \in BOOLEAN, NEW error \in BOOLEAN, NEW frame \in BOOLEAN,
             Receive(opened, closed, erased, goaway, error, frame)
      PROVE  RecvDoneTold'
  <2>1. recv_done' => recv_done \/ terminating' \/ goaway_sent
    BY <1>5 DEF Receive, RecvEnds
  <2>2. terminating => terminating'
    BY <1>5 DEF Receive, RecvEnds
  <2> QED BY <1>5, <2>1, <2>2 DEF Receive
<1>6. CASE ReceiveLate \/ ReceiveEnds \/ (\E value \in Limits : ReceiveSettings(value))
  BY <1>6 DEF ReceiveLate, RecvEnds, StartWrite, ReceiveEnds, ReceiveSettings
<1>7. ASSUME NEW upgrade \in BOOLEAN, NEW accepted \in BOOLEAN, NEW received \in BOOLEAN,
             Start(upgrade, accepted, received)
      PROVE  RecvDoneTold'
  BY <1>7 DEF Start
<1>8. CASE LoopsEnd \/ EndConnection
  BY <1>8 DEF LoopsEnd, EndConnection
<1>9. CASE Submit \/ (\E frame \in BOOLEAN : UseStream(frame))
  BY <1>9 DEF Submit, StartWrite, UseStream
<1>10. ASSUME NEW s \in streams, NEW reads \in BOOLEAN, FinishStream(s, reads) PROVE RecvDoneTold'
  BY <1>10 DEF FinishStream, StartWrite
<1>11. CASE Shutdown
  BY <1>11 DEF Shutdown, StartWrite
<1>12. CASE Destroy \/ TimerExpires \/ TimerRuns \/ ShutdownReturns
  BY <1>12 DEF Destroy, TimerExpires, TimerRuns, Canceled, ShutdownReturns
<1>13. CASE UNCHANGED vars
  BY <1>13 DEF vars
<1> HIDE DEF TypeOK, AtStart, RecvDoneTold
<1> QED
  BY <1>1, <1>2, <1>3, <1>4, <1>5, <1>6, <1>7, <1>8, <1>9, <1>10, <1>11, <1>12, <1>13
     DEF Next, SendLoop, RecvLoop, Session, Peer, User

\* send_loop() ends when a write has failed, or nghttp2 wants neither to read nor to write, or
\* reading is over and everything is sent, the GOAWAY with it.
LEMMA SendDoneStep ==
  ASSUME TypeOK, TermPending, RecvDoneTold, SendDoneTold, [Next]_vars
  PROVE  SendDoneTold'
<1> USE DEF TypeOK, TermPending, RecvDoneTold, SendDoneTold, engine, fields, ending, requests
<1>1. ASSUME NEW taken \in SUBSET out, NEW started \in SUBSET queued, NEW data \in BOOLEAN,
             NEW closed \in SUBSET (open \cup started), NEW erased \in SUBSET closed,
             SendFrames(taken, started, closed, erased, data)
      PROVE  SendDoneTold'
  BY <1>1 DEF SendFrames
<1>2. CASE SendNothing
  BY <1>2 DEF SendNothing, SendEnds, Canceled, WantRead, Sendable
<1>3. CASE WriteContinues \/ WriteDone \/ SocketWritable \/ SocketReadable \/ WriteBreaks \/
           ReadBreaks
  BY <1>3 DEF WriteContinues, WriteDone, SocketWritable, SocketReadable, WriteBreaks, ReadBreaks
<1>4. CASE WriteFails \/ SendThrows
  BY <1>4 DEF WriteFails, SendEnds, Canceled, SendThrows
<1>5. ASSUME NEW opened \in SUBSET {last_id + 1}, NEW closed \in SUBSET open,
             NEW erased \in SUBSET closed,
             NEW goaway \in BOOLEAN, NEW error \in BOOLEAN, NEW frame \in BOOLEAN,
             Receive(opened, closed, erased, goaway, error, frame)
      PROVE  SendDoneTold'
  BY <1>5 DEF Receive, RecvEnds, StartWrite
<1>6. CASE ReceiveLate \/ ReceiveEnds \/ (\E value \in Limits : ReceiveSettings(value))
  BY <1>6 DEF ReceiveLate, RecvEnds, StartWrite, ReceiveEnds, ReceiveSettings
<1>7. ASSUME NEW upgrade \in BOOLEAN, NEW accepted \in BOOLEAN, NEW received \in BOOLEAN,
             Start(upgrade, accepted, received)
      PROVE  SendDoneTold'
  BY <1>7 DEF Start
<1>8. CASE LoopsEnd \/ EndConnection
  BY <1>8 DEF LoopsEnd, EndConnection
<1>9. CASE Submit \/ (\E frame \in BOOLEAN : UseStream(frame))
  BY <1>9 DEF Submit, StartWrite, UseStream
<1>10. ASSUME NEW s \in streams, NEW reads \in BOOLEAN, FinishStream(s, reads) PROVE SendDoneTold'
  BY <1>10 DEF FinishStream, StartWrite
<1>11. CASE Shutdown
  BY <1>11 DEF Shutdown, StartWrite
<1>12. CASE Destroy \/ TimerExpires \/ TimerRuns \/ ShutdownReturns
  BY <1>12 DEF Destroy, TimerExpires, TimerRuns, Canceled, ShutdownReturns
<1>13. CASE UNCHANGED vars
  BY <1>13 DEF vars
<1> HIDE DEF TypeOK, TermPending, RecvDoneTold, SendDoneTold
<1> QED
  BY <1>1, <1>2, <1>3, <1>4, <1>5, <1>6, <1>7, <1>8, <1>9, <1>10, <1>11, <1>12, <1>13
     DEF Next, SendLoop, RecvLoop, Session, Peer, User

\* do_session() goes on to end_connection() only from the end of both loops.
LEMMA EndsStep ==
  ASSUME TypeOK, EndsInOrder, [Next]_vars
  PROVE  EndsInOrder'
<1> USE DEF TypeOK, EndsInOrder, engine, fields, ending, requests
<1>1. ASSUME NEW taken \in SUBSET out, NEW started \in SUBSET queued, NEW data \in BOOLEAN,
             NEW closed \in SUBSET (open \cup started), NEW erased \in SUBSET closed,
             SendFrames(taken, started, closed, erased, data)
      PROVE  EndsInOrder'
  BY <1>1 DEF SendFrames
<1>2. CASE SendNothing
  BY <1>2 DEF SendNothing, SendEnds, Canceled
<1>3. CASE WriteContinues \/ WriteDone \/ SocketWritable \/ SocketReadable \/ WriteBreaks \/
           ReadBreaks
  BY <1>3 DEF WriteContinues, WriteDone, SocketWritable, SocketReadable, WriteBreaks, ReadBreaks
<1>4. CASE WriteFails \/ SendThrows
  BY <1>4 DEF WriteFails, SendEnds, Canceled, SendThrows
<1>5. ASSUME NEW opened \in SUBSET {last_id + 1}, NEW closed \in SUBSET open,
             NEW erased \in SUBSET closed,
             NEW goaway \in BOOLEAN, NEW error \in BOOLEAN, NEW frame \in BOOLEAN,
             Receive(opened, closed, erased, goaway, error, frame)
      PROVE  EndsInOrder'
  BY <1>5 DEF Receive, RecvEnds, StartWrite
<1>6. CASE ReceiveLate \/ ReceiveEnds \/ (\E value \in Limits : ReceiveSettings(value))
  BY <1>6 DEF ReceiveLate, RecvEnds, StartWrite, ReceiveEnds, ReceiveSettings
<1>7. ASSUME NEW upgrade \in BOOLEAN, NEW accepted \in BOOLEAN, NEW received \in BOOLEAN,
             Start(upgrade, accepted, received)
      PROVE  EndsInOrder'
  BY <1>7 DEF Start
<1>8. CASE LoopsEnd \/ EndConnection
  BY <1>8 DEF LoopsEnd, EndConnection
<1>9. CASE Submit \/ (\E frame \in BOOLEAN : UseStream(frame))
  BY <1>9 DEF Submit, StartWrite, UseStream
<1>10. ASSUME NEW s \in streams, NEW reads \in BOOLEAN, FinishStream(s, reads) PROVE EndsInOrder'
  BY <1>10 DEF FinishStream, StartWrite
<1>11. CASE Shutdown
  BY <1>11 DEF Shutdown, StartWrite
<1>12. CASE Destroy \/ TimerExpires \/ TimerRuns \/ ShutdownReturns
  BY <1>12 DEF Destroy, TimerExpires, TimerRuns, Canceled, ShutdownReturns
<1>13. CASE UNCHANGED vars
  BY <1>13 DEF vars
<1> HIDE DEF TypeOK, EndsInOrder
<1> QED
  BY <1>1, <1>2, <1>3, <1>4, <1>5, <1>6, <1>7, <1>8, <1>9, <1>10, <1>11, <1>12, <1>13
     DEF Next, SendLoop, RecvLoop, Session, Peer, User

\* Whatever gives send_loop() something to do wakes it up.
LEMMA WakeUpStep ==
  ASSUME TypeOK, AtStart, NoLostWakeUp, [Next]_vars
  PROVE  NoLostWakeUp'
<1> USE DEF TypeOK, AtStart, NoLostWakeUp, Sendable, engine, fields, ending, requests
<1>1. ASSUME NEW taken \in SUBSET out, NEW started \in SUBSET queued, NEW data \in BOOLEAN,
             NEW closed \in SUBSET (open \cup started), NEW erased \in SUBSET closed,
             SendFrames(taken, started, closed, erased, data)
      PROVE  NoLostWakeUp'
  BY <1>1 DEF SendFrames
<1>2. CASE SendNothing
  BY <1>2 DEF SendNothing, SendEnds, Canceled
<1>3. CASE WriteContinues \/ WriteDone \/ SocketWritable \/ SocketReadable \/ WriteBreaks \/
           ReadBreaks
  BY <1>3 DEF WriteContinues, WriteDone, SocketWritable, SocketReadable, WriteBreaks, ReadBreaks
<1>4. CASE WriteFails \/ SendThrows
  BY <1>4 DEF WriteFails, SendEnds, Canceled, SendThrows
<1>5. ASSUME NEW opened \in SUBSET {last_id + 1}, NEW closed \in SUBSET open,
             NEW erased \in SUBSET closed,
             NEW goaway \in BOOLEAN, NEW error \in BOOLEAN, NEW frame \in BOOLEAN,
             Receive(opened, closed, erased, goaway, error, frame)
      PROVE  NoLostWakeUp'
  BY <1>5 DEF Receive, RecvEnds, StartWrite
<1>6. CASE ReceiveLate \/ ReceiveEnds \/ (\E value \in Limits : ReceiveSettings(value))
  BY <1>6 DEF ReceiveLate, RecvEnds, StartWrite, ReceiveEnds, ReceiveSettings
<1>7. ASSUME NEW upgrade \in BOOLEAN, NEW accepted \in BOOLEAN, NEW received \in BOOLEAN,
             Start(upgrade, accepted, received)
      PROVE  NoLostWakeUp'
  BY <1>7 DEF Start
<1>8. CASE LoopsEnd \/ EndConnection
  BY <1>8 DEF LoopsEnd, EndConnection
<1>9. CASE Submit \/ (\E frame \in BOOLEAN : UseStream(frame))
  BY <1>9 DEF Submit, StartWrite, UseStream
<1>10. ASSUME NEW s \in streams, NEW reads \in BOOLEAN, FinishStream(s, reads) PROVE NoLostWakeUp'
  BY <1>10 DEF FinishStream, StartWrite
<1>11. CASE Shutdown
  BY <1>11 DEF Shutdown, StartWrite
<1>12. CASE Destroy \/ TimerExpires \/ TimerRuns \/ ShutdownReturns
  BY <1>12 DEF Destroy, TimerExpires, TimerRuns, Canceled, ShutdownReturns
<1>13. CASE UNCHANGED vars
  BY <1>13 DEF vars
<1> HIDE DEF TypeOK, AtStart, NoLostWakeUp
<1> QED
  BY <1>1, <1>2, <1>3, <1>4, <1>5, <1>6, <1>7, <1>8, <1>9, <1>10, <1>11, <1>12, <1>13
     DEF Next, SendLoop, RecvLoop, Session, Peer, User

\* A set of streams that has become smaller is within the limit if it was before.
LEMMA Fewer ==
  ASSUME TypeOK, NEW S, S \subseteq streams
  PROVE  Cardinality(S) \in Nat /\ Cardinality(S) <= Cardinality(streams)
BY Finite, FS_Subset, FS_CardinalityType

\* Streams are made by async_submit() within the limit, or by a client on a server, and they are
\* erased only after nghttp2 has closed them, or the send loop is over.
LEMMA CountedStep ==
  ASSUME TypeOK, AtStart, Counted, [Next]_vars
  PROVE  Counted'
<1> USE LimitAssumption DEF Counted, engine, fields, ending, requests
<1>1. ASSUME NEW taken \in SUBSET out, NEW started \in SUBSET queued, NEW data \in BOOLEAN,
             NEW closed \in SUBSET (open \cup started), NEW erased \in SUBSET closed,
             SendFrames(taken, started, closed, erased, data)
      PROVE  Counted'
  <2>1. /\ streams' \subseteq streams /\ queued' \subseteq queued
        /\ UNCHANGED <<role, limit, settled>> /\ send # "done"
    BY <1>1 DEF SendFrames
  <2>2. open' \subseteq streams' /\ queued' \subseteq streams'
    BY <1>1 DEF SendFrames, TypeOK
  <2>3. Cardinality(streams') \in Nat /\ Cardinality(streams') <= Cardinality(streams)
    BY <2>1, Fewer
  <2>4. Cardinality(streams) \in Nat /\ limit \in Nat
    BY Finite, FS_CardinalityType DEF TypeOK
  <2> QED BY <2>1, <2>2, <2>3, <2>4
<1>2. CASE SendNothing
  BY <1>2 DEF SendNothing, SendEnds, Canceled
<1>3. CASE WriteContinues \/ WriteDone \/ SocketWritable \/ SocketReadable \/ WriteBreaks \/
           ReadBreaks
  BY <1>3 DEF WriteContinues, WriteDone, SocketWritable, SocketReadable, WriteBreaks, ReadBreaks
<1>4. CASE WriteFails \/ SendThrows
  BY <1>4 DEF WriteFails, SendEnds, Canceled, SendThrows
<1>5. ASSUME NEW opened \in SUBSET {last_id + 1}, NEW closed \in SUBSET open,
             NEW erased \in SUBSET closed,
             NEW goaway \in BOOLEAN, NEW error \in BOOLEAN, NEW frame \in BOOLEAN,
             Receive(opened, closed, erased, goaway, error, frame)
      PROVE  Counted'
  <2>1. /\ send' = "done" <=> send = "done"
        /\ UNCHANGED <<role, queued, limit, settled>>
    BY <1>5 DEF Receive, RecvEnds, StartWrite
  <2>2. send # "done" => open' \subseteq streams' /\ queued' \subseteq streams'
    BY <1>5, <2>1 DEF Receive, TypeOK
  <2>3. CASE opened = {}
    <3>1. streams' \subseteq streams
      BY <1>5, <2>3 DEF Receive
    <3>2. Cardinality(streams') \in Nat /\ Cardinality(streams') <= Cardinality(streams)
      BY <3>1, Fewer
    <3>3. Cardinality(streams) \in Nat /\ limit \in Nat
      BY Finite, FS_CardinalityType DEF TypeOK
    <3> QED BY <2>1, <2>2, <3>1, <3>2, <3>3
  <2>4. CASE opened # {}
    <3>1. role = "server"
      BY <1>5, <2>4 DEF Receive
    <3> QED BY <2>1, <2>2, <3>1
  <2> QED BY <2>3, <2>4
<1>6. CASE ReceiveLate \/ ReceiveEnds
  BY <1>6 DEF ReceiveLate, RecvEnds, StartWrite, ReceiveEnds
<1>7. ASSUME NEW upgrade \in BOOLEAN, NEW accepted \in BOOLEAN, NEW received \in BOOLEAN,
             Start(upgrade, accepted, received)
      PROVE  Counted'
  <2>1. /\ open' = streams' /\ (role' = "client" => streams' = 1 .. 0)
        /\ queued' = {}
    BY <1>7 DEF Start, AtStart
  <2> QED BY <2>1
<1>8. CASE LoopsEnd
  BY <1>8 DEF LoopsEnd
<1>9. CASE EndConnection
  BY <1>9 DEF EndConnection
<1>10. CASE Submit
  <2>1. /\ send' = "done" <=> send = "done"
        /\ role = "client" /\ UNCHANGED <<role, open, limit>>
        /\ queued' = queued \cup {last_id + 1} /\ streams' = streams \cup {last_id + 1}
    BY <1>10 DEF Submit, StartWrite, RequestAllowed
  <2>2. Cardinality(streams') <= limit'
    <3>1. last_id + 1 \notin streams
      BY DEF TypeOK
    <3>2. Cardinality(streams') = Cardinality(streams) + 1 /\ Cardinality(streams) \in Nat
      BY <2>1, <3>1, Finite, FS_AddElement, FS_CardinalityType
    <3>3. Cardinality(streams) < limit /\ limit' = limit /\ limit \in Nat
      BY <1>10 DEF Submit, TypeOK
    <3> QED BY <3>2, <3>3
  <2>3. send # "done" => open' \subseteq streams' /\ queued' \subseteq streams'
    BY <2>1
  <2> QED BY <2>1, <2>2, <2>3
<1>11. ASSUME NEW frame \in BOOLEAN, UseStream(frame) PROVE Counted'
  BY <1>11 DEF UseStream, StartWrite
<1>12. ASSUME NEW s \in streams, NEW reads \in BOOLEAN, FinishStream(s, reads) PROVE Counted'
  <2>1. /\ streams' = streams \ {s} /\ s \notin open /\ s \notin queued
        /\ UNCHANGED <<role, open, queued, limit, settled>>
        /\ send' = "done" <=> send = "done"
    BY <1>12 DEF FinishStream, StartWrite
  <2>2. Cardinality(streams') \in Nat /\ Cardinality(streams') <= Cardinality(streams)
    BY <2>1, Fewer
  <2>3. Cardinality(streams) \in Nat /\ limit \in Nat
    BY Finite, FS_CardinalityType DEF TypeOK
  <2> QED BY <2>1, <2>2, <2>3
<1>13. CASE Shutdown
  BY <1>13 DEF Shutdown, StartWrite
<1>14. CASE Destroy \/ TimerExpires \/ TimerRuns \/ ShutdownReturns
  BY <1>14 DEF Destroy, TimerExpires, TimerRuns, Canceled, ShutdownReturns
<1>15. CASE UNCHANGED vars
  BY <1>15 DEF vars
<1>16. ASSUME NEW value \in Limits, ReceiveSettings(value) PROVE Counted'
  <2>1. /\ settled' = last_id /\ UNCHANGED <<role, open, queued, streams>>
        /\ send' = "done" <=> send = "done"
    BY <1>16 DEF ReceiveSettings, StartWrite
  <2>2. \A s \in streams : ~(s > last_id)
    BY DEF TypeOK
  <2> QED BY <2>1, <2>2
<1> HIDE DEF Counted
<1> QED
  BY <1>1, <1>2, <1>3, <1>4, <1>5, <1>6, <1>7, <1>8, <1>9, <1>10, <1>11, <1>12, <1>13,
     <1>14, <1>15, <1>16
     DEF Next, SendLoop, RecvLoop, Session, Peer, User

\* A request that is counted leaves room for itself among the streams that are open.
LEMMA RoomIsLeft ==
  ASSUME TypeOK, Counted
  PROVE  NotHeldBack
<1> SUFFICES ASSUME send # "done", NEW s \in queued, s > settled
             PROVE  Cardinality(open) < limit
  BY DEF NotHeldBack
<1>1. s \in streams /\ open \subseteq streams /\ Cardinality(streams) <= limit
  BY DEF Counted, TypeOK
<1>2. s \notin open
  BY DEF TypeOK
<1>3. open \subseteq streams \ {s}
  BY <1>1, <1>2
<1>4. /\ IsFiniteSet(streams \ {s})
      /\ Cardinality(streams \ {s}) = Cardinality(streams) - 1
  BY <1>1, Finite, FS_RemoveElement
<1>5. Cardinality(open) <= Cardinality(streams \ {s}) /\ Cardinality(open) \in Nat
  BY <1>3, <1>4, Finite, FS_Subset, FS_CardinalityType
<1>6. Cardinality(streams) \in Nat /\ limit \in Nat
  BY Finite, FS_CardinalityType DEF TypeOK
<1> QED BY <1>1, <1>4, <1>5, <1>6

-----------------------------------------------------------------------------
(* The theorems.                                                           *)

\* The parts of the invariant hold together: a session is made with all of them, and every
\* step of do_session(), of its loops, of the peer and of the user keeps them.
THEOREM Safety == Spec => []IInv
<1>1. Init => IInv
  <2> SUFFICES ASSUME Init PROVE IInv
    OBVIOUS
  <2> USE MaxStreamsAssumption, LimitAssumption DEF Init
  <2>1. TypeOK
    <3>1. /\ {} \subseteq 1 .. last_id /\ last_id \in 0 .. MaxStreams
          /\ settled \in 0 .. last_id /\ limit \in Nat
      OBVIOUS
    <3> QED BY <3>1 DEF TypeOK, Phases
  <2>2. AtStart /\ TermPending /\ RecvDoneTold /\ SendDoneTold /\ EndsInOrder /\ NoLostWakeUp
    BY DEF AtStart, TermPending, RecvDoneTold, SendDoneTold, EndsInOrder, NoLostWakeUp
  <2>3. Counted
    BY DEF Counted
  <2> QED BY <2>1, <2>2, <2>3 DEF IInv
<1>2. IInv /\ [Next]_vars => IInv'
  BY TypeStep, AtStartStep, TermStep, RecvDoneStep, SendDoneStep, EndsStep, WakeUpStep, CountedStep
     DEF IInv
<1> QED BY <1>1, <1>2, PTL DEF Spec

\* Type correctness of the HTTP/2 session, for any number of requests.
THEOREM TypeCorrect == Spec => []TypeOK
<1>1. IInv => TypeOK
  BY DEF IInv
<1> QED BY <1>1, Safety, PTL

\* send_loop() never waits with something to send, a request that the peer allows by now
\* included, or with the receive loop over; for any number of requests and any limits.
THEOREM NoWakeUpIsLost == Spec => []NoLostWakeUp
<1>1. IInv => NoLostWakeUp
  BY DEF IInv
<1> QED BY <1>1, Safety, PTL

\* Only requests that were made before the last SETTINGS arrived are held back by nghttp2,
\* whatever limits the peer sets and whenever it changes them, and however streams are closed,
\* kept, released and reset meanwhile: async_submit() has told all others would_block.
THEOREM NoneHeldBack == Spec => []NotHeldBack
<1>1. IInv => NotHeldBack
  BY RoomIsLeft DEF IInv
<1> QED BY <1>1, Safety, PTL

\* No connection that works is ended without a GOAWAY of either side.
THEOREM GoawayComesFirst == Spec => []GoawayFirst
<1>1. IInv => GoawayFirst
  BY DEF IInv, EndsInOrder, SendDoneTold, GoawayFirst
<1> QED BY <1>1, Safety, PTL

-----------------------------------------------------------------------------
(* The second engine: H2v2Session has the fields of H2Session, and some    *)
(* of its own.                                                             *)

VARIABLES term, dead, expiry, closing, deadline

V2 == INSTANCE H2v2Session

\* The send loop waits only while do_session() runs the loops, so that there is a connection
\* that handle_expiry() can act upon.
V2Looping == (send = "waiting" => do = "loops") /\ (do = "start" => send = "ready")

\* As long as the send loop runs, the library knows that the connection is closing, and does not
\* let it sleep.
V2ClosingKnown == closing => dead \/ send = "done"

\* The inductive invariant.
V2Inv == V2Looping /\ V2ClosingKnown /\ V2!SleepsSafely

\* The receive loop, the timer, and everyone else who ends with start_write().
LEMMA V2Woken ==
  ASSUME V2!StartWrite
  PROVE  send' # "waiting" /\ (send # "waiting" => send' = send)
BY DEF V2!StartWrite

\* The send loop.
LEMMA V2SendStep ==
  ASSUME V2Inv, V2!SendLoop \/ V2!SendThrows
  PROVE  V2Inv'
<1> USE DEF V2Inv, V2Looping, V2ClosingKnown, V2!SleepsSafely, V2!SendReady, V2!library, V2!fields,
        V2!ending
<1>1. ASSUME NEW closed, NEW erased, V2!SendFrames(closed, erased) PROVE V2Inv'
  BY <1>1 DEF V2!SendFrames
<1>2. CASE V2!SendCloses
  BY <1>2 DEF V2!SendCloses, V2!SendEnds
<1>3. CASE V2!SendNothing
  <2>1. CASE recv_done /\ V2!SendEnds
    BY <1>3, <2>1 DEF V2!SendNothing, V2!SendEnds
  <2>2. CASE ~recv_done /\ timer' = V2!ArmTimer /\ send' = "waiting"
    <3>1. ~dead /\ ~closing
      BY <1>3 DEF V2!SendNothing, V2!Closing
    <3>2. expiry => timer' # {}
      BY <2>2, <3>1 DEF V2!ArmTimer
    <3> QED BY <1>3, <2>2, <3>1, <3>2 DEF V2!SendNothing
  <2> QED BY <1>3, <2>1, <2>2 DEF V2!SendNothing
<1>4. CASE V2!WriteDone
  BY <1>4 DEF V2!WriteDone
<1>5. CASE V2!WriteFails
  BY <1>5 DEF V2!WriteFails, V2!SendEnds
<1>6. CASE V2!SendThrows
  BY <1>6 DEF V2!SendThrows
<1> QED BY <1>1, <1>2, <1>3, <1>4, <1>5, <1>6 DEF V2!SendLoop

\* The receive loop.
LEMMA V2RecvStep ==
  ASSUME V2Inv, V2!RecvLoop
  PROVE  V2Inv'
<1> USE V2Woken DEF V2Inv, V2Looping, V2ClosingKnown, V2!SleepsSafely, V2!library, V2!fields,
        V2!ending
<1>1. ASSUME NEW opened, NEW closed, NEW erased, NEW goaway, NEW frame,
             V2!Receive(opened, closed, erased, goaway, frame)
      PROVE  V2Inv'
  BY <1>1 DEF V2!Receive
<1>2. CASE V2!ReceiveFails
  BY <1>2 DEF V2!ReceiveFails, V2!RecvEnds
<1>3. CASE V2!ReceiveEnds
  BY <1>3 DEF V2!ReceiveEnds, V2!RecvEnds
<1> QED BY <1>1, <1>2, <1>3 DEF V2!RecvLoop

\* do_session() and the timers.
LEMMA V2SessionStep ==
  ASSUME V2Inv, V2!Session \/ V2!Timers
  PROVE  V2Inv'
<1> USE V2Woken DEF V2Inv, V2Looping, V2ClosingKnown, V2!SleepsSafely, V2!library, V2!fields,
        V2!ending
<1>1. ASSUME NEW received, V2!Start(received) PROVE V2Inv'
  BY <1>1 DEF V2!Start
<1>2. CASE V2!LoopsEnd
  BY <1>2 DEF V2!LoopsEnd
<1>3. CASE V2!EndConnection
  BY <1>3 DEF V2!EndConnection
<1>4. CASE V2!TimerExpires
  BY <1>4 DEF V2!TimerExpires
<1>5. CASE V2!DeadlineExpires
  BY <1>5 DEF V2!DeadlineExpires
<1>6. CASE V2!DeadlineRuns
  BY <1>6 DEF V2!DeadlineRuns, V2!Canceled
<1>7. ASSUME NEW fails \in BOOLEAN, V2!HandleExpiry(fails) PROVE V2Inv'
  <2>1. CASE closing \/ ~V2!HasConn
    \* nobody waits for what this expiry would have done
    <3>1. send # "waiting"
      BY <2>1 DEF V2!HasConn
    <3>2. UNCHANGED <<dead, closing, send, do>>
      BY <1>7, <2>1 DEF V2!HandleExpiry
    <3> QED BY <3>1, <3>2
  <2>2. CASE ~(closing \/ ~V2!HasConn)
    BY <1>7, <2>2 DEF V2!HandleExpiry
  <2> QED BY <2>1, <2>2
<1> QED BY <1>1, <1>2, <1>3, <1>4, <1>5, <1>6, <1>7 DEF V2!Session, V2!Timers

\* The peer and the user.
LEMMA V2UserStep ==
  ASSUME V2Inv, V2!Peer \/ V2!User \/ V2!ShutdownReturns \/ UNCHANGED V2!vars
  PROVE  V2Inv'
<1> USE V2Woken DEF V2Inv, V2Looping, V2ClosingKnown, V2!SleepsSafely, V2!library, V2!fields,
        V2!ending
<1>1. CASE V2!Peer
  BY <1>1 DEF V2!Peer, V2!SocketWritable, V2!SocketReadable, V2!WriteBreaks, V2!ReadBreaks
<1>2. CASE V2!Submit
  BY <1>2 DEF V2!Submit, V2!HasConn
<1>3. CASE V2!UseStream
  BY <1>3 DEF V2!UseStream, V2!HasConn
<1>4. ASSUME NEW s, V2!FinishStream(s) PROVE V2Inv'
  BY <1>4 DEF V2!FinishStream
<1>5. CASE V2!Shutdown
  BY <1>5 DEF V2!Shutdown
<1>6. CASE V2!Destroy \/ V2!ShutdownReturns \/ UNCHANGED V2!vars
  BY <1>6 DEF V2!Destroy, V2!ShutdownReturns, V2!vars
<1> QED BY <1>1, <1>2, <1>3, <1>4, <1>5, <1>6 DEF V2!User

\* The invariant of the second engine.
THEOREM V2Safety == V2!Spec => []V2Inv
<1>1. V2!Init => V2Inv
  BY DEF V2!Init, V2Inv, V2Looping, V2ClosingKnown, V2!SleepsSafely
<1>2. V2Inv /\ [V2!Next]_(V2!vars) => V2Inv'
  BY V2SendStep, V2RecvStep, V2SessionStep, V2UserStep DEF V2!Next
<1> QED BY <1>1, <1>2, PTL DEF V2!Spec

\* The send loop of the second engine never sleeps with something to send, with the receive loop
\* over or the connection closing, or without the timer that nghttp2 has asked for (send_loop(),
\* arm_timer_from_nghttp2(), handle_expiry() of h2v2/session_details.hpp and session.cpp).
THEOREM V2NoWakeUpIsLost == V2!Spec => []V2!SleepsSafely
<1>1. V2Inv => V2!SleepsSafely
  BY DEF V2Inv
<1> QED BY <1>1, V2Safety, PTL
=============================================================================
