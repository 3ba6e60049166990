--------------------------- MODULE H1ClientProofs ---------------------------
(***************************************************************************)
(* Proofs about H1Client, for every number of requests and of attempts.    *)
(*                                                                         *)
(* The inductive invariant SafetyInv of H1Client is shown in four parts    *)
(* that lean on each other as little as possible: what is sent (SendInv),  *)
(* what is received (ReceiveState), which reader took what (Taken), and    *)
(* the end of the session (EndState).  For each part, a lemma says that    *)
(* steps that leave its variables alone preserve it, and another goes      *)
(* through the actions that do not.                                        *)
(***************************************************************************)
EXTENDS H1Client, TLAPS

SendInv == SendOrder /\ SendState /\ SendingIsIncomplete /\ EndMeansEnd

sendvars == <<sending, requests_sent, send_failed, session, writer, wsession, wop, wphase,
              cancelled, eof_submitted, sent>>
receivevars == <<responses_read, session, response_requested, reader, rsession, rphase,
                 parsed, finished, rxnext>>
endvars == <<ending, intact, session, wsession, rsession, wphase, rphase, sent>>

-----------------------------------------------------------------------------
(* Types.                                                                  *)

\* A new ClientSession has fields of their types.
LEMMA TypeInit == Init => TypeOK
<1> SUFFICES ASSUME Init PROVE TypeOK
  OBVIOUS
<1> USE MaxRequestsAssumption, MaxAttemptsAssumption DEF Init, Bools, Phases, Delivered
<1>1. requests_sent \in 0 .. MaxRequests
  OBVIOUS
<1>2. TypeSession BY <1>1 DEF TypeSession
<1>3. TypeWriters BY DEF TypeWriters
<1>4. TypeReaders BY DEF TypeReaders
<1>5. TypeStream BY DEF TypeStream
<1> QED BY <1>2, <1>3, <1>4, <1>5 DEF TypeOK

\* io::cancel() leaves every operation in one of the phases.
LEMMA CancelParkedType ==
  ASSUME NEW f \in [Requests -> Phases]
  PROVE  CancelParked(f) \in [Requests -> Phases]
BY DEF CancelParked, Phases

\* What the caller does (submit, write, get_response, read_some, cancel, release,
\* shutdown) keeps the types.
LEMMA TypeCaller == TypeOK /\ Caller => TypeOK'
<1> SUFFICES ASSUME TypeOK, Caller PROVE TypeOK'
  OBVIOUS
<1> USE MaxRequestsAssumption, MaxAttemptsAssumption
    DEF TypeOK, TypeSession, TypeWriters, TypeReaders, TypeStream, Bools, Phases, Delivered,
        svars, evars, wvars, rvars, stream
<1>1. ASSUME NEW b \in BOOLEAN, Submit(b) PROVE TypeOK'
  BY <1>1 DEF Submit, Requests
<1>2. ASSUME NEW r \in Requests, NEW b \in BOOLEAN, Write(r, b) PROVE TypeOK'
  BY <1>2 DEF Write
<1>3. ASSUME NEW r \in Requests, GetResponse(r) PROVE TypeOK'
  BY <1>3 DEF GetResponse
<1>4. ASSUME NEW r \in Requests, Read(r) \/ CancelWrite(r) \/ CancelRead(r) PROVE TypeOK'
  <2>1. CASE Read(r) BY <2>1 DEF Read
  <2>2. CASE CancelWrite(r) BY <2>2 DEF CancelWrite
  <2>3. CASE CancelRead(r) BY <2>3 DEF CancelRead
  <2> QED BY <1>4, <2>1, <2>2, <2>3
<1>5. ASSUME NEW r \in Requests, ReleaseRequest(r) PROVE TypeOK'
  <2>1. TypeSession'
    BY <1>5 DEF ReleaseRequest, RequestReleased
  <2>2. TypeWriters'
    BY <1>5 DEF ReleaseRequest, RequestReleased
  <2>3. TypeReaders'
    BY <1>5 DEF ReleaseRequest, RequestReleased
  <2>4. TypeStream'
    BY <1>5 DEF ReleaseRequest, RequestReleased
  <2> QED BY <2>1, <2>2, <2>3, <2>4
<1>6. ASSUME NEW r \in Requests, NEW b \in BOOLEAN, DropResponse(r, b) PROVE TypeOK'
  <2>1. TypeSession'
    BY <1>6 DEF DropResponse, Finish
  <2>2. TypeWriters'
    BY <1>6 DEF DropResponse, Finish
  <2>3. TypeReaders'
    BY <1>6 DEF DropResponse, Finish
  <2>4. TypeStream'
    BY <1>6 DEF DropResponse, Finish
  <2> QED BY <2>1, <2>2, <2>3, <2>4
<1>7. ASSUME NEW r \in Requests, NEW b \in BOOLEAN, DropStale(r, b) PROVE TypeOK'
  BY <1>7 DEF DropStale
<1>8. ASSUME Shutdown PROVE TypeOK'
  BY <1>8 DEF Shutdown, Intact, InFlight, Detach, CancelStream, CancelParked
<1>9. ASSUME ReleaseSession PROVE TypeOK'
  <2> USE <1>9 DEF ReleaseSession
  <2>1. TypeSession' /\ TypeStream'
    BY DEF Destroy
  <2>2. TypeWriters' /\ TypeReaders'
    <3>1. CASE UNCHANGED <<wsession, wphase, rsession, rphase, stale>>
      BY <3>1
    <3>2. CASE Detach /\ CancelStream
      <4>1. wphase' \in [Requests -> Phases] /\ rphase' \in [Requests -> Phases]
        BY <3>2, CancelParkedType DEF CancelStream
      <4>2. wsession' \in Bools /\ rsession' \in Bools /\ stale' \in [Requests -> Nat]
        BY <3>2 DEF Detach
      <4> QED BY <4>1, <4>2
    <3> QED BY <3>1, <3>2
  <2> QED BY <2>1, <2>2
<1> QED
  BY <1>1, <1>2, <1>3, <1>4, <1>5, <1>6, <1>7, <1>8, <1>9, ZenonT(30) DEF Caller

\* What the socket does to an operation in flight keeps the types.
LEMMA TypePeer == TypeOK /\ Peer => TypeOK'
<1> SUFFICES ASSUME TypeOK, NEW r \in Requests,
                    \/ SocketWritable(r) \/ SocketReadable(r)
                    \/ SocketEndsWrite(r) \/ SocketEndsRead(r)
             PROVE TypeOK'
  BY DEF Peer
<1> USE DEF TypeOK, TypeSession, TypeWriters, TypeReaders, TypeStream, Bools, Phases, Delivered,
            svars, evars, wvars, rvars, stream
<1>1. CASE SocketWritable(r) BY <1>1 DEF SocketWritable
<1>2. CASE SocketReadable(r) BY <1>2 DEF SocketReadable
<1>3. CASE SocketEndsWrite(r) BY <1>3 DEF SocketEndsWrite
<1>4. CASE SocketEndsRead(r) BY <1>4 DEF SocketEndsRead
<1> QED BY <1>1, <1>2, <1>3, <1>4

\* A write that is resumed (WriterBase::write, write_head) keeps the types.
LEMMA TypeWrites ==
  ASSUME TypeOK, NEW r \in Requests, WriteContinues(r) \/ WriteEnds(r)
  PROVE  TypeOK'
<1> USE MaxRequestsAssumption
    DEF TypeOK, TypeSession, TypeWriters, TypeReaders, TypeStream, Bools, Phases, Delivered,
        svars, evars, wvars, rvars, stream
<1>1. CASE WriteContinues(r)
  BY <1>1 DEF WriteContinues
<1>2. CASE HeadWritten(r)
  BY <1>2 DEF HeadWritten, WriteOpEnds
<1>3. CASE HeadFailed(r)
  BY <1>3 DEF HeadFailed, WriteOpEnds
<1>4. CASE BodyWritten(r)
  <2>1. TypeSession'
    BY <1>4 DEF BodyWritten, WriteOpEnds, WriteReturns, RequestReleased
  <2>2. TypeWriters'
    BY <1>4 DEF BodyWritten, WriteOpEnds, WriteReturns, RequestReleased
  <2>3. TypeReaders'
    BY <1>4 DEF BodyWritten, WriteOpEnds, WriteReturns, RequestReleased
  <2>4. TypeStream'
    BY <1>4 DEF BodyWritten, WriteOpEnds, WriteReturns, RequestReleased
  <2> QED BY <2>1, <2>2, <2>3, <2>4
<1>5. CASE WriteFailed(r)
  BY <1>5, ZenonT(30) DEF WriteFailed, WriteOpEnds, WriteReturns, RequestReleased
<1> QED
  BY <1>1, <1>2, <1>3, <1>4, <1>5 DEF WriteEnds

\* A read that is resumed (read_header, read_some) keeps the types.
LEMMA TypeReads ==
  ASSUME TypeOK, NEW r \in Requests, ReadContinues(r) \/ ReadEnds(r)
  PROVE  TypeOK'
<1> USE MaxRequestsAssumption, MaxAttemptsAssumption
    DEF TypeOK, TypeSession, TypeWriters, TypeReaders, TypeStream, Bools, Phases, Delivered,
        svars, evars, wvars, rvars, stream
<1>1. CASE ReadContinues(r)
  BY <1>1 DEF ReadContinues, Take
<1>2. CASE HeaderCancelled(r)
  BY <1>2 DEF HeaderCancelled, ReadOpEnds
<1>3. CASE HeaderFailed(r)
  BY <1>3 DEF HeaderFailed, ReadOpEnds
<1>4. CASE ReadFailed(r)
  <2>1. TypeSession'
    BY <1>4 DEF ReadFailed, ReadOpEnds, Finish, ReaderAfter, AttachedAfter
  <2>2. TypeWriters'
    BY <1>4 DEF ReadFailed, ReadOpEnds, Finish, ReaderAfter, AttachedAfter
  <2>3. TypeReaders'
    BY <1>4 DEF ReadFailed, ReadOpEnds, Finish, ReaderAfter, AttachedAfter
  <2>4. TypeStream'
    BY <1>4 DEF ReadFailed, ReadOpEnds, Finish, ReaderAfter, AttachedAfter
  <2> QED BY <2>1, <2>2, <2>3, <2>4
<1>5. ASSUME NEW b \in BOOLEAN, HeaderRead(r, b) PROVE TypeOK'
  <2>1. TypeSession'
    BY <1>5 DEF HeaderRead, ReadOpEnds, Take, Finish
  <2>2. TypeWriters'
    BY <1>5 DEF HeaderRead, ReadOpEnds, Take, Finish
  <2>3. TypeReaders'
    BY <1>5 DEF HeaderRead, ReadOpEnds, Take, Finish
  <2>4. TypeStream'
    BY <1>5 DEF HeaderRead, ReadOpEnds, Take, Finish
  <2> QED BY <2>1, <2>2, <2>3, <2>4
<1>6. ASSUME NEW b \in BOOLEAN, BodyRead(r, b) PROVE TypeOK'
  <2>1. TypeSession'
    BY <1>6 DEF BodyRead, ReadOpEnds, Take, Finish, ReaderAfter, AttachedAfter
  <2>2. TypeWriters'
    BY <1>6 DEF BodyRead, ReadOpEnds, Take, Finish, ReaderAfter, AttachedAfter
  <2>3. TypeReaders'
    BY <1>6, ZenonT(30) DEF BodyRead, ReadOpEnds, Take, Finish, ReaderAfter, AttachedAfter
  <2>4. TypeStream'
    BY <1>6 DEF BodyRead, ReadOpEnds, Take, Finish, ReaderAfter, AttachedAfter
  <2> QED BY <2>1, <2>2, <2>3, <2>4
<1> QED
  BY <1>1, <1>2, <1>3, <1>4, <1>5, <1>6 DEF ReadEnds

\* The coroutine of shutdown() keeps the types.
LEMMA TypeShutdown == TypeOK /\ ResumeShutdown => TypeOK'
<1> SUFFICES ASSUME TypeOK, ResumeShutdown PROVE TypeOK'
  OBVIOUS
<1> USE DEF TypeOK, TypeSession, TypeWriters, TypeReaders, TypeStream,
            svars, evars, wvars, rvars, stream
<1>1. CASE ShutdownIdle BY <1>1 DEF ShutdownIdle
<1>2. CASE Teardown BY <1>2 DEF Teardown
<1>3. CASE SendFin BY <1>3 DEF SendFin
<1>4. CASE CloseStream BY <1>4 DEF CloseStream
<1> QED BY <1>1, <1>2, <1>3, <1>4 DEF ResumeShutdown

\* So does every step.
LEMMA TypeNext == TypeOK /\ [Next]_vars => TypeOK'
<1> SUFFICES ASSUME TypeOK, [Next]_vars PROVE TypeOK'
  OBVIOUS
<1>1. CASE UNCHANGED vars
  BY <1>1 DEF vars, svars, evars, wvars, rvars, stream, TypeOK, TypeSession, TypeWriters,
              TypeReaders, TypeStream
<1> QED BY <1>1, TypeCaller, TypePeer, TypeWrites, TypeReads, TypeShutdown DEF Next

\* Type correctness: whatever the order of submissions, writes, reads, cancellations and
\* releases, no field of the session ever gets a value outside its type.
THEOREM TypeCorrect == Spec => []TypeOK
<1> QED BY TypeInit, TypeNext, PTL DEF Spec

-----------------------------------------------------------------------------
(* What is sent.                                                           *)

\* SendInv depends on sendvars only.
LEMMA SendFrame ==
  ASSUME SendInv, UNCHANGED sendvars
  PROVE  SendInv'
BY DEF SendInv, sendvars, SendOrder, Fresh, SendState, Over, SendingIsIncomplete, EndMeansEnd

\* A new session has sent nothing.
LEMMA SendInit == Init => SendInv
BY MaxRequestsAssumption
   DEF Init, SendInv, SendOrder, Fresh, SendState, SendingIsIncomplete, EndMeansEnd,
       Requests, NoRequest

\* Every step keeps what is known of the requests and of sending_: submit() only starts a
\* request when the one before is complete, and an error latches send_failed_.
LEMMA SendStep ==
  ASSUME TypeOK, SendInv, EndState, Next
  PROVE  SendInv'
<1> USE MaxRequestsAssumption
    DEF TypeOK, TypeSession, TypeWriters, TypeStream, Requests, NoRequest, Bools, Phases, Delivered,
        SendInv, SendOrder, Fresh, SendState, Over, SendingIsIncomplete, EndMeansEnd,
        svars, evars, wvars, rvars, stream
<1>1. ASSUME NEW r \in Requests, SocketWritable(r) PROVE SendInv'
  <2>1. SendOrder'
    BY <1>1 DEF SocketWritable
  <2>2. SendState'
    BY <1>1 DEF SocketWritable
  <2>3. SendingIsIncomplete'
    BY <1>1 DEF SocketWritable
  <2>4. EndMeansEnd'
    BY <1>1 DEF SocketWritable
  <2> QED BY <2>1, <2>2, <2>3, <2>4
<1>2. ASSUME NEW r \in Requests, SocketEndsWrite(r) PROVE SendInv'
  <2>1. SendOrder'
    BY <1>2 DEF SocketEndsWrite
  <2>2. SendState'
    BY <1>2 DEF SocketEndsWrite
  <2>3. SendingIsIncomplete'
    BY <1>2 DEF SocketEndsWrite
  <2>4. EndMeansEnd'
    BY <1>2 DEF SocketEndsWrite
  <2> QED BY <2>1, <2>2, <2>3, <2>4
<1>3. ASSUME NEW r \in Requests, CancelWrite(r) PROVE SendInv'
  <2>1. SendOrder'
    BY <1>3 DEF CancelWrite
  <2>2. SendState'
    BY <1>3 DEF CancelWrite
  <2>3. SendingIsIncomplete'
    BY <1>3 DEF CancelWrite
  <2>4. EndMeansEnd'
    BY <1>3 DEF CancelWrite
  <2> QED BY <2>1, <2>2, <2>3, <2>4
<1>4. ASSUME NEW b \in BOOLEAN, Submit(b) PROVE SendInv'
  <2>1. SendOrder'
    BY <1>4 DEF Submit, SubmitResult
  <2>2. SendState'
    BY <1>4 DEF Submit, SubmitResult
  <2>3. SendingIsIncomplete'
    BY <1>4 DEF Submit, SubmitResult
  <2>4. EndMeansEnd'
    BY <1>4 DEF Submit, SubmitResult
  <2> QED BY <2>1, <2>2, <2>3, <2>4
<1>5. ASSUME NEW r \in Requests, NEW b \in BOOLEAN, Write(r, b) PROVE SendInv'
  <2>1. SendOrder'
    BY <1>5 DEF Write, WriteResult
  <2>2. SendState'
    BY <1>5 DEF Write, WriteResult
  <2>3. SendingIsIncomplete'
    BY <1>5 DEF Write, WriteResult
  <2>4. EndMeansEnd'
    BY <1>5 DEF Write, WriteResult
  <2> QED BY <2>1, <2>2, <2>3, <2>4
<1>6. ASSUME NEW r \in Requests, WriteContinues(r) PROVE SendInv'
  <2>1. SendOrder'
    BY <1>6 DEF WriteContinues
  <2>2. SendState'
    BY <1>6 DEF WriteContinues
  <2>3. SendingIsIncomplete'
    BY <1>6 DEF WriteContinues
  <2>4. EndMeansEnd'
    BY <1>6 DEF WriteContinues
  <2> QED BY <2>1, <2>2, <2>3, <2>4
<1>7. ASSUME NEW r \in Requests, HeadWritten(r) PROVE SendInv'
  <2>1. SendOrder'
    BY <1>7 DEF HeadWritten
  <2>2. SendState'
    BY <1>7 DEF HeadWritten
  <2>3. SendingIsIncomplete'
    BY <1>7 DEF HeadWritten
  <2>4. EndMeansEnd'
    BY <1>7, ZenonT(30) DEF HeadWritten
  <2> QED BY <2>1, <2>2, <2>3, <2>4
<1>8. ASSUME NEW r \in Requests, HeadFailed(r) PROVE SendInv'
  <2>1. SendOrder'
    BY <1>8 DEF HeadFailed
  <2>2. SendState'
    BY <1>8 DEF HeadFailed
  <2>3. SendingIsIncomplete'
    BY <1>8 DEF HeadFailed
  <2>4. EndMeansEnd'
    BY <1>8 DEF HeadFailed
  <2> QED BY <2>1, <2>2, <2>3, <2>4
<1>9. ASSUME NEW r \in Requests, ReleaseRequest(r) PROVE SendInv'
  <2>1. SendOrder'
    BY <1>9 DEF ReleaseRequest, RequestReleased
  <2>2. SendState'
    BY <1>9, SMTT(30) DEF ReleaseRequest, RequestReleased
  <2>3. SendingIsIncomplete'
    BY <1>9 DEF ReleaseRequest, RequestReleased
  <2>4. EndMeansEnd'
    BY <1>9 DEF ReleaseRequest, RequestReleased
  <2> QED BY <2>1, <2>2, <2>3, <2>4
<1>10. ASSUME NEW r \in Requests, BodyWritten(r) PROVE SendInv'
  <2>1. SendOrder'
    BY <1>10 DEF BodyWritten, WriteReturns, RequestReleased
  <2>2. SendState'
    <3>1. CASE writer[r] = "zombie"
      <4>1. /\ wphase' = [wphase EXCEPT ![r] = "idle"]
            /\ sent' = [sent EXCEPT ![r] = IF wop[r] = "eof" THEN "complete" ELSE "open"]
            /\ eof_submitted' = [eof_submitted EXCEPT ![r] = eof_submitted[r] \/ wop[r] = "eof"]
            /\ writer' = [writer EXCEPT ![r] = "gone"]
            /\ wsession' = [wsession EXCEPT ![r] = FALSE]
            /\ UNCHANGED <<cancelled, requests_sent, session>>
        BY <1>10, <3>1 DEF BodyWritten, WriteReturns, RequestReleased
      <4>2. /\ wsession[r] => sending = r
            /\ ~wsession[r] => send_failed \/ Over
            /\ r + 1 = requests_sent
        BY <1>10 DEF BodyWritten
      <4>3. /\ sending' = IF wsession[r] THEN NoRequest ELSE sending
            /\ send_failed' = (send_failed \/ (wsession[r] /\ wop[r] # "eof"))
        BY <1>10, <3>1, <4>2 DEF BodyWritten, WriteReturns, RequestReleased
      <4>4. CASE wsession[r]
        BY <4>1, <4>2, <4>3, <4>4
      <4>5. CASE ~wsession[r]
        BY <4>1, <4>2, <4>3, <4>5
      <4> QED BY <4>4, <4>5
    <3>2. CASE writer[r] # "zombie"
      BY <1>10, <3>2 DEF BodyWritten, WriteReturns
    <3> QED BY <3>1, <3>2
  <2>3. SendingIsIncomplete'
    BY <1>10 DEF BodyWritten, WriteReturns, RequestReleased
  <2>4. EndMeansEnd'
    BY <1>10 DEF BodyWritten, WriteReturns, RequestReleased
  <2> QED BY <2>1, <2>2, <2>3, <2>4
<1>11. ASSUME NEW r \in Requests, WriteFailed(r) PROVE SendInv'
  <2>1. SendOrder'
    BY <1>11 DEF WriteFailed, WriteReturns, RequestReleased
  <2>2. SendState'
    <3>1. CASE wsession[r] /\ writer[r] = "zombie"
      BY <1>11, <3>1 DEF WriteFailed, WriteReturns, RequestReleased
    <3>2. CASE wsession[r] /\ writer[r] # "zombie"
      BY <1>11, <3>2 DEF WriteFailed, WriteReturns
    <3>3. CASE ~wsession[r] /\ writer[r] = "zombie"
      BY <1>11, <3>3 DEF WriteFailed, WriteReturns, RequestReleased
    <3>4. CASE ~wsession[r] /\ writer[r] # "zombie"
      BY <1>11, <3>4 DEF WriteFailed, WriteReturns
    <3> QED BY <3>1, <3>2, <3>3, <3>4
  <2>3. SendingIsIncomplete'
    BY <1>11 DEF WriteFailed, WriteReturns, RequestReleased
  <2>4. EndMeansEnd'
    BY <1>11 DEF WriteFailed, WriteReturns, RequestReleased
  <2> QED BY <2>1, <2>2, <2>3, <2>4
<1>12. ASSUME Shutdown PROVE SendInv'
  <2>1. SendOrder'
    BY <1>12 DEF Shutdown, Detach, CancelStream, CancelParked, Writes
  <2>2. SendState'
    BY <1>12 DEF Shutdown, Detach, CancelStream, CancelParked, Writes
  <2>3. SendingIsIncomplete'
    BY <1>12 DEF Shutdown, Detach, CancelStream, CancelParked, Writes
  <2>4. EndMeansEnd'
    BY <1>12 DEF Shutdown, Detach, CancelStream, CancelParked, Writes
  <2> QED BY <2>1, <2>2, <2>3, <2>4
<1>13. ASSUME SendFin PROVE SendInv'
  <2>1. SendOrder'
    BY <1>13 DEF SendFin, EndState
  <2>2. SendState'
    BY <1>13 DEF SendFin, EndState
  <2>3. SendingIsIncomplete'
    BY <1>13 DEF SendFin, EndState
  <2>4. EndMeansEnd'
    BY <1>13 DEF SendFin, EndState
  <2> QED BY <2>1, <2>2, <2>3, <2>4
<1>14. ASSUME CloseStream PROVE SendInv'
  <2>1. SendOrder'
    BY <1>14 DEF CloseStream, EndState
  <2>2. SendState'
    BY <1>14 DEF CloseStream, EndState
  <2>3. SendingIsIncomplete'
    BY <1>14 DEF CloseStream, EndState
  <2>4. EndMeansEnd'
    BY <1>14 DEF CloseStream, EndState
  <2> QED BY <2>1, <2>2, <2>3, <2>4
<1>15. ASSUME ReleaseSession PROVE SendInv'
  <2>1. SendOrder'
    BY <1>15 DEF ReleaseSession, Detach, CancelStream, CancelParked, EndState
  <2>2. SendState'
    BY <1>15 DEF ReleaseSession, Detach, CancelStream, CancelParked, EndState
  <2>3. SendingIsIncomplete'
    BY <1>15 DEF ReleaseSession, Detach, CancelStream, CancelParked, EndState
  <2>4. EndMeansEnd'
    BY <1>15 DEF ReleaseSession, Detach, CancelStream, CancelParked, EndState
  <2> QED BY <2>1, <2>2, <2>3, <2>4
<1>16. CASE UNCHANGED sendvars
  BY <1>16, SendFrame
<1>17. ASSUME NEW r \in Requests,
              \/ SocketReadable(r) \/ SocketEndsRead(r) \/ CancelRead(r)
              \/ GetResponse(r) \/ Read(r) \/ ReadContinues(r)
       PROVE SendInv'
  BY <1>16, <1>17 DEF sendvars, SocketReadable, SocketEndsRead, CancelRead, GetResponse, Read,
                      ReadContinues
<1>18. ASSUME NEW r \in Requests, ReadEnds(r) PROVE SendInv'
  BY <1>16, <1>18 DEF sendvars, ReadEnds, HeaderCancelled, HeaderFailed, ReadFailed,
                      HeaderRead, BodyRead
<1>19. ASSUME NEW r \in Requests, NEW b \in BOOLEAN, DropResponse(r, b) \/ DropStale(r, b)
       PROVE SendInv'
  BY <1>16, <1>19 DEF sendvars, DropResponse, DropStale
<1>20. ASSUME ShutdownIdle \/ Teardown PROVE SendInv'
  BY <1>16, <1>20 DEF sendvars, ShutdownIdle, Teardown
<1> QED
  <2> HIDE DEF SendInv
  <2>1. CASE Caller
    BY <2>1, <1>3, <1>4, <1>5, <1>9, <1>12, <1>15, <1>17, <1>19 DEF Caller
  <2>2. CASE Peer
    BY <2>2, <1>1, <1>2, <1>17 DEF Peer
  <2>3. CASE \E r \in Requests :
               WriteContinues(r) \/ ReadContinues(r) \/ WriteEnds(r) \/ ReadEnds(r)
    BY <2>3, <1>6, <1>7, <1>8, <1>10, <1>11, <1>17, <1>18 DEF WriteEnds
  <2>4. CASE ResumeShutdown
    BY <2>4, <1>13, <1>14, <1>20 DEF ResumeShutdown
  <2> QED BY <2>1, <2>2, <2>3, <2>4 DEF Next

-----------------------------------------------------------------------------
(* What is received.                                                       *)

\* ReceiveState depends on receivevars only.
LEMMA ReceiveFrame ==
  ASSUME ReceiveState, UNCHANGED receivevars, receive_failed => receive_failed'
  PROVE  ReceiveState'
BY DEF receivevars, ReceiveState, Unfinished, Over

\* A new session has received nothing.
LEMMA ReceiveInit == Init => ReceiveState
BY DEF Init, ReceiveState, Unfinished, Over

\* Every step keeps what is known of the readers: get_response() only starts to read in
\* turn, and a reader given up in the middle latches receive_failed_.
LEMMA ReceiveStep ==
  ASSUME TypeOK, SendState, ReceiveState, EndState, Next
  PROVE  ReceiveState'
<1> USE MaxRequestsAssumption
    DEF TypeOK, TypeSession, TypeWriters, TypeReaders, TypeStream, Requests, Bools, Phases,
        ReceiveState, Unfinished, Over, svars, evars, wvars, rvars, stream
<1>1. ASSUME NEW r \in Requests, SocketReadable(r) PROVE ReceiveState'
  BY <1>1 DEF SocketReadable
<1>2. ASSUME NEW r \in Requests, SocketEndsRead(r) PROVE ReceiveState'
  BY <1>2 DEF SocketEndsRead
<1>3. ASSUME NEW r \in Requests, CancelRead(r) PROVE ReceiveState'
  BY <1>3 DEF CancelRead
<1>4. ASSUME NEW r \in Requests, GetResponse(r) PROVE ReceiveState'
  BY <1>4, SMTT(30) DEF GetResponse, GetResponseResult, SendState
<1>5. ASSUME NEW r \in Requests, Read(r) PROVE ReceiveState'
  BY <1>5 DEF Read
<1>6. ASSUME NEW r \in Requests, ReadContinues(r) PROVE ReceiveState'
  BY <1>6 DEF ReadContinues
<1>7. ASSUME NEW r \in Requests, NEW b \in BOOLEAN, HeaderRead(r, b) PROVE ReceiveState'
  <2> USE <1>7 DEF HeaderRead
  <2>1. CASE ~b
    <3>1. UNCHANGED <<responses_read, receive_failed, finished, rxnext, session>>
      BY <2>1
    <3>2. /\ reader' = [reader EXCEPT ![r] = "held"]
          /\ rphase' = [rphase EXCEPT ![r] = "idle"]
          /\ parsed' = [parsed EXCEPT ![r] = "header"]
          /\ UNCHANGED <<rsession, response_requested>>
          /\ reader[r] = "header" /\ rphase[r] # "idle"
      BY <2>1
    <3> QED
      BY <3>1, <3>2
  <2>2. CASE b /\ rsession[r]
    BY <2>2, SMTT(30) DEF Finish, Take
  <2>3. CASE b /\ ~rsession[r]
    BY <2>3, SMTT(30) DEF Finish, Take
  <2> QED BY <2>1, <2>2, <2>3
<1>8. ASSUME NEW r \in Requests, HeaderCancelled(r) PROVE ReceiveState'
  BY <1>8 DEF HeaderCancelled
<1>9. ASSUME NEW r \in Requests, HeaderFailed(r) PROVE ReceiveState'
  BY <1>9 DEF HeaderFailed
<1>10. ASSUME NEW r \in Requests, NEW b \in BOOLEAN, BodyRead(r, b) PROVE ReceiveState'
  <2> USE <1>10 DEF BodyRead, ReaderAfter, AttachedAfter
  <2>1. CASE ~b /\ reader[r] # "zombie"
    BY <2>1
  <2>2. CASE ~b /\ reader[r] = "zombie"
    BY <2>2, SMTT(30) DEF Finish
  <2>3. CASE b /\ Unfinished(r)
    BY <2>3, SMTT(30) DEF Finish, Take
  <2>4. CASE b /\ ~Unfinished(r)
    BY <2>4, SMTT(30) DEF Finish, Take
  <2> QED BY <2>1, <2>2, <2>3, <2>4
<1>11. ASSUME NEW r \in Requests, ReadFailed(r) PROVE ReceiveState'
  <2> USE <1>11 DEF ReadFailed, ReaderAfter, AttachedAfter
  <2>1. CASE reader[r] = "zombie"
    BY <2>1 DEF Finish
  <2>2. CASE reader[r] # "zombie"
    <3>1. UNCHANGED <<reader, rsession>>
      BY <2>2
    <3>2. /\ rphase' = [rphase EXCEPT ![r] = "idle"] /\ reader[r] # "header"
          /\ UNCHANGED <<responses_read, receive_failed, session, response_requested, parsed,
                         finished, rxnext>>
      BY <2>2
    <3> HIDE <1>11
    <3> QED
      BY <2>2, <3>1, <3>2
  <2> QED BY <2>1, <2>2
<1>12. ASSUME NEW r \in Requests, NEW b \in BOOLEAN, DropResponse(r, b) PROVE ReceiveState'
  BY <1>12, SMTT(30) DEF DropResponse, Finish
<1>13. ASSUME Shutdown PROVE ReceiveState'
  BY <1>13 DEF Shutdown, Detach, CancelStream, CancelParked
<1>14. ASSUME SendFin PROVE ReceiveState'
  BY <1>14 DEF SendFin, EndState
<1>15. ASSUME CloseStream PROVE ReceiveState'
  BY <1>15 DEF CloseStream, EndState
<1>16. ASSUME ReleaseSession PROVE ReceiveState'
  <2>1. CASE session' = "released"
    BY <1>16, <2>1 DEF ReleaseSession
  <2>2. CASE session' = "deleted"
    BY <1>16, <2>2 DEF ReleaseSession, Detach, CancelStream, CancelParked
  <2> QED BY <1>16, <2>1, <2>2 DEF ReleaseSession
<1>17. CASE UNCHANGED receivevars /\ (receive_failed => receive_failed')
  BY <1>17, ReceiveFrame
<1>18. ASSUME NEW b \in BOOLEAN, Submit(b) PROVE ReceiveState'
  BY <1>17, <1>18 DEF receivevars, Submit
<1>19. ASSUME NEW r \in Requests, WriteEnds(r) PROVE ReceiveState'
  BY <1>17, <1>19 DEF receivevars, WriteEnds, HeadWritten, HeadFailed, BodyWritten, WriteFailed,
                      WriteReturns, RequestReleased
<1>20. ASSUME NEW r \in Requests,
              \/ SocketWritable(r) \/ SocketEndsWrite(r) \/ CancelWrite(r)
              \/ WriteContinues(r) \/ ReleaseRequest(r) 
       PROVE ReceiveState'
  BY <1>17, <1>20 DEF receivevars, SocketWritable, SocketEndsWrite, CancelWrite, WriteContinues,
                      ReleaseRequest, RequestReleased
<1>21. ASSUME NEW r \in Requests, NEW b \in BOOLEAN, Write(r, b) \/ DropStale(r, b)
       PROVE ReceiveState'
  BY <1>17, <1>21 DEF receivevars, Write, DropStale
<1>22. ASSUME ShutdownIdle \/ Teardown PROVE ReceiveState'
  BY <1>17, <1>22 DEF receivevars, ShutdownIdle, Teardown
<1> QED
  <2> HIDE DEF ReceiveState
  <2>1. CASE Caller
    BY <2>1, <1>3, <1>4, <1>5, <1>12, <1>13, <1>16, <1>18, <1>20, <1>21 DEF Caller
  <2>2. CASE Peer
    BY <2>2, <1>1, <1>2, <1>20 DEF Peer
  <2>3. CASE \E r \in Requests :
               WriteContinues(r) \/ ReadContinues(r) \/ WriteEnds(r) \/ ReadEnds(r)
    BY <2>3, <1>6, <1>7, <1>8, <1>9, <1>10, <1>11, <1>19, <1>20 DEF ReadEnds
  <2>4. CASE ResumeShutdown
    BY <2>4, <1>14, <1>15, <1>22 DEF ResumeShutdown
  <2> QED BY <2>1, <2>2, <2>3, <2>4 DEF Next

-----------------------------------------------------------------------------
(* Which reader took what.                                                 *)

takenvars == <<response_requested, attempts, took>>

\* Taken depends on takenvars only.
LEMMA TakenFrame ==
  ASSUME Taken, UNCHANGED takenvars
  PROVE  Taken'
BY DEF takenvars, Taken

\* A reader with a read in flight is at its own response (ReceiveState), and is the one of
\* the last attempt to get that.
LEMMA TakeStep ==
  ASSUME TypeOK, ReceiveState, Taken, NEW r \in Requests, rphase[r] # "idle", Take(r),
         UNCHANGED <<response_requested, attempts>>
  PROVE  Taken'
<1>1. rxnext = r /\ response_requested[r]
  BY DEF ReceiveState
<1>2. took' = [took EXCEPT ![r] = @ \cup {<<r, attempts[r]>>}]
  BY <1>1 DEF Take
<1>3. r \in 0 .. MaxRequests
  BY MaxRequestsAssumption DEF Requests
<1> QED
  BY <1>1, <1>2, <1>3 DEF TypeOK, TypeStream, Taken

\* Every step keeps what is known of the bytes read: another attempt of get_response() is
\* only allowed if the one before got nothing.
LEMMA TakenStep ==
  ASSUME TypeOK, ReceiveState, Taken, Next
  PROVE  Taken'
<1> USE DEF svars, evars, wvars, rvars, stream
<1>1. CASE UNCHANGED takenvars
  BY <1>1, TakenFrame
<1>2. ASSUME NEW r \in Requests, GetResponse(r) PROVE Taken'
  <2>1. took[r] = {}
    BY <1>2 DEF GetResponse, GetResponseResult, Taken
  <2>2. \A q \in Requests : q # r => attempts'[q] = attempts[q]
    BY <1>2 DEF GetResponse, TypeOK, TypeReaders
  <2>3. \A q \in Requests : ~response_requested'[q] => ~response_requested[q]
    BY <1>2 DEF GetResponse, TypeOK, TypeWriters, Bools
  <2>4. UNCHANGED took
    BY <1>2 DEF GetResponse
  <2> QED BY <2>1, <2>2, <2>3, <2>4 DEF Taken
<1>3. ASSUME NEW r \in Requests, HeaderCancelled(r) PROVE Taken'
  <2>1. took[r] = {}
    <3>1. r \in 0 .. MaxRequests
      BY MaxRequestsAssumption DEF Requests
    <3>2. <<r, attempts[r]>> \notin took[r]
      BY <1>3, <3>1 DEF HeaderCancelled, GotSome
    <3> QED BY <3>1, <3>2 DEF Taken
  <2>2. \A q \in Requests : q # r => response_requested'[q] = response_requested[q]
    BY <1>3 DEF HeaderCancelled, TypeOK, TypeWriters, Bools
  <2>3. UNCHANGED <<attempts, took>>
    BY <1>3 DEF HeaderCancelled
  <2> QED BY <2>1, <2>2, <2>3 DEF Taken
<1>4. ASSUME NEW r \in Requests, ReadContinues(r) PROVE Taken'
  BY <1>4, TakeStep DEF ReadContinues
<1>5. ASSUME NEW r \in Requests, NEW b \in BOOLEAN, HeaderRead(r, b) PROVE Taken'
  BY <1>5, TakeStep DEF HeaderRead
<1>6. ASSUME NEW r \in Requests, NEW b \in BOOLEAN, BodyRead(r, b) PROVE Taken'
  BY <1>6, TakeStep DEF BodyRead
<1>7. ASSUME NEW r \in Requests, HeaderFailed(r) \/ ReadFailed(r) PROVE Taken'
  BY <1>1, <1>7 DEF takenvars, HeaderFailed, ReadFailed
<1>8. ASSUME NEW r \in Requests, WriteContinues(r) \/ WriteEnds(r) PROVE Taken'
  BY <1>1, <1>8 DEF takenvars, WriteContinues, WriteEnds, HeadWritten, HeadFailed, BodyWritten,
                    WriteFailed
<1>9. CASE Peer
  BY <1>1, <1>9 DEF takenvars, Peer, SocketWritable, SocketReadable, SocketEndsWrite,
                    SocketEndsRead
<1>10. CASE ResumeShutdown
  BY <1>1, <1>10 DEF takenvars, ResumeShutdown, ShutdownIdle, Teardown, SendFin, CloseStream
<1>11. ASSUME NEW r \in Requests, Read(r) \/ CancelWrite(r) \/ CancelRead(r) \/ ReleaseRequest(r)
       PROVE Taken'
  BY <1>1, <1>11 DEF takenvars, Read, CancelWrite, CancelRead, ReleaseRequest
<1>12. ASSUME NEW r \in Requests, NEW b \in BOOLEAN,
              Write(r, b) \/ DropResponse(r, b) \/ DropStale(r, b)
       PROVE Taken'
  BY <1>1, <1>12 DEF takenvars, Write, DropResponse, DropStale
<1>13. ASSUME NEW b \in BOOLEAN, Submit(b) PROVE Taken'
  BY <1>1, <1>13 DEF takenvars, Submit
<1>14. CASE Shutdown \/ ReleaseSession
  BY <1>1, <1>14 DEF takenvars, Shutdown, ReleaseSession
<1>15. CASE Caller
  BY <1>15, <1>2, <1>11, <1>12, <1>13, <1>14 DEF Caller
<1> QED
  BY <1>3, <1>4, <1>5, <1>6, <1>7, <1>8, <1>9, <1>10, <1>15 DEF Next, ReadEnds

-----------------------------------------------------------------------------
(* The end of the session.                                                 *)

\* A new session is not being shut down.
LEMMA EndInit == Init => EndState
BY DEF Init, EndState, TeardownAlone

\* What every step does while shutdown() is under way: nothing is put on the stream, and
\* the event is set only when nothing is on it any more.
Winding ==
    /\ UNCHANGED <<ending, intact>> /\ send_failed' /\ receive_failed'
    /\ \A r \in Requests : ~wsession'[r] /\ ~rsession'[r]
    /\ Writes' \subseteq Writes /\ Reads' \subseteq Reads
    /\ idle' => idle \/ ~InFlight'
    /\ Writes = {} => UNCHANGED sent

\* A step that winds down keeps what shutdown() has established.
LEMMA WindingEnd ==
  ASSUME EndState, ending # "no", Winding
  PROVE  EndState'
BY DEF Winding, EndState, TeardownAlone, InFlight

\* A write that ends leaves the stream, and sets the event only if it was the last
\* operation (~StreamOp()).
LEMMA WriteOff ==
  ASSUME TypeOK, NEW r \in Requests, wphase' = [wphase EXCEPT ![r] = "idle"],
         WriteOpEnds(r), UNCHANGED rphase
  PROVE  Writes' \subseteq Writes /\ Reads' \subseteq Reads /\ (idle' => idle \/ ~InFlight')
<1>1. Writes' = Writes \ {r} /\ Reads' = Reads
  BY DEF TypeOK, TypeWriters, Writes, Reads
<1> QED BY <1>1 DEF WriteOpEnds, InFlight, TypeOK, TypeSession

\* The same of a read.
LEMMA ReadOff ==
  ASSUME TypeOK, NEW r \in Requests, rphase' = [rphase EXCEPT ![r] = "idle"],
         ReadOpEnds(r), UNCHANGED wphase
  PROVE  Writes' \subseteq Writes /\ Reads' \subseteq Reads /\ (idle' => idle \/ ~InFlight')
<1>1. Reads' = Reads \ {r} /\ Writes' = Writes
  BY DEF TypeOK, TypeReaders, Writes, Reads
<1> QED BY <1>1 DEF ReadOpEnds, InFlight, TypeOK, TypeSession

\* While shutdown() is under way, nothing can be put on the stream.
LEMMA EndStep ==
  ASSUME TypeOK, SendInv, ReceiveState, EndState, Next
  PROVE  EndState'
<1> USE DEF svars, evars, wvars, rvars, stream
<1>1. CASE ending = "no" /\ ending' = "no"
  BY <1>1 DEF EndState, TeardownAlone
<1>2. CASE ending # "no"
  <2>1. /\ send_failed /\ receive_failed
        /\ \A r \in Requests : ~wsession[r] /\ ~rsession[r]
    BY <1>2 DEF EndState
  <2>2. CASE Winding
    BY <1>2, <2>2, WindingEnd
  <2>3. ~ \E b \in BOOLEAN : Submit(b)
    BY <2>1 DEF Submit, SubmitResult
  <2>4. ~ \E r \in Requests, b \in BOOLEAN : Write(r, b)
    BY <2>1, ZenonT(30) DEF Write, WriteResult
  <2>5. ~ \E r \in Requests : GetResponse(r) \/ Read(r)
    BY <2>1 DEF GetResponse, GetResponseResult, Read
  <2>6. ~ Shutdown
    BY <1>2 DEF Shutdown
  <2> USE <2>1 DEF Winding
  <2>7. ASSUME NEW r \in Requests,
               \/ SocketWritable(r) \/ SocketEndsWrite(r) \/ CancelWrite(r) \/ WriteContinues(r)
        PROVE EndState'
    <3>1. wphase[r] # "idle" /\ Writes' \subseteq Writes /\ Reads' \subseteq Reads
      BY <2>7 DEF SocketWritable, SocketEndsWrite, CancelWrite, WriteContinues, Writes, Reads,
                  TypeOK, TypeWriters
    <3>2. UNCHANGED <<ending, intact, send_failed, receive_failed, wsession, rsession, idle>>
      BY <2>7 DEF SocketWritable, SocketEndsWrite, CancelWrite, WriteContinues
    <3> QED BY <2>2, <3>1, <3>2 DEF Writes
  <2>8. ASSUME NEW r \in Requests,
               \/ SocketReadable(r) \/ SocketEndsRead(r) \/ CancelRead(r) \/ ReadContinues(r)
        PROVE EndState'
    <3>1. Writes' \subseteq Writes /\ Reads' \subseteq Reads
      BY <2>8 DEF SocketReadable, SocketEndsRead, CancelRead, ReadContinues, Writes, Reads,
                  TypeOK, TypeReaders
    <3>2. UNCHANGED <<ending, intact, send_failed, receive_failed, wsession, rsession, idle, sent>>
      BY <2>8 DEF SocketReadable, SocketEndsRead, CancelRead, ReadContinues
    <3> QED BY <2>2, <3>1, <3>2
  <2>9. ASSUME NEW r \in Requests, ReleaseRequest(r) PROVE EndState'
    <3>1. UNCHANGED <<ending, intact, wphase, rphase, rsession, idle, sent>>
      BY <2>9 DEF ReleaseRequest
    <3>2. send_failed' /\ receive_failed' /\ \A q \in Requests : ~wsession'[q]
      BY <2>9 DEF ReleaseRequest, RequestReleased, TypeOK, TypeWriters, Bools
    <3> QED BY <2>2, <3>1, <3>2 DEF Writes, Reads
  <2>10. ASSUME NEW r \in Requests, NEW b \in BOOLEAN, DropResponse(r, b) \/ DropStale(r, b)
        PROVE EndState'
    <3>1. UNCHANGED <<ending, intact, wphase, rphase, wsession, send_failed, idle, sent>>
      BY <2>10 DEF DropResponse, DropStale
    <3>2. receive_failed' /\ \A q \in Requests : ~rsession'[q]
      BY <2>10 DEF DropResponse, DropStale, Finish, TypeOK, TypeReaders, Bools
    <3> QED BY <2>2, <3>1, <3>2 DEF Writes, Reads
  <2>11. ASSUME NEW r \in Requests, WriteEnds(r) PROVE EndState'
    <3>1. /\ wphase[r] # "idle" /\ wphase' = [wphase EXCEPT ![r] = "idle"] /\ WriteOpEnds(r)
          /\ UNCHANGED <<ending, intact, rphase, rsession>>
      BY <2>11 DEF WriteEnds, HeadWritten, HeadFailed, BodyWritten, WriteFailed
    <3>2. send_failed' /\ receive_failed' /\ \A q \in Requests : ~wsession'[q]
      BY <2>11 DEF WriteEnds, HeadWritten, HeadFailed, BodyWritten, WriteFailed, WriteReturns,
                   RequestReleased, TypeOK, TypeWriters, Bools
    <3>3. Writes # {}
      BY <3>1 DEF Writes
    <3> QED BY <2>2, <3>1, <3>2, <3>3, WriteOff
  <2>12. ASSUME NEW r \in Requests, ReadEnds(r) PROVE EndState'
    <3>1. /\ rphase' = [rphase EXCEPT ![r] = "idle"] /\ ReadOpEnds(r)
          /\ UNCHANGED <<ending, intact, wphase, wsession, send_failed, sent>>
      BY <2>12 DEF ReadEnds, HeaderCancelled, HeaderFailed, ReadFailed, HeaderRead, BodyRead
    <3>2. receive_failed'
      <4>1. CASE HeaderCancelled(r)
        BY <4>1 DEF HeaderCancelled
      <4>2. CASE UNCHANGED receive_failed \/ \E b \in BOOLEAN : Finish(r, b)
        BY <4>2 DEF Finish
      <4> QED BY <2>12, <4>1, <4>2 DEF ReadEnds, HeaderFailed, ReadFailed, HeaderRead, BodyRead
    <3>3. \A q \in Requests : ~rsession'[q]
      <4>1. CASE UNCHANGED rsession \/ rsession' = [rsession EXCEPT ![r] = FALSE]
        BY <4>1 DEF TypeOK, TypeReaders, Bools
      <4>2. CASE rsession' = AttachedAfter(r)
        BY <4>2 DEF AttachedAfter, TypeOK, TypeReaders, Bools
      <4> QED BY <2>12, <4>1, <4>2
              DEF ReadEnds, HeaderCancelled, HeaderFailed, ReadFailed, HeaderRead, BodyRead
    <3> QED BY <2>2, <3>1, <3>2, <3>3, ReadOff
  <2>13. ASSUME ResumeShutdown PROVE EndState'
    <3>1. UNCHANGED <<wphase, rphase, wsession, rsession, send_failed, receive_failed, idle,
                      intact, sent>>
      BY <2>13 DEF ResumeShutdown, ShutdownIdle, Teardown, SendFin, CloseStream
    <3>2. Writes' = Writes /\ (InFlight' <=> InFlight)
      BY <3>1 DEF InFlight, Writes, Reads
    <3>3. ending' \notin {"no", "waiting"}
      BY <2>13 DEF ResumeShutdown, ShutdownIdle, Teardown, SendFin, CloseStream
    <3>4. ~InFlight
      BY <2>13 DEF ResumeShutdown, ShutdownIdle, Teardown, SendFin, CloseStream, EndState,
                   TeardownAlone
    <3>5. intact => Writes = {} /\ \A r \in Requests : sent[r] \notin {"headcut", "bodycut"}
      BY <1>2 DEF EndState
    <3> QED BY <3>1, <3>2, <3>3, <3>4, <3>5 DEF EndState, TeardownAlone
  <2>14. ASSUME ReleaseSession PROVE EndState'
    <3>1. UNCHANGED <<ending, intact, send_failed, receive_failed, idle, sent>>
      BY <2>14 DEF ReleaseSession
    <3>2. /\ \A r \in Requests : ~wsession'[r] /\ ~rsession'[r]
          /\ \A r \in Requests : wphase'[r] # "idle" => wphase[r] # "idle"
          /\ \A r \in Requests : rphase'[r] # "idle" => rphase[r] # "idle"
      <4>1. CASE UNCHANGED <<wsession, wphase, rsession, rphase, stale>>
        BY <4>1
      <4>2. CASE Detach /\ CancelStream
        BY <4>2 DEF Detach, CancelStream, CancelParked
      <4> QED BY <2>14, <4>1, <4>2 DEF ReleaseSession
    <3> QED BY <2>2, <3>1, <3>2 DEF Writes, Reads
  <2>15. CASE Caller
    <3> HIDE <2>1
    <3> QED BY <2>15, <2>3, <2>4, <2>5, <2>6, <2>7, <2>8, <2>9, <2>10, <2>14 DEF Caller
  <2>16. CASE Peer
    BY <2>16, <2>7, <2>8 DEF Peer
  <2> QED
    BY <2>7, <2>8, <2>11, <2>12, <2>13, <2>15, <2>16 DEF Next
<1>3. CASE Shutdown
  <2>1. Intact => \A r \in Requests : sent[r] \notin {"headcut", "bodycut"}
    BY <1>3 DEF SendInv, SendState, Over, Shutdown, Intact, Writes
  <2>2. wphase' = CancelParked(wphase) /\ rphase' = CancelParked(rphase)
    BY <1>3 DEF Shutdown, CancelStream
  <2>3. Writes' = Writes /\ Reads' = Reads
    BY <2>2 DEF CancelParked, Writes, Reads
  <2>4. InFlight' <=> InFlight
    BY <2>3 DEF InFlight
  <2>5. send_failed' /\ receive_failed' /\ \A r \in Requests : ~wsession'[r] /\ ~rsession'[r]
    BY <1>3 DEF Shutdown, Detach
  <2>6. /\ ending' = IF InFlight THEN "waiting" ELSE "teardown"
        /\ idle' => ~InFlight
        /\ UNCHANGED sent
        /\ intact' => Intact
    BY <1>3 DEF Shutdown
  <2>7. intact' => Writes' = {} /\ \A r \in Requests : sent'[r] \notin {"headcut", "bodycut"}
    BY <2>1, <2>3, <2>6 DEF Intact
  <2> QED
    BY <2>4, <2>5, <2>6, <2>7 DEF EndState, TeardownAlone
<1>4. ending = "no" /\ ending' # "no" => Shutdown
  <2> SUFFICES ASSUME ending = "no", ending' # "no", ~Shutdown PROVE FALSE
    OBVIOUS
  <2>1. ~ResumeShutdown
    BY DEF ResumeShutdown, ShutdownIdle, Teardown, SendFin, CloseStream
  <2>2. ~Peer
    BY DEF Peer, SocketWritable, SocketReadable, SocketEndsWrite, SocketEndsRead
  <2>3. ~ \E r \in Requests : WriteContinues(r) \/ WriteEnds(r)
    BY DEF WriteContinues, WriteEnds, HeadWritten, HeadFailed, BodyWritten, WriteFailed
  <2>4. ~ \E r \in Requests : ReadContinues(r) \/ ReadEnds(r)
    BY ZenonT(30) DEF ReadContinues, ReadEnds, HeaderCancelled, HeaderFailed, ReadFailed, HeaderRead, BodyRead
  <2>5. ~Caller
    BY DEF Caller, Submit, Write, GetResponse, Read, CancelWrite, CancelRead, ReleaseRequest,
           DropResponse, DropStale, ReleaseSession
  <2> QED BY <2>1, <2>2, <2>3, <2>4, <2>5 DEF Next
<1> QED BY <1>1, <1>2, <1>3, <1>4 DEF TypeOK, TypeSession

-----------------------------------------------------------------------------
(* The theorems.                                                           *)

\* The inductive invariant holds of every session, so its parts do: sending_ is the one
\* incomplete request (SendingIsIncomplete), and eof_submitted is set exactly if the peer
\* has got the end of the request (EndMeansEnd).
THEOREM Safety == Spec => []SafetyInv
<1>1. Init => SafetyInv
  <2>1. Init => Taken
    BY MaxRequestsAssumption DEF Init, Taken, Requests
  <2> QED BY <2>1, SendInit, ReceiveInit, EndInit DEF SafetyInv, SendInv
<1>2. TypeOK /\ SafetyInv /\ [Next]_vars => SafetyInv'
  <2> SUFFICES ASSUME TypeOK, SafetyInv, [Next]_vars PROVE SafetyInv'
    OBVIOUS
  <2>1. SendInv /\ SendState /\ ReceiveState /\ Taken /\ EndState
    BY DEF SafetyInv, SendInv
  <2>2. CASE Next
    BY <2>1, <2>2, SendStep, ReceiveStep, TakenStep, EndStep DEF SafetyInv, SendInv
  <2>3. CASE UNCHANGED vars
    <3>1. SendInv' /\ ReceiveState' /\ Taken'
      BY <2>1, <2>3, SendFrame, ReceiveFrame, TakenFrame
         DEF vars, svars, evars, wvars, rvars, stream, sendvars, receivevars, takenvars
    <3>2. EndState'
      BY <2>1, <2>3 DEF vars, svars, evars, wvars, rvars, stream, EndState, TeardownAlone,
                        InFlight, Writes, Reads
    <3> QED BY <3>1, <3>2 DEF SafetyInv, SendInv
  <2> QED BY <2>2, <2>3
<1> QED BY <1>1, <1>2, TypeCorrect, PTL DEF Spec

\* At most one write and one read are on the stream at a time.
THEOREM OneOperationEach == Spec => []StreamExclusive
<1>1. TypeOK /\ SafetyInv => StreamExclusive
  <2> SUFFICES ASSUME TypeOK, SafetyInv PROVE StreamExclusive
    OBVIOUS
  <2>1. \A r, q \in Writes : r = q
    BY MaxRequestsAssumption DEF SafetyInv, SendOrder, Writes, Requests, TypeOK, TypeSession
  <2>2. \A r, q \in Reads : r = q
    BY DEF SafetyInv, ReceiveState, Reads
  <2> QED BY <2>1, <2>2 DEF StreamExclusive
<1> QED BY <1>1, TypeCorrect, Safety, PTL

\* The reader of a response takes bytes of that response and of no other, with one
\* attempt to get it only.
THEOREM ResponsesMatch == Spec => []ResponseIntegrity
<1>1. SafetyInv => ResponseIntegrity
  BY DEF SafetyInv, Taken, ResponseIntegrity
<1> QED BY <1>1, Safety, PTL

\* The orderly end of the connection has the stream for itself, and notifies the peer
\* only if no message was cut.
THEOREM OrderlyEnd == Spec => [](TeardownAlone /\ NotifyIntact)
<1>1. SafetyInv => TeardownAlone /\ NotifyIntact
  BY DEF SafetyInv, EndState, NotifyIntact
<1> QED BY <1>1, Safety, PTL

\* Requests reach the connection one after the other and completely: a write in flight is
\* one of the last request, and every earlier one is complete (SendOrder).
THEOREM RequestsInOrder == Spec => WireOrder
<1> DEFINE Ordered(r) == /\ \A q \in Requests : q < r => sent[q] = "complete"
                         /\ \A q \in Requests : q > r => sent[q] = "nothing"
<1>1. TypeOK /\ SafetyInv /\ [Next]_vars =>
        [\A r \in Requests : sent'[r] # sent[r] => Ordered(r)]_vars
  <2> SUFFICES ASSUME TypeOK, SafetyInv, Next, NEW r \in Requests, sent'[r] # sent[r]
               PROVE  Ordered(r)
    OBVIOUS
  <2> USE DEF svars, evars, wvars, rvars, stream
  <2>1. CASE wphase[r] # "idle"
    <3>1. r + 1 = requests_sent
      BY <2>1 DEF SafetyInv, SendOrder
    <3>2. \A q \in Requests : q < r => q + 1 < requests_sent
      BY <3>1, MaxRequestsAssumption DEF Requests
    <3>3. \A q \in Requests : q > r => q >= requests_sent
      BY <3>1, MaxRequestsAssumption DEF Requests
    <3> QED BY <3>2, <3>3 DEF SafetyInv, SendOrder, Fresh
  <2>2. ASSUME NEW q \in Requests, SocketWritable(q) \/ HeadWritten(q) \/ BodyWritten(q)
        PROVE  wphase[r] # "idle"
    <3>1. wphase[q] # "idle" /\ \E d \in Delivered : sent' = [sent EXCEPT ![q] = d]
      BY <2>2 DEF SocketWritable, HeadWritten, BodyWritten, Delivered
    <3> QED BY <3>1 DEF TypeOK, TypeStream
  <2>3. CASE UNCHANGED sent
    BY <2>3
  <2>4. CASE Caller
    BY <2>3, <2>4 DEF Caller, Submit, Write, GetResponse, Read, CancelWrite, CancelRead,
                      ReleaseRequest, DropResponse, DropStale, Shutdown, ReleaseSession
  <2>5. CASE Peer
    BY <2>1, <2>2, <2>3, <2>5 DEF Peer, SocketReadable, SocketEndsWrite, SocketEndsRead
  <2>6. ASSUME NEW q \in Requests, WriteContinues(q) \/ WriteEnds(q) PROVE Ordered(r)
    BY <2>1, <2>2, <2>3, <2>6 DEF WriteContinues, WriteEnds, HeadFailed, WriteFailed
  <2>7. ASSUME NEW q \in Requests, ReadContinues(q) \/ ReadEnds(q) PROVE Ordered(r)
    BY <2>3, <2>7 DEF ReadContinues, ReadEnds, HeaderCancelled, HeaderFailed, ReadFailed,
                      HeaderRead, BodyRead
  <2>8. CASE ResumeShutdown
    BY <2>3, <2>8 DEF ResumeShutdown, ShutdownIdle, Teardown, SendFin, CloseStream
  <2> QED BY <2>4, <2>5, <2>6, <2>7, <2>8 DEF Next
<1> QED BY <1>1, TypeCorrect, Safety, PTL DEF Spec, WireOrder
=============================================================================
