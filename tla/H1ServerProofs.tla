--------------------------- MODULE H1ServerProofs ---------------------------
(***************************************************************************)
(* Proofs about H1Server, for every number of requests.                    *)
(*                                                                         *)
(* The invariant is shown part by part: for each part, a lemma goes        *)
(* through the actions.  What outlives its handler disturbs only the parts *)
(* that are about operations on the stream: Anyhow is the rest, and IInv   *)
(* all of it, of handlers that keep nothing.                               *)
(***************************************************************************)
EXTENDS H1Server, TLAPS

\* While a handler runs, there is the request that it serves.
Serving == pc = "handler" => served > 0

\* Only the request that is served is held, or has operations in progress, and only while its
\* handler runs.
OwnedBy(r) ==
    \/ reader[r] = "held" \/ writer[r] = "held" \/ rphase[r] # "idle" \/ wphase[r] # "idle"
    => pc = "handler" /\ r + 1 = served
Owned == \A r \in Requests : OwnedBy(r)

\* Nothing outlives its handle, and a response with a write in progress has its session.
IsAttached(r) ==
    /\ rphase[r] # "idle" => reader[r] = "held"
    /\ wphase[r] # "idle" => writer[r] = "held" /\ wsession[r]
Attached == \A r \in Requests : IsAttached(r)

\* There is no response to a request that was not read.
IsFresh(r) == r >= served => writer[r] = "none"
Fresh == \A r \in Requests : IsFresh(r)

\* do_session() will not start a handler any more.
Over == pc \notin {"header", "reject", "upgrade"} /\ (pc = "handler" => closed)

\* A session that is destroyed is closed, unless it has handed over its stream.
Destroyed == destroyed => closed \/ pc \in {"upgraded", "deleted"}

\* A handler that was started after destroy() is the last.
Late == late <= 1 /\ (late > 0 => Over)

\* So is one whose response says "close", or could not be written.
IsLast(r) == says_close[r] \/ cancelled[r] => r + 1 = served /\ Over
LastServed == \A r \in Requests : IsLast(r)

\* Where the stream is.  A body that has not been read is known to the reader that is to
\* read it, unless that was released and the session closed.
IsAligned(r) ==
    /\ ~misread
    /\ pc = "header" => rxat # "body"
    /\ reader[r] = "held" /\ parsed[r] = "header" => rxat = "body"
    /\ rphase[r] # "idle" => parsed[r] = "header"
    /\ pc = "handler" /\ rxat = "body" /\ r + 1 = served => closed \/ Unread(r)
Aligned == \A r \in Requests : IsAligned(r)

\* The end of a response is written once, and nothing after it.
IsEnded(r) == eof_submitted[r] => sent[r] = "complete" /\ wphase[r] = "idle"
Ended == \A r \in Requests : IsEnded(r)

\* A request is detached before do_session() waits for the next header, a response before a
\* later request gets one.
IsDetached(r) ==
    /\ rsession[r] => r + 1 = served /\ pc # "header"
    /\ wsession[r] => \A p \in Requests : p > r => writer[p] = "none"
    /\ pc = "handler" /\ r + 1 = served => writer[r] # "none"
Detached == \A r \in Requests : IsDetached(r)

\* The inductive invariant, whatever handlers keep ...
Anyhow == TypeOK /\ Serving /\ Fresh /\ Destroyed /\ Late /\ Detached

\* ... and if they keep nothing.
IInv == Anyhow /\ Owned /\ Attached /\ LastServed /\ Aligned /\ Ended

\* No handler keeps anything.
NoneOutlives == Outlive = {{}}

\* So there is nothing in progress when it ends.
LEMMA NoneKept ==
  NoneOutlives => /\ "request" \notin UNION Outlive /\ "response" \notin UNION Outlive
                  /\ \A keep \in Outlive : keep = {}
BY DEF NoneOutlives

-----------------------------------------------------------------------------
(* Types.                                                                  *)

\* The numbers of requests.
LEMMA RequestFacts ==
  ASSUME TypeOK, Serving
  PROVE  /\ Requests \subseteq Nat /\ served \in Nat
         /\ served < MaxRequests => served \in Requests
         /\ pc = "handler" => served - 1 \in Requests
BY MaxRequestsAssumption DEF TypeOK, Serving, Requests

\* Every step leaves each field with a value of its type.
LEMMA TypeStep ==
  ASSUME TypeOK, Late, Serving, [Next]_vars
  PROVE  TypeOK'
<1> USE RequestFacts, MaxRequestsAssumption DEF TypeOK, Bools, Phases, mvars, cvars, rvars,
        wvars, stream
<1>1. CASE SocketSession
  BY <1>1 DEF SocketSession, Writing
<1>2. ASSUME NEW r \in Requests, SocketReads(r) PROVE TypeOK'
  BY <1>2 DEF SocketReads
<1>3. ASSUME NEW r \in Requests, SocketWrites(r) PROVE TypeOK'
  BY <1>3 DEF SocketWrites
<1>4. CASE HeaderContinues
  BY <1>4 DEF HeaderContinues
<1>5. CASE MessageContinues
  BY <1>5 DEF MessageContinues
<1>6. ASSUME NEW r \in Requests, ReadContinues(r) PROVE TypeOK'
  BY <1>6 DEF ReadContinues, Take
<1>7. ASSUME NEW r \in Requests, WriteContinues(r) PROVE TypeOK'
  BY <1>7 DEF WriteContinues
<1>8. ASSUME NEW r \in Requests, ReadFailed(r) PROVE TypeOK'
  BY <1>8 DEF ReadFailed, ReaderAfter
<1>9. ASSUME NEW r \in Requests, NEW last \in BOOLEAN, BodyRead(r, last) PROVE TypeOK'
  BY <1>9 DEF BodyRead, Take, ReaderAfter
<1>10. ASSUME NEW r \in Requests, Written(r) PROVE TypeOK'
  BY <1>10 DEF Written, WriterAfter
<1>11. ASSUME NEW r \in Requests, WriteFailed(r) PROVE TypeOK'
  BY <1>11 DEF WriteFailed, WriteFailedCloses, WriterAfter
<1>12. ASSUME NEW complete \in BOOLEAN, NEW eof \in BOOLEAN,
              HeaderRead(complete, eof)
       PROVE  TypeOK'
  BY <1>12 DEF HeaderRead, DetachWriters, Late, Over
<1>13. CASE HeaderUpgrades
  BY <1>13 DEF HeaderUpgrades
<1>14. CASE HeaderTooLarge
  BY <1>14 DEF HeaderTooLarge
<1>15. CASE HeaderFailed
  BY <1>15 DEF HeaderFailed
<1>16. CASE RejectWritten
  BY <1>16 DEF RejectWritten
<1>17. CASE UpgradeWritten
  BY <1>17 DEF UpgradeWritten
<1>18. ASSUME NEW keep \in Outlive, HandlerReturns(keep) PROVE TypeOK'
  <2>1. /\ pc' \in {"header", "teardown"} /\ phase' \in {"parked", phase}
        /\ rsession' \in Bools
    <3> DEFINE r == served - 1
               closed_ == closed \/ ("request" \notin keep /\ Unread(r))
               rsession_ == [rsession EXCEPT ![r] = rsession[r] /\ "request" \in keep]
    <3>1. NextRequest(closed_, rsession_)
      BY <1>18 DEF HandlerReturns, HandlerLeaves
    <3>2. rsession_ \in Bools
      BY <1>18 DEF HandlerReturns, HandlerLeaves
    <3> HIDE DEF closed_, rsession_
    <3>3. [q \in Requests |-> FALSE] \in Bools
      OBVIOUS
    <3>4. CASE /\ rsession' = [q \in Requests |-> FALSE]
               /\ pc' = "header" /\ phase' = "parked"
      BY <3>3, <3>4
    <3>5. CASE rsession' = rsession_ /\ pc' = "teardown" /\ UNCHANGED phase
      BY <3>2, <3>5
    <3> QED BY <3>1, <3>4, <3>5, Zenon DEF NextRequest
  <2>2. rx' \in BOOLEAN /\ closed' \in BOOLEAN
    BY <1>18, Zenon DEF HandlerReturns, HandlerLeaves
  <2>3. /\ reader' = [reader EXCEPT ![served - 1] = IF "request" \in keep THEN @ ELSE "gone"]
        /\ writer' = [writer EXCEPT ![served - 1] = IF "response" \in keep THEN @ ELSE "gone"]
        /\ wsession' = [wsession EXCEPT ![served - 1] = @ /\ "response" \in keep]
        /\ UNCHANGED <<served, need_eof, destroyed, late, rphase, parsed, wop, wphase, cancelled,
                       eof_submitted, says_close, tx, sent, rxat, misread>>
    BY <1>18 DEF HandlerReturns, HandlerLeaves
  <2>4. /\ reader' \in [Requests -> {"none", "held", "zombie", "gone"}]
        /\ writer' \in [Requests -> {"none", "held", "zombie", "gone"}]
        /\ wsession' \in Bools
    BY <2>3
  <2> QED BY <2>1, <2>2, <2>3, <2>4
<1>19. ASSUME NEW keep \in Outlive, HandlerThrows(keep) PROVE TypeOK'
  BY <1>19, ZenonT(30) DEF HandlerThrows, HandlerLeaves, Unread
<1>20. CASE Teardown
  BY <1>20 DEF Teardown
<1>21. CASE SendFin
  BY <1>21 DEF SendFin
<1>22. CASE CloseStream
  BY <1>22 DEF CloseStream, CancelAll, Canceled
<1>23. ASSUME NEW r \in Requests, Read(r) PROVE TypeOK'
  BY <1>23 DEF Read
<1>24. ASSUME NEW r \in Requests, CancelRead(r) PROVE TypeOK'
  BY <1>24 DEF CancelRead
<1>25. ASSUME NEW r \in Requests, DropRequest(r) PROVE TypeOK'
  BY <1>25 DEF DropRequest, Unread
<1>26. ASSUME NEW r \in Requests, NEW close \in BOOLEAN, Submit(r, close) PROVE TypeOK'
  BY <1>26 DEF Submit
<1>27. ASSUME NEW r \in Requests, NEW eof \in BOOLEAN, Write(r, eof) PROVE TypeOK'
  BY <1>27 DEF Write
<1>28. ASSUME NEW r \in Requests, CancelWrite(r) PROVE TypeOK'
  BY <1>28 DEF CancelWrite
<1>29. ASSUME NEW r \in Requests, DropResponse(r) PROVE TypeOK'
  BY <1>29 DEF DropResponse
<1>30. CASE ReleaseSession
  BY <1>30 DEF ReleaseSession, CancelAll, Canceled
<1>31. CASE Destroy
  <2>1. CASE pc = "upgraded" /\ UNCHANGED <<closed, tx, rx, phase, rphase, wphase>>
    BY <1>31, <2>1 DEF Destroy
  <2>2. CASE DestroyStream
    BY <1>31, <2>2 DEF Destroy, DestroyStream, CancelAll, Canceled
  <2> QED BY <1>31, <2>1, <2>2 DEF Destroy
<1>32. CASE UNCHANGED vars
  BY <1>32 DEF vars
<1> HIDE DEF TypeOK
<1> QED
  BY <1>1, <1>2, <1>3, <1>4, <1>5, <1>6, <1>7, <1>8, <1>9, <1>10, <1>11, <1>12, <1>13,
     <1>14, <1>15, <1>16, <1>17, <1>18, <1>19, <1>20, <1>21, <1>22, <1>23, <1>24, <1>25,
     <1>26, <1>27, <1>28, <1>29, <1>30, <1>31, <1>32
     DEF Next, ReadEnds, WriteEnds, SessionResumes, HandlerEnds, SessionEnds, Handler

-----------------------------------------------------------------------------
(* The parts of the invariant.                                             *)

\* There is a request while a handler runs.
LEMMA ServingStep ==
  ASSUME TypeOK, Serving, [Next]_vars
  PROVE  Serving'
<1> USE RequestFacts DEF TypeOK, Bools, mvars, cvars, rvars, wvars, stream, Serving
<1>1. CASE SocketSession \/ HeaderContinues \/ MessageContinues
  BY <1>1 DEF SocketSession, Writing, HeaderContinues, MessageContinues
<1>2. ASSUME NEW r \in Requests, SocketReads(r) \/ SocketWrites(r) PROVE Serving'
  BY <1>2 DEF SocketReads, SocketWrites
<1>3. ASSUME NEW r \in Requests,
             ReadContinues(r) \/ WriteContinues(r) \/ ReadFailed(r)
      PROVE  Serving'
  BY <1>3 DEF ReadContinues, Take, WriteContinues, ReadFailed, ReaderAfter
<1>4. ASSUME NEW r \in Requests, NEW last \in BOOLEAN, BodyRead(r, last) PROVE Serving'
  BY <1>4 DEF BodyRead, Take, ReaderAfter
<1>5. ASSUME NEW r \in Requests, Written(r) \/ WriteFailed(r) PROVE Serving'
  BY <1>5 DEF Written, WriterAfter, WriteFailed, WriteFailedCloses
<1>6. ASSUME NEW complete \in BOOLEAN, NEW eof \in BOOLEAN,
             HeaderRead(complete, eof)
      PROVE  Serving'
  BY <1>6 DEF HeaderRead, DetachWriters
<1>7. CASE HeaderUpgrades
  BY <1>7 DEF HeaderUpgrades
<1>8. CASE HeaderTooLarge \/ HeaderFailed \/ RejectWritten \/ UpgradeWritten
  BY <1>8 DEF HeaderTooLarge, HeaderFailed, RejectWritten, UpgradeWritten
<1>9. ASSUME NEW keep \in Outlive, HandlerReturns(keep) PROVE Serving'
  BY <1>9 DEF HandlerReturns, HandlerLeaves, NextRequest, Unread
<1>10. ASSUME NEW keep \in Outlive, HandlerThrows(keep) PROVE Serving'
  BY <1>10 DEF HandlerThrows, HandlerLeaves, Unread
<1>11. CASE Teardown \/ SendFin \/ CloseStream
  BY <1>11 DEF Teardown, SendFin, CloseStream, CancelAll, Canceled
<1>12. ASSUME NEW r \in Requests, Read(r) \/ CancelRead(r) PROVE Serving'
  BY <1>12 DEF Read, CancelRead
<1>13. ASSUME NEW r \in Requests, DropRequest(r) PROVE Serving'
  BY <1>13 DEF DropRequest, Unread
<1>14. ASSUME NEW r \in Requests, NEW close \in BOOLEAN, Submit(r, close) PROVE Serving'
  BY <1>14 DEF Submit
<1>15. ASSUME NEW r \in Requests, NEW eof \in BOOLEAN, Write(r, eof) PROVE Serving'
  BY <1>15 DEF Write
<1>16. ASSUME NEW r \in Requests, CancelWrite(r) \/ DropResponse(r) PROVE Serving'
  BY <1>16 DEF CancelWrite, DropResponse
<1>17. CASE ReleaseSession
  BY <1>17 DEF ReleaseSession, CancelAll, Canceled
<1>18. CASE Destroy
  BY <1>18 DEF Destroy, DestroyStream, Gone, CancelAll, Canceled
<1>19. CASE UNCHANGED vars
  BY <1>19 DEF vars
<1> HIDE DEF TypeOK, Serving
<1> QED
  BY <1>1, <1>2, <1>3, <1>4, <1>5, <1>6, <1>7, <1>8, <1>9, <1>10, <1>11, <1>12, <1>13,
     <1>14, <1>15, <1>16, <1>17, <1>18, <1>19
     DEF Next, ReadEnds, WriteEnds, SessionResumes, HandlerEnds, SessionEnds, Handler

\* A request and its response are released, with nothing in progress, before or when the
\* handler ends, and a handler starts only after the one before it.
LEMMA OwnedStep ==
  ASSUME NoneOutlives, TypeOK, Serving, Owned, NEW q \in Requests, [Next]_vars
  PROVE  OwnedBy(q)'
<1> USE RequestFacts, NoneKept DEF TypeOK, Bools, mvars, cvars, rvars, wvars, stream, Serving, Owned,
        OwnedBy
<1>1. CASE SocketSession \/ HeaderContinues \/ MessageContinues
  BY <1>1 DEF SocketSession, Writing, HeaderContinues, MessageContinues
<1>2. ASSUME NEW r \in Requests, SocketReads(r) \/ SocketWrites(r) PROVE OwnedBy(q)'
  BY <1>2 DEF SocketReads, SocketWrites
<1>3. ASSUME NEW r \in Requests,
             ReadContinues(r) \/ WriteContinues(r) \/ ReadFailed(r)
      PROVE  OwnedBy(q)'
  BY <1>3 DEF ReadContinues, Take, WriteContinues, ReadFailed, ReaderAfter
<1>4. ASSUME NEW r \in Requests, NEW last \in BOOLEAN, BodyRead(r, last) PROVE OwnedBy(q)'
  BY <1>4 DEF BodyRead, Take, ReaderAfter
<1>5. ASSUME NEW r \in Requests, Written(r) \/ WriteFailed(r) PROVE OwnedBy(q)'
  BY <1>5 DEF Written, WriterAfter, WriteFailed, WriteFailedCloses
<1>6. ASSUME NEW complete \in BOOLEAN, NEW eof \in BOOLEAN,
             HeaderRead(complete, eof)
      PROVE  OwnedBy(q)'
  BY <1>6 DEF HeaderRead, DetachWriters
<1>7. CASE HeaderUpgrades
  BY <1>7 DEF HeaderUpgrades
<1>8. CASE HeaderTooLarge \/ HeaderFailed \/ RejectWritten \/ UpgradeWritten
  BY <1>8 DEF HeaderTooLarge, HeaderFailed, RejectWritten, UpgradeWritten
<1>9. ASSUME NEW keep \in Outlive, HandlerReturns(keep) PROVE OwnedBy(q)'
  BY <1>9 DEF HandlerReturns, HandlerLeaves, NextRequest, Unread
<1>10. ASSUME NEW keep \in Outlive, HandlerThrows(keep) PROVE OwnedBy(q)'
  BY <1>10 DEF HandlerThrows, HandlerLeaves, Unread
<1>11. CASE Teardown \/ SendFin \/ CloseStream
  BY <1>11 DEF Teardown, SendFin, CloseStream, CancelAll, Canceled
<1>12. ASSUME NEW r \in Requests, Read(r) \/ CancelRead(r) PROVE OwnedBy(q)'
  BY <1>12 DEF Read, CancelRead
<1>13. ASSUME NEW r \in Requests, DropRequest(r) PROVE OwnedBy(q)'
  BY <1>13 DEF DropRequest, Unread
<1>14. ASSUME NEW r \in Requests, NEW close \in BOOLEAN, Submit(r, close) PROVE OwnedBy(q)'
  BY <1>14 DEF Submit
<1>15. ASSUME NEW r \in Requests, NEW eof \in BOOLEAN, Write(r, eof) PROVE OwnedBy(q)'
  BY <1>15 DEF Write
<1>16. ASSUME NEW r \in Requests, CancelWrite(r) \/ DropResponse(r) PROVE OwnedBy(q)'
  BY <1>16 DEF CancelWrite, DropResponse
<1>17. CASE ReleaseSession
  BY <1>17 DEF ReleaseSession, CancelAll, Canceled
<1>18. CASE Destroy
  BY <1>18 DEF Destroy, DestroyStream, Gone, CancelAll, Canceled
<1>19. CASE UNCHANGED vars
  BY <1>19 DEF vars
<1> HIDE DEF TypeOK, Serving, Owned, OwnedBy
<1> QED
  BY <1>1, <1>2, <1>3, <1>4, <1>5, <1>6, <1>7, <1>8, <1>9, <1>10, <1>11, <1>12, <1>13,
     <1>14, <1>15, <1>16, <1>17, <1>18, <1>19
     DEF Next, ReadEnds, WriteEnds, SessionResumes, HandlerEnds, SessionEnds, Handler

\* What is in progress belongs to a request or response that is held, and that is attached to
\* the session.
LEMMA AttachedStep ==
  ASSUME NoneOutlives, TypeOK, Serving, Owned, Attached, NEW q \in Requests, [Next]_vars
  PROVE  IsAttached(q)'
<1> USE RequestFacts, NoneKept DEF TypeOK, Bools, mvars, cvars, rvars, wvars, stream, Owned, OwnedBy,
        Attached, IsAttached
<1>1. CASE SocketSession \/ HeaderContinues \/ MessageContinues
  BY <1>1 DEF SocketSession, Writing, HeaderContinues, MessageContinues
<1>2. ASSUME NEW r \in Requests, SocketReads(r) \/ SocketWrites(r) PROVE IsAttached(q)'
  BY <1>2 DEF SocketReads, SocketWrites
<1>3. ASSUME NEW r \in Requests,
             ReadContinues(r) \/ WriteContinues(r) \/ ReadFailed(r)
      PROVE  IsAttached(q)'
  BY <1>3 DEF ReadContinues, Take, WriteContinues, ReadFailed, ReaderAfter
<1>4. ASSUME NEW r \in Requests, NEW last \in BOOLEAN, BodyRead(r, last) PROVE IsAttached(q)'
  BY <1>4 DEF BodyRead, Take, ReaderAfter
<1>5. ASSUME NEW r \in Requests, Written(r) \/ WriteFailed(r) PROVE IsAttached(q)'
  BY <1>5 DEF Written, WriterAfter, WriteFailed, WriteFailedCloses
<1>6. ASSUME NEW complete \in BOOLEAN, NEW eof \in BOOLEAN,
             HeaderRead(complete, eof)
      PROVE  IsAttached(q)'
  BY <1>6 DEF HeaderRead, DetachWriters
<1>7. CASE HeaderUpgrades
  BY <1>7 DEF HeaderUpgrades
<1>8. CASE HeaderTooLarge \/ HeaderFailed \/ RejectWritten \/ UpgradeWritten
  BY <1>8 DEF HeaderTooLarge, HeaderFailed, RejectWritten, UpgradeWritten
<1>9. ASSUME NEW keep \in Outlive, HandlerReturns(keep) PROVE IsAttached(q)'
  BY <1>9 DEF HandlerReturns, HandlerLeaves, NextRequest, Unread
<1>10. ASSUME NEW keep \in Outlive, HandlerThrows(keep) PROVE IsAttached(q)'
  BY <1>10 DEF HandlerThrows, HandlerLeaves, Unread
<1>11. CASE Teardown \/ SendFin \/ CloseStream
  BY <1>11 DEF Teardown, SendFin, CloseStream, CancelAll, Canceled
<1>12. ASSUME NEW r \in Requests, Read(r) \/ CancelRead(r) PROVE IsAttached(q)'
  BY <1>12 DEF Read, CancelRead
<1>13. ASSUME NEW r \in Requests, DropRequest(r) PROVE IsAttached(q)'
  BY <1>13 DEF DropRequest, Unread
<1>14. ASSUME NEW r \in Requests, NEW close \in BOOLEAN, Submit(r, close) PROVE IsAttached(q)'
  BY <1>14 DEF Submit
<1>15. ASSUME NEW r \in Requests, NEW eof \in BOOLEAN, Write(r, eof) PROVE IsAttached(q)'
  BY <1>15 DEF Write
<1>16. ASSUME NEW r \in Requests, CancelWrite(r) \/ DropResponse(r) PROVE IsAttached(q)'
  BY <1>16 DEF CancelWrite, DropResponse
<1>17. CASE ReleaseSession
  BY <1>17 DEF ReleaseSession, CancelAll, Canceled
<1>18. CASE Destroy
  BY <1>18 DEF Destroy, DestroyStream, Gone, CancelAll, Canceled
<1>19. CASE UNCHANGED vars
  BY <1>19 DEF vars
<1> HIDE DEF TypeOK, Owned, OwnedBy, Attached, IsAttached
<1> QED
  BY <1>1, <1>2, <1>3, <1>4, <1>5, <1>6, <1>7, <1>8, <1>9, <1>10, <1>11, <1>12, <1>13,
     <1>14, <1>15, <1>16, <1>17, <1>18, <1>19
     DEF Next, ReadEnds, WriteEnds, SessionResumes, HandlerEnds, SessionEnds, Handler

\* A response is made with the header of its request.
LEMMA FreshStep ==
  ASSUME TypeOK, Serving, Fresh, NEW q \in Requests, [Next]_vars
  PROVE  IsFresh(q)'
<1> USE RequestFacts DEF TypeOK, Bools, mvars, cvars, rvars, wvars, stream, Fresh, IsFresh
<1>1. CASE SocketSession \/ HeaderContinues \/ MessageContinues
  BY <1>1 DEF SocketSession, Writing, HeaderContinues, MessageContinues
<1>2. ASSUME NEW r \in Requests, SocketReads(r) \/ SocketWrites(r) PROVE IsFresh(q)'
  BY <1>2 DEF SocketReads, SocketWrites
<1>3. ASSUME NEW r \in Requests,
             ReadContinues(r) \/ WriteContinues(r) \/ ReadFailed(r)
      PROVE  IsFresh(q)'
  BY <1>3 DEF ReadContinues, Take, WriteContinues, ReadFailed, ReaderAfter
<1>4. ASSUME NEW r \in Requests, NEW last \in BOOLEAN, BodyRead(r, last) PROVE IsFresh(q)'
  BY <1>4 DEF BodyRead, Take, ReaderAfter
<1>5. ASSUME NEW r \in Requests, Written(r) \/ WriteFailed(r) PROVE IsFresh(q)'
  BY <1>5 DEF Written, WriterAfter, WriteFailed, WriteFailedCloses
<1>6. ASSUME NEW complete \in BOOLEAN, NEW eof \in BOOLEAN,
             HeaderRead(complete, eof)
      PROVE  IsFresh(q)'
  BY <1>6 DEF HeaderRead, DetachWriters
<1>7. CASE HeaderUpgrades
  BY <1>7 DEF HeaderUpgrades
<1>8. CASE HeaderTooLarge \/ HeaderFailed \/ RejectWritten \/ UpgradeWritten
  BY <1>8 DEF HeaderTooLarge, HeaderFailed, RejectWritten, UpgradeWritten
<1>9. ASSUME NEW keep \in Outlive, HandlerReturns(keep) PROVE IsFresh(q)'
  BY <1>9 DEF HandlerReturns, HandlerLeaves, NextRequest, Unread
<1>10. ASSUME NEW keep \in Outlive, HandlerThrows(keep) PROVE IsFresh(q)'
  BY <1>10 DEF HandlerThrows, HandlerLeaves, Unread
<1>11. CASE Teardown \/ SendFin \/ CloseStream
  BY <1>11 DEF Teardown, SendFin, CloseStream, CancelAll, Canceled
<1>12. ASSUME NEW r \in Requests, Read(r) \/ CancelRead(r) PROVE IsFresh(q)'
  BY <1>12 DEF Read, CancelRead
<1>13. ASSUME NEW r \in Requests, DropRequest(r) PROVE IsFresh(q)'
  BY <1>13 DEF DropRequest, Unread
<1>14. ASSUME NEW r \in Requests, NEW close \in BOOLEAN, Submit(r, close) PROVE IsFresh(q)'
  BY <1>14 DEF Submit
<1>15. ASSUME NEW r \in Requests, NEW eof \in BOOLEAN, Write(r, eof) PROVE IsFresh(q)'
  BY <1>15 DEF Write
<1>16. ASSUME NEW r \in Requests, CancelWrite(r) \/ DropResponse(r) PROVE IsFresh(q)'
  BY <1>16 DEF CancelWrite, DropResponse
<1>17. CASE ReleaseSession
  BY <1>17 DEF ReleaseSession, CancelAll, Canceled
<1>18. CASE Destroy
  BY <1>18 DEF Destroy, DestroyStream, Gone, CancelAll, Canceled
<1>19. CASE UNCHANGED vars
  BY <1>19 DEF vars
<1> HIDE DEF TypeOK, Fresh, IsFresh
<1> QED
  BY <1>1, <1>2, <1>3, <1>4, <1>5, <1>6, <1>7, <1>8, <1>9, <1>10, <1>11, <1>12, <1>13,
     <1>14, <1>15, <1>16, <1>17, <1>18, <1>19
     DEF Next, ReadEnds, WriteEnds, SessionResumes, HandlerEnds, SessionEnds, Handler

\* A header is waited for with no request attached, and read with no response attached.
LEMMA DetachedStep ==
  ASSUME TypeOK, Serving, Fresh, Detached, NEW q \in Requests, [Next]_vars
  PROVE  IsDetached(q)'
<1> USE RequestFacts DEF TypeOK, Bools, mvars, cvars, rvars, wvars, stream, Fresh, IsFresh,
        Detached, IsDetached
<1>1. CASE SocketSession \/ HeaderContinues \/ MessageContinues
  BY <1>1 DEF SocketSession, Writing, HeaderContinues, MessageContinues
<1>2. ASSUME NEW r \in Requests, SocketReads(r) \/ SocketWrites(r) PROVE IsDetached(q)'
  BY <1>2 DEF SocketReads, SocketWrites
<1>3. ASSUME NEW r \in Requests,
             ReadContinues(r) \/ WriteContinues(r) \/ ReadFailed(r)
      PROVE  IsDetached(q)'
  BY <1>3 DEF ReadContinues, Take, WriteContinues, ReadFailed, ReaderAfter
<1>4. ASSUME NEW r \in Requests, NEW last \in BOOLEAN, BodyRead(r, last) PROVE IsDetached(q)'
  BY <1>4 DEF BodyRead, Take, ReaderAfter
<1>5. ASSUME NEW r \in Requests, Written(r) \/ WriteFailed(r) PROVE IsDetached(q)'
  BY <1>5 DEF Written, WriterAfter, WriteFailed, WriteFailedCloses
<1>6. ASSUME NEW complete \in BOOLEAN, NEW eof \in BOOLEAN,
             HeaderRead(complete, eof)
      PROVE  IsDetached(q)'
  BY <1>6 DEF HeaderRead, DetachWriters
<1>7. CASE HeaderUpgrades
  BY <1>7 DEF HeaderUpgrades
<1>8. CASE HeaderTooLarge \/ HeaderFailed \/ RejectWritten \/ UpgradeWritten
  BY <1>8 DEF HeaderTooLarge, HeaderFailed, RejectWritten, UpgradeWritten
<1>9. ASSUME NEW keep \in Outlive, HandlerReturns(keep) PROVE IsDetached(q)'
  BY <1>9 DEF HandlerReturns, HandlerLeaves, NextRequest, Unread
<1>10. ASSUME NEW keep \in Outlive, HandlerThrows(keep) PROVE IsDetached(q)'
  BY <1>10 DEF HandlerThrows, HandlerLeaves, Unread
<1>11. CASE Teardown \/ SendFin \/ CloseStream
  BY <1>11 DEF Teardown, SendFin, CloseStream, CancelAll, Canceled
<1>12. ASSUME NEW r \in Requests, Read(r) \/ CancelRead(r) PROVE IsDetached(q)'
  BY <1>12 DEF Read, CancelRead
<1>13. ASSUME NEW r \in Requests, DropRequest(r) PROVE IsDetached(q)'
  BY <1>13 DEF DropRequest, Unread
<1>14. ASSUME NEW r \in Requests, NEW close \in BOOLEAN, Submit(r, close) PROVE IsDetached(q)'
  BY <1>14 DEF Submit
<1>15. ASSUME NEW r \in Requests, NEW eof \in BOOLEAN, Write(r, eof) PROVE IsDetached(q)'
  BY <1>15 DEF Write
<1>16. ASSUME NEW r \in Requests, CancelWrite(r) \/ DropResponse(r) PROVE IsDetached(q)'
  BY <1>16 DEF CancelWrite, DropResponse
<1>17. CASE ReleaseSession
  BY <1>17 DEF ReleaseSession, CancelAll, Canceled
<1>18. CASE Destroy
  BY <1>18 DEF Destroy, DestroyStream, Gone, CancelAll, Canceled
<1>19. CASE UNCHANGED vars
  BY <1>19 DEF vars
<1> HIDE DEF TypeOK, Fresh, IsFresh, Detached, IsDetached
<1> QED
  BY <1>1, <1>2, <1>3, <1>4, <1>5, <1>6, <1>7, <1>8, <1>9, <1>10, <1>11, <1>12, <1>13,
     <1>14, <1>15, <1>16, <1>17, <1>18, <1>19
     DEF Next, ReadEnds, WriteEnds, SessionResumes, HandlerEnds, SessionEnds, Handler

\* destroy() sets closed_, and nothing resets it.
LEMMA DestroyedStep ==
  ASSUME TypeOK, Serving, Destroyed, [Next]_vars
  PROVE  Destroyed'
<1> USE RequestFacts DEF TypeOK, Bools, mvars, cvars, rvars, wvars, stream, Destroyed
<1>1. CASE SocketSession \/ HeaderContinues \/ MessageContinues
  BY <1>1 DEF SocketSession, Writing, HeaderContinues, MessageContinues
<1>2. ASSUME NEW r \in Requests, SocketReads(r) \/ SocketWrites(r) PROVE Destroyed'
  BY <1>2 DEF SocketReads, SocketWrites
<1>3. ASSUME NEW r \in Requests,
             ReadContinues(r) \/ WriteContinues(r) \/ ReadFailed(r)
      PROVE  Destroyed'
  BY <1>3 DEF ReadContinues, Take, WriteContinues, ReadFailed, ReaderAfter
<1>4. ASSUME NEW r \in Requests, NEW last \in BOOLEAN, BodyRead(r, last) PROVE Destroyed'
  BY <1>4 DEF BodyRead, Take, ReaderAfter
<1>5. ASSUME NEW r \in Requests, Written(r) \/ WriteFailed(r) PROVE Destroyed'
  BY <1>5 DEF Written, WriterAfter, WriteFailed, WriteFailedCloses
<1>6. ASSUME NEW complete \in BOOLEAN, NEW eof \in BOOLEAN,
             HeaderRead(complete, eof)
      PROVE  Destroyed'
  BY <1>6 DEF HeaderRead, DetachWriters
<1>7. CASE HeaderUpgrades
  BY <1>7 DEF HeaderUpgrades
<1>8. CASE HeaderTooLarge \/ HeaderFailed \/ RejectWritten \/ UpgradeWritten
  BY <1>8 DEF HeaderTooLarge, HeaderFailed, RejectWritten, UpgradeWritten
<1>9. ASSUME NEW keep \in Outlive, HandlerReturns(keep) PROVE Destroyed'
  BY <1>9 DEF HandlerReturns, HandlerLeaves, NextRequest, Unread
<1>10. ASSUME NEW keep \in Outlive, HandlerThrows(keep) PROVE Destroyed'
  BY <1>10 DEF HandlerThrows, HandlerLeaves, Unread
<1>11. CASE Teardown \/ SendFin \/ CloseStream
  BY <1>11 DEF Teardown, SendFin, CloseStream, CancelAll, Canceled
<1>12. ASSUME NEW r \in Requests, Read(r) \/ CancelRead(r) PROVE Destroyed'
  BY <1>12 DEF Read, CancelRead
<1>13. ASSUME NEW r \in Requests, DropRequest(r) PROVE Destroyed'
  BY <1>13 DEF DropRequest, Unread
<1>14. ASSUME NEW r \in Requests, NEW close \in BOOLEAN, Submit(r, close) PROVE Destroyed'
  BY <1>14 DEF Submit
<1>15. ASSUME NEW r \in Requests, NEW eof \in BOOLEAN, Write(r, eof) PROVE Destroyed'
  BY <1>15 DEF Write
<1>16. ASSUME NEW r \in Requests, CancelWrite(r) \/ DropResponse(r) PROVE Destroyed'
  BY <1>16 DEF CancelWrite, DropResponse
<1>17. CASE ReleaseSession
  BY <1>17 DEF ReleaseSession, CancelAll, Canceled
<1>18. CASE Destroy
  BY <1>18 DEF Destroy, DestroyStream, Gone, CancelAll, Canceled
<1>19. CASE UNCHANGED vars
  BY <1>19 DEF vars
<1> HIDE DEF TypeOK, Destroyed
<1> QED
  BY <1>1, <1>2, <1>3, <1>4, <1>5, <1>6, <1>7, <1>8, <1>9, <1>10, <1>11, <1>12, <1>13,
     <1>14, <1>15, <1>16, <1>17, <1>18, <1>19
     DEF Next, ReadEnds, WriteEnds, SessionResumes, HandlerEnds, SessionEnds, Handler

\* After destroy(), a header that has arrived already may be served, but none after it.
LEMMA LateStep ==
  ASSUME TypeOK, Serving, Destroyed, Late, [Next]_vars
  PROVE  Late'
<1> USE RequestFacts DEF TypeOK, Bools, mvars, cvars, rvars, wvars, stream, Destroyed, Late, Over
<1>1. CASE SocketSession \/ HeaderContinues \/ MessageContinues
  BY <1>1 DEF SocketSession, Writing, HeaderContinues, MessageContinues
<1>2. ASSUME NEW r \in Requests, SocketReads(r) \/ SocketWrites(r) PROVE Late'
  BY <1>2 DEF SocketReads, SocketWrites
<1>3. ASSUME NEW r \in Requests,
             ReadContinues(r) \/ WriteContinues(r) \/ ReadFailed(r)
      PROVE  Late'
  BY <1>3 DEF ReadContinues, Take, WriteContinues, ReadFailed, ReaderAfter
<1>4. ASSUME NEW r \in Requests, NEW last \in BOOLEAN, BodyRead(r, last) PROVE Late'
  BY <1>4 DEF BodyRead, Take, ReaderAfter
<1>5. ASSUME NEW r \in Requests, Written(r) \/ WriteFailed(r) PROVE Late'
  BY <1>5 DEF Written, WriterAfter, WriteFailed, WriteFailedCloses
<1>6. ASSUME NEW complete \in BOOLEAN, NEW eof \in BOOLEAN, HeaderRead(complete, eof) PROVE Late'
  BY <1>6 DEF HeaderRead, DetachWriters
<1>7. CASE HeaderUpgrades
  BY <1>7 DEF HeaderUpgrades
<1>8. CASE HeaderTooLarge \/ HeaderFailed \/ RejectWritten \/ UpgradeWritten
  BY <1>8 DEF HeaderTooLarge, HeaderFailed, RejectWritten, UpgradeWritten
<1>9. ASSUME NEW keep \in Outlive, HandlerReturns(keep) PROVE Late'
  BY <1>9 DEF HandlerReturns, HandlerLeaves, NextRequest, Unread
<1>10. ASSUME NEW keep \in Outlive, HandlerThrows(keep) PROVE Late'
  BY <1>10 DEF HandlerThrows, HandlerLeaves, Unread
<1>11. CASE Teardown \/ SendFin \/ CloseStream
  BY <1>11 DEF Teardown, SendFin, CloseStream, CancelAll, Canceled
<1>12. ASSUME NEW r \in Requests, Read(r) \/ CancelRead(r) PROVE Late'
  BY <1>12 DEF Read, CancelRead
<1>13. ASSUME NEW r \in Requests, DropRequest(r) PROVE Late'
  BY <1>13 DEF DropRequest, Unread
<1>14. ASSUME NEW r \in Requests, NEW close \in BOOLEAN, Submit(r, close) PROVE Late'
  BY <1>14 DEF Submit
<1>15. ASSUME NEW r \in Requests, NEW eof \in BOOLEAN, Write(r, eof) PROVE Late'
  BY <1>15 DEF Write
<1>16. ASSUME NEW r \in Requests, CancelWrite(r) \/ DropResponse(r) PROVE Late'
  BY <1>16 DEF CancelWrite, DropResponse
<1>17. CASE ReleaseSession
  BY <1>17 DEF ReleaseSession, CancelAll, Canceled
<1>18. CASE Destroy
  BY <1>18 DEF Destroy, DestroyStream, Gone, CancelAll, Canceled
<1>19. CASE UNCHANGED vars
  BY <1>19 DEF vars
<1> HIDE DEF TypeOK, Destroyed, Late, Over
<1> QED
  BY <1>1, <1>2, <1>3, <1>4, <1>5, <1>6, <1>7, <1>8, <1>9, <1>10, <1>11, <1>12, <1>13,
     <1>14, <1>15, <1>16, <1>17, <1>18, <1>19
     DEF Next, ReadEnds, WriteEnds, SessionResumes, HandlerEnds, SessionEnds, Handler

\* A response that says "close", or that could not be written, sets closed_, with which
\* do_session() goes on to the end of the connection.
LEMMA LastServedStep ==
  ASSUME NoneOutlives, TypeOK, Serving, Owned, Attached, LastServed, NEW q \in Requests, [Next]_vars
  PROVE  IsLast(q)'
<1> USE RequestFacts, NoneKept DEF TypeOK, Bools, mvars, cvars, rvars, wvars, stream, Owned, OwnedBy,
        Attached, IsAttached, LastServed, IsLast, Over
<1>1. CASE SocketSession \/ HeaderContinues \/ MessageContinues
  BY <1>1 DEF SocketSession, Writing, HeaderContinues, MessageContinues
<1>2. ASSUME NEW r \in Requests, SocketReads(r) \/ SocketWrites(r) PROVE IsLast(q)'
  BY <1>2 DEF SocketReads, SocketWrites
<1>3. ASSUME NEW r \in Requests,
             ReadContinues(r) \/ WriteContinues(r) \/ ReadFailed(r)
      PROVE  IsLast(q)'
  BY <1>3 DEF ReadContinues, Take, WriteContinues, ReadFailed, ReaderAfter
<1>4. ASSUME NEW r \in Requests, NEW last \in BOOLEAN, BodyRead(r, last) PROVE IsLast(q)'
  BY <1>4 DEF BodyRead, Take, ReaderAfter
<1>5. ASSUME NEW r \in Requests, Written(r) \/ WriteFailed(r) PROVE IsLast(q)'
  BY <1>5 DEF Written, WriterAfter, WriteFailed, WriteFailedCloses
<1>6. ASSUME NEW complete \in BOOLEAN, NEW eof \in BOOLEAN,
             HeaderRead(complete, eof)
      PROVE  IsLast(q)'
  BY <1>6 DEF HeaderRead, DetachWriters
<1>7. CASE HeaderUpgrades
  BY <1>7 DEF HeaderUpgrades
<1>8. CASE HeaderTooLarge \/ HeaderFailed \/ RejectWritten \/ UpgradeWritten
  BY <1>8 DEF HeaderTooLarge, HeaderFailed, RejectWritten, UpgradeWritten
<1>9. ASSUME NEW keep \in Outlive, HandlerReturns(keep) PROVE IsLast(q)'
  BY <1>9 DEF HandlerReturns, HandlerLeaves, NextRequest, Unread
<1>10. ASSUME NEW keep \in Outlive, HandlerThrows(keep) PROVE IsLast(q)'
  BY <1>10 DEF HandlerThrows, HandlerLeaves, Unread
<1>11. CASE Teardown \/ SendFin \/ CloseStream
  BY <1>11 DEF Teardown, SendFin, CloseStream, CancelAll, Canceled
<1>12. ASSUME NEW r \in Requests, Read(r) \/ CancelRead(r) PROVE IsLast(q)'
  BY <1>12 DEF Read, CancelRead
<1>13. ASSUME NEW r \in Requests, DropRequest(r) PROVE IsLast(q)'
  BY <1>13 DEF DropRequest, Unread
<1>14. ASSUME NEW r \in Requests, NEW close \in BOOLEAN, Submit(r, close) PROVE IsLast(q)'
  BY <1>14 DEF Submit
<1>15. ASSUME NEW r \in Requests, NEW eof \in BOOLEAN, Write(r, eof) PROVE IsLast(q)'
  BY <1>15 DEF Write
<1>16. ASSUME NEW r \in Requests, CancelWrite(r) \/ DropResponse(r) PROVE IsLast(q)'
  BY <1>16 DEF CancelWrite, DropResponse
<1>17. CASE ReleaseSession
  BY <1>17 DEF ReleaseSession, CancelAll, Canceled
<1>18. CASE Destroy
  BY <1>18 DEF Destroy, DestroyStream, Gone, CancelAll, Canceled
<1>19. CASE UNCHANGED vars
  BY <1>19 DEF vars
<1> HIDE DEF TypeOK, Owned, OwnedBy, Attached, IsAttached, LastServed, IsLast, Over
<1> QED
  BY <1>1, <1>2, <1>3, <1>4, <1>5, <1>6, <1>7, <1>8, <1>9, <1>10, <1>11, <1>12, <1>13,
     <1>14, <1>15, <1>16, <1>17, <1>18, <1>19
     DEF Next, ReadEnds, WriteEnds, SessionResumes, HandlerEnds, SessionEnds, Handler

\* Whoever takes bytes off the stream is at the right place.
LEMMA AlignedStep ==
  ASSUME NoneOutlives, TypeOK, Serving, Owned, Attached, Aligned, NEW q \in Requests, [Next]_vars
  PROVE  IsAligned(q)'
<1> USE RequestFacts, NoneKept DEF TypeOK, Bools, mvars, cvars, rvars, wvars, stream, Owned, OwnedBy,
        Attached, IsAttached, Aligned, IsAligned, Unread
<1>1. CASE SocketSession \/ HeaderContinues \/ MessageContinues
  BY <1>1 DEF SocketSession, Writing, HeaderContinues, MessageContinues
<1>2. ASSUME NEW r \in Requests, SocketReads(r) \/ SocketWrites(r) PROVE IsAligned(q)'
  BY <1>2 DEF SocketReads, SocketWrites
<1>3. ASSUME NEW r \in Requests,
             ReadContinues(r) \/ WriteContinues(r) \/ ReadFailed(r)
      PROVE  IsAligned(q)'
  BY <1>3 DEF ReadContinues, Take, WriteContinues, ReadFailed, ReaderAfter
<1>4. ASSUME NEW r \in Requests, NEW last \in BOOLEAN, BodyRead(r, last) PROVE IsAligned(q)'
  BY <1>4 DEF BodyRead, Take, ReaderAfter
<1>5. ASSUME NEW r \in Requests, Written(r) \/ WriteFailed(r) PROVE IsAligned(q)'
  BY <1>5 DEF Written, WriterAfter, WriteFailed, WriteFailedCloses
<1>6. ASSUME NEW complete \in BOOLEAN, NEW eof \in BOOLEAN,
             HeaderRead(complete, eof)
      PROVE  IsAligned(q)'
  BY <1>6 DEF HeaderRead, DetachWriters
<1>7. CASE HeaderUpgrades
  BY <1>7 DEF HeaderUpgrades
<1>8. CASE HeaderTooLarge \/ HeaderFailed \/ RejectWritten \/ UpgradeWritten
  BY <1>8 DEF HeaderTooLarge, HeaderFailed, RejectWritten, UpgradeWritten
<1>9. ASSUME NEW keep \in Outlive, HandlerReturns(keep) PROVE IsAligned(q)'
  BY <1>9 DEF HandlerReturns, HandlerLeaves, NextRequest, Unread
<1>10. ASSUME NEW keep \in Outlive, HandlerThrows(keep) PROVE IsAligned(q)'
  BY <1>10 DEF HandlerThrows, HandlerLeaves, Unread
<1>11. CASE Teardown \/ SendFin \/ CloseStream
  BY <1>11 DEF Teardown, SendFin, CloseStream, CancelAll, Canceled
<1>12. ASSUME NEW r \in Requests, Read(r) \/ CancelRead(r) PROVE IsAligned(q)'
  BY <1>12 DEF Read, CancelRead
<1>13. ASSUME NEW r \in Requests, DropRequest(r) PROVE IsAligned(q)'
  BY <1>13 DEF DropRequest, Unread
<1>14. ASSUME NEW r \in Requests, NEW close \in BOOLEAN, Submit(r, close) PROVE IsAligned(q)'
  BY <1>14 DEF Submit
<1>15. ASSUME NEW r \in Requests, NEW eof \in BOOLEAN, Write(r, eof) PROVE IsAligned(q)'
  BY <1>15 DEF Write
<1>16. ASSUME NEW r \in Requests, CancelWrite(r) \/ DropResponse(r) PROVE IsAligned(q)'
  BY <1>16 DEF CancelWrite, DropResponse
<1>17. CASE ReleaseSession
  BY <1>17 DEF ReleaseSession, CancelAll, Canceled
<1>18. CASE Destroy
  BY <1>18 DEF Destroy, DestroyStream, Gone, CancelAll, Canceled
<1>19. CASE UNCHANGED vars
  BY <1>19 DEF vars
<1> HIDE DEF TypeOK, Owned, OwnedBy, Attached, IsAttached, Aligned, IsAligned, Unread
<1> QED
  BY <1>1, <1>2, <1>3, <1>4, <1>5, <1>6, <1>7, <1>8, <1>9, <1>10, <1>11, <1>12, <1>13,
     <1>14, <1>15, <1>16, <1>17, <1>18, <1>19
     DEF Next, ReadEnds, WriteEnds, SessionResumes, HandlerEnds, SessionEnds, Handler

\* What write_eof() has ended stays as it is.
LEMMA EndedStep ==
  ASSUME NoneOutlives, TypeOK, Serving, Attached, Ended, NEW q \in Requests, [Next]_vars
  PROVE  IsEnded(q)'
<1> USE RequestFacts, NoneKept DEF TypeOK, Bools, mvars, cvars, rvars, wvars, stream, Attached, IsAttached,
        Ended, IsEnded
<1>1. CASE SocketSession \/ HeaderContinues \/ MessageContinues
  BY <1>1 DEF SocketSession, Writing, HeaderContinues, MessageContinues
<1>2. ASSUME NEW r \in Requests, SocketReads(r) \/ SocketWrites(r) PROVE IsEnded(q)'
  BY <1>2 DEF SocketReads, SocketWrites
<1>3. ASSUME NEW r \in Requests,
             ReadContinues(r) \/ WriteContinues(r) \/ ReadFailed(r)
      PROVE  IsEnded(q)'
  BY <1>3 DEF ReadContinues, Take, WriteContinues, ReadFailed, ReaderAfter
<1>4. ASSUME NEW r \in Requests, NEW last \in BOOLEAN, BodyRead(r, last) PROVE IsEnded(q)'
  BY <1>4 DEF BodyRead, Take, ReaderAfter
<1>5. ASSUME NEW r \in Requests, Written(r) \/ WriteFailed(r) PROVE IsEnded(q)'
  BY <1>5 DEF Written, WriterAfter, WriteFailed, WriteFailedCloses
<1>6. ASSUME NEW complete \in BOOLEAN, NEW eof \in BOOLEAN,
             HeaderRead(complete, eof)
      PROVE  IsEnded(q)'
  BY <1>6 DEF HeaderRead, DetachWriters
<1>7. CASE HeaderUpgrades
  BY <1>7 DEF HeaderUpgrades
<1>8. CASE HeaderTooLarge \/ HeaderFailed \/ RejectWritten \/ UpgradeWritten
  BY <1>8 DEF HeaderTooLarge, HeaderFailed, RejectWritten, UpgradeWritten
<1>9. ASSUME NEW keep \in Outlive, HandlerReturns(keep) PROVE IsEnded(q)'
  BY <1>9 DEF HandlerReturns, HandlerLeaves, NextRequest, Unread
<1>10. ASSUME NEW keep \in Outlive, HandlerThrows(keep) PROVE IsEnded(q)'
  BY <1>10 DEF HandlerThrows, HandlerLeaves, Unread
<1>11. CASE Teardown \/ SendFin \/ CloseStream
  BY <1>11 DEF Teardown, SendFin, CloseStream, CancelAll, Canceled
<1>12. ASSUME NEW r \in Requests, Read(r) \/ CancelRead(r) PROVE IsEnded(q)'
  BY <1>12 DEF Read, CancelRead
<1>13. ASSUME NEW r \in Requests, DropRequest(r) PROVE IsEnded(q)'
  BY <1>13 DEF DropRequest, Unread
<1>14. ASSUME NEW r \in Requests, NEW close \in BOOLEAN, Submit(r, close) PROVE IsEnded(q)'
  BY <1>14 DEF Submit
<1>15. ASSUME NEW r \in Requests, NEW eof \in BOOLEAN, Write(r, eof) PROVE IsEnded(q)'
  BY <1>15 DEF Write
<1>16. ASSUME NEW r \in Requests, CancelWrite(r) \/ DropResponse(r) PROVE IsEnded(q)'
  BY <1>16 DEF CancelWrite, DropResponse
<1>17. CASE ReleaseSession
  BY <1>17 DEF ReleaseSession, CancelAll, Canceled
<1>18. CASE Destroy
  BY <1>18 DEF Destroy, DestroyStream, Gone, CancelAll, Canceled
<1>19. CASE UNCHANGED vars
  BY <1>19 DEF vars
<1> HIDE DEF TypeOK, Attached, IsAttached, Ended, IsEnded
<1> QED
  BY <1>1, <1>2, <1>3, <1>4, <1>5, <1>6, <1>7, <1>8, <1>9, <1>10, <1>11, <1>12, <1>13,
     <1>14, <1>15, <1>16, <1>17, <1>18, <1>19
     DEF Next, ReadEnds, WriteEnds, SessionResumes, HandlerEnds, SessionEnds, Handler

-----------------------------------------------------------------------------
(* The theorems.                                                           *)

\* The invariant holds of a connection that was just accepted.
LEMMA InitIInv == Init => IInv
<1> SUFFICES ASSUME Init PROVE IInv
  OBVIOUS
<1>1. TypeOK
  <2>1. served \in 0 .. MaxRequests /\ late \in 0 .. MaxRequests
    BY MaxRequestsAssumption DEF Init
  <2> QED BY <2>1 DEF Init, TypeOK, Bools, Phases
<1>2. Serving /\ Destroyed /\ Late
  BY DEF Init, Serving, Destroyed, Late
<1>3. Owned /\ Attached /\ Fresh /\ Detached
  BY DEF Init, Owned, OwnedBy, Attached, IsAttached, Fresh, IsFresh, Detached, IsDetached
<1>4. LastServed /\ Aligned /\ Ended
  BY DEF Init, LastServed, IsLast, Aligned, IsAligned, Ended, IsEnded
<1> QED BY <1>1, <1>2, <1>3, <1>4 DEF IInv, Anyhow

\* Every step preserves the part of it that does not depend on what handlers keep ...
LEMMA StepAnyhow == Anyhow /\ [Next]_vars => Anyhow'
<1> SUFFICES ASSUME Anyhow, [Next]_vars PROVE Anyhow'
  OBVIOUS
<1> USE DEF Anyhow
<1>1. TypeOK' /\ Serving' /\ Destroyed' /\ Late'
  BY TypeStep, ServingStep, DestroyedStep, LateStep
<1>2. \A q \in Requests : IsFresh(q)' /\ IsDetached(q)'
  BY FreshStep, DetachedStep
<1> QED BY <1>1, <1>2 DEF Fresh, Detached

\* ... and all of it if they keep nothing.
LEMMA StepIInv == NoneOutlives /\ IInv /\ [Next]_vars => IInv'
<1> SUFFICES ASSUME NoneOutlives, IInv, [Next]_vars PROVE IInv'
  OBVIOUS
<1> USE DEF IInv
<1>1. Anyhow'
  BY StepAnyhow
<1> USE DEF Anyhow
<1>2. \A q \in Requests : OwnedBy(q)' /\ IsAttached(q)'
  BY OwnedStep, AttachedStep
<1>3. \A q \in Requests : IsLast(q)' /\ IsAligned(q)' /\ IsEnded(q)'
  BY LastServedStep, AlignedStep, EndedStep
<1> QED BY <1>1, <1>2, <1>3 DEF Owned, Attached, LastServed, Aligned, Ended

\* In every state of a connection whose handlers do not let a request or a response outlive
\* them, each part of the invariant holds of do_session(), BeastReader and ResponseWriter.
THEOREM Safety == NoneOutlives => (Spec => []IInv)
<1> SUFFICES ASSUME NoneOutlives PROVE Spec => []IInv
  OBVIOUS
<1>1. IInv /\ [Next]_vars => IInv'
  BY StepIInv
<1> QED BY <1>1, InitIInv, PTL DEF Spec

\* Whatever handlers let outlive them, every field of the session, its requests and responses
\* has a value of its type.
THEOREM TypeCorrect == Spec => []TypeOK
<1>1. Init => Anyhow
  BY InitIInv DEF IInv
<1>2. Anyhow => TypeOK
  BY DEF Anyhow
<1> QED BY <1>1, <1>2, StepAnyhow, PTL DEF Spec

\* Whatever handlers let outlive them, no read is started on a request once do_session() waits
\* for the next header, and no write on a response once a later request has a handler.  What
\* is in progress by then goes on (detach_readers(), detach_writers()).
THEOREM StartedInTime == Spec => NothingStartedLate
<1> DEFINE Started ==
      \A r \in Requests :
        /\ rphase[r] = "idle" /\ rphase'[r] # "idle" => r + 1 = served /\ pc # "header"
        /\ wphase[r] = "idle" /\ wphase'[r] # "idle" =>
             \A q \in Requests : q > r => writer[q] = "none"
<1>1. ASSUME Anyhow, [Next]_vars PROVE [Started]_vars
  <2>1. ASSUME NEW r \in Requests, rphase[r] = "idle", rphase'[r] # "idle" PROVE rsession[r]
    <3>1. ASSUME NEW p \in Requests,
                 \/ Read(p) \/ SocketReads(p) \/ ReadContinues(p) \/ ReadFailed(p)
                 \/ CancelRead(p) \/ \E last \in BOOLEAN : BodyRead(p, last)
          PROVE  rsession[r]
      BY <1>1, <2>1, <3>1
      DEF Read, SocketReads, ReadContinues, ReadFailed, CancelRead, BodyRead, Anyhow, TypeOK
    <3>2. CASE CancelAll \/ UNCHANGED rphase
      BY <2>1, <3>2 DEF CancelAll, Canceled
    <3> QED
      BY <1>1, <3>1, <3>2
      DEF Next, ReadEnds, WriteEnds, SessionResumes, HandlerEnds, SessionEnds, Handler, vars,
          rvars, SocketSession, SocketWrites, HeaderContinues, MessageContinues,
          WriteContinues, Written, WriteFailed, HeaderRead, HeaderUpgrades,
          HeaderTooLarge, HeaderFailed, RejectWritten, UpgradeWritten, HandlerReturns,
          HandlerThrows, Teardown, SendFin, CloseStream, DropRequest, Submit,
          Write, CancelWrite, DropResponse, ReleaseSession, Destroy, DestroyStream
  <2>2. ASSUME NEW r \in Requests, wphase[r] = "idle", wphase'[r] # "idle" PROVE wsession[r]
    <3>1. ASSUME NEW p \in Requests,
                 \/ Written(p) \/ SocketWrites(p) \/ WriteContinues(p) \/ WriteFailed(p)
                 \/ CancelWrite(p) \/ \E b \in BOOLEAN : Submit(p, b) \/ Write(p, b)
          PROVE  wsession[r]
      BY <1>1, <2>2, <3>1
      DEF Written, SocketWrites, WriteContinues, WriteFailed, CancelWrite, Submit, Write, Anyhow,
          TypeOK
    <3>2. CASE CancelAll \/ UNCHANGED wphase
      BY <2>2, <3>2 DEF CancelAll, Canceled
    <3> QED
      BY <1>1, <3>1, <3>2
      DEF Next, ReadEnds, WriteEnds, SessionResumes, HandlerEnds, SessionEnds, Handler, vars,
          wvars, SocketSession, SocketReads, HeaderContinues, MessageContinues,
          ReadContinues, ReadFailed, BodyRead, HeaderRead, HeaderUpgrades,
          HeaderTooLarge, HeaderFailed, RejectWritten, UpgradeWritten, HandlerReturns,
          HandlerThrows, Teardown, SendFin, CloseStream, DropRequest, Read, CancelRead,
          DropResponse, ReleaseSession, Destroy, DestroyStream
  <2>3. Started
    BY <1>1, <2>1, <2>2 DEF Anyhow, Detached, IsDetached
  <2> QED BY <2>3
<1>2. Anyhow /\ [Next]_vars => [Started]_vars
  BY <1>1
<1>3. Init => Anyhow
  BY InitIInv DEF IInv
<1> QED BY <1>2, <1>3, StepAnyhow, PTL DEF Spec, NothingStartedLate

\* Whatever the client pipelines and the handlers leave unread, the parser of a header is
\* given bytes at a boundary between requests, and that of a body bytes of its own body
\* (read_header(), BeastReader::read_some(), BeastReader::destroy()).
THEOREM ParsersAligned == NoneOutlives => (Spec => []RequestsAligned)
<1> SUFFICES ASSUME NoneOutlives PROVE Spec => []RequestsAligned
  OBVIOUS
<1>1. IInv => RequestsAligned
  <2>1. 0 \in Requests
    BY MaxRequestsAssumption DEF Requests
  <2> QED BY <2>1 DEF IInv, Aligned, IsAligned, RequestsAligned
<1> QED BY <1>1, Safety, PTL

\* No request is served after a response that says "close" or that could not be written
\* (ResponseWriter::submit(), write_failed()), and at most one, whose header had arrived
\* before, after destroy().
THEOREM NothingIsServedLate == NoneOutlives => (Spec => []NothingServedLate)
<1> SUFFICES ASSUME NoneOutlives PROVE Spec => []NothingServedLate
  OBVIOUS
<1>1. IInv => NothingServedLate
  BY RequestFacts
     DEF IInv, Anyhow, TypeOK, Late, LastServed, IsLast, Fresh, IsFresh, NothingServedLate
<1> QED BY <1>1, Safety, PTL

\* What reaches the peer is in the order of the requests: only the request that is served
\* writes, all before it have ended their response, or given it up without an error, and
\* do_session() writes a response of its own only when no handler runs.
THEOREM InOrder == NoneOutlives => (Spec => ResponsesInOrder)
<1> SUFFICES ASSUME NoneOutlives PROVE Spec => ResponsesInOrder
  OBVIOUS
<1> DEFINE Ordered ==
      /\ \A r \in Requests : sent'[r] # sent[r] =>
            \A q \in Requests : q < r => sent[q] = "complete" \/ Abandoned(q)
      /\ (Writing /\ phase = "parked" /\ phase' = "queued") =>
            \A q \in Requests : sent[q] \in {"nothing", "complete"} \/ Abandoned(q)
<1>1. ASSUME IInv, [Next]_vars PROVE [Ordered]_vars
  <2>1. ASSUME NEW r \in Requests, sent'[r] # sent[r]
        PROVE  r + 1 = served
    <3>1. ASSUME NEW p \in Requests, SocketWrites(p) \/ Written(p)
          PROVE  r + 1 = served
      <4>1. p = r
        BY <1>1, <2>1, <3>1 DEF SocketWrites, Written, IInv, Anyhow, TypeOK
      <4>2. wphase[r] # "idle"
        BY <3>1, <4>1 DEF SocketWrites, Written
      <4> QED BY <1>1, <4>2 DEF IInv, Owned, OwnedBy
    <3>2. CASE UNCHANGED sent
      BY <2>1, <3>2
    <3> QED
      BY <1>1, <3>1, <3>2
      DEF Next, ReadEnds, WriteEnds, SessionResumes, HandlerEnds, SessionEnds, Handler, vars,
          stream, SocketSession, SocketReads, HeaderContinues, MessageContinues, ReadContinues,
          WriteContinues, ReadFailed, BodyRead, WriteFailed, HeaderRead, HeaderUpgrades,
          HeaderTooLarge, HeaderFailed, RejectWritten, UpgradeWritten, HandlerReturns,
          HandlerThrows, Teardown, SendFin, CloseStream, Read, CancelRead, DropRequest, Submit,
          Write, CancelWrite, DropResponse, ReleaseSession, Destroy
  <2>2. ASSUME NEW q \in Requests, q + 1 # served \/ Writing
        PROVE  sent[q] = "complete" \/ Abandoned(q)
    BY <1>1, <2>2 DEF IInv, LastServed, IsLast, Over, Ended, IsEnded, Abandoned, Writing
  <2>3. Ordered
    BY <1>1, <2>1, <2>2, RequestFacts DEF IInv, Anyhow
  <2> QED BY <2>3
<1>2. IInv /\ [Next]_vars => [Ordered]_vars
  BY <1>1
<1> QED BY <1>2, Safety, PTL DEF Spec, ResponsesInOrder
=============================================================================
