-------------------------- MODULE QuicStreamProofs --------------------------
(***************************************************************************)
(* Proofs about QuicStream, for bodies of any length: what waits can still *)
(* be woken and what is to be sent is queued, what the stack holds is kept *)
(* for it, an end that is reported was handed over, and the reader keeps   *)
(* the contract of BodyReader.                                             *)
(*                                                                         *)
(* The outgoing direction is one record, w.  What is invariant of it is    *)
(* stated of any such record v, so that each method of the stream has one  *)
(* lemma: it takes a Good record to a Good one.                            *)
(***************************************************************************)
EXTENDS QuicStream, TLAPS

-----------------------------------------------------------------------------
(* The invariant: the incoming body.                                       *)

\* The numbers that come after k.
Run(s, k) == \A i \in 1 .. Len(s) : s[i] = k + i

\* Everything that is buffered was delivered.
Drained == pending_read = <<>> /\ incoming = <<>>

\* How much of the body was delivered or is buffered.
Kept == Len(delivered) + Len(pending_read) + Len(incoming)

\* What was delivered, what is queued and what is being delivered is the body so far, without
\* a gap.  Only a reader that gave up, or is gone, does not get the rest.
Stored ==
    /\ Run(delivered, 0) /\ Run(pending_read, Len(delivered))
    /\ Run(incoming, Len(delivered) + Len(pending_read))
    /\ Kept <= received
    /\ ~read_aborted /\ reader # "gone" => Kept = received
    /\ read_aborted \/ reader = "gone" => Drained
    /\ pc = "out" => incoming = <<>>

\* Why nothing more arrives: the end of the body did, or the stream is over.
Silent == stopped \/ rx # "open" \/ strm = "closed"

\* How the incoming direction ends.
Over ==
    /\ closed => (strm = "closed" \/ stopped) /\ (strm = "closed" \/ tx = "reset")
    /\ strm = "closed" => closed \/ ~registered
    /\ read_aborted \/ reader \in {"gone", "eof", "partial"} => Silent
    /\ fin_next => rx = "fin" /\ ~eof_received
    /\ eof_received => rx = "fin"
    /\ failing # "no" => closed
    /\ failing = "inner" => pc = "called"

\* A stream that has a handle is known to its session; a handle that was detached is not of
\* a stream that is.
Handles ==
    /\ reader = "attached" \/ writer = "attached" => registered
    /\ reader \in {"eof", "partial"} \/ writer \in {"ended", "cut"} =>
           ~registered /\ strm = "closed" /\ reader # "attached" /\ writer # "attached"

\* Where a read waits.
Waiting ==
    /\ read_handler > 0 => reader = "attached"
    /\ read_handler > 0 /\ pc = "out" =>
           strm = "open" /\ failing = "no" /\ ~read_aborted /\ ~eof_received /\ pending_read = <<>>

\* What the last read said about the end of the body was true, and is still so; a handle
\* that is detached knows the same.
Told ==
    /\ last = "eof" => eof_received /\ Drained
    /\ last = "partial" => /\ closed \/ read_aborted \/ ~registered
                           /\ reader = "attached" => Drained /\ (~eof_received \/ gave_up)
                           /\ reader = "eof" => gave_up
    /\ reader = "eof" => eof_received /\ Drained
    /\ reader = "partial" => ~(eof_received /\ Drained)
    /\ reader \in {"eof", "partial"} => pc = "out" /\ ~fin_next

\* A body that has arrived in full is not given up, but by a reader that leaves, or by a user
\* in the handler of the last data.
Whole ==
    /\ fin_next /\ closed => gave_up
    /\ (fin_next \/ eof_received) /\ read_aborted => reader = "gone" \/ gave_up

\* A response is where the reader of a client comes from.
Responds ==
    /\ response_handler => kind = "client" /\ ~response_delivered /\ ~headers_received
                           /\ writer = "attached" /\ (strm = "open" \/ failing # "no")
    /\ kind = "client" /\ (~response_delivered \/ ~headers_received) => reader = "none"
    /\ reader = "none" => last = "nothing"

-----------------------------------------------------------------------------
(* The invariant: the outgoing body.                                       *)

\* There is room for what is still to be copied into chunks.
Room(v) ==
    /\ v.size <= MaxUnits
    /\ received + v.queued <= MaxUnits
    /\ mode = "Staged" /\ v.active => received + v.queued + v.size - v.copied <= MaxUnits

\* The offsets of what was written.
Offsets(v) ==
    /\ v.acked <= v.sent /\ v.sent <= v.offered /\ v.offered <= v.queued
    /\ IF v.active THEN v.copied <= v.size ELSE v.size = 0
    /\ mode = "Staged" => v.chunks = v.acked .. (v.queued - 1)
    /\ mode = "ZeroCopy" /\ v.active => v.queued = v.base + v.size

\* Everything that was handed over before a ZeroCopy write began is acknowledged.
Held(v) ==
    mode = "ZeroCopy" /\ strm = "open" /\ tx = "open" =>
        IF v.active THEN v.base <= v.acked ELSE v.acked = v.queued

\* No more of the active write is to be copied.
Copied(v) == mode = "Staged" /\ v.active => v.copied = v.size

\* The write that is active is the one whose handler is held, unless that was cancelled and
\* only the end remains.
Active(v) ==
    /\ v.active => ~v.aborted
    /\ v.active => (v.eof_submitted <=> v.is_eof)
    /\ v.active /\ v.op # "held" => v.is_eof /\ v.size = 0
    /\ v.op = "held" => v.active

\* The FIN is handed over with the last of the body, and nothing comes after it.
Ends(v) ==
    /\ v.active /\ v.is_eof /\ v.size > 0 /\ v.offered = v.queued /\ Copied(v) => v.fin_offered
    /\ v.fin_offered /\ strm = "open" /\ tx = "open" =>
           v.eof_submitted /\ v.offered = v.queued /\ Copied(v)
    /\ v.eof_submitted /\ ~v.active => v.fin_offered \/ closed \/ v.aborted \/ ~registered
    /\ v.end_told => v.fin_offered

Good(v) ==
    v \in WriteState /\ Room(v) /\ Offsets(v) /\ Held(v) /\ Active(v) /\ Ends(v)

\* Nobody but nghttp3 is ahead of the packets.
Level(v) == Plain => v.offered = v.sent

\* A ZeroCopy write that is acknowledged as a whole is not active any more.
Unfinished(v) == mode = "ZeroCopy" /\ v.active /\ v.size > 0 => v.acked < v.queued

\* What the outgoing direction owes to the state of the stream.
Writes(v) ==
    /\ v.op = "held" => writer = "attached" /\ (strm = "open" \/ failing # "no")
    /\ v.aborted => tx = "reset"
    /\ writer = "ended" => v.fin_offered
    /\ writer = "gone" /\ tx = "open" /\ strm = "open" /\ headers_submitted => v.eof_submitted
    /\ v.active => headers_submitted
    /\ Unfinished(v)
    /\ headers_submitted \/ kind = "server"

\* Where the stack goes on.
Upto(v) == IF Plain THEN v.sent ELSE v.offered

\* The next chunk is to be copied.
Carves(v) == mode = "Staged" /\ v.active /\ v.sent >= v.queued /\ v.copied < v.size

\* There is something to hand over ...
More(v) ==
    \/ (mode = "Staged" \/ v.active) /\ v.queued > Upto(v)
    \/ Carves(v)
    \/ v.active /\ v.is_eof /\ Copied(v) /\ ~v.fin_offered

\* ... and nothing that keeps it from being handed over.
Due(v) ==
    /\ registered /\ strm = "open" /\ headers_submitted /\ ~(Plain /\ v.blocked)
    /\ ~closed /\ ~v.aborted /\ More(v)

\* The inductive invariant.
ReadInv == Stored /\ Over /\ Handles /\ Waiting /\ Responds

OutInv(v) == Good(v) /\ Level(v) /\ Writes(v) /\ (Due(v) => v.scheduled)

IInv == TypeOK /\ ReadInv /\ OutInv(w)

-----------------------------------------------------------------------------
(* The methods of the stream on the outgoing body.                         *)

\* The larger and the smaller of two offsets.
LEMMA MaxOf ==
  ASSUME NEW S, NEW m \in S, S \subseteq Int, \A y \in S : m >= y
  PROVE  Max(S) = m
<1> DEFINE c == CHOOSE x \in S : \A y \in S : x >= y
<1>1. \E x \in S : \A y \in S : x >= y
  OBVIOUS
<1>2. c \in S /\ \A y \in S : c >= y
  BY <1>1, Zenon
<1> HIDE DEF c
<1>3. c = m
  <2>1. c >= m /\ m >= c /\ c \in Int /\ m \in Int
    BY <1>2
  <2> QED BY <2>1
<1> QED BY <1>3 DEF Max, c

LEMMA MinOf ==
  ASSUME NEW S, NEW m \in S, S \subseteq Int, \A y \in S : m <= y
  PROVE  Min(S) = m
<1> DEFINE c == CHOOSE x \in S : \A y \in S : x =< y
<1>1. \E x \in S : \A y \in S : x =< y
  OBVIOUS
<1>2. c \in S /\ \A y \in S : c =< y
  BY <1>1, Zenon
<1> HIDE DEF c
<1>3. c = m
  <2>1. c <= m /\ m <= c /\ c \in Int /\ m \in Int
    BY <1>2
  <2> QED BY <2>1
<1> QED BY <1>3 DEF Min, c

LEMMA MaxTwo ==
  ASSUME NEW a \in Int, NEW b \in Int
  PROVE  Max({a, b}) = IF a >= b THEN a ELSE b
<1>1. CASE a >= b
  BY <1>1, MaxOf
<1>2. CASE ~(a >= b)
  BY <1>2, MaxOf
<1> QED BY <1>1, <1>2

LEMMA MinTwo ==
  ASSUME NEW a \in Int, NEW b \in Int
  PROVE  Min({a, b}) = IF a <= b THEN a ELSE b
<1>1. CASE a <= b
  BY <1>1, MinOf
<1>2. CASE ~(a <= b)
  BY <1>2, MinOf
<1> QED BY <1>1, <1>2

\* The end of the chunks, of which none is missing.
LEMMA ChunksEnd ==
  ASSUME NEW a \in Nat, NEW q \in Nat, NEW from \in a .. q
  PROVE  Max({from} \cup {c + 1 : c \in a .. (q - 1)}) = q
<1> DEFINE S == {from} \cup {c + 1 : c \in a .. (q - 1)}
<1>1. S \subseteq Int /\ \A y \in S : q >= y
  OBVIOUS
<1>2. q \in S
  <2>1. CASE from = q
    BY <2>1
  <2>2. CASE from # q
    <3>1. q - 1 \in a .. (q - 1) /\ q = (q - 1) + 1
      BY <2>2
    <3> QED BY <3>1
  <2> QED BY <2>1, <2>2
<1> HIDE DEF S
<1>3. Max(S) = q
  BY <1>1, <1>2, MaxOf
<1> QED BY <1>3 DEF S

\* pending_data() copies one more chunk, or nothing.
Carved(v) == [v EXCEPT !.copied = v.copied + 1, !.queued = v.queued + 1,
                       !.chunks = v.chunks \cup {v.queued}]

Next1(v) == IF Carves(v) THEN Carved(v) ELSE v

\* What there is to send from an offset on: everything up to the end of what is queued.
LEMMA PendingFacts ==
  ASSUME mode \in {"ZeroCopy", "Staged"}, NEW v \in WriteState, Offsets(v),
         NEW from \in v.acked .. v.queued, ~closed, ~v.aborted,
         NEW p, p = PendingData(v, from)
  PROVE  /\ p.w = Next1(v)
         /\ p.n = IF mode = "Staged" \/ v.active THEN Next1(v).queued - from ELSE 0
         /\ p.fin <=> v.active /\ v.is_eof /\ Copied(Next1(v))
<1> USE DEF WriteState
<1>1. CASE Carves(v)
  <2> DEFINE u == [v EXCEPT !.copied = v.copied + 1, !.queued = v.queued + 1,
                            !.chunks = v.chunks \cup {v.queued}]
  <2>1. Min({v.size - v.copied, 1}) = 1
    BY <1>1, MinTwo DEF Carves
  <2>2. u.chunks = v.acked .. (u.queued - 1) /\ u.queued = v.queued + 1
    BY <1>1 DEF Carves, Offsets
  <2>3. Max({from} \cup {c + 1 : c \in u.chunks}) = u.queued
    BY <2>2, ChunksEnd, from \in v.acked .. u.queued
  <2>4. p = [w |-> u, n |-> u.queued - from,
             fin |-> u.active /\ u.is_eof /\ u.copied = v.size /\ u.queued >= u.queued]
    BY <1>1, <2>1, <2>3 DEF Carves, PendingData, WriteChunkSize
  <2> QED BY <1>1, <2>2, <2>4 DEF Next1, Carved, Copied, Carves
<1>2. CASE ~Carves(v)
  <2> DEFINE u == [v EXCEPT !.copied = v.copied + 0, !.queued = v.queued + 0,
                            !.chunks = v.chunks]
  <2>1. u = v
    <3>1. v.copied + 0 = v.copied /\ v.queued + 0 = v.queued
      OBVIOUS
    <3>2. v = [v EXCEPT !.copied = v.copied, !.queued = v.queued, !.chunks = v.chunks]
      BY Zenon
    <3> QED BY <3>1, <3>2
  <2>2. CASE mode = "Staged"
    <3>1. Max({from} \cup {c + 1 : c \in v.chunks}) = v.queued
      <4>1. v.chunks = v.acked .. (v.queued - 1)
        BY <2>2 DEF Offsets
      <4> QED BY <4>1, ChunksEnd
    <3>2. p = [w |-> v, n |-> v.queued - from,
               fin |-> v.active /\ v.is_eof /\ v.copied = v.size /\ v.queued >= v.queued]
      BY <1>2, <2>1, <2>2, <3>1 DEF Carves, PendingData
    <3> QED BY <1>2, <2>2, <3>2 DEF Next1, Copied
  <2>3. CASE mode = "ZeroCopy"
    <3>1. Max({from, v.queued}) = v.queued
      BY MaxTwo
    <3>2. p = [w |-> v, n |-> IF v.active THEN v.queued - from ELSE from - from,
               fin |-> v.active /\ v.is_eof /\ (IF v.active THEN v.queued ELSE from) >= v.queued]
      BY <1>2, <2>1, <2>3, <3>1 DEF Carves, PendingData
    <3> QED BY <1>2, <2>3, <3>2 DEF Next1, Copied
  <2> QED BY <2>2, <2>3
<1> QED BY <1>1, <1>2

\* What two records have in common: the active write, the offsets, and how it all ends.
SameWrite(v, u) == u.active = v.active /\ u.size = v.size /\ u.is_eof = v.is_eof /\ u.op = v.op

SameOffsets(v, u) ==
    /\ u.base = v.base /\ u.copied = v.copied /\ u.queued = v.queued /\ u.offered = v.offered
    /\ u.sent = v.sent /\ u.acked = v.acked /\ u.chunks = v.chunks

SameEnds(v, u) ==
    /\ u.eof_submitted = v.eof_submitted /\ u.fin_offered = v.fin_offered
    /\ u.aborted = v.aborted /\ u.end_told = v.end_told

\* The outgoing body goes on: no write or end begins or is given up.
Progress(v, u) ==
    /\ u.aborted = v.aborted /\ u.eof_submitted = v.eof_submitted
    /\ v.fin_offered => u.fin_offered
    /\ (u.op = "held" => v.op = "held") /\ (u.active => v.active)
    /\ Unfinished(v) => Unfinished(u)

\* What FinishActiveWrite leaves alone.
LEMMA FinishFacts ==
  ASSUME NEW v \in WriteState, NEW u, u = FinishActiveWrite(v)
  PROVE  /\ u \in WriteState /\ ~u.active /\ u.size = 0 /\ u.op # "held"
         /\ u.end_told => v.end_told \/ v.is_eof
         /\ u.eof_submitted = v.eof_submitted /\ u.fin_offered = v.fin_offered
         /\ u.aborted = v.aborted /\ u.blocked = v.blocked
         /\ SameOffsets(v, u) /\ Progress(v, u)
<1>1. /\ u \in WriteState /\ ~u.active /\ u.size = 0 /\ u.op # "held"
      /\ u.end_told => v.end_told \/ v.is_eof
  BY ZenonT(30) DEF WriteState, FinishActiveWrite
<1>2. /\ u.eof_submitted = v.eof_submitted /\ u.fin_offered = v.fin_offered
      /\ u.aborted = v.aborted /\ u.blocked = v.blocked /\ SameOffsets(v, u)
  BY DEF WriteState, FinishActiveWrite, SameOffsets
<1> QED BY <1>1, <1>2 DEF Progress, Unfinished

\* A chunk is copied.
LEMMA CarveGood ==
  ASSUME TypeOK, NEW v, Good(v)
  PROVE  Good(Next1(v))
<1>1. CASE ~Carves(v)
  BY <1>1 DEF Next1
<1>2. CASE Carves(v)
  <2> DEFINE u == Carved(v)
  <2> USE DEF WriteState
  <2>1. u \in WriteState
    <3>1. v.copied + 1 \in Nat /\ v.queued + 1 \in Nat /\ v.chunks \cup {v.queued} \in SUBSET Nat
      BY DEF Good
    <3> QED BY <3>1 DEF Good, Carved
  <2>2. /\ u.copied = v.copied + 1 /\ u.queued = v.queued + 1 /\ u.chunks = v.chunks \cup {v.queued}
        /\ u.base = v.base /\ u.offered = v.offered /\ u.sent = v.sent /\ u.acked = v.acked
        /\ SameWrite(v, u) /\ SameEnds(v, u)
    BY DEF Good, Carved, SameWrite, SameEnds
  <2> HIDE DEF u
  <2> USE DEF SameWrite, SameEnds
  <2>3. Room(u)
    <3>1. received \in Nat /\ MaxUnits \in Nat
      BY BoundsAssumption DEF TypeOK
    <3>2. received + v.queued + v.size - v.copied <= MaxUnits /\ v.copied < v.size
      BY <1>2 DEF Good, Room, Carves
    <3>3. received + u.queued <= MaxUnits /\ received + u.queued + u.size - u.copied <= MaxUnits
      BY <2>1, <2>2, <3>1, <3>2 DEF Good
    <3> QED BY <1>2, <2>1, <2>2, <3>1, <3>3 DEF Good, Room
  <2>4. Offsets(u)
    BY <1>2, <2>1, <2>2 DEF Good, Carves, Offsets
  <2>5. Held(u) /\ Active(u)
    BY <1>2, <2>1, <2>2 DEF Good, Carves, Held, Active
  <2>6. Ends(u)
    BY <1>2, <2>1, <2>2 DEF Good, Carves, Ends, Copied, Offsets
  <2>7. Good(u)
    BY <2>1, <2>3, <2>4, <2>5, <2>6 DEF Good
  <2> QED BY <1>2, <2>7 DEF Next1, u
<1> QED BY <1>1, <1>2

\* What copying a chunk leaves alone.
LEMMA NextFacts ==
  ASSUME NEW v \in WriteState, Next1(v) \in WriteState
  PROVE  /\ Next1(v).sent = v.sent /\ Next1(v).offered = v.offered /\ Next1(v).active = v.active
         /\ Next1(v).is_eof = v.is_eof /\ Next1(v).size = v.size /\ Next1(v).blocked = v.blocked
         /\ Progress(v, Next1(v)) /\ Next1(v).queued \in Nat /\ Next1(v).queued >= v.queued
<1>1. CASE Carves(v)
  <2> DEFINE u == Carved(v)
  <2>1. /\ u.sent = v.sent /\ u.offered = v.offered /\ u.active = v.active
        /\ u.is_eof = v.is_eof /\ u.size = v.size /\ u.blocked = v.blocked
        /\ u.queued = v.queued + 1 /\ u.aborted = v.aborted /\ u.eof_submitted = v.eof_submitted
        /\ u.fin_offered = v.fin_offered /\ u.op = v.op
    BY DEF WriteState, Carved
  <2>2. Next1(v) = u
    BY <1>1 DEF Next1
  <2> HIDE DEF u
  <2>3. mode # "ZeroCopy"
    BY <1>1 DEF Carves
  <2>4. Progress(v, u)
    BY <2>1, <2>3 DEF Progress, Unfinished
  <2>5. u.queued \in Nat /\ u.queued >= v.queued
    BY <2>1 DEF WriteState
  <2> QED BY <2>1, <2>2, <2>4, <2>5
<1>2. CASE ~Carves(v)
  BY <1>2 DEF Next1, Progress, WriteState
<1> QED BY <1>1, <1>2

\* A write completes once all of it was handed over, and in ZeroCopy mode acknowledged.
LEMMA FinishGood ==
  ASSUME TypeOK, NEW v, Good(v), v.active, v.is_eof => v.fin_offered,
         mode = "ZeroCopy" /\ strm = "open" /\ tx = "open" => v.acked = v.queued
  PROVE  Good(FinishActiveWrite(v))
<1> DEFINE u == FinishActiveWrite(v)
<1> USE DEF WriteState
<1>1. u \in WriteState
  BY FinishFacts DEF Good
<1>2. /\ ~u.active /\ u.size = 0 /\ u.op # "held"
      /\ u.end_told => v.end_told \/ v.is_eof
      /\ u.eof_submitted = v.eof_submitted /\ u.fin_offered = v.fin_offered
      /\ u.aborted = v.aborted
      /\ SameOffsets(v, u)
  BY FinishFacts DEF Good
<1> HIDE DEF u
<1> USE DEF SameOffsets
<1>3. Room(u)
  BY <1>1, <1>2, BoundsAssumption DEF TypeOK, Good, Room
<1>4. Offsets(u)
  BY <1>1, <1>2 DEF Good, Offsets
<1>5. Held(u) /\ Active(u)
  BY <1>1, <1>2 DEF Good, Held, Active
<1>6. Ends(u)
  BY <1>1, <1>2 DEF Good, Ends, Active, Copied
<1>7. Good(u)
  BY <1>1, <1>3, <1>4, <1>5, <1>6 DEF Good
<1> QED BY <1>7 DEF u

\* on_offered(): the FIN comes with the last of a write that ends the body.
LEMMA OfferGood ==
  ASSUME TypeOK, NEW v, Good(v), NEW end \in Nat, NEW fin \in BOOLEAN, end <= v.queued,
         fin <=> v.active /\ v.is_eof /\ Copied(v) /\ end = v.queued,
         NEW r, r = OnOffered(v, end, fin)
  PROVE  /\ Good(r) /\ Progress(v, r)
         /\ r.sent = v.sent /\ r.queued = v.queued /\ r.copied = v.copied
         /\ r.offered = IF v.offered >= end THEN v.offered ELSE end
         /\ r.blocked = v.blocked /\ (r.fin_offered <=> v.fin_offered \/ fin)
         /\ r.active => r.size = v.size
<1> DEFINE o == IF v.offered >= end THEN v.offered ELSE end
           u == [v EXCEPT !.offered = o, !.fin_offered = v.fin_offered \/ fin]
<1> USE DEF WriteState
<1>1. u \in WriteState
  BY ZenonT(30) DEF Good
<1>2. /\ u.offered = o /\ (u.fin_offered <=> v.fin_offered \/ fin)
      /\ SameWrite(v, u) /\ u.blocked = v.blocked
      /\ u.base = v.base /\ u.copied = v.copied /\ u.queued = v.queued
      /\ u.sent = v.sent /\ u.acked = v.acked /\ u.chunks = v.chunks
      /\ u.eof_submitted = v.eof_submitted /\ u.aborted = v.aborted /\ u.end_told = v.end_told
  BY DEF Good, SameWrite
<1>3. r = IF fin /\ u.active /\ u.size = 0 THEN FinishActiveWrite(u) ELSE u
  <2>1. Min({end, v.queued}) = end
    BY MinTwo DEF Good
  <2>2. Max({v.offered, end}) = o
    BY MaxTwo DEF Good
  <2> QED BY <2>1, <2>2 DEF OnOffered
<1> HIDE DEF u
<1>4. Room(u)
  BY <1>1, <1>2 DEF TypeOK, Good, Room, SameWrite
<1>5. Offsets(u)
  BY <1>1, <1>2 DEF Good, Offsets, SameWrite
<1>6. Held(u) /\ Active(u)
  BY <1>1, <1>2 DEF Good, Held, Active, SameWrite
<1>7. Ends(u)
  BY <1>1, <1>2 DEF Good, Ends, Active, Copied, Offsets, SameWrite
<1>8. Good(u)
  BY <1>1, <1>4, <1>5, <1>6, <1>7 DEF Good
<1>9. Progress(v, u)
  BY <1>1, <1>2 DEF Progress, SameWrite, Unfinished
<1>10. CASE fin /\ u.active /\ u.size = 0
  <2>1. u.fin_offered
    BY <1>2, <1>10
  <2>2. mode = "ZeroCopy" /\ strm = "open" /\ tx = "open" => u.acked = u.queued
    BY <1>1, <1>5, <1>6, <1>10 DEF Held, Offsets
  <2>3. r = FinishActiveWrite(u)
    BY <1>3, <1>10
  <2>4. Good(r)
    BY <1>8, <1>10, <2>1, <2>2, <2>3, FinishGood
  <2>5. /\ SameOffsets(u, r) /\ Progress(u, r) /\ ~r.active /\ r.fin_offered = u.fin_offered
        /\ r.blocked = u.blocked
    BY <1>1, <2>3, FinishFacts
  <2>6. Progress(v, r)
    BY <1>9, <2>5 DEF Progress
  <2> QED BY <1>2, <2>4, <2>5, <2>6 DEF SameOffsets
<1>11. CASE ~(fin /\ u.active /\ u.size = 0)
  <2>1. r = u
    BY <1>3, <1>11
  <2> QED BY <1>2, <1>8, <1>9, <2>1 DEF SameWrite
<1> QED BY <1>10, <1>11

\* Something is to be sent.
LEMMA WritableGood ==
  ASSUME TypeOK, NEW v, Good(v)
  PROVE  /\ Good(OnWritable(v))
         /\ SameWrite(v, OnWritable(v)) /\ SameOffsets(v, OnWritable(v))
         /\ SameEnds(v, OnWritable(v)) /\ OnWritable(v).blocked = v.blocked
         /\ OnWritable(v).scheduled \/ (Plain /\ v.blocked)
<1> DEFINE u == OnWritable(v)
<1> USE DEF WriteState
<1>1. u \in WriteState /\ (u.scheduled \/ (Plain /\ v.blocked))
  BY DEF Good, OnWritable
<1>2. SameWrite(v, u) /\ SameOffsets(v, u) /\ SameEnds(v, u) /\ u.blocked = v.blocked
  BY DEF Good, OnWritable, SameWrite, SameOffsets, SameEnds
<1> HIDE DEF u
<1>3. Good(u)
  BY <1>1, <1>2 DEF Good, Room, Offsets, Held, Active, Ends, Copied, SameWrite, SameOffsets,
                    SameEnds
<1> QED BY <1>1, <1>2, <1>3 DEF u

\* on_sent(): a Staged write completes with its last chunk.  For HTTP/3, where the next chunk
\* waits for this one, the stream is put into the queue again.
LEMMA SentGood ==
  ASSUME TypeOK, NEW v, Good(v), NEW end \in Nat, NEW r, r = OnSent(v, end)
  PROVE  /\ Good(r) /\ Progress(v, r) /\ r.offered = v.offered /\ r.blocked = v.blocked
         /\ r.sent = IF end <= v.sent THEN v.sent ELSE IF end <= v.offered THEN end ELSE v.offered
         /\ ~Plain /\ (Due(v) => v.scheduled) => (Due(r) => r.scheduled)
<1> DEFINE s == IF end <= v.offered THEN end ELSE v.offered
           u == [v EXCEPT !.sent = s]
<1>1. CASE end <= v.sent
  BY <1>1 DEF OnSent, Progress
<1>2. CASE ~(end <= v.sent)
  <2> USE DEF WriteState
  <2>1. u \in WriteState
    BY DEF Good
  <2>2. /\ u.sent = s /\ SameWrite(v, u) /\ SameEnds(v, u)
        /\ u.base = v.base /\ u.copied = v.copied /\ u.queued = v.queued
        /\ u.offered = v.offered /\ u.acked = v.acked /\ u.chunks = v.chunks
        /\ u.blocked = v.blocked /\ u.scheduled = v.scheduled
    BY DEF Good, SameWrite, SameEnds
  <2>3. Min({end, v.offered}) = s
    BY MinTwo DEF Good
  <2>4. r = IF mode # "Staged" \/ ~u.active \/ u.sent < u.queued \/ u.size = 0 THEN u
            ELSE IF u.copied = u.size THEN FinishActiveWrite(u) ELSE OnWritable(u)
    BY <1>2, <2>3 DEF OnSent
  <2> HIDE DEF u
  <2>5. Good(u)
    <3> USE DEF SameWrite, SameEnds
    <3>1. Room(u)
      BY <2>1, <2>2 DEF Good, Room
    <3>2. Offsets(u)
      BY <1>2, <2>1, <2>2 DEF Good, Offsets
    <3>3. Held(u) /\ Active(u)
      BY <2>1, <2>2 DEF Good, Held, Active
    <3>4. Ends(u)
      BY <2>1, <2>2 DEF Good, Ends, Copied
    <3> QED BY <2>1, <3>1, <3>2, <3>3, <3>4 DEF Good
  <2>6. Progress(v, u)
    BY <2>2 DEF Progress, SameWrite, SameEnds, Unfinished
  <2>7. CASE mode # "Staged" \/ ~u.active \/ u.sent < u.queued \/ u.size = 0
    <3>1. r = u
      BY <2>4, <2>7
    <3>2. ~Carves(u)
      BY <2>1, <2>5, <2>7, SMTT(30) DEF Carves, Good, Offsets
    <3>3. ~Plain => (More(u) => More(v))
      BY <2>2, <3>2 DEF More, Upto, Copied, SameWrite, SameEnds
    <3>4. ~Plain => (Due(u) => Due(v))
      BY <2>2, <3>3 DEF Due, SameEnds
    <3> QED BY <1>2, <2>2, <2>5, <2>6, <3>1, <3>4
  <2>8. CASE ~(mode # "Staged" \/ ~u.active \/ u.sent < u.queued \/ u.size = 0) /\ u.copied = u.size
    <3>1. r = FinishActiveWrite(u)
      BY <2>4, <2>8
    <3>2. u.offered = u.queued
      BY <2>1, <2>5, <2>8, SMTT(30) DEF Good, Offsets
    <3>3. u.is_eof => u.fin_offered
      BY <2>1, <2>5, <2>8, <3>2 DEF Good, Ends, Copied
    <3>4. mode # "ZeroCopy"
      BY <2>8
    <3>5. Good(r)
      BY <2>5, <2>8, <3>1, <3>3, <3>4, FinishGood
    <3>6. /\ ~r.active /\ SameOffsets(u, r) /\ r.blocked = u.blocked /\ Progress(u, r)
      BY <2>1, <3>1, FinishFacts
    <3>7. ~Plain => ~Due(r)
      BY <2>1, <3>2, <3>6 DEF Due, More, Upto, Carves, SameOffsets
    <3>8. Progress(v, r)
      BY <2>6, <3>6 DEF Progress
    <3> QED BY <1>2, <2>2, <3>5, <3>6, <3>7, <3>8 DEF SameOffsets
  <2>9. CASE ~(mode # "Staged" \/ ~u.active \/ u.sent < u.queued \/ u.size = 0) /\ u.copied # u.size
    <3>1. r = OnWritable(u)
      BY <2>4, <2>9
    <3>2. /\ Good(r) /\ SameWrite(u, r) /\ SameOffsets(u, r) /\ SameEnds(u, r)
          /\ r.blocked = u.blocked /\ (r.scheduled \/ (Plain /\ u.blocked))
      BY <2>5, <3>1, WritableGood
    <3>3. Progress(v, r)
      BY <2>6, <3>2 DEF Progress, SameWrite, SameOffsets, SameEnds, Unfinished
    <3> QED BY <1>2, <2>2, <3>2, <3>3 DEF SameOffsets
  <2> QED BY <2>7, <2>8, <2>9
<1> QED BY <1>1, <1>2

\* on_acked(): a ZeroCopy write completes when all of it is acknowledged.
LEMMA AckedGood ==
  ASSUME TypeOK, NEW v, Good(v), NEW end \in Nat, end <= v.sent, NEW r, r = OnAcked(v, end)
  PROVE  /\ Good(r) /\ Progress(v, r) /\ r.offered = v.offered /\ r.sent = v.sent
         /\ (Due(v) => v.scheduled) => (Due(r) => r.scheduled)
<1> DEFINE c == {x \in v.chunks : x + 1 > end}
           u == [v EXCEPT !.acked = end, !.chunks = c]
<1>1. CASE end <= v.acked
  <2>1. Min({end, v.offered}) = end
    BY MinTwo DEF Good, WriteState, Offsets
  <2> QED BY <1>1, <2>1 DEF OnAcked, Progress
<1>2. CASE ~(end <= v.acked)
  <2> USE DEF WriteState
  <2>1. u \in WriteState
    BY DEF Good
  <2>2. /\ u.acked = end /\ u.chunks = c /\ SameWrite(v, u) /\ SameEnds(v, u)
        /\ u.base = v.base /\ u.copied = v.copied /\ u.queued = v.queued
        /\ u.offered = v.offered /\ u.sent = v.sent
        /\ u.blocked = v.blocked /\ u.scheduled = v.scheduled
    BY DEF Good, SameWrite, SameEnds
  <2>3. Min({end, v.offered}) = end
    BY MinTwo DEF Good, Offsets
  <2>4. r = IF mode = "ZeroCopy" /\ u.active /\ u.size > 0 /\ u.acked >= u.base + u.size
            THEN FinishActiveWrite(u) ELSE u
    BY <1>2, <2>3 DEF OnAcked
  <2> HIDE DEF u
  <2>5. Good(u)
    <3> USE DEF SameWrite, SameEnds
    <3>1. Room(u)
      BY <2>1, <2>2 DEF Good, Room
    <3>2. Offsets(u)
      <4>1. mode = "Staged" => u.chunks = u.acked .. (u.queued - 1)
        BY <1>2, <2>1, <2>2 DEF Good, Offsets
      <4> HIDE DEF c
      <4> QED BY <1>2, <2>1, <2>2, <4>1 DEF Good, Offsets
    <3> HIDE DEF c
    <3>3. Held(u) /\ Active(u)
      BY <1>2, <2>1, <2>2 DEF Good, Held, Active, Offsets
    <3>4. Ends(u)
      BY <2>1, <2>2 DEF Good, Ends, Copied
    <3> QED BY <2>1, <3>1, <3>2, <3>3, <3>4 DEF Good
  <2> HIDE DEF c
  <2>7. CASE ~(mode = "ZeroCopy" /\ u.active /\ u.size > 0 /\ u.acked >= u.base + u.size)
    <3>1. r = u
      BY <2>4, <2>7
    <3>2. Due(u) => Due(v)
      BY <2>2 DEF Due, More, Upto, Carves, Copied, SameWrite, SameEnds
    <3>3. Progress(v, u)
      BY <2>1, <2>2, <2>5, <2>7 DEF Progress, SameWrite, SameEnds, Unfinished, Good, Offsets
    <3> QED BY <2>2, <2>5, <3>1, <3>2, <3>3
  <2>8. CASE mode = "ZeroCopy" /\ u.active /\ u.size > 0 /\ u.acked >= u.base + u.size
    <3>1. r = FinishActiveWrite(u)
      BY <2>4, <2>8
    <3>2. u.acked = u.queued /\ u.offered = u.queued
      BY <2>1, <2>5, <2>8 DEF Good, Offsets
    <3>3. u.is_eof => u.fin_offered
      BY <2>1, <2>5, <2>8, <3>2 DEF Good, Ends, Copied
    <3>4. Good(r)
      BY <2>5, <2>8, <3>1, <3>2, <3>3, FinishGood
    <3>5. /\ ~r.active /\ SameOffsets(u, r) /\ r.blocked = u.blocked /\ Progress(u, r)
      BY <2>1, <3>1, FinishFacts
    <3>6. ~Due(r)
      BY <2>8, <3>5 DEF Due, More, Carves
    <3>7. Progress(v, r)
      BY <2>2, <3>5 DEF Progress, SameWrite, SameEnds, Unfinished
    <3> QED BY <2>2, <3>4, <3>5, <3>6, <3>7 DEF SameOffsets
  <2> QED BY <2>7, <2>8
<1> QED BY <1>1, <1>2

-----------------------------------------------------------------------------
(* The actions that change the outgoing body, and nothing else.            *)

\* Whether it is queued, or blocked, does not matter to what was written.
LEMMA SameGood ==
  ASSUME NEW v, Good(v), NEW u \in WriteState, SameWrite(v, u), SameOffsets(v, u), SameEnds(v, u)
  PROVE  Good(u) /\ (More(u) <=> More(v)) /\ Progress(v, u) /\ (Level(v) => Level(u))
<1> USE DEF SameWrite, SameOffsets, SameEnds
<1>1. Room(u) /\ Offsets(u) /\ Held(u)
  BY DEF Good, Room, Offsets, Held
<1>2. Active(u) /\ Ends(u)
  BY DEF Good, Active, Ends, Copied
<1>3. More(u) <=> More(v)
  BY DEF More, Upto, Carves, Copied
<1> QED BY <1>1, <1>2, <1>3 DEF Good, Progress, Level, Unfinished

\* What goes on stays what the state of the stream allows.
LEMMA ProgressWrites ==
  ASSUME NEW v, NEW u, Writes(v), Progress(v, u)
  PROVE  Writes(u)
BY DEF Writes, Progress

\* Where the stack goes on is between what was acknowledged and what is queued.
LEMMA UptoType ==
  ASSUME NEW v, Good(v)
  PROVE  Upto(v) \in v.acked .. v.queued /\ Upto(v) \in Nat
BY DEF Good, WriteState, Offsets, Upto

\* next_stream_data() and data_reader() find nothing, and there is nothing.
LEMMA NothingPending ==
  ASSUME TypeOK, NEW v, Good(v), ~closed, ~v.aborted, NEW p, p = PendingData(v, Upto(v)),
         p.n = 0, ~p.fin \/ v.fin_offered
  PROVE  p.w = v /\ ~More(v)
<1>1. Upto(v) \in v.acked .. v.queued /\ Upto(v) \in Nat
  BY UptoType
<1>2. /\ p.w = Next1(v)
      /\ p.n = IF mode = "Staged" \/ v.active THEN Next1(v).queued - Upto(v) ELSE 0
      /\ p.fin <=> v.active /\ v.is_eof /\ Copied(Next1(v))
  BY <1>1, PendingFacts DEF TypeOK, Good
<1>3. ~Carves(v)
  <2>1. SUFFICES ASSUME Carves(v) PROVE FALSE
    OBVIOUS
  <2>2. Next1(v).queued = v.queued + 1 /\ mode = "Staged"
    BY <2>1 DEF Next1, Carved, Carves, Good, WriteState
  <2>3. Next1(v).queued - Upto(v) = 0
    BY <1>2, <2>2
  <2>4. v.queued \in Nat
    BY DEF Good, WriteState
  <2> QED BY <1>1, <2>2, <2>3, <2>4
<1>4. Next1(v) = v
  BY <1>3 DEF Next1
<1>5. ~((mode = "Staged" \/ v.active) /\ v.queued > Upto(v))
  BY <1>1, <1>2, <1>4 DEF Good, WriteState
<1> QED BY <1>2, <1>3, <1>4, <1>5 DEF More

LEMMA UnscheduleStep ==
  ASSUME TypeOK, OutInv(w), Unschedule
  PROVE  OutInv(w')
<1> DEFINE p == PendingData(w, w.sent)
<1>1. Good(w) /\ Level(w) /\ Writes(w)
  BY DEF OutInv
<1>2. Plain /\ w.sent = Upto(w) /\ w' = [p.w EXCEPT !.scheduled = FALSE]
      /\ p.n = 0 /\ (~p.fin \/ w.fin_offered)
  BY DEF Unschedule, Upto
<1>3. p.w = w /\ (closed \/ w.aborted \/ ~More(w))
  <2>1. CASE closed \/ w.aborted
    BY <2>1 DEF PendingData
  <2>2. CASE ~(closed \/ w.aborted)
    <3> HIDE DEF p
    <3>1. p = PendingData(w, Upto(w))
      BY <1>2 DEF p
    <3> QED BY <1>1, <1>2, <2>2, <3>1, NothingPending
  <2> QED BY <2>1, <2>2
<1> HIDE DEF p
<1>4. w' \in WriteState /\ SameWrite(w, w') /\ SameOffsets(w, w') /\ SameEnds(w, w')
  BY <1>1, <1>2, <1>3 DEF Good, WriteState, SameWrite, SameOffsets, SameEnds
<1>5. Good(w') /\ (More(w') <=> More(w)) /\ Progress(w, w') /\ Level(w')
  BY <1>1, <1>4, SameGood
<1>6. Writes(w')
  BY <1>1, <1>5, ProgressWrites
<1>7. ~Due(w')
  BY <1>3, <1>4, <1>5 DEF Due, SameEnds
<1> QED BY <1>5, <1>6, <1>7 DEF OutInv

LEMMA WriteStreamStep ==
  ASSUME TypeOK, OutInv(w), NEW k \in 0 .. MaxUnits, WriteStream(k)
  PROVE  OutInv(w')
<1> DEFINE p == PendingData(w, w.sent)
           x == [p.w EXCEPT !.scheduled = FALSE]
           f == p.fin /\ k = p.n
           v == OnOffered(x, w.sent + k, f)
           u == OnSent(v, v.sent + k)
<1>1. Good(w) /\ Level(w) /\ Writes(w) /\ w \in WriteState
  BY DEF OutInv, Good
<1>2. /\ Plain /\ w' = OnWritable(u)
      /\ k \in 1 .. p.n \/ (k = 0 /\ p.n = 0 /\ p.fin /\ ~w.fin_offered)
  BY DEF WriteStream
<1>3. ~closed /\ ~w.aborted
  <2>1. CASE closed \/ w.aborted
    <3>1. p.n = 0 /\ p.fin = FALSE
      BY <2>1 DEF PendingData
    <3> QED BY <1>2, <3>1
  <2> QED BY <2>1
<1>4. k \in Nat /\ w.sent \in Nat /\ w.sent \in w.acked .. w.queued
  BY <1>1, BoundsAssumption DEF Good, Offsets, WriteState
<1>5. /\ p.w = Next1(w)
      /\ p.n = IF mode = "Staged" \/ w.active THEN Next1(w).queued - w.sent ELSE 0
      /\ p.fin <=> w.active /\ w.is_eof /\ Copied(Next1(w))
  BY <1>1, <1>3, <1>4, PendingFacts DEF TypeOK, Good
<1> HIDE DEF p
<1>6. Good(Next1(w)) /\ Next1(w) \in WriteState
  BY <1>1, CarveGood DEF Good
<1>7. /\ Next1(w).sent = w.sent /\ Next1(w).offered = w.offered /\ Next1(w).active = w.active
      /\ Next1(w).is_eof = w.is_eof /\ Progress(w, Next1(w)) /\ Next1(w).queued \in Nat
      /\ Next1(w).queued >= w.queued /\ w.queued \in Nat
  BY <1>1, <1>6, NextFacts DEF WriteState
<1>8. x \in WriteState /\ SameWrite(p.w, x) /\ SameOffsets(p.w, x) /\ SameEnds(p.w, x)
  BY <1>5, <1>6 DEF WriteState, SameWrite, SameOffsets, SameEnds
<1> HIDE DEF x
<1>9. Good(x) /\ Progress(p.w, x)
  BY <1>5, <1>6, <1>8, SameGood
<1>10. /\ x.sent = w.sent /\ x.offered = w.offered /\ x.active = w.active /\ x.is_eof = w.is_eof
       /\ x.queued = Next1(w).queued /\ Copied(x) = Copied(Next1(w))
  BY <1>5, <1>7, <1>8 DEF SameWrite, SameOffsets, Copied
<1>11. w.sent + k \in Nat /\ w.sent + k <= x.queued
  <2>1. CASE k = 0
    BY <1>4, <1>7, <1>10, <2>1
  <2>2. CASE k # 0
    <3>1. k \in 1 .. p.n /\ p.n = Next1(w).queued - w.sent
      BY <1>2, <1>4, <1>5, <2>2
    <3> QED BY <1>4, <1>7, <1>10, <3>1
  <2> QED BY <2>1, <2>2
<1>12. (p.fin /\ k = p.n) <=> (x.active /\ x.is_eof /\ Copied(x) /\ w.sent + k = x.queued)
  <2>1. CASE w.active
    <3>1. p.n = x.queued - w.sent
      BY <1>5, <1>10, <2>1
    <3>2. k = p.n <=> w.sent + k = x.queued
      BY <1>4, <1>7, <1>10, <3>1
    <3> QED BY <1>5, <1>10, <3>2
  <2>2. CASE ~w.active
    BY <1>5, <1>10, <2>2
  <2> QED BY <2>1, <2>2
<1>13. /\ Good(v) /\ Progress(x, v) /\ v.sent = x.sent
       /\ v.offered = IF x.offered >= w.sent + k THEN x.offered ELSE w.sent + k
  <2>1. f \in BOOLEAN /\ (f <=> x.active /\ x.is_eof /\ Copied(x) /\ w.sent + k = x.queued)
    BY <1>12
  <2>2. v = OnOffered(x, w.sent + k, f)
    OBVIOUS
  <2> HIDE DEF f, v
  <2> QED BY <1>9, <1>11, <2>1, <2>2, OfferGood
<1> HIDE DEF v
<1>14. v.sent = w.sent /\ v.offered = w.sent + k
  BY <1>1, <1>2, <1>4, <1>10, <1>13 DEF Level
<1>15. Good(u) /\ Progress(v, u) /\ u.offered = v.offered /\ u.sent = v.offered
  <2>1. v.sent + k \in Nat /\ u = OnSent(v, v.sent + k)
    BY <1>11, <1>14
  <2> HIDE DEF u
  <2>2. /\ Good(u) /\ Progress(v, u) /\ u.offered = v.offered
        /\ u.sent = IF v.sent + k <= v.sent THEN v.sent
                    ELSE IF v.sent + k <= v.offered THEN v.sent + k ELSE v.offered
    BY <1>13, <2>1, SentGood
  <2> QED BY <1>4, <1>14, <2>2
<1> HIDE DEF u
<1>16. /\ Good(w') /\ SameWrite(u, w') /\ SameOffsets(u, w') /\ SameEnds(u, w')
       /\ w'.scheduled \/ (Plain /\ w'.blocked)
  BY <1>2, <1>15, WritableGood
<1>17. Writes(w')
  <2>1. Progress(w, w')
    BY <1>5, <1>7, <1>9, <1>13, <1>15, <1>16 DEF Progress, SameWrite, SameOffsets, SameEnds, Unfinished
  <2> QED BY <1>1, <2>1, ProgressWrites
<1>18. Level(w') /\ (Due(w') => w'.scheduled)
  BY <1>15, <1>16 DEF Level, SameOffsets, Due
<1> QED BY <1>16, <1>17, <1>18 DEF OutInv

LEMMA StreamBlockedStep ==
  ASSUME TypeOK, OutInv(w), StreamBlocked
  PROVE  OutInv(w')
<1> DEFINE p == PendingData(w, w.sent)
<1>1. Good(w) /\ Level(w) /\ Writes(w) /\ w \in WriteState
  BY DEF OutInv, Good
<1>2. Plain /\ p.n > 0 /\ w' = [p.w EXCEPT !.blocked = TRUE, !.scheduled = FALSE]
  BY DEF StreamBlocked
<1>3. ~closed /\ ~w.aborted
  <2>1. CASE closed \/ w.aborted
    <3>1. p.n = 0
      BY <2>1 DEF PendingData
    <3> QED BY <1>2, <3>1
  <2> QED BY <2>1
<1>4. p.w = Next1(w)
  <2>1. w.sent \in w.acked .. w.queued
    BY <1>1 DEF Good, Offsets, WriteState
  <2> QED BY <1>1, <1>3, <2>1, PendingFacts DEF TypeOK, Good
<1> HIDE DEF p
<1>5. Good(Next1(w)) /\ Next1(w) \in WriteState
  BY <1>1, CarveGood DEF Good
<1>6. Progress(w, Next1(w)) /\ Level(Next1(w))
  BY <1>1, <1>5, NextFacts DEF Level
<1>7. /\ w' \in WriteState /\ w'.blocked
      /\ SameWrite(Next1(w), w') /\ SameOffsets(Next1(w), w') /\ SameEnds(Next1(w), w')
  BY <1>2, <1>4, <1>5 DEF WriteState, SameWrite, SameOffsets, SameEnds
<1>8. Good(w') /\ Progress(Next1(w), w') /\ Level(w')
  BY <1>5, <1>6, <1>7, SameGood
<1>9. Writes(w')
  <2>1. Progress(w, w')
    BY <1>6, <1>8 DEF Progress
  <2> QED BY <1>1, <2>1, ProgressWrites
<1> QED BY <1>2, <1>7, <1>8, <1>9 DEF OutInv, Due

LEMMA DataReaderStep ==
  ASSUME TypeOK, OutInv(w), DataReader
  PROVE  OutInv(w')
<1> DEFINE p == PendingData(w, w.offered)
           f == p.fin
           v == OnOffered(p.w, w.offered + p.n, f)
<1>1. Good(w) /\ Level(w) /\ Writes(w) /\ w \in WriteState
  BY DEF OutInv, Good
<1>2. /\ ~Plain /\ w.offered = Upto(w)
      /\ w' = IF p.n = 0 /\ ~p.fin THEN [p.w EXCEPT !.scheduled = FALSE]
              ELSE [v EXCEPT !.scheduled = ~p.fin]
  BY DEF DataReader, Upto
<1>3. CASE p.n = 0 /\ ~p.fin
  <2>1. p.w = w /\ (closed \/ w.aborted \/ ~More(w))
    <3>1. CASE closed \/ w.aborted
      BY <3>1 DEF PendingData
    <3>2. CASE ~(closed \/ w.aborted)
      <4> HIDE DEF p
      <4>1. p = PendingData(w, Upto(w))
        BY <1>2 DEF p
      <4> QED BY <1>1, <1>3, <3>2, <4>1, NothingPending
    <3> QED BY <3>1, <3>2
  <2>2. w' = [w EXCEPT !.scheduled = FALSE]
    BY <1>2, <1>3, <2>1
  <2>3. w' \in WriteState /\ SameWrite(w, w') /\ SameOffsets(w, w') /\ SameEnds(w, w')
    BY <1>1, <2>2 DEF WriteState, SameWrite, SameOffsets, SameEnds
  <2>4. Good(w') /\ (More(w') <=> More(w)) /\ Progress(w, w') /\ Level(w')
    BY <1>1, <2>3, SameGood
  <2>5. Writes(w')
    BY <1>1, <2>4, ProgressWrites
  <2>6. ~Due(w')
    BY <2>1, <2>3, <2>4 DEF Due, SameEnds
  <2> QED BY <2>4, <2>5, <2>6 DEF OutInv
<1>4. CASE ~(p.n = 0 /\ ~p.fin)
  <2>1. ~closed /\ ~w.aborted
    <3>1. CASE closed \/ w.aborted
      <4>1. p.n = 0 /\ p.fin = FALSE
        BY <3>1 DEF PendingData
      <4> QED BY <1>4, <4>1
    <3> QED BY <3>1
  <2>2. w.offered \in Nat /\ w.offered \in w.acked .. w.queued /\ w.queued \in Nat
    BY <1>1 DEF Good, Offsets, WriteState
  <2>3. /\ p.w = Next1(w)
        /\ p.n = IF mode = "Staged" \/ w.active THEN Next1(w).queued - w.offered ELSE 0
        /\ p.fin <=> w.active /\ w.is_eof /\ Copied(Next1(w))
    BY <1>1, <2>1, <2>2, PendingFacts DEF TypeOK, Good
  <2>4. f \in BOOLEAN
    BY <2>1 DEF PendingData
  <2>5. v = OnOffered(p.w, w.offered + p.n, f) /\ w' = [v EXCEPT !.scheduled = ~f] /\ f = p.fin
    BY <1>2, <1>4
  <2> HIDE DEF p, f, v
  <2>6. Good(Next1(w)) /\ Next1(w) \in WriteState
    BY <1>1, CarveGood DEF Good
  <2>7. /\ Next1(w).offered = w.offered /\ Next1(w).active = w.active
        /\ Next1(w).is_eof = w.is_eof /\ Progress(w, Next1(w)) /\ Next1(w).queued \in Nat
        /\ Next1(w).queued >= w.queued
    BY <1>1, <2>6, NextFacts
  <2>8. /\ w.offered + p.n \in Nat /\ w.offered + p.n <= Next1(w).queued
        /\ w.active => w.offered + p.n = Next1(w).queued
    BY <2>2, <2>3, <2>7
  <2>9. /\ Good(v) /\ Progress(Next1(w), v) /\ v.queued = Next1(w).queued
        /\ v.copied = Next1(w).copied
        /\ v.offered = IF w.offered >= w.offered + p.n THEN w.offered ELSE w.offered + p.n
        /\ v.fin_offered <=> Next1(w).fin_offered \/ f
        /\ v.active => v.size = Next1(w).size
    <3>1. f <=> Next1(w).active /\ Next1(w).is_eof /\ Copied(Next1(w))
                /\ w.offered + p.n = Next1(w).queued
      BY <2>3, <2>5, <2>7, <2>8
    <3>2. v = OnOffered(Next1(w), w.offered + p.n, f)
      BY <2>3, <2>5
    <3> QED BY <2>4, <2>6, <2>7, <2>8, <3>1, <3>2, OfferGood
  <2>10. /\ w' \in WriteState /\ SameWrite(v, w') /\ SameOffsets(v, w') /\ SameEnds(v, w')
         /\ f \/ w'.scheduled
    <3>1. CASE f
      <4>1. w' = [v EXCEPT !.scheduled = FALSE]
        BY <2>5, <3>1
      <4> QED BY <2>9, <3>1, <4>1 DEF Good, WriteState, SameWrite, SameOffsets, SameEnds
    <3>2. CASE ~f
      <4>1. w' = [v EXCEPT !.scheduled = TRUE]
        BY <2>5, <3>2
      <4> QED BY <2>9, <3>2, <4>1 DEF Good, WriteState, SameWrite, SameOffsets, SameEnds
    <3> QED BY <3>1, <3>2
  <2>11. Good(w') /\ (More(w') <=> More(v)) /\ Progress(v, w')
    BY <2>9, <2>10, SameGood
  <2>12. Writes(w')
    <3>1. Progress(w, w')
      BY <2>7, <2>9, <2>11 DEF Progress
    <3> QED BY <1>1, <3>1, ProgressWrites
  <2>13. f => ~More(v)
    <3>1. SUFFICES ASSUME f PROVE ~More(v)
      OBVIOUS
    <3>2. v.fin_offered /\ w.active
      BY <2>3, <2>5, <2>9, <3>1
    <3>0. v.offered = v.queued
      BY <2>2, <2>7, <2>8, <2>9, <3>2
    <3>3. v.queued \in Nat /\ v.copied \in Nat /\ v.size \in Nat
      BY <2>9 DEF Good, WriteState
    <3>4. ~Carves(v)
      <4>1. CASE mode = "Staged" /\ v.active
        <5>1. v.copied = v.size
          BY <2>3, <2>5, <2>7, <2>9, <3>1, <4>1 DEF Copied, Progress
        <5> QED BY <3>3, <5>1 DEF Carves
      <4>2. CASE ~(mode = "Staged" /\ v.active)
        BY <4>2 DEF Carves
      <4> QED BY <4>1, <4>2
    <3> QED BY <1>2, <3>0, <3>2, <3>3, <3>4 DEF More, Upto
  <2>14. Due(w') => w'.scheduled
    BY <2>4, <2>10, <2>11, <2>13 DEF Due
  <2> QED BY <1>2, <2>11, <2>12, <2>14 DEF OutInv, Level
<1> QED BY <1>3, <1>4

LEMMA WriteOfferedStep ==
  ASSUME TypeOK, OutInv(w), NEW k \in 0 .. MaxUnits, WriteOffered(k)
  PROVE  OutInv(w')
<1>1. /\ ~Plain /\ w' = OnSent(w, w.sent + k)
  BY DEF WriteOffered, OnWriteOffered
<1>2. w.sent + k \in Nat
  BY BoundsAssumption DEF OutInv, Good, WriteState
<1>3. Good(w') /\ Progress(w, w') /\ (Due(w') => w'.scheduled)
  BY <1>1, <1>2, SentGood DEF OutInv
<1> QED BY <1>1, <1>3, ProgressWrites DEF OutInv, Level

LEMMA AckStep ==
  ASSUME TypeOK, OutInv(w), NEW k \in 1 .. MaxUnits, AckedStreamData(k) \/ H3AckedStreamData(k)
  PROVE  OutInv(w')
<1>1. w' = OnAcked(w, w.acked + k) /\ k \in 1 .. (w.sent - w.acked)
  BY DEF AckedStreamData, H3AckedStreamData, OnWriteAcked, Acknowledged
<1>2. w.acked + k \in Nat /\ w.acked + k <= w.sent
  BY <1>1 DEF OutInv, Good, WriteState
<1>3. /\ Good(w') /\ Progress(w, w') /\ w'.offered = w.offered /\ w'.sent = w.sent
      /\ Due(w') => w'.scheduled
  BY <1>1, <1>2, AckedGood DEF OutInv
<1> QED BY <1>3, ProgressWrites DEF OutInv, Level

LEMMA H3StreamBlockedStep ==
  ASSUME TypeOK, OutInv(w), H3StreamBlocked \/ H3ExtendMaxStreamData
  PROVE  OutInv(w')
<1>1. ~Plain /\ \E b \in BOOLEAN : w' = [w EXCEPT !.blocked = b]
  BY DEF H3StreamBlocked, H3ExtendMaxStreamData
<1>2. w \in WriteState
  BY DEF OutInv, Good
<1>3. /\ w' \in WriteState /\ SameWrite(w, w') /\ SameOffsets(w, w') /\ SameEnds(w, w')
      /\ w'.scheduled = w.scheduled
  BY <1>1, <1>2 DEF WriteState, SameWrite, SameOffsets, SameEnds
<1>4. Good(w') /\ (More(w') <=> More(w)) /\ Progress(w, w') /\ Level(w')
  BY <1>3, SameGood DEF OutInv
<1>5. Due(w') => Due(w)
  BY <1>1, <1>3, <1>4 DEF Due, SameEnds
<1> QED BY <1>3, <1>4, <1>5, ProgressWrites DEF OutInv

LEMMA ExtendStep ==
  ASSUME TypeOK, OutInv(w), ExtendMaxStreamData
  PROVE  OutInv(w')
<1> DEFINE u == [w EXCEPT !.blocked = FALSE]
<1>1. w \in WriteState /\ w' = OnWritable(u)
  BY DEF OutInv, Good, ExtendMaxStreamData
<1>2. u \in WriteState /\ SameWrite(w, u) /\ SameOffsets(w, u) /\ SameEnds(w, u)
  BY <1>1 DEF WriteState, SameWrite, SameOffsets, SameEnds
<1> HIDE DEF u
<1>3. Good(u) /\ Progress(w, u) /\ Level(u)
  BY <1>2, SameGood DEF OutInv
<1>4. /\ Good(w') /\ SameWrite(u, w') /\ SameOffsets(u, w') /\ SameEnds(u, w')
      /\ w'.scheduled \/ (Plain /\ w'.blocked)
      /\ w' \in WriteState
  BY <1>1, <1>3, WritableGood DEF Good
<1>5. Progress(u, w') /\ Level(w')
  BY <1>3, <1>4, SameGood
<1>6. Writes(w')
  <2>1. Progress(w, w')
    BY <1>3, <1>5 DEF Progress
  <2> QED BY <2>1, ProgressWrites DEF OutInv
<1> QED BY <1>4, <1>5, <1>6 DEF OutInv, Due

LEMMA StartWriteStep ==
  ASSUME TypeOK, Over, Handles, OutInv(w), NEW n \in 0 .. MaxChunk, NEW eof \in BOOLEAN,
         StartWrite(n, eof)
  PROVE  OutInv(w')
<1> DEFINE q == IF mode = "ZeroCopy" THEN w.queued + n ELSE w.queued
           u == [w EXCEPT !.eof_submitted = eof, !.active = TRUE, !.size = n, !.base = w.queued,
                          !.copied = 0, !.is_eof = eof, !.op = "held", !.queued = q]
<1>1. /\ writer = "attached" /\ headers_submitted /\ w.op = "none" /\ ~w.eof_submitted
      /\ ~closed /\ ~w.aborted /\ received + w.queued + n <= MaxUnits /\ w' = OnWritable(u)
      /\ n > 0 \/ eof
  BY DEF StartWrite
<1>2. Good(w) /\ Level(w) /\ Writes(w) /\ w \in WriteState /\ n \in Nat
  BY BoundsAssumption DEF OutInv, Good
<1>3. ~w.active /\ w.size = 0 /\ (w.fin_offered => strm # "open" \/ tx # "open")
  BY <1>1, <1>2 DEF Good, Active, Ends, Offsets
<1>4. u \in WriteState
  <2>1. q \in Nat
    BY <1>2 DEF WriteState
  <2> HIDE DEF q
  <2> QED BY <1>2, <2>1 DEF WriteState
<1>5. /\ u.eof_submitted = eof /\ u.active /\ u.size = n /\ u.base = w.queued /\ u.copied = 0
      /\ u.is_eof = eof /\ u.op = "held" /\ u.queued = q
      /\ u.offered = w.offered /\ u.sent = w.sent /\ u.acked = w.acked /\ u.chunks = w.chunks
      /\ u.fin_offered = w.fin_offered /\ u.aborted = w.aborted /\ u.end_told = w.end_told
  BY <1>2 DEF WriteState
<1> HIDE DEF u
<1>6. Room(u)
  <2>1. received \in Nat /\ MaxUnits \in Nat /\ w.queued \in Nat /\ mode \in {"ZeroCopy", "Staged"}
    BY <1>2, BoundsAssumption DEF TypeOK, WriteState
  <2> QED BY <1>1, <1>2, <1>5, <2>1 DEF Room
<1>7. Offsets(u)
  BY <1>2, <1>3, <1>4, <1>5 DEF Good, Offsets, WriteState
<1>8. Held(u) /\ Active(u)
  <2>1. Held(u)
    BY <1>2, <1>3, <1>4, <1>5 DEF Good, Held, WriteState
  <2>2. Active(u)
    BY <1>1, <1>5 DEF Active
  <2> QED BY <2>1, <2>2
<1>9. Ends(u)
  BY <1>1, <1>2, <1>3, <1>4, <1>5 DEF TypeOK, Good, Ends, Copied, Offsets, WriteState
<1>10. Good(u)
  BY <1>4, <1>6, <1>7, <1>8, <1>9 DEF Good
<1>11. /\ Good(w') /\ SameWrite(u, w') /\ SameOffsets(u, w') /\ SameEnds(u, w')
       /\ w'.scheduled \/ (Plain /\ w'.blocked)
  BY <1>1, <1>10, WritableGood
<1>12. Level(w')
  BY <1>2, <1>5, <1>11 DEF Level, SameOffsets
<1>13. Writes(w')
  <2>1. strm = "open"
    BY <1>1 DEF TypeOK, Over, Handles
  <2>2. Unfinished(w')
    <3>1. w'.acked = w.acked /\ w'.queued = q /\ w'.size = n /\ w.acked <= w.queued
      BY <1>2, <1>5, <1>11 DEF SameWrite, SameOffsets, Good, Offsets, WriteState
    <3> QED BY <1>2, <3>1 DEF Unfinished, WriteState
  <2> QED BY <1>1, <1>2, <1>5, <1>11, <2>1, <2>2 DEF Writes, SameWrite, SameEnds
<1> QED BY <1>11, <1>12, <1>13 DEF OutInv, Due

\* Only the handler of the write, and what was told, may differ.
SameButOp(v, u) ==
    /\ u \in WriteState /\ SameOffsets(v, u)
    /\ u.active = v.active /\ u.size = v.size /\ u.is_eof = v.is_eof
    /\ u.eof_submitted = v.eof_submitted /\ u.fin_offered = v.fin_offered
    /\ u.aborted = v.aborted /\ u.scheduled = v.scheduled /\ u.blocked = v.blocked

LEMMA OpInv ==
  ASSUME NEW v, OutInv(v), NEW u, SameButOp(v, u),
         u.op = "held" => v.active /\ writer = "attached" /\ (strm = "open" \/ failing # "no"),
         v.active /\ u.op # "held" => v.is_eof /\ v.size = 0,
         u.end_told => v.fin_offered
  PROVE  OutInv(u)
<1> USE DEF SameButOp, SameOffsets
<1>1. Good(v) /\ Level(v) /\ Writes(v) /\ (Due(v) => v.scheduled)
  BY DEF OutInv
<1>2. Room(u) /\ Offsets(u) /\ Held(u)
  BY <1>1 DEF Good, Room, Offsets, Held
<1>3. Active(u)
  BY <1>1 DEF Good, Active
<1>4. Ends(u)
  BY <1>1 DEF Good, Ends, Copied
<1>5. Good(u)
  BY <1>2, <1>3, <1>4 DEF Good
<1>6. Due(u) => u.scheduled
  BY <1>1 DEF Due, More, Upto, Carves, Copied
<1>7. Writes(u) /\ Level(u)
  BY <1>1 DEF Writes, Level, Unfinished
<1> QED BY <1>5, <1>6, <1>7 DEF OutInv

\* The handler of a write is held again, or runs, or an end is told: nothing is written.
LEMMA EndAgainStep ==
  ASSUME TypeOK, Over, Handles, OutInv(w), EndAgain
  PROVE  OutInv(w')
<1>1. Good(w) /\ w \in WriteState /\ writer = "attached" /\ w.op = "none" /\ w.eof_submitted
  BY DEF OutInv, Good, EndAgain
<1>2. CASE w.active /\ w.is_eof /\ ~closed /\ ~w.aborted
  <2>1. w' = [w EXCEPT !.op = "held"]
    BY <1>2 DEF EndAgain
  <2>2. SameButOp(w, w') /\ w'.op = "held" /\ w'.end_told = w.end_told
    BY <1>1, <2>1 DEF WriteState, SameButOp, SameOffsets
  <2>3. strm = "open"
    BY <1>1, <1>2 DEF TypeOK, Over, Handles
  <2>4. w'.end_told => w.fin_offered
    BY <1>1, <2>2 DEF Good, Ends
  <2> QED BY <1>1, <1>2, <2>2, <2>3, <2>4, OpInv
<1>3. CASE ~(w.active /\ w.is_eof /\ ~closed /\ ~w.aborted)
  <2> DEFINE t == w.end_told \/ ~(closed \/ w.aborted) \/ w.fin_offered
  <2>1. w' = [w EXCEPT !.end_told = t] /\ t \in BOOLEAN
    BY <1>3 DEF EndAgain
  <2>2. t => w.fin_offered
    BY <1>1, <1>3 DEF Good, Active, Ends, Handles
  <2> HIDE DEF t
  <2>3. SameButOp(w, w') /\ w'.op = w.op /\ w'.end_told = t
    BY <1>1, <2>1 DEF WriteState, SameButOp, SameOffsets
  <2>4. w.active => w.is_eof /\ w.size = 0
    BY <1>1 DEF Good, Active
  <2> QED BY <1>1, <2>2, <2>3, <2>4, OpInv
<1> QED BY <1>2, <1>3

LEMMA EndDetachedStep ==
  ASSUME TypeOK, OutInv(w), EndDetached
  PROVE  OutInv(w')
<1>1. Good(w) /\ w \in WriteState /\ writer = "ended" /\ w.fin_offered /\ w.op # "held"
  BY DEF OutInv, Good, Writes, EndDetached
<1>2. w' = [w EXCEPT !.end_told = TRUE]
  BY DEF EndDetached
<1>3. SameButOp(w, w') /\ w'.op = w.op
  BY <1>1, <1>2 DEF WriteState, SameButOp, SameOffsets
<1>4. w.active => w.is_eof /\ w.size = 0
  BY <1>1 DEF Good, Active
<1> QED BY <1>1, <1>3, <1>4, OpInv

LEMMA RunPostedStep ==
  ASSUME TypeOK, OutInv(w), RunPosted
  PROVE  OutInv(w')
<1>1. Good(w) /\ w \in WriteState /\ w.op = "posted" /\ w' = [w EXCEPT !.op = "none"]
  BY DEF OutInv, Good, RunPosted
<1>2. SameButOp(w, w') /\ w'.op = "none" /\ w'.end_told = w.end_told
  BY <1>1 DEF WriteState, SameButOp, SameOffsets
<1>3. (w.active => w.is_eof /\ w.size = 0) /\ (w'.end_told => w.fin_offered)
  BY <1>1, <1>2 DEF Good, Active, Ends
<1> QED BY <1>1, <1>2, <1>3, OpInv

\* What was written is within the bounds.
LEMMA WriteBounds ==
  ASSUME NEW r \in Nat, NEW v, v \in WriteState, v.size <= MaxUnits, r + v.queued <= MaxUnits
  PROVE  v.queued <= MaxUnits
BY BoundsAssumption DEF WriteState

\* The state of the outgoing direction stands when only w changes ...
LEMMA WritesOnly ==
  ASSUME IInv, UNCHANGED <<engine, reading, life, reader, writer, response>>, OutInv(w')
  PROVE  IInv'
<1> USE DEF engine, reading, life, response, Plain
<1>1. Good(w') /\ Level(w') /\ Writes(w') /\ (Due(w') => w'.scheduled)
  BY DEF OutInv
<1>2. Good(w)'
  <2>1. Room(w)' /\ Offsets(w)' /\ Held(w)'
    BY <1>1 DEF Good, Room, Offsets, Held
  <2>2. Active(w)' /\ Ends(w)'
    BY <1>1 DEF Good, Active, Ends, Copied
  <2> QED BY <1>1, <2>1, <2>2 DEF Good
<1>3. OutInv(w)'
  <2>1. Level(w)' /\ Writes(w)'
    BY <1>1 DEF Level, Writes, Unfinished
  <2>2. Due(w)' => w'.scheduled
    BY <1>1 DEF Due, More, Upto, Carves, Copied
  <2> QED BY <1>2, <2>1, <2>2 DEF OutInv
<1>4. TypeOK'
  <2>1. received \in Nat /\ w' \in WriteState /\ w'.size <= MaxUnits
        /\ received + w'.queued <= MaxUnits
    BY <1>1 DEF Good, Room, IInv, TypeOK
  <2>2. w'.queued <= MaxUnits
    BY <2>1, WriteBounds
  <2> QED BY <2>1, <2>2 DEF IInv, TypeOK
<1>5. ReadInv'
  <2>1. ReadInv
    BY DEF IInv
  <2>2. Stored' /\ Over'
    BY <2>1 DEF ReadInv, Stored, Over, Drained, Kept, Silent
  <2>3. Handles' /\ Waiting' /\ Responds'
    BY <2>1 DEF ReadInv, Handles, Waiting, Responds
  <2> QED BY <2>2, <2>3 DEF ReadInv
<1> QED BY <1>3, <1>4, <1>5 DEF IInv

\* The bounds of the outgoing body, of the next state.
LEMMA OutBounds ==
  ASSUME TypeOK, received' = received, OutInv(w)'
  PROVE  w' \in WriteState /\ w'.size <= MaxUnits /\ w'.queued <= MaxUnits
<1>1. received \in Nat /\ w' \in WriteState /\ w'.size <= MaxUnits /\ received + w'.queued <= MaxUnits
  BY DEF OutInv, Good, Room, TypeOK
<1> QED BY <1>1, WriteBounds

\* ... and when only the stream around it comes closer to its end.
LEMMA Shifted ==
  ASSUME TypeOK, OutInv(w), w' = w, kind' = kind, mode' = mode, received' = received,
         strm' = strm \/ strm' = "closed", tx' = tx \/ tx' = "reset",
         closed => closed', registered' => registered, headers_submitted' = headers_submitted,
         w.op = "held" => writer' = "attached" /\ (strm' = "open" \/ failing' # "no"),
         writer' = "ended" => w.fin_offered,
         writer' = "gone" /\ tx' = "open" /\ strm' = "open" /\ headers_submitted
             => w.eof_submitted
  PROVE  OutInv(w)'
<1> USE DEF Plain
<1>1. Good(w) /\ Level(w) /\ Writes(w) /\ (Due(w) => w.scheduled)
  BY DEF OutInv
<1>2. Good(w)'
  <2>1. Room(w)' /\ Offsets(w)' /\ Held(w)'
    BY <1>1 DEF Good, Room, Offsets, Held
  <2>2. Active(w)' /\ Ends(w)'
    BY <1>1 DEF Good, Active, Ends, Copied
  <2> QED BY <1>1, <2>1, <2>2 DEF Good
<1>3. Level(w)' /\ Writes(w)'
  BY <1>1 DEF Level, Writes, Unfinished
<1>4. Due(w)' => w'.scheduled
  BY <1>1 DEF Due, More, Upto, Carves, Copied
<1> QED BY <1>2, <1>3, <1>4 DEF OutInv

\* Steps of the stack, the user and the executor that concern the outgoing body only.
Outgoing ==
    \/ Sends \/ Acks \/ ExtendMaxStreamData \/ H3ExtendMaxStreamData \/ RunPosted
    \/ StreamBlocked \/ H3StreamBlocked
    \/ \E n \in 0 .. MaxChunk, eof \in BOOLEAN : StartWrite(n, eof)
    \/ EndAgain \/ EndDetached

LEMMA OutgoingOnly ==
  ASSUME Outgoing
  PROVE  UNCHANGED <<engine, reading, life, reader, writer, response>>
BY DEF Outgoing, Sends, Acks, Unschedule, DataReader, WriteStream, WriteOffered, AckedStreamData,
       H3AckedStreamData, Acknowledged, ExtendMaxStreamData, H3ExtendMaxStreamData, Unblocked,
       RunPosted, StreamBlocked, H3StreamBlocked, StartWrite, EndAgain, EndDetached

LEMMA OutgoingStep ==
  ASSUME IInv, Outgoing
  PROVE  IInv'
<1>1. TypeOK /\ Over /\ Handles /\ OutInv(w)
  BY DEF IInv, ReadInv
<1>2. UNCHANGED <<engine, reading, life, reader, writer, response>>
  BY OutgoingOnly
<1>3. OutInv(w')
  <2>1. CASE Sends
    BY <1>1, <2>1, UnscheduleStep, DataReaderStep, WriteStreamStep, WriteOfferedStep DEF Sends
  <2>2. CASE Acks
    BY <1>1, <2>2, AckStep DEF Acks
  <2>3. CASE ExtendMaxStreamData
    BY <1>1, <2>3, ExtendStep
  <2>4. CASE H3ExtendMaxStreamData \/ H3StreamBlocked
    BY <1>1, <2>4, H3StreamBlockedStep
  <2>5. CASE RunPosted
    BY <1>1, <2>5, RunPostedStep
  <2>6. CASE StreamBlocked
    BY <1>1, <2>6, StreamBlockedStep
  <2>7. CASE \E n \in 0 .. MaxChunk, eof \in BOOLEAN : StartWrite(n, eof)
    BY <1>1, <2>7, StartWriteStep
  <2>8. CASE EndAgain
    BY <1>1, <2>8, EndAgainStep
  <2>9. CASE EndDetached
    BY <1>1, <2>9, EndDetachedStep
  <2> QED BY <2>1, <2>2, <2>3, <2>4, <2>5, <2>6, <2>7, <2>8, <2>9 DEF Outgoing
<1> QED BY <1>2, <1>3, WritesOnly

-----------------------------------------------------------------------------
(* The incoming body, and the handles.                                     *)

\* The buffers stand while nobody touches them ...
LEMMA StoredKept ==
  ASSUME Stored, UNCHANGED <<received, delivered, pending_read, incoming>>,
         pc' = "out" => pc = "out",
         read_aborted' = read_aborted, reader' = "gone" <=> reader = "gone"
  PROVE  Stored'
BY DEF Stored, Drained, Kept

\* ... and are dropped together.
LEMMA StoredCut ==
  ASSUME TypeOK, Stored, UNCHANGED <<received, delivered>>, pending_read' = <<>>, incoming' = <<>>,
         read_aborted' \/ reader' = "gone"
  PROVE  Stored'
<1>1. Len(pending_read') = 0 /\ Len(incoming') = 0
  OBVIOUS
<1>2. /\ Len(delivered) \in Nat /\ Len(pending_read) \in Nat /\ Len(incoming) \in Nat
      /\ received \in Nat
  BY DEF TypeOK
<1>3. \A k : Run(pending_read', k) /\ Run(incoming', k)
  BY <1>1 DEF Run
<1> QED BY <1>1, <1>2, <1>3 DEF Stored, Drained, Kept

\* abort_reading() leaves buffers behind.
LEMMA AbortType ==
  ASSUME TypeOK, AbortReading
  PROVE  /\ read_aborted' \in BOOLEAN /\ pending_read' \in Seq(1 .. MaxUnits)
         /\ incoming' \in Seq(1 .. MaxUnits) /\ pc' \in {"out", "enter", "called"}
<1>1. CASE eof_received \/ read_aborted
  BY <1>1 DEF AbortReading, TypeOK
<1>2. CASE ~(eof_received \/ read_aborted)
  BY <1>2 DEF AbortReading, CallReadHandler, TypeOK
<1> QED BY <1>1, <1>2

\* on_eof(): the loop is entered, where a read that waits is told.
LEMMA OnEofStep ==
  ASSUME IInv, OnEof
  PROVE  IInv'
<1> USE DEF engine, reading, life, response, Plain, Idle, UserActs, MaybeClose, CallReadHandler,
            AbortReading, Fail
<1>1. TypeOK /\ Stored /\ Over /\ Handles /\ Waiting /\ Responds /\ OutInv(w) /\ Writes(w)
  BY DEF IInv, ReadInv, OutInv
<1>2. TypeOK'
  <2>1. eof_received' \in BOOLEAN /\ fin_next' \in BOOLEAN
    BY <1>1, BoundsAssumption DEF OnEof, TypeOK
  <2> QED BY <1>1, <2>1 DEF OnEof, TypeOK
<1>3. Stored'
  BY <1>1, StoredKept DEF OnEof, Responds
<1>4. Over'
  BY <1>1 DEF OnEof, TypeOK, Over, Silent, Handles
<1>5. Handles'
  BY <1>1 DEF OnEof, TypeOK, Handles
<1>6. Waiting'
  BY <1>1 DEF OnEof, TypeOK, Waiting, Stored, Over, Handles
<1>7. Responds'
  BY <1>1 DEF OnEof, TypeOK, Responds, Handles, Waiting, Over
<1>8. OutInv(w)'
  BY <1>1, Shifted DEF OnEof, TypeOK, Writes, Handles, Over
<1> QED BY <1>2, <1>3, <1>4, <1>5, <1>6, <1>7, <1>8 DEF IInv, ReadInv

\* RESET_STREAM: what is queued is dropped, and a read that waits is told.
LEMMA RecvResetStep ==
  ASSUME IInv, RecvReset
  PROVE  IInv'
<1> USE DEF engine, reading, life, response, Plain, Idle, UserActs, MaybeClose, CallReadHandler,
            AbortReading, Fail
<1>1. TypeOK /\ Stored /\ Over /\ Handles /\ Waiting /\ Responds /\ OutInv(w) /\ Writes(w)
  BY DEF IInv, ReadInv, OutInv
<1>2. TypeOK'
  <2>1. AbortReading
    BY DEF RecvReset
  <2> HIDE DEF AbortReading, CallReadHandler
  <2>2. /\ read_aborted' \in BOOLEAN /\ pending_read' \in Seq(1 .. MaxUnits)
        /\ incoming' \in Seq(1 .. MaxUnits) /\ pc' \in {"out", "enter", "called"}
    BY <1>1, <2>1, AbortType
  <2> QED BY <1>1, <2>2 DEF RecvReset, TypeOK
<1>3. Stored'
  <2>1. CASE eof_received \/ read_aborted
    BY <1>1, <2>1, StoredKept DEF RecvReset
  <2>2. CASE ~(eof_received \/ read_aborted)
    BY <1>1, <2>2, StoredCut DEF RecvReset
  <2> QED BY <2>1, <2>2
<1>4. Over'
  BY <1>1 DEF RecvReset, TypeOK, Over, Silent, Handles
<1>5. Handles'
  BY <1>1 DEF RecvReset, TypeOK, Handles
<1>6. Waiting'
  BY <1>1 DEF RecvReset, TypeOK, Waiting, Stored, Over, Handles
<1>7. Responds'
  BY <1>1 DEF RecvReset, TypeOK, Responds, Handles, Waiting, Over
<1>8. OutInv(w)'
  BY <1>1, Shifted DEF RecvReset, TypeOK, Writes, Handles, Over
<1> QED BY <1>2, <1>3, <1>4, <1>5, <1>6, <1>7, <1>8 DEF IInv, ReadInv

LEMMA StopSendingStep ==
  ASSUME IInv, StopSending
  PROVE  IInv'
<1> USE DEF engine, reading, life, response, Plain, Idle, UserActs, MaybeClose, CallReadHandler,
            AbortReading, Fail
<1>1. TypeOK /\ Stored /\ Over /\ Handles /\ Waiting /\ Responds /\ OutInv(w) /\ Writes(w)
  BY DEF IInv, ReadInv, OutInv
<1>2. TypeOK'
  <2>1. AbortReading /\ stopped' = TRUE
    BY DEF StopSending
  <2> HIDE DEF AbortReading, CallReadHandler
  <2>2. /\ read_aborted' \in BOOLEAN /\ pending_read' \in Seq(1 .. MaxUnits)
        /\ incoming' \in Seq(1 .. MaxUnits) /\ pc' \in {"out", "enter", "called"}
    BY <1>1, <2>1, AbortType
  <2>3. stopped' \in BOOLEAN
    BY <2>1
  <2>4. gave_up' \in BOOLEAN
    BY Zenon DEF StopSending, GivesUp
  <2> QED BY <1>1, <2>2, <2>3, <2>4 DEF StopSending, TypeOK
<1>3. Stored'
  <2>1. CASE eof_received \/ read_aborted
    BY <1>1, <2>1, StoredKept DEF StopSending
  <2>2. CASE ~(eof_received \/ read_aborted)
    BY <1>1, <2>2, StoredCut DEF StopSending
  <2> QED BY <2>1, <2>2
<1>4. Over'
  BY <1>1 DEF StopSending, TypeOK, Over, Silent, Handles
<1>5. Handles'
  BY <1>1 DEF StopSending, TypeOK, Handles
<1>6. Waiting'
  BY <1>1 DEF StopSending, TypeOK, Waiting, Stored, Over, Handles
<1>7. Responds'
  BY <1>1 DEF StopSending, TypeOK, Responds, Handles, Waiting, Over
<1>8. OutInv(w)'
  BY <1>1, Shifted DEF StopSending, TypeOK, Writes, Handles, Over
<1> QED BY <1>2, <1>3, <1>4, <1>5, <1>6, <1>7, <1>8 DEF IInv, ReadInv

\* The peer gives up, and nobody is told yet.
LEMMA UnreadStep ==
  ASSUME IInv, H3RecvReset \/ RecvUnread
  PROVE  IInv'
<1> USE DEF engine, reading, life, response, Plain, Idle, UserActs, MaybeClose, CallReadHandler,
            AbortReading, Fail
<1>1. TypeOK /\ Stored /\ Over /\ Handles /\ Waiting /\ Responds /\ OutInv(w) /\ Writes(w)
  BY DEF IInv, ReadInv, OutInv
<1>2. TypeOK'
  BY <1>1 DEF H3RecvReset, RecvUnread, TypeOK
<1>3. Stored'
  BY <1>1, StoredKept DEF H3RecvReset, RecvUnread, Responds
<1>4. Over'
  BY <1>1 DEF H3RecvReset, RecvUnread, TypeOK, Over, Silent, Handles
<1>5. Handles'
  BY <1>1 DEF H3RecvReset, RecvUnread, TypeOK, Handles
<1>6. Waiting'
  BY <1>1 DEF H3RecvReset, RecvUnread, TypeOK, Waiting, Stored, Over, Handles
<1>7. Responds'
  BY <1>1 DEF H3RecvReset, RecvUnread, TypeOK, Responds, Handles, Waiting, Over
<1>8. OutInv(w)'
  BY <1>1, Shifted DEF H3RecvReset, RecvUnread, TypeOK, Writes, Handles, Over
<1> QED BY <1>2, <1>3, <1>4, <1>5, <1>6, <1>7, <1>8 DEF IInv, ReadInv

\* async_read_some() enters the loop, so that no read waits for what is there.
LEMMA ReadSomeStep ==
  ASSUME IInv, NEW n \in 1 .. MaxChunk, ReadSome(n)
  PROVE  IInv'
<1> USE DEF engine, reading, life, response, Plain, Idle, UserActs, MaybeClose, CallReadHandler,
            AbortReading, Fail
<1>1. TypeOK /\ Stored /\ Over /\ Handles /\ Waiting /\ Responds /\ OutInv(w) /\ Writes(w)
  BY DEF IInv, ReadInv, OutInv
<1>2. TypeOK'
  BY <1>1 DEF ReadSome, TypeOK
<1>3. Stored'
  BY <1>1, StoredKept DEF ReadSome, Responds
<1>4. Over'
  BY <1>1 DEF ReadSome, TypeOK, Over, Silent, Handles
<1>5. Handles'
  BY <1>1 DEF ReadSome, TypeOK, Handles
<1>6. Waiting'
  BY <1>1 DEF ReadSome, TypeOK, Waiting, Stored, Over, Handles
<1>7. Responds'
  BY <1>1 DEF ReadSome, TypeOK, Responds, Handles, Waiting, Over
<1>8. OutInv(w)'
  BY <1>1, Shifted DEF ReadSome, TypeOK, Writes, Handles, Over
<1> QED BY <1>2, <1>3, <1>4, <1>5, <1>6, <1>7, <1>8 DEF IInv, ReadInv

LEMMA ReadDetachedStep ==
  ASSUME IInv, ReadDetached
  PROVE  IInv'
<1> USE DEF engine, reading, life, response, Plain, Idle, UserActs, MaybeClose, CallReadHandler,
            AbortReading, Fail
<1>1. TypeOK /\ Stored /\ Over /\ Handles /\ Waiting /\ Responds /\ OutInv(w) /\ Writes(w)
  BY DEF IInv, ReadInv, OutInv
<1>2. TypeOK'
  BY <1>1 DEF ReadDetached, TypeOK
<1>3. Stored'
  BY <1>1, StoredKept DEF ReadDetached, Responds
<1>4. Over'
  BY <1>1 DEF ReadDetached, TypeOK, Over, Silent, Handles
<1>5. Handles'
  BY <1>1 DEF ReadDetached, TypeOK, Handles
<1>6. Waiting'
  BY <1>1 DEF ReadDetached, TypeOK, Waiting, Stored, Over, Handles
<1>7. Responds'
  BY <1>1 DEF ReadDetached, TypeOK, Responds, Handles, Waiting, Over
<1>8. OutInv(w)'
  BY <1>1, Shifted DEF ReadDetached, TypeOK, Writes, Handles, Over
<1> QED BY <1>2, <1>3, <1>4, <1>5, <1>6, <1>7, <1>8 DEF IInv, ReadInv

LEMMA CancelReadStep ==
  ASSUME IInv, CancelRead
  PROVE  IInv'
<1> USE DEF engine, reading, life, response, Plain, Idle, UserActs, MaybeClose, CallReadHandler,
            AbortReading, Fail
<1>1. TypeOK /\ Stored /\ Over /\ Handles /\ Waiting /\ Responds /\ OutInv(w) /\ Writes(w)
  BY DEF IInv, ReadInv, OutInv
<1>2. TypeOK'
  <2>1. read_handler' \in 0 .. MaxChunk
    BY <1>1, BoundsAssumption DEF CancelRead, TypeOK
  <2> QED BY <1>1, <2>1 DEF CancelRead, TypeOK
<1>3. Stored'
  BY <1>1, StoredKept DEF CancelRead, Responds
<1>4. Over'
  BY <1>1 DEF CancelRead, TypeOK, Over, Silent, Handles
<1>5. Handles'
  BY <1>1 DEF CancelRead, TypeOK, Handles
<1>6. Waiting'
  BY <1>1 DEF CancelRead, TypeOK, Waiting, Stored, Over, Handles
<1>7. Responds'
  BY <1>1 DEF CancelRead, TypeOK, Responds, Handles, Waiting, Over
<1>8. OutInv(w)'
  BY <1>1, Shifted DEF CancelRead, TypeOK, Writes, Handles, Over
<1> QED BY <1>2, <1>3, <1>4, <1>5, <1>6, <1>7, <1>8 DEF IInv, ReadInv

\* delete_reader(): nothing arrives for a reader that is gone.
LEMMA ReleaseReaderStep ==
  ASSUME IInv, ReleaseReader
  PROVE  IInv'
<1> USE DEF engine, reading, life, response, Plain, Idle, UserActs, MaybeClose, CallReadHandler,
            AbortReading, Fail
<1>1. TypeOK /\ Stored /\ Over /\ Handles /\ Waiting /\ Responds /\ OutInv(w) /\ Writes(w)
  BY DEF IInv, ReadInv, OutInv
<1>2. TypeOK'
  <2>1. stopped' \in BOOLEAN /\ read_aborted' \in BOOLEAN
    BY <1>1 DEF ReleaseReader, TypeOK
  <2>2. registered' \in BOOLEAN /\ response_handler' \in BOOLEAN
    BY <1>1 DEF ReleaseReader, TypeOK
  <2>3. pending_read' \in Seq(1 .. MaxUnits) /\ incoming' \in Seq(1 .. MaxUnits)
    BY DEF ReleaseReader
  <2> QED BY <1>1, <2>1, <2>2, <2>3 DEF ReleaseReader, TypeOK
<1>3. Stored'
  BY <1>1, StoredCut DEF ReleaseReader
<1>4. Over'
  BY <1>1 DEF ReleaseReader, TypeOK, Over, Silent, Handles
<1>5. Handles'
  BY <1>1 DEF ReleaseReader, TypeOK, Handles
<1>6. Waiting'
  BY <1>1 DEF ReleaseReader, TypeOK, Waiting, Stored, Over, Handles
<1>7. Responds'
  BY <1>1 DEF ReleaseReader, TypeOK, Responds, Handles, Waiting, Over
<1>8. OutInv(w)'
  BY <1>1, Shifted DEF ReleaseReader, TypeOK, Writes, Handles, Over
<1> QED BY <1>2, <1>3, <1>4, <1>5, <1>6, <1>7, <1>8 DEF IInv, ReadInv

LEMMA ReleaseWriterStep ==
  ASSUME IInv, ReleaseWriter
  PROVE  IInv'
<1> USE DEF engine, reading, life, response, Plain, Idle, UserActs, MaybeClose, CallReadHandler,
            AbortReading, Fail
<1>1. TypeOK /\ Stored /\ Over /\ Handles /\ Waiting /\ Responds /\ OutInv(w) /\ Writes(w)
  BY DEF IInv, ReadInv, OutInv
<1>2. TypeOK'
  BY <1>1 DEF ReleaseWriter, TypeOK
<1>3. Stored'
  BY <1>1, StoredKept DEF ReleaseWriter, Responds
<1>4. Over'
  BY <1>1 DEF ReleaseWriter, TypeOK, Over, Silent, Handles
<1>5. Handles'
  BY <1>1 DEF ReleaseWriter, TypeOK, Handles
<1>6. Waiting'
  BY <1>1 DEF ReleaseWriter, TypeOK, Waiting, Stored, Over, Handles
<1>7. Responds'
  BY <1>1 DEF ReleaseWriter, TypeOK, Responds, Handles, Waiting, Over
<1>8. OutInv(w)'
  BY <1>1, Shifted DEF ReleaseWriter, TypeOK, Writes, Handles, Over
<1> QED BY <1>2, <1>3, <1>4, <1>5, <1>6, <1>7, <1>8 DEF IInv, ReadInv

\* delete_writer() of HTTP/3: a message that is cut short resets the stream.
LEMMA ReleaseH3WriterStep ==
  ASSUME IInv, ReleaseH3Writer
  PROVE  IInv'
<1> USE DEF engine, reading, life, response, Plain
<1>1. TypeOK /\ Stored /\ Over /\ Handles /\ Waiting /\ Responds /\ OutInv(w) /\ Writes(w)
  BY DEF IInv, ReadInv, OutInv
<1>2. /\ UserActs /\ writer = "attached" /\ w.op = "none" /\ ~response_handler /\ writer' = "gone"
      /\ UNCHANGED <<kind, mode, rx, strm, received, pending_read, incoming, eof_received,
                     read_aborted, pc, fin_next, delivered, w, reader, headers_submitted,
                     headers_received, response_delivered, failure_ec>>
  BY DEF ReleaseH3Writer
<1>3. /\ registered' \in BOOLEAN /\ (registered' => registered)
      /\ registered' = registered \/ (reader # "attached" /\ closed')
      /\ response_handler' = FALSE
  BY <1>1, <1>2 DEF ReleaseH3Writer, MaybeClose, Fail, TypeOK
<1>4. \/ /\ UNCHANGED <<tx, stopped, closed, failing, read_handler, last>>
         /\ closed \/ w.eof_submitted
      \/ /\ tx' = "reset" /\ stopped' = TRUE /\ closed' = TRUE
         /\ UNCHANGED <<failing, read_handler, last>>
      \/ /\ tx' = "reset" /\ stopped' = TRUE /\ closed' = TRUE /\ read_handler' = 0
         /\ failing' = (IF pc = "out" THEN "outer" ELSE "inner")
         /\ last' = last \/ (last' = "partial" /\ read_handler > 0)
  BY DEF ReleaseH3Writer, Fail
<1>5. TypeOK'
  <2>1. closed' \in BOOLEAN /\ stopped' \in BOOLEAN
    BY <1>1, <1>4 DEF TypeOK
  <2>2. tx' \in {"open", "reset"} /\ failing' \in {"no", "outer", "inner"}
    BY <1>1, <1>4 DEF TypeOK
  <2>3. read_handler' \in 0 .. MaxChunk /\ last' \in {"nothing", "data", "eof", "partial"}
    BY <1>1, <1>4, BoundsAssumption DEF TypeOK
  <2>4. response_handler' \in BOOLEAN
    BY <1>3
  <2>5. gave_up' \in BOOLEAN
    <3>1. gave_up' = gave_up \/ GivesUp
      BY DEF ReleaseH3Writer
    <3> QED BY <1>1, <3>1, Zenon DEF TypeOK, GivesUp
  <2> QED BY <1>1, <1>2, <1>3, <2>1, <2>2, <2>3, <2>4, <2>5 DEF TypeOK
<1>6. Stored'
  BY <1>1, <1>2, StoredKept
<1>7. Over'
  <2>1. closed => closed'
    BY <1>4
  <2>2. failing' = "inner" => pc = "called"
    BY <1>1, <1>2, <1>4 DEF UserActs, Over
  <2> QED BY <1>1, <1>2, <1>3, <1>4, <2>1, <2>2 DEF TypeOK, Over, Silent
<1>8. Handles'
  <2>1. reader \notin {"eof", "partial"} /\ registered
    BY <1>1, <1>2 DEF Handles
  <2>2. reader = "attached" => registered'
    BY <1>3, <2>1
  <2> QED BY <1>2, <2>1, <2>2 DEF Handles
<1>9. Waiting'
  BY <1>1, <1>2, <1>4, BoundsAssumption DEF Waiting, TypeOK
<1>10. Responds'
  BY <1>1, <1>2, <1>3, <1>4 DEF Responds, Waiting
<1>11. OutInv(w)'
  <2>1. tx' = tx \/ tx' = "reset"
    BY <1>4
  <2>2. closed => closed'
    BY <1>4
  <2>3. tx' = "open" /\ strm' = "open" => w.eof_submitted
    BY <1>1, <1>2, <1>4 DEF Over
  <2> QED BY <1>1, <1>2, <1>3, <2>1, <2>2, <2>3, Shifted
<1> QED BY <1>5, <1>6, <1>7, <1>8, <1>9, <1>10, <1>11 DEF IInv, ReadInv

\* ngtcp2 is done with the stream ...
LEMMA CloseStep ==
  ASSUME IInv, NEW ec \in {"ok", "error"}, Closes(ec)
  PROVE  IInv'
<1> USE DEF engine, reading, life, response, Plain, Idle, UserActs, MaybeClose, CallReadHandler,
            AbortReading, Fail
<1>1. TypeOK /\ Stored /\ Over /\ Handles /\ Waiting /\ Responds /\ OutInv(w) /\ Writes(w)
  BY DEF IInv, ReadInv, OutInv
<1>2. TypeOK'
  <2>1. closed' \in BOOLEAN /\ read_handler' \in 0 .. MaxChunk
        /\ last' \in {"nothing", "data", "eof", "partial"}
    BY <1>1, BoundsAssumption DEF Closes, TypeOK
  <2> QED BY <1>1, <2>1 DEF Closes, TypeOK
<1>3. Stored'
  BY <1>1, StoredKept DEF Closes, Responds
<1>4. Over'
  BY <1>1 DEF Closes, TypeOK, Over, Silent, Handles
<1>5. Handles'
  BY <1>1 DEF Closes, TypeOK, Handles
<1>6. Waiting'
  BY <1>1 DEF Closes, TypeOK, Waiting, Stored, Over, Handles
<1>7. Responds'
  BY <1>1 DEF Closes, TypeOK, Responds, Handles, Waiting, Over
<1>8. OutInv(w)'
  BY <1>1, Shifted DEF Closes, TypeOK, Writes, Handles, Over
<1> QED BY <1>2, <1>3, <1>4, <1>5, <1>6, <1>7, <1>8 DEF IInv, ReadInv

\* ... or with the connection.
LEMMA ConnectionFailsStep ==
  ASSUME IInv, ConnectionFails
  PROVE  IInv'
<1> USE DEF engine, reading, life, response, Plain, Idle, UserActs, MaybeClose, CallReadHandler,
            AbortReading, Fail
<1>1. TypeOK /\ Stored /\ Over /\ Handles /\ Waiting /\ Responds /\ OutInv(w) /\ Writes(w)
  BY DEF IInv, ReadInv, OutInv
<1>2. TypeOK'
  <2>1. closed' \in BOOLEAN /\ read_handler' \in 0 .. MaxChunk
        /\ last' \in {"nothing", "data", "eof", "partial"}
    BY <1>1, BoundsAssumption DEF ConnectionFails, TypeOK
  <2> QED BY <1>1, <2>1 DEF ConnectionFails, TypeOK
<1>3. Stored'
  BY <1>1, StoredKept DEF ConnectionFails, Responds
<1>4. Over'
  BY <1>1 DEF ConnectionFails, TypeOK, Over, Silent, Handles
<1>5. Handles'
  BY <1>1 DEF ConnectionFails, TypeOK, Handles
<1>6. Waiting'
  BY <1>1 DEF ConnectionFails, TypeOK, Waiting, Stored, Over, Handles
<1>7. Responds'
  BY <1>1 DEF ConnectionFails, TypeOK, Responds, Handles, Waiting, Over
<1>8. OutInv(w)'
  BY <1>1, Shifted DEF ConnectionFails, TypeOK, Writes, Handles, Over
<1> QED BY <1>2, <1>3, <1>4, <1>5, <1>6, <1>7, <1>8 DEF IInv, ReadInv

\* A response comes, or one that is too large, and with it the reader.
LEMMA HeadersStep ==
  ASSUME IInv, NEW too_large \in BOOLEAN, OnHeadersComplete(too_large)
  PROVE  IInv'
<1> USE DEF engine, reading, life, response, Plain, Idle, UserActs, MaybeClose, CallReadHandler,
            AbortReading, Fail
<1>1. TypeOK /\ Stored /\ Over /\ Handles /\ Waiting /\ Responds /\ OutInv(w) /\ Writes(w)
  BY DEF IInv, ReadInv, OutInv
<1>2. TypeOK'
  <2>1. /\ UNCHANGED <<kind, mode, rx, strm, received, pending_read, incoming, delivered,
                     read_handler, eof_received, read_aborted, fin_next, last, w, closed,
                     registered, gave_up, pc, failing, writer, headers_submitted>>
        /\ tx' \in {tx, "reset"} /\ stopped' = too_large
        /\ headers_received' = ~too_large /\ failure_ec' \in {failure_ec, "header_limit"}
        /\ response_delivered' = response_handler /\ response_handler' = FALSE
        /\ reader' \in {reader, "attached"}
    BY Zenon DEF OnHeadersComplete
  <2>2. /\ stopped' \in BOOLEAN /\ headers_received' \in BOOLEAN
        /\ response_delivered' \in BOOLEAN /\ response_handler' \in BOOLEAN
    BY <1>1, <2>1, Zenon DEF TypeOK
  <2> QED BY <1>1, <2>1, <2>2 DEF TypeOK
<1>3. Stored'
  BY <1>1, StoredKept DEF OnHeadersComplete, Responds
<1>4. Over'
  BY <1>1 DEF OnHeadersComplete, TypeOK, Over, Silent, Handles
<1>5. Handles'
  BY <1>1 DEF OnHeadersComplete, TypeOK, Handles
<1>6. Waiting'
  BY <1>1 DEF OnHeadersComplete, TypeOK, Waiting, Stored, Over, Handles
<1>7. Responds'
  BY <1>1 DEF OnHeadersComplete, TypeOK, Responds, Handles, Waiting, Over
<1>8. OutInv(w)'
  BY <1>1, Shifted DEF OnHeadersComplete, TypeOK, Writes, Handles, Over
<1> QED BY <1>2, <1>3, <1>4, <1>5, <1>6, <1>7, <1>8 DEF IInv, ReadInv

LEMMA GetResponseStep ==
  ASSUME IInv, GetResponse
  PROVE  IInv'
<1> USE DEF engine, reading, life, response, Plain, Idle, UserActs, MaybeClose, CallReadHandler,
            AbortReading, Fail
<1>1. TypeOK /\ Stored /\ Over /\ Handles /\ Waiting /\ Responds /\ OutInv(w) /\ Writes(w)
  BY DEF IInv, ReadInv, OutInv
<1>2. TypeOK'
  BY <1>1 DEF GetResponse, TypeOK
<1>3. Stored'
  BY <1>1, StoredKept DEF GetResponse, Responds
<1>4. Over'
  BY <1>1 DEF GetResponse, TypeOK, Over, Silent, Handles
<1>5. Handles'
  BY <1>1 DEF GetResponse, TypeOK, Handles
<1>6. Waiting'
  BY <1>1 DEF GetResponse, TypeOK, Waiting, Stored, Over, Handles
<1>7. Responds'
  BY <1>1 DEF GetResponse, TypeOK, Responds, Handles, Waiting, Over
<1>8. OutInv(w)'
  BY <1>1, Shifted DEF GetResponse, TypeOK, Writes, Handles, Over
<1> QED BY <1>2, <1>3, <1>4, <1>5, <1>6, <1>7, <1>8 DEF IInv, ReadInv

LEMMA CancelGetResponseStep ==
  ASSUME IInv, CancelGetResponse
  PROVE  IInv'
<1> USE DEF engine, reading, life, response, Plain, Idle, UserActs, MaybeClose, CallReadHandler,
            AbortReading, Fail
<1>1. TypeOK /\ Stored /\ Over /\ Handles /\ Waiting /\ Responds /\ OutInv(w) /\ Writes(w)
  BY DEF IInv, ReadInv, OutInv
<1>2. TypeOK'
  <2>1. response_handler' \in BOOLEAN
    BY <1>1, BoundsAssumption DEF CancelGetResponse, TypeOK
  <2> QED BY <1>1, <2>1 DEF CancelGetResponse, TypeOK
<1>3. Stored'
  BY <1>1, StoredKept DEF CancelGetResponse, Responds
<1>4. Over'
  BY <1>1 DEF CancelGetResponse, TypeOK, Over, Silent, Handles
<1>5. Handles'
  BY <1>1 DEF CancelGetResponse, TypeOK, Handles
<1>6. Waiting'
  BY <1>1 DEF CancelGetResponse, TypeOK, Waiting, Stored, Over, Handles
<1>7. Responds'
  BY <1>1 DEF CancelGetResponse, TypeOK, Responds, Handles, Waiting, Over
<1>8. OutInv(w)'
  BY <1>1, Shifted DEF CancelGetResponse, TypeOK, Writes, Handles, Over
<1> QED BY <1>2, <1>3, <1>4, <1>5, <1>6, <1>7, <1>8 DEF IInv, ReadInv

-----------------------------------------------------------------------------
(* Writes that are ended from outside.                                     *)

\* abort_writing() and fail() end the active write.
LEMMA EndFacts ==
  ASSUME NEW v, v \in WriteState, NEW u, u = AbortWriting(v) \/ u = FailEndsWrites(v)
  PROVE  /\ u \in WriteState /\ ~u.active /\ SameOffsets(v, u)
         /\ u.size = 0 \/ (u.size = v.size /\ ~v.active)
         /\ u.op = "held" => v.op = "held" /\ ~v.active
         /\ u.eof_submitted = v.eof_submitted /\ u.fin_offered = v.fin_offered
         /\ u.end_told = v.end_told
<1>1. CASE u = AbortWriting(v)
  BY <1>1, ZenonT(30) DEF WriteState, AbortWriting, SameOffsets
<1>2. CASE u = FailEndsWrites(v)
  BY <1>2, ZenonT(30) DEF WriteState, FailEndsWrites, SameOffsets
<1> QED BY <1>1, <1>2

\* What abort_writing() says of the stream, and that fail() does not.
LEMMA AbortFacts ==
  ASSUME NEW v, v \in WriteState
  PROVE  AbortWriting(v).aborted /\ FailEndsWrites(v).aborted = v.aborted
BY DEF WriteState, AbortWriting, FailEndsWrites

LEMMA EndedWrites ==
  ASSUME TypeOK, OutInv(w), w' = AbortWriting(w) \/ w' = FailEndsWrites(w),
         kind' = kind, mode' = mode, received' = received, headers_submitted' = headers_submitted,
         strm' # "open" \/ tx' # "open",
         closed' \/ w'.aborted \/ ~registered', w'.aborted => tx' = "reset",
         writer' = "ended" => w.fin_offered
  PROVE  OutInv(w)'
<1> USE DEF Plain
<1>1. Good(w) /\ Level(w) /\ Writes(w) /\ w \in WriteState
  BY DEF OutInv, Good
<1>2. /\ w' \in WriteState /\ ~w'.active /\ SameOffsets(w, w')
      /\ w'.size = 0 \/ (w'.size = w.size /\ ~w.active)
      /\ w'.op = "held" => w.op = "held" /\ ~w.active
      /\ w'.eof_submitted = w.eof_submitted /\ w'.fin_offered = w.fin_offered
      /\ w'.end_told = w.end_told
  BY <1>1, EndFacts
<1>3. w'.op # "held"
  BY <1>1, <1>2 DEF Good, Active
<1>4. Room(w)'
  BY <1>1, <1>2, BoundsAssumption DEF Good, Room, SameOffsets
<1>5. Offsets(w)'
  BY <1>1, <1>2 DEF Good, Offsets, SameOffsets
<1>6. Held(w)' /\ Active(w)'
  BY <1>2, <1>3 DEF Held, Active
<1>7. Ends(w)'
  BY <1>1, <1>2 DEF Good, Ends
<1>8. Good(w)'
  BY <1>2, <1>4, <1>5, <1>6, <1>7 DEF Good
<1>9. Level(w)'
  BY <1>1, <1>2 DEF Level, SameOffsets
<1>10. Writes(w)'
  BY <1>1, <1>2, <1>3 DEF Writes, Unfinished
<1>11. ~Due(w)'
  BY DEF Due
<1> QED BY <1>8, <1>9, <1>10, <1>11 DEF OutInv

\* STOP_SENDING of the peer.
LEMMA RecvStopSendingStep ==
  ASSUME IInv, RecvStopSending
  PROVE  IInv'
<1> USE DEF engine, reading, life, response
<1>1. TypeOK /\ Stored /\ Over /\ Handles /\ Waiting /\ Responds /\ OutInv(w) /\ Writes(w)
  BY DEF IInv, ReadInv, OutInv
<1>2. /\ strm = "open" /\ tx' = "reset" /\ w' = IF Plain THEN AbortWriting(w) ELSE w
      /\ UNCHANGED <<kind, mode, rx, strm, stopped, reading, life, reader, writer, response>>
  BY DEF RecvStopSending
<1>3. OutInv(w)'
  <2>1. CASE Plain
    <3>1. w' = AbortWriting(w) /\ w'.aborted
      BY <1>1, <1>2, <2>1, AbortFacts DEF OutInv, Good
    <3> QED BY <1>1, <1>2, <3>1, EndedWrites DEF Writes
  <2>2. CASE ~Plain
    BY <1>1, <1>2, <2>2, Shifted DEF Writes
  <2> QED BY <2>1, <2>2
<1>4. TypeOK'
  <2>1. w' \in WriteState /\ w'.size <= MaxUnits /\ w'.queued <= MaxUnits
    BY <1>1, <1>2, <1>3, OutBounds
  <2> QED BY <1>1, <1>2, <2>1 DEF TypeOK
<1>5. Stored' /\ Over'
  BY <1>1, <1>2 DEF Stored, Drained, Kept, Over, Silent
<1>6. Handles' /\ Waiting' /\ Responds'
  BY <1>1, <1>2 DEF Handles, Waiting, Responds
<1> QED BY <1>3, <1>4, <1>5, <1>6 DEF IInv, ReadInv

\* Stream::reset_stream().
LEMMA ResetStreamStep ==
  ASSUME IInv, ResetStream
  PROVE  IInv'
<1> USE DEF engine, reading, life, response
<1>1. TypeOK /\ Stored /\ Over /\ Handles /\ Waiting /\ Responds /\ OutInv(w) /\ Writes(w)
  BY DEF IInv, ReadInv, OutInv
<1>2. /\ tx' = "reset" /\ w' = AbortWriting(w)
      /\ UNCHANGED <<kind, mode, rx, strm, stopped, reading, life, reader, writer, response>>
  BY DEF ResetStream
<1>3. OutInv(w)'
  <2>1. w'.aborted
    BY <1>1, <1>2, AbortFacts DEF OutInv, Good
  <2> QED BY <1>1, <1>2, <2>1, EndedWrites DEF Writes
<1>4. TypeOK'
  <2>1. w' \in WriteState /\ w'.size <= MaxUnits /\ w'.queued <= MaxUnits
    BY <1>1, <1>2, <1>3, OutBounds
  <2> QED BY <1>1, <1>2, <2>1 DEF TypeOK
<1>5. Stored' /\ Over'
  BY <1>1, <1>2 DEF Stored, Drained, Kept, Over, Silent
<1>6. Handles' /\ Waiting' /\ Responds'
  BY <1>1, <1>2 DEF Handles, Waiting, Responds
<1> QED BY <1>3, <1>4, <1>5, <1>6 DEF IInv, ReadInv

\* delete_writer() of a plain stream.
LEMMA ReleasePlainWriterStep ==
  ASSUME IInv, ReleasePlainWriter
  PROVE  IInv'
<1> USE DEF engine, reading, life, response
<1>1. TypeOK /\ Stored /\ Over /\ Handles /\ Waiting /\ Responds /\ OutInv(w) /\ Writes(w)
  BY DEF IInv, ReadInv, OutInv
<1> DEFINE cut == ~closed /\ ~w.aborted /\ ~w.eof_submitted
<1>2. /\ writer = "attached" /\ w.op = "none" /\ writer' = "gone"
      /\ tx' = (IF cut THEN "reset" ELSE tx) /\ w' = (IF cut THEN AbortWriting(w) ELSE w)
      /\ UNCHANGED <<kind, mode, rx, strm, stopped, reading, closed, failing, gave_up, reader,
                     headers_submitted, headers_received, response_delivered, failure_ec>>
  BY DEF ReleasePlainWriter
<1>3. /\ registered' \in BOOLEAN /\ (registered' => registered)
      /\ reader = "attached" => registered' = registered
      /\ response_handler' \in BOOLEAN /\ (response_handler' => response_handler)
  BY <1>1 DEF ReleasePlainWriter, MaybeClose, TypeOK
<1>4. kind = "plain" /\ ~response_handler
  BY <1>1 DEF ReleasePlainWriter, Plain, Responds
<1>5. OutInv(w)'
  <2>1. CASE cut
    <3>1. w' = AbortWriting(w) /\ w'.aborted /\ tx' = "reset"
      BY <1>1, <1>2, <2>1, AbortFacts DEF OutInv, Good
    <3> QED BY <1>1, <1>2, <3>1, EndedWrites
  <2>2. CASE ~cut
    <3>1. w' = w /\ tx' = tx
      BY <1>2, <2>2
    <3>2. tx = "open" /\ strm = "open" => w.eof_submitted
      BY <1>1, <2>2 DEF Over, Writes
    <3> QED BY <1>1, <1>2, <1>3, <3>1, <3>2, Shifted
  <2> QED BY <2>1, <2>2
<1>6. TypeOK'
  <2>1. w' \in WriteState /\ w'.size <= MaxUnits /\ w'.queued <= MaxUnits
    BY <1>1, <1>2, <1>5, OutBounds
  <2>2. tx' \in {"open", "reset"}
    BY <1>1, <1>2 DEF TypeOK
  <2> QED BY <1>1, <1>2, <1>3, <2>1, <2>2 DEF TypeOK
<1>7. Stored'
  BY <1>1, <1>2, StoredKept
<1>8. Over'
  <2>1. tx = "reset" => tx' = "reset"
    BY <1>2
  <2> HIDE DEF cut
  <2> QED BY <1>1, <1>2, <1>3, <2>1 DEF Over, Silent
<1> HIDE DEF cut
<1>9. Handles'
  <2>1. reader \notin {"eof", "partial"} /\ registered
    BY <1>1, <1>2 DEF Handles
  <2>2. reader = "attached" => registered'
    BY <1>3, <2>1
  <2> QED BY <1>2, <2>1, <2>2 DEF Handles
<1>10. Waiting' /\ Responds'
  BY <1>1, <1>2, <1>3, <1>4 DEF Waiting, Responds
<1> QED BY <1>5, <1>6, <1>7, <1>8, <1>9, <1>10 DEF IInv, ReadInv

\* The rest of fail(): the write and the get_response() that wait are told.
LEMMA FailReturnsStep ==
  ASSUME IInv, FailReturns
  PROVE  IInv'
<1> USE DEF engine, reading, life, response
<1>1. TypeOK /\ Stored /\ Over /\ Handles /\ Waiting /\ Responds /\ OutInv(w) /\ Writes(w)
  BY DEF IInv, ReadInv, OutInv
<1>2. /\ failing # "no" /\ failing' = "no" /\ w' = FailEndsWrites(w)
      /\ failure_ec' \in {failure_ec, "other"}
      /\ UNCHANGED <<engine, reading, closed, gave_up, reader, writer, headers_submitted,
                     headers_received>>
  BY DEF FailReturns
<1>3. /\ registered' \in BOOLEAN /\ (registered' => registered)
      /\ reader = "attached" \/ writer = "attached" => registered' = registered
      /\ response_delivered' \in BOOLEAN /\ (response_delivered => response_delivered')
  BY <1>1 DEF FailReturns, TypeOK
<1>4. response_handler' = FALSE
  BY <1>1 DEF FailReturns, Responds, TypeOK
<1>5. closed /\ (strm # "open" \/ tx # "open")
  BY <1>1, <1>2 DEF Over, TypeOK
<1>6. OutInv(w)'
  <2>1. w'.aborted = w.aborted
    BY <1>1, <1>2, AbortFacts DEF OutInv, Good
  <2> QED BY <1>1, <1>2, <1>5, <2>1, EndedWrites DEF Writes
<1>7. TypeOK'
  <2>1. w' \in WriteState /\ w'.size <= MaxUnits /\ w'.queued <= MaxUnits
    BY <1>1, <1>2, <1>6, OutBounds
  <2>2. response_handler' \in BOOLEAN
    BY <1>4
  <2> QED BY <1>1, <1>2, <1>3, <2>1, <2>2 DEF TypeOK
<1>8. Stored'
  BY <1>1, <1>2, StoredKept
<1>9. Over'
  BY <1>1, <1>2, <1>3, <1>5 DEF Over, Silent
<1>10. Handles'
  BY <1>1, <1>2, <1>3 DEF Handles
<1>11. Waiting' /\ Responds'
  BY <1>1, <1>2, <1>3, <1>4 DEF Waiting, Responds
<1> QED BY <1>6, <1>7, <1>8, <1>9, <1>10, <1>11 DEF IInv, ReadInv

\* clear_streams(): what waits is told, and the handles are detached.
LEMMA SessionEndsStep ==
  ASSUME IInv, SessionEnds
  PROVE  IInv'
<1> USE DEF engine, reading, life, response
<1>1. TypeOK /\ Stored /\ Over /\ Handles /\ Waiting /\ Responds /\ OutInv(w) /\ Writes(w)
  BY DEF IInv, ReadInv, OutInv
<1>2. /\ Idle /\ registered' = FALSE /\ strm' = "closed" /\ w' = FailEndsWrites(w)
      /\ read_handler' = 0 /\ last' = (IF read_handler > 0 THEN "partial" ELSE last)
      /\ response_handler' = FALSE
      /\ UNCHANGED <<kind, mode, rx, tx, stopped, received, pending_read, incoming, eof_received,
                   read_aborted, pc, fin_next, delivered, closed, failing, gave_up,
                   headers_submitted, headers_received, response_delivered, failure_ec>>
  BY DEF SessionEnds
<1>3. /\ reader # "attached" => reader' = reader
      /\ reader = "attached" => reader' \in {"eof", "partial"}
  BY DEF SessionEnds, DetachReader
<1>4. /\ writer # "attached" => writer' = writer
      /\ writer = "attached" => writer' \in {"ended", "cut"}
      /\ writer' = "ended" => w.fin_offered
  BY <1>1 DEF SessionEnds, DetachWriter, Writes
<1>5. OutInv(w)'
  <2>1. w'.aborted = w.aborted
    BY <1>1, <1>2, AbortFacts DEF OutInv, Good
  <2> QED BY <1>1, <1>2, <1>4, <2>1, EndedWrites DEF Writes
<1>6. TypeOK'
  <2>1. w' \in WriteState /\ w'.size <= MaxUnits /\ w'.queued <= MaxUnits
    BY <1>1, <1>2, <1>5, OutBounds
  <2>2. response_handler' \in BOOLEAN /\ registered' \in BOOLEAN
    BY <1>2
  <2>3. /\ read_handler' \in 0 .. MaxChunk /\ last' \in {"nothing", "data", "eof", "partial"}
        /\ reader' \in {"none", "attached", "eof", "partial", "gone"}
        /\ writer' \in {"attached", "ended", "cut", "gone"}
    BY <1>1, <1>2, <1>3, <1>4, BoundsAssumption DEF TypeOK
  <2> QED BY <1>1, <1>2, <2>1, <2>2, <2>3 DEF TypeOK
<1>7. Stored'
  BY <1>1, <1>2, <1>3, StoredKept
<1>8. Over'
  BY <1>1, <1>2 DEF Over, Silent
<1>9. Handles'
  BY <1>1, <1>2, <1>3, <1>4 DEF Handles
<1>10. Waiting' /\ Responds'
  BY <1>1, <1>2, <1>3, BoundsAssumption DEF Waiting, Responds, TypeOK
<1> QED BY <1>5, <1>6, <1>7, <1>8, <1>9, <1>10 DEF IInv, ReadInv

\* The write that is cancelled, unless it is a bare end.
Abandoned(v, reset) ==
    [v EXCEPT
         !.aborted = v.aborted \/ (reset /\ Plain),
         !.queued = IF mode = "ZeroCopy" THEN v.offered ELSE v.queued,
         !.eof_submitted = /\ v.eof_submitted
                           /\ ~(v.is_eof /\ (mode = "ZeroCopy" \/ ~v.fin_offered)),
         !.active = FALSE, !.size = 0, !.op = "posted"]

LEMMA AbandonedFacts ==
  ASSUME NEW v, v \in WriteState, NEW b \in BOOLEAN, NEW u, u = Abandoned(v, b)
  PROVE  /\ u \in WriteState /\ ~u.active /\ u.size = 0 /\ u.op = "posted"
         /\ u.aborted <=> v.aborted \/ (b /\ Plain)
         /\ u.queued = IF mode = "ZeroCopy" THEN v.offered ELSE v.queued
         /\ u.eof_submitted <=> /\ v.eof_submitted
                                /\ ~(v.is_eof /\ (mode = "ZeroCopy" \/ ~v.fin_offered))
         /\ u.offered = v.offered /\ u.sent = v.sent /\ u.acked = v.acked /\ u.chunks = v.chunks
         /\ u.fin_offered = v.fin_offered /\ u.end_told = v.end_told
         /\ u.scheduled = v.scheduled /\ u.blocked = v.blocked
<1> DEFINE a == v.aborted \/ (b /\ Plain)
           q == IF mode = "ZeroCopy" THEN v.offered ELSE v.queued
           e == v.eof_submitted /\ ~(v.is_eof /\ (mode = "ZeroCopy" \/ ~v.fin_offered))
<1>1. a \in BOOLEAN /\ q \in Nat /\ e \in BOOLEAN
  BY DEF WriteState
<1>2. u = [v EXCEPT !.aborted = a, !.queued = q, !.eof_submitted = e,
                    !.active = FALSE, !.size = 0, !.op = "posted"]
  BY DEF Abandoned
<1>3. /\ a <=> v.aborted \/ (b /\ Plain)
      /\ e <=> v.eof_submitted /\ ~(v.is_eof /\ (mode = "ZeroCopy" \/ ~v.fin_offered))
  OBVIOUS
<1> HIDE DEF a, q, e
<1>4. u \in WriteState
  <2> DEFINE x == [v EXCEPT !.aborted = a, !.queued = q, !.eof_submitted = e]
  <2>1. x \in WriteState
    BY <1>1 DEF WriteState
  <2>2. u = [x EXCEPT !.active = FALSE, !.size = 0, !.op = "posted"]
    BY <1>2
  <2> HIDE DEF x
  <2>3. FALSE \in BOOLEAN /\ 0 \in Nat /\ "posted" \in {"none", "held", "posted"}
    OBVIOUS
  <2> QED BY <2>1, <2>2, <2>3, Zenon DEF WriteState
<1>6. u.active = FALSE /\ u.size = 0 /\ u.op = "posted"
  BY <1>2 DEF WriteState
<1>7. u.aborted = a /\ u.queued = q /\ u.eof_submitted = e
  BY <1>2 DEF WriteState
<1>5. /\ u.offered = v.offered /\ u.sent = v.sent /\ u.acked = v.acked /\ u.chunks = v.chunks
      /\ u.fin_offered = v.fin_offered /\ u.end_told = v.end_told
      /\ u.scheduled = v.scheduled /\ u.blocked = v.blocked
  BY <1>2 DEF WriteState
<1> QED BY <1>3, <1>4, <1>5, <1>6, <1>7 DEF q

\* bind_write_cancellation(): a ZeroCopy write that the stack still points to takes the stream
\* with it; what was copied goes out.
LEMMA CancelWriteStep ==
  ASSUME IInv, CancelWrite
  PROVE  IInv'
<1> USE DEF engine, reading, life, response
<1>1. TypeOK /\ Stored /\ Over /\ Handles /\ Waiting /\ Responds /\ OutInv(w)
  BY DEF IInv, ReadInv, OutInv
<1>2. Good(w) /\ Level(w) /\ Writes(w) /\ w \in WriteState /\ (Due(w) => w.scheduled)
  BY <1>1 DEF OutInv, Good
<1>3. /\ w.op = "held" /\ w.active /\ ~w.aborted /\ writer = "attached"
      /\ UNCHANGED <<kind, mode, rx, strm, reading, failing, registered, reader, writer, response>>
  BY <1>2 DEF CancelWrite, Good, Active, Writes
<1>4. CASE w.is_eof /\ w.size = 0
  <2>1. w' = [w EXCEPT !.op = "posted"] /\ UNCHANGED <<tx, stopped, closed, gave_up>>
    BY <1>4 DEF CancelWrite
  <2>2. SameButOp(w, w') /\ w'.op = "posted" /\ w'.end_told = w.end_told
    BY <1>2, <2>1 DEF WriteState, SameButOp, SameOffsets
  <2>3. w'.end_told => w.fin_offered
    BY <1>2, <2>2 DEF Good, Ends
  <2>4. OutInv(w')
    BY <1>1, <1>4, <2>2, <2>3, OpInv
  <2> QED BY <1>3, <2>1, <2>4, WritesOnly
<1>5. CASE ~(w.is_eof /\ w.size = 0)
  <2> DEFINE b == MustReset
  <2>1. /\ tx' = (IF MustReset THEN "reset" ELSE tx)
        /\ stopped' = (stopped \/ (MustReset /\ ~Plain))
        /\ closed' = (closed \/ (MustReset /\ ~Plain))
        /\ w' = Abandoned(w, b)
    BY <1>5 DEF CancelWrite, Abandoned
  <2>2. b \in BOOLEAN /\ (b <=> MustReset)
    BY DEF MustReset
  <2> HIDE DEF b
  <2>3. /\ w' \in WriteState /\ ~w'.active /\ w'.size = 0 /\ w'.op = "posted"
        /\ w'.aborted <=> w.aborted \/ (b /\ Plain)
        /\ w'.queued = IF mode = "ZeroCopy" THEN w.offered ELSE w.queued
        /\ w'.eof_submitted <=> /\ w.eof_submitted
                                /\ ~(w.is_eof /\ (mode = "ZeroCopy" \/ ~w.fin_offered))
        /\ w'.offered = w.offered /\ w'.sent = w.sent /\ w'.acked = w.acked /\ w'.chunks = w.chunks
        /\ w'.fin_offered = w.fin_offered /\ w'.end_told = w.end_told
        /\ w'.scheduled = w.scheduled /\ w'.blocked = w.blocked
    BY <1>2, <2>1, <2>2, AbandonedFacts
  <2>4. /\ closed' \in BOOLEAN /\ stopped' \in BOOLEAN /\ tx' \in {"open", "reset"}
    BY <1>1, <2>1 DEF TypeOK
  <2>5. /\ (closed => closed') /\ (stopped => stopped') /\ (tx' = "open" => tx = "open")
        /\ closed' => closed \/ (stopped' /\ tx' = "reset")
        /\ MustReset => tx' = "reset"
    BY <2>1
  <2>6. mode = "ZeroCopy" /\ strm = "open" /\ tx' = "open" => w.offered = w.acked
    <3>1. SUFFICES ASSUME mode = "ZeroCopy", strm = "open", tx' = "open" PROVE w.offered = w.acked
      OBVIOUS
    <3>2. ~closed /\ ~MustReset
      BY <1>1, <2>5, <3>1 DEF Over
    <3>3. ~(w.offered > w.acked)
      BY <1>3, <3>1, <3>2 DEF MustReset
    <3> QED BY <1>2, <3>3 DEF Good, Offsets, WriteState
  <2>7. Room(w)'
    <3>1. received \in Nat /\ MaxUnits \in Nat
      BY <1>1, BoundsAssumption DEF TypeOK
    <3> QED BY <1>2, <1>3, <2>3, <3>1 DEF Good, Room, Offsets, WriteState
  <2>8. Offsets(w)'
    BY <1>1, <1>2, <1>3, <2>3, SMTT(30) DEF TypeOK, Good, Offsets, WriteState
  <2>9. Held(w)'
    BY <1>3, <2>3, <2>6 DEF Held
  <2>10. Active(w)'
    BY <2>3 DEF Active
  <2>11. Ends(w)'
    <3>1. w.eof_submitted <=> w.is_eof
      BY <1>2, <1>3 DEF Good, Active
    <3>2. w.fin_offered /\ strm = "open" /\ tx' = "open" =>
              w'.eof_submitted /\ w'.offered = w'.queued
      <4>1. SUFFICES ASSUME w.fin_offered, strm = "open", tx' = "open"
                     PROVE  w'.eof_submitted /\ w'.offered = w'.queued
        OBVIOUS
      <4>2. w.eof_submitted /\ w.offered = w.queued /\ w.is_eof
        BY <1>2, <2>5, <3>1, <4>1 DEF Good, Ends
      <4>3. mode # "ZeroCopy"
        <5>1. SUFFICES ASSUME mode = "ZeroCopy" PROVE FALSE
          OBVIOUS
        <5>2. w.size > 0
          BY <1>2, <1>5, <4>2 DEF WriteState
        <5>3. w.acked < w.queued
          BY <1>2, <1>3, <5>1, <5>2 DEF Writes, Unfinished
        <5> QED BY <1>2, <2>6, <4>1, <4>2, <5>1, <5>3 DEF WriteState
      <4> QED BY <2>3, <4>1, <4>2, <4>3
    <3>3. w'.eof_submitted => w.fin_offered
      BY <2>3, <3>1
    <3>4. w'.end_told => w'.fin_offered
      BY <1>2, <2>3 DEF Good, Ends
    <3> QED BY <1>3, <2>3, <3>2, <3>3, <3>4 DEF Ends, Copied
  <2>12. Good(w)'
    BY <2>3, <2>7, <2>8, <2>9, <2>10, <2>11 DEF Good
  <2>13. Level(w)'
    BY <1>2, <1>3, <2>3 DEF Level, Plain
  <2>14. Writes(w)'
    BY <1>2, <1>3, <2>2, <2>3, <2>5 DEF Writes, Unfinished
  <2>15. Due(w)' => w'.scheduled
    BY <1>1, <1>2, <1>3, <2>3, <2>5 DEF TypeOK, Due, More, Upto, Carves, Copied, Plain
  <2>16. OutInv(w)'
    BY <2>12, <2>13, <2>14, <2>15 DEF OutInv
  <2>17. TypeOK'
    <3>1. w' \in WriteState /\ w'.size <= MaxUnits /\ w'.queued <= MaxUnits
      BY <1>1, <1>3, <2>16, OutBounds
    <3>2. gave_up' \in BOOLEAN
      <4>1. gave_up' = gave_up \/ GivesUp
        BY <1>5 DEF CancelWrite
      <4> QED BY <1>1, <4>1, Zenon DEF TypeOK, GivesUp
    <3> QED BY <1>1, <1>3, <2>4, <3>1, <3>2 DEF TypeOK
  <2>18. Stored'
    BY <1>1, <1>3, StoredKept
  <2>19. Over'
    BY <1>1, <1>3, <2>4, <2>5 DEF Over, Silent, TypeOK
  <2>20. Handles' /\ Waiting' /\ Responds'
    BY <1>1, <1>3 DEF Handles, Waiting, Responds
  <2> QED BY <2>16, <2>17, <2>18, <2>19, <2>20 DEF IInv, ReadInv
<1> QED BY <1>4, <1>5

\* async_submit(): the stream is queued with its header section.
LEMMA SubmitResponseStep ==
  ASSUME IInv, SubmitResponse
  PROVE  IInv'
<1> USE DEF engine, reading, life, response, Plain
<1>1. TypeOK /\ Stored /\ Over /\ Handles /\ Waiting /\ Responds /\ OutInv(w)
  BY DEF IInv, ReadInv, OutInv
<1>2. Good(w) /\ Level(w) /\ Writes(w) /\ w \in WriteState
  BY <1>1 DEF OutInv, Good
<1>3. /\ writer = "attached" /\ headers_submitted' = TRUE /\ w' = [w EXCEPT !.scheduled = TRUE]
      /\ UNCHANGED <<engine, reading, life, reader, writer, headers_received, response_handler,
                   response_delivered, failure_ec>>
  BY DEF SubmitResponse
<1>4. /\ w' \in WriteState /\ SameWrite(w, w') /\ SameOffsets(w, w') /\ SameEnds(w, w')
      /\ w'.scheduled
  BY <1>2, <1>3 DEF WriteState, SameWrite, SameOffsets, SameEnds
<1>5. Good(w') /\ Progress(w, w') /\ Level(w')
  BY <1>2, <1>4, SameGood
<1>6. Good(w)'
  <2>1. Room(w)' /\ Offsets(w)' /\ Held(w)'
    BY <1>3, <1>5 DEF Good, Room, Offsets, Held
  <2>2. Active(w)' /\ Ends(w)'
    BY <1>3, <1>5 DEF Good, Active, Ends, Copied
  <2> QED BY <1>4, <2>1, <2>2 DEF Good
<1>7. Level(w)' /\ Writes(w)'
  BY <1>2, <1>3, <1>5 DEF Level, Writes, Progress, Unfinished
<1>8. OutInv(w)'
  BY <1>4, <1>6, <1>7 DEF OutInv
<1>9. TypeOK'
  <2>1. w' \in WriteState /\ w'.size <= MaxUnits /\ w'.queued <= MaxUnits
    BY <1>1, <1>3, <1>8, OutBounds
  <2>2. headers_submitted' \in BOOLEAN
    BY <1>3
  <2> QED BY <1>1, <1>3, <2>1, <2>2 DEF TypeOK
<1>10. Stored'
  BY <1>1, <1>3, StoredKept
<1>11. Over' /\ Handles'
  BY <1>1, <1>3 DEF Over, Silent, Handles
<1>12. Waiting' /\ Responds'
  BY <1>1, <1>3 DEF Waiting, Responds
<1> QED BY <1>8, <1>9, <1>10, <1>11, <1>12 DEF IInv, ReadInv

-----------------------------------------------------------------------------
(* The body arrives, and is delivered.                                     *)

Unit == 1 .. MaxUnits

\* One sequence behind another.
Joined(s, t) == s \o t

\* A piece of a sequence.
Piece(s, i, j) == SubSeq(s, i, j)

LEMMA JoinedRun ==
  ASSUME NEW s \in Seq(Unit), NEW t \in Seq(Unit), NEW a \in Nat, Run(s, a), Run(t, a + Len(s))
  PROVE  Joined(s, t) \in Seq(Unit) /\ Len(Joined(s, t)) = Len(s) + Len(t) /\ Run(Joined(s, t), a)
<1>1. Joined(s, t) \in Seq(Unit) /\ Len(Joined(s, t)) = Len(s) + Len(t)
  BY DEF Joined
<1>2. \A i \in 1 .. Len(s) + Len(t) : Joined(s, t)[i] = a + i
  <2>1. SUFFICES ASSUME NEW i \in 1 .. Len(s) + Len(t) PROVE Joined(s, t)[i] = a + i
    OBVIOUS
  <2>2. CASE i <= Len(s)
    BY <2>2 DEF Joined, Run
  <2>3. CASE i > Len(s)
    <3>1. i - Len(s) \in 1 .. Len(t) /\ Joined(s, t)[i] = t[i - Len(s)]
      BY <2>3 DEF Joined
    <3>2. t[i - Len(s)] = a + Len(s) + (i - Len(s))
      BY <3>1 DEF Run
    <3> QED BY <3>1, <3>2
  <2> QED BY <2>2, <2>3
<1> QED BY <1>1, <1>2 DEF Run

\* The first k of a run, and the others.
LEMMA PieceRun ==
  ASSUME NEW s \in Seq(Unit), NEW a \in Nat, Run(s, a), NEW k \in 0 .. Len(s)
  PROVE  /\ Piece(s, 1, k) \in Seq(Unit) /\ Len(Piece(s, 1, k)) = k /\ Run(Piece(s, 1, k), a)
         /\ Piece(s, k + 1, Len(s)) \in Seq(Unit) /\ Len(Piece(s, k + 1, Len(s))) = Len(s) - k
         /\ Run(Piece(s, k + 1, Len(s)), a + k)
<1>1. /\ Piece(s, 1, k) \in Seq(Unit) /\ Len(Piece(s, 1, k)) = k
      /\ \A i \in 1 .. k : Piece(s, 1, k)[i] = s[i]
  BY DEF Piece
<1>2. /\ Piece(s, k + 1, Len(s)) \in Seq(Unit) /\ Len(Piece(s, k + 1, Len(s))) = Len(s) - k
      /\ \A i \in 1 .. Len(s) - k : Piece(s, k + 1, Len(s))[i] = s[k + i]
  BY DEF Piece
<1>3. Run(Piece(s, 1, k), a)
  BY <1>1 DEF Run
<1>4. Run(Piece(s, k + 1, Len(s)), a + k)
  <2>1. SUFFICES ASSUME NEW i \in 1 .. Len(s) - k PROVE Piece(s, k + 1, Len(s))[i] = a + k + i
    BY <1>2 DEF Run
  <2>2. k + i \in 1 .. Len(s)
    OBVIOUS
  <2>3. s[k + i] = a + (k + i)
    BY <2>2 DEF Run
  <2> QED BY <1>2, <2>3
<1> QED BY <1>1, <1>2, <1>3, <1>4

\* A run that is empty.
LEMMA EmptyRun ==
  ASSUME NEW s \in Seq(Unit), Len(s) = 0
  PROVE  s = <<>> /\ \A k : Run(s, k)
BY DEF Run

\* What arrives continues the body.
LEMMA ArrivesStored ==
  ASSUME IInv, NEW n \in 0 .. MaxChunk, NEW fin \in BOOLEAN, Arrives(n, fin)
  PROVE  Stored' /\ incoming' \in Seq(Unit) /\ received' \in 0 .. MaxUnits
<1>1. TypeOK /\ Stored /\ Over /\ n \in Nat
  BY BoundsAssumption DEF IInv, ReadInv
<1>2. /\ pc = "out" /\ strm = "open" /\ rx = "open" /\ ~stopped
      /\ received + n + w.queued + w.size <= MaxUnits
      /\ received' = received + n /\ incoming' = [i \in 1 .. n |-> received + i]
      /\ pc' = (IF n > 0 THEN "enter" ELSE pc)
      /\ UNCHANGED <<pending_read, delivered, read_aborted, reader>>
  BY DEF Arrives, Idle
<1>3. received \in Nat /\ w.queued \in Nat /\ w.size \in Nat /\ MaxUnits \in Nat
  BY <1>1, BoundsAssumption DEF TypeOK, WriteState
<1>4. received + n <= MaxUnits /\ received' \in 0 .. MaxUnits
  BY <1>1, <1>2, <1>3
<1>5. incoming' \in Seq(Unit) /\ Len(incoming') = n
  <2>1. \A i \in 1 .. n : received + i \in Unit
    BY <1>1, <1>3, <1>4 DEF Unit
  <2>2. [i \in 1 .. n |-> received + i] \in Seq(Unit)
    BY <1>1, <2>1
  <2>3. Len([i \in 1 .. n |-> received + i]) = n
    BY <1>1
  <2> QED BY <1>2, <2>2, <2>3
<1>6. ~read_aborted /\ reader # "gone"
  BY <1>1, <1>2 DEF Over, Silent
<1>7. incoming = <<>> /\ Len(incoming) = 0
  BY <1>1, <1>2 DEF Stored
<1>8. Len(delivered) \in Nat /\ Len(pending_read) \in Nat
  BY <1>1 DEF TypeOK
<1>9. Len(delivered) + Len(pending_read) = received
  BY <1>1, <1>3, <1>6, <1>7, <1>8 DEF Stored, Kept
<1>10. Run(incoming', received)
  BY <1>1, <1>2, <1>5 DEF Run
<1>11. pc' = "out" => incoming' = <<>>
  <2>1. SUFFICES ASSUME pc' = "out" PROVE incoming' = <<>>
    OBVIOUS
  <2>2. n = 0
    BY <1>1, <1>2, <2>1
  <2> QED BY <1>5, <2>2, EmptyRun
<1>12. Stored'
  <2>1. Kept' = received'
    BY <1>2, <1>5, <1>8, <1>9 DEF Kept
  <2>2. Run(incoming', Len(delivered') + Len(pending_read'))
    BY <1>2, <1>9, <1>10
  <2>3. Run(delivered', 0) /\ Run(pending_read', Len(delivered'))
    BY <1>1, <1>2 DEF Stored
  <2> QED BY <1>2, <1>4, <1>6, <1>11, <2>1, <2>2, <2>3 DEF Stored
<1> QED BY <1>4, <1>5, <1>12

LEMMA ArrivesStep ==
  ASSUME IInv, NEW n \in 0 .. MaxChunk, NEW fin \in BOOLEAN, Arrives(n, fin)
  PROVE  IInv'
<1> USE DEF engine, reading, life, response
<1>1. TypeOK /\ Stored /\ Over /\ Handles /\ Waiting /\ Responds /\ OutInv(w) /\ n \in Nat
  BY BoundsAssumption DEF IInv, ReadInv
<1>2. /\ Idle /\ registered /\ strm = "open" /\ rx = "open" /\ ~stopped
      /\ received + n + w.queued + w.size <= MaxUnits /\ received' = received + n
      /\ fin_next' = fin /\ rx' = (IF fin THEN "fin" ELSE rx)
      /\ pc' = (IF n > 0 THEN "enter" ELSE pc)
      /\ UNCHANGED <<kind, mode, tx, strm, stopped, pending_read, eof_received, read_handler,
                     read_aborted, delivered, last, w, life, reader, writer, response>>
  BY DEF Arrives
<1>3. Stored' /\ incoming' \in Seq(Unit) /\ received' \in 0 .. MaxUnits
  BY ArrivesStored
<1>4. TypeOK'
  <2>1. fin_next' \in BOOLEAN /\ rx' \in {"open", "fin", "reset"} /\ pc' \in {"out", "enter", "called"}
    BY <1>1, <1>2 DEF TypeOK
  <2> QED BY <1>1, <1>2, <1>3, <2>1 DEF TypeOK, Unit
<1>5. Over'
  BY <1>1, <1>2 DEF Over, Silent, Idle
<1>6. Handles' /\ Waiting' /\ Responds'
  BY <1>1, <1>2 DEF Handles, Waiting, Responds, Idle
<1>7. OutInv(w)'
  <2> USE DEF Plain
  <2>1. Good(w) /\ Level(w) /\ Writes(w) /\ (Due(w) => w.scheduled) /\ w \in WriteState
    BY <1>1 DEF OutInv, Good
  <2>2. Room(w)'
    <3>1. received \in Nat /\ MaxUnits \in Nat
      BY <1>1, BoundsAssumption DEF TypeOK
    <3>2. received + n + w.queued <= MaxUnits
      BY <1>1, <1>2, <2>1, <3>1 DEF WriteState
    <3>3. received + n + w.queued + w.size - w.copied <= MaxUnits
      BY <1>1, <1>2, <2>1, <3>1 DEF WriteState
    <3> QED BY <1>2, <2>1, <3>2, <3>3 DEF Good, Room
  <2>3. Offsets(w)' /\ Held(w)' /\ Active(w)' /\ Ends(w)'
    BY <1>2, <2>1 DEF Good, Offsets, Held, Active, Ends, Copied
  <2>4. Level(w)' /\ Writes(w)'
    BY <1>2, <2>1 DEF Level, Writes, Unfinished
  <2>5. Due(w)' => w'.scheduled
    BY <1>2, <2>1 DEF Due, More, Upto, Carves, Copied
  <2> QED BY <1>2, <2>1, <2>2, <2>3, <2>4, <2>5 DEF OutInv, Good
<1> QED BY <1>3, <1>4, <1>5, <1>6, <1>7 DEF IInv, ReadInv

\* A turn of the loop delivers what comes next.
LEMMA TurnStored ==
  ASSUME TypeOK, Stored, TurnWithData, UNCHANGED <<received, read_aborted, reader>>
  PROVE  /\ Stored' /\ delivered' \in Seq(Unit) /\ pending_read' \in Seq(Unit)
         /\ incoming' \in Seq(Unit) /\ Len(delivered') > Len(delivered)
<1> DEFINE k == Taken(read_handler, pending_read)
           m == Taken(read_handler - k, incoming)
           p == Piece(pending_read, 1, k)
           c == Piece(incoming, 1, m)
           d == Joined(delivered, p)
<1>1. /\ read_handler > 0 /\ pending_read \o incoming # <<>>
      /\ delivered' = Joined(d, c)
      /\ pending_read' = Piece(pending_read, k + 1, Len(pending_read))
      /\ incoming' = Piece(incoming, m + 1, Len(incoming))
      /\ pc' = "called"
  BY DEF TurnWithData, Joined, Piece
<1>2. /\ delivered \in Seq(Unit) /\ pending_read \in Seq(Unit) /\ incoming \in Seq(Unit)
      /\ read_handler \in Nat /\ received \in Nat
  BY DEF TypeOK, Unit
<1>3. Len(delivered) \in Nat /\ Len(pending_read) \in Nat /\ Len(incoming) \in Nat
  BY <1>2
<1>4. k \in 0 .. Len(pending_read) /\ (k = Len(pending_read) \/ k = read_handler)
  BY <1>2, <1>3 DEF Taken
<1>5. m \in 0 .. Len(incoming) /\ (m > 0 => k = Len(pending_read))
  BY <1>2, <1>3, <1>4 DEF Taken
<1>6. k + m > 0
  <2>1. SUFFICES ASSUME k = 0, m = 0 PROVE FALSE
    BY <1>3, <1>4, <1>5
  <2>2. Len(pending_read) = 0 /\ Len(incoming) = 0
    BY <1>1, <1>2, <1>3, <2>1 DEF Taken
  <2>3. pending_read = <<>> /\ incoming = <<>>
    BY <1>2, <2>2, EmptyRun
  <2> QED BY <1>1, <2>3
<1> HIDE DEF k, m
<1>7. Run(delivered, 0) /\ Run(pending_read, Len(delivered))
      /\ Run(incoming, Len(delivered) + Len(pending_read)) /\ Kept <= received
  BY DEF Stored
<1>8. /\ p \in Seq(Unit) /\ Len(p) = k /\ Run(p, Len(delivered))
      /\ pending_read' \in Seq(Unit) /\ Len(pending_read') = Len(pending_read) - k
      /\ Run(pending_read', Len(delivered) + k)
  BY <1>1, <1>2, <1>3, <1>4, <1>7, PieceRun
<1>9. /\ c \in Seq(Unit) /\ Len(c) = m /\ Run(c, Len(delivered) + Len(pending_read))
      /\ incoming' \in Seq(Unit) /\ Len(incoming') = Len(incoming) - m
      /\ Run(incoming', Len(delivered) + Len(pending_read) + m)
  <2> DEFINE a == Len(delivered) + Len(pending_read)
  <2>1. a \in Nat /\ Run(incoming, a) /\ incoming \in Seq(Unit) /\ m \in 0 .. Len(incoming)
    BY <1>2, <1>3, <1>5, <1>7
  <2> HIDE DEF a
  <2>2. /\ c \in Seq(Unit) /\ Len(c) = m /\ Run(c, a)
        /\ incoming' \in Seq(Unit) /\ Len(incoming') = Len(incoming) - m
        /\ Run(incoming', a + m)
    BY <1>1, <2>1, PieceRun
  <2> QED BY <2>2 DEF a
<1> HIDE DEF p, c
<1>10. d \in Seq(Unit) /\ Len(d) = Len(delivered) + k /\ Run(d, 0)
  <2>1. Run(p, 0 + Len(delivered))
    BY <1>3, <1>8
  <2> QED BY <1>2, <1>3, <1>7, <1>8, <2>1, JoinedRun
<1> HIDE DEF d
<1>11. Run(c, 0 + Len(d))
  <2>1. CASE m = 0
    BY <1>9, <2>1, EmptyRun
  <2>2. CASE m # 0
    <3>1. Len(d) = Len(delivered) + Len(pending_read)
      BY <1>5, <1>10, <2>2
    <3> QED BY <1>3, <1>9, <3>1
  <2> QED BY <2>1, <2>2
<1>12. delivered' \in Seq(Unit) /\ Len(delivered') = Len(delivered) + k + m /\ Run(delivered', 0)
  BY <1>1, <1>9, <1>10, <1>11, JoinedRun
<1>13. Run(pending_read', Len(delivered'))
  <2>1. CASE m = 0
    BY <1>3, <1>4, <1>8, <1>12, <2>1
  <2>2. CASE m # 0
    <3>1. Len(pending_read') = 0
      BY <1>3, <1>5, <1>8, <2>2
    <3> QED BY <1>8, <3>1, EmptyRun
  <2> QED BY <2>1, <2>2
<1>14. Run(incoming', Len(delivered') + Len(pending_read'))
  <2>1. Len(delivered') + Len(pending_read') = Len(delivered) + Len(pending_read) + m
    BY <1>3, <1>4, <1>5, <1>8, <1>12
  <2> QED BY <1>9, <2>1
<1>15. Kept' = Kept
  BY <1>3, <1>4, <1>5, <1>8, <1>9, <1>12 DEF Kept
<1>16. Drained => FALSE
  BY <1>1 DEF Drained
<1>17. Stored'
  BY <1>1, <1>7, <1>12, <1>13, <1>14, <1>15, <1>16 DEF Stored
<1> QED BY <1>3, <1>4, <1>5, <1>6, <1>8, <1>9, <1>12, <1>17

\* What nobody took is queued behind what was queued before.
LEMMA LeaveStored ==
  ASSUME TypeOK, Stored, LeaveLoop, UNCHANGED <<received, read_aborted, reader>>
  PROVE  Stored' /\ pending_read' \in Seq(Unit) /\ incoming' \in Seq(Unit)
<1>1. /\ pc' = "out" /\ delivered' = delivered /\ pending_read' = Joined(pending_read, incoming)
      /\ incoming' = <<>>
  BY DEF LeaveLoop, Joined
<1>2. /\ delivered \in Seq(Unit) /\ pending_read \in Seq(Unit) /\ incoming \in Seq(Unit)
      /\ received \in Nat
  BY DEF TypeOK, Unit
<1>3. Len(delivered) \in Nat /\ Len(pending_read) \in Nat /\ Len(incoming) \in Nat
  BY <1>2
<1>4. Run(delivered, 0) /\ Run(pending_read, Len(delivered))
      /\ Run(incoming, Len(delivered) + Len(pending_read)) /\ Kept <= received
  BY DEF Stored
<1>5. /\ pending_read' \in Seq(Unit) /\ Len(pending_read') = Len(pending_read) + Len(incoming)
      /\ Run(pending_read', Len(delivered))
  BY <1>1, <1>2, <1>3, <1>4, JoinedRun
<1>6. incoming' \in Seq(Unit) /\ Len(incoming') = 0 /\ \A k : Run(incoming', k)
  BY <1>1 DEF Run
<1>7. Kept' = Kept
  BY <1>1, <1>3, <1>5, <1>6 DEF Kept
<1>8. Drained => pending_read' = <<>>
  <2>1. SUFFICES ASSUME Drained PROVE pending_read' = <<>>
    OBVIOUS
  <2>2. Len(pending_read') = 0
    BY <1>5, <2>1 DEF Drained
  <2> QED BY <1>5, <2>2, EmptyRun
<1> QED BY <1>1, <1>4, <1>5, <1>6, <1>7, <1>8 DEF Stored, Drained

\* call_read_handler(): the loop is left only when no read waits, or there is nothing to tell.
LEMMA ReadLoopStep ==
  ASSUME IInv, ReadLoop
  PROVE  IInv'
<1> USE DEF engine, reading, life, response
<1>1. TypeOK /\ Stored /\ Over /\ Handles /\ Waiting /\ Responds /\ OutInv(w)
  BY DEF IInv, ReadInv
<1>2. /\ pc # "out" /\ failing # "inner"
      /\ UNCHANGED <<engine, received, eof_received, read_aborted, fin_next, w, life, reader,
                     writer, response>>
  BY DEF ReadLoop
<1>3. OutInv(w)'
  BY <1>1, <1>2, Shifted DEF OutInv, Writes
<1>4. Handles'
  BY <1>1, <1>2 DEF Handles
<1>5. CASE TurnWithData
  <2>1. /\ Stored' /\ delivered' \in Seq(Unit) /\ pending_read' \in Seq(Unit)
        /\ incoming' \in Seq(Unit)
    BY <1>1, <1>2, <1>5, TurnStored
  <2>2. read_handler > 0 /\ last' = "data" /\ pc' = "called" /\ read_handler' = 0
    BY <1>5 DEF TurnWithData
  <2>3. TypeOK'
    BY <1>1, <1>2, <2>1, <2>2, BoundsAssumption DEF TypeOK, Unit
  <2>4. Over' /\ Waiting'
    BY <1>1, <1>2, <2>2, BoundsAssumption DEF Over, Silent, Waiting
  <2>5. Responds'
    BY <1>1, <1>2, <2>2 DEF Responds, Waiting
  <2> QED BY <1>3, <1>4, <2>1, <2>3, <2>4, <2>5 DEF IInv, ReadInv
<1>6. CASE TurnWithEnd
  <2>1. /\ read_handler > 0 /\ last' \in {"eof", "partial"} /\ pc' = "called" /\ read_handler' = 0
        /\ UNCHANGED <<pending_read, incoming, delivered>>
    BY <1>6 DEF TurnWithEnd
  <2>2. TypeOK'
    BY <1>1, <1>2, <2>1, BoundsAssumption DEF TypeOK
  <2>3. Stored'
    BY <1>1, <1>2, <2>1, StoredKept
  <2>4. Over' /\ Waiting'
    BY <1>1, <1>2, <2>1, BoundsAssumption DEF Over, Silent, Waiting
  <2>5. Responds'
    BY <1>1, <1>2, <2>1 DEF Responds, Waiting
  <2> QED BY <1>3, <1>4, <2>2, <2>3, <2>4, <2>5 DEF IInv, ReadInv
<1>7. CASE LeaveLoop
  <2>1. Stored' /\ pending_read' \in Seq(Unit) /\ incoming' \in Seq(Unit)
    BY <1>1, <1>2, <1>7, LeaveStored
  <2>2. /\ read_handler = 0 \/ (Joined(pending_read, incoming) = <<>> /\ ~eof_received
                                 /\ ~closed /\ ~read_aborted)
        /\ pc' = "out" /\ pending_read' = Joined(pending_read, incoming)
        /\ UNCHANGED <<read_handler, delivered, last>>
    BY <1>7 DEF LeaveLoop, Joined
  <2>3. TypeOK'
    BY <1>1, <1>2, <2>1, <2>2 DEF TypeOK, Unit
  <2>4. Over'
    BY <1>1, <1>2, <2>2 DEF Over, Silent, TypeOK
  <2>5. Waiting'
    BY <1>1, <1>2, <2>2, BoundsAssumption DEF Waiting, Over, Handles, TypeOK
  <2>6. Responds'
    BY <1>1, <1>2, <2>2 DEF Responds
  <2> QED BY <1>3, <1>4, <2>1, <2>3, <2>4, <2>5, <2>6 DEF IInv, ReadInv
<1> QED BY <1>5, <1>6, <1>7 DEF ReadLoop

-----------------------------------------------------------------------------
(* The invariant holds.                                                    *)

LEMMA InitInv == Init => IInv
<1>1. SUFFICES ASSUME Init PROVE IInv
  OBVIOUS
<1>2. MaxUnits \in Nat /\ MaxChunk \in Nat
  BY BoundsAssumption
<1>3. kind \in {"plain", "client", "server"} /\ kind \in Kinds /\ mode \in {"ZeroCopy", "Staged"}
  BY <1>1, KindsAssumption DEF Init
<1>4. w = InitWrite
  BY <1>1 DEF Init
<1>5. TypeOK
  <2>1. w \in WriteState /\ w.size <= MaxUnits /\ w.queued <= MaxUnits
    BY <1>2, <1>4 DEF InitWrite, WriteState
  <2>2. headers_submitted \in BOOLEAN /\ headers_received \in BOOLEAN
    BY <1>1, Zenon DEF Init
  <2>3. reader \in {"none", "attached", "eof", "partial", "gone"}
    BY <1>1 DEF Init
  <2>4. /\ rx = "open" /\ tx = "open" /\ strm = "open" /\ stopped = FALSE
        /\ received = 0 /\ pending_read = <<>> /\ incoming = <<>> /\ delivered = <<>>
        /\ eof_received = FALSE /\ read_handler = 0 /\ read_aborted = FALSE /\ pc = "out"
        /\ fin_next = FALSE /\ last = "nothing" /\ closed = FALSE /\ failing = "no"
        /\ registered = TRUE /\ writer = "attached" /\ response_handler = FALSE
        /\ response_delivered = FALSE /\ failure_ec = "none" /\ gave_up = FALSE
    BY <1>1, Zenon DEF Init
  <2>5. /\ pending_read \in Seq(1 .. MaxUnits) /\ incoming \in Seq(1 .. MaxUnits)
        /\ delivered \in Seq(1 .. MaxUnits)
    BY <2>4
  <2>6. received \in 0 .. MaxUnits /\ read_handler \in 0 .. MaxChunk
    BY <1>2, <2>4
  <2> QED BY <1>3, <2>1, <2>2, <2>3, <2>4, <2>5, <2>6 DEF TypeOK
<1>6. Stored
  <2>1. delivered = <<>> /\ pending_read = <<>> /\ incoming = <<>> /\ received = 0
    BY <1>1 DEF Init
  <2>2. Len(delivered) = 0 /\ Len(pending_read) = 0 /\ Len(incoming) = 0
    BY <2>1
  <2> QED BY <2>1, <2>2 DEF Stored, Run, Kept, Drained
<1>7. Over /\ Handles /\ Waiting /\ Responds
  BY <1>1, <1>3 DEF Init, Over, Silent, Handles, Waiting, Responds
<1>8. Good(w)
  <2>1. w \in WriteState
    BY <1>4 DEF InitWrite, WriteState
  <2>2. Room(w) /\ Held(w) /\ Active(w) /\ Ends(w)
    BY <1>1, <1>2, <1>4 DEF Init, InitWrite, Room, Held, Active, Ends
  <2>3. Offsets(w)
    <3>1. 0 .. (0 - 1) = {}
      OBVIOUS
    <3> QED BY <1>4, <3>1 DEF InitWrite, Offsets
  <2> QED BY <2>1, <2>2, <2>3 DEF Good
<1>9. Level(w) /\ Writes(w)
  <2>1. headers_submitted \/ kind = "server"
    BY <1>1, Zenon DEF Init
  <2>2. writer = "attached"
    BY <1>1 DEF Init
  <2>3. ~w.active /\ w.op = "none" /\ ~w.aborted /\ w.offered = w.sent
    BY <1>4 DEF InitWrite
  <2> QED BY <1>1, <2>1, <2>2, <2>3 DEF Init, Level, Writes, Unfinished
<1>10. ~Due(w)
  BY <1>4 DEF InitWrite, Due, More, Carves, Upto
<1> QED BY <1>5, <1>6, <1>7, <1>8, <1>9, <1>10 DEF IInv, ReadInv, OutInv

\* What the code and the stack do ...
LEMMA GoesStep ==
  ASSUME IInv, Goes
  PROVE  IInv'
<1>1. CASE Sends \/ Acks \/ ExtendMaxStreamData \/ H3ExtendMaxStreamData \/ RunPosted
  BY <1>1, OutgoingStep DEF Outgoing
<1>2. CASE OnEof
  BY <1>2, OnEofStep
<1>3. CASE ReadLoop
  BY <1>3, ReadLoopStep
<1>4. CASE FailReturns
  BY <1>4, FailReturnsStep
<1> QED BY <1>1, <1>2, <1>3, <1>4 DEF Goes

\* ... what the user does ...
LEMMA UserStep ==
  ASSUME IInv, User
  PROVE  IInv'
<1>1. CASE \E n \in 1 .. MaxChunk : ReadSome(n)
  BY <1>1, ReadSomeStep
<1>2. CASE (\E n \in 0 .. MaxChunk, eof \in BOOLEAN : StartWrite(n, eof)) \/ EndAgain \/ EndDetached
  BY <1>2, OutgoingStep DEF Outgoing
<1>3. CASE ReadDetached \/ CancelRead \/ ReleaseReader \/ StopSending
  BY <1>3, ReadDetachedStep, CancelReadStep, ReleaseReaderStep, StopSendingStep
<1>4. CASE CancelWrite \/ ResetStream \/ ReleaseWriter \/ ReleasePlainWriter \/ ReleaseH3Writer
  BY <1>4, CancelWriteStep, ResetStreamStep, ReleaseWriterStep, ReleasePlainWriterStep,
     ReleaseH3WriterStep
<1>5. CASE GetResponse \/ CancelGetResponse \/ SubmitResponse
  BY <1>5, GetResponseStep, CancelGetResponseStep, SubmitResponseStep
<1> QED BY <1>1, <1>2, <1>3, <1>4, <1>5 DEF User

\* ... and what comes from the peer or the connection.
LEMMA PeerStep ==
  ASSUME IInv, Peer
  PROVE  IInv'
<1>1. CASE \E n \in 0 .. MaxChunk, fin \in BOOLEAN : RecvStreamData(n, fin) \/ H3RecvStreamData(n, fin)
  BY <1>1, ArrivesStep DEF RecvStreamData, H3RecvStreamData
<1>2. CASE RecvReset \/ H3RecvReset \/ RecvUnread \/ RecvStopSending
  BY <1>2, RecvResetStep, UnreadStep, RecvStopSendingStep
<1>3. CASE StreamBlocked \/ H3StreamBlocked
  BY <1>3, OutgoingStep DEF Outgoing
<1>4. CASE StreamClose
  BY <1>4, CloseStep DEF StreamClose
<1>5. CASE \E too_large \in BOOLEAN : OnHeadersComplete(too_large)
  BY <1>5, HeadersStep
<1>6. CASE \E ec \in {"ok", "error"} : H3StreamClose(ec)
  BY <1>6, CloseStep DEF H3StreamClose
<1>7. CASE ConnectionFails \/ SessionEnds
  BY <1>7, ConnectionFailsStep, SessionEndsStep
<1> QED BY <1>1, <1>2, <1>3, <1>4, <1>5, <1>6, <1>7 DEF Peer

LEMMA StutterStep ==
  ASSUME IInv, UNCHANGED vars
  PROVE  IInv'
<1>1. UNCHANGED <<engine, reading, w, life, reader, writer, response>>
  BY DEF vars
<1>2. OutInv(w')
  BY <1>1 DEF IInv
<1> QED BY <1>1, <1>2, WritesOnly

LEMMA StepInv ==
  ASSUME IInv, [Next]_vars
  PROVE  IInv'
BY GoesStep, UserStep, PeerStep, StutterStep DEF Next

\* The inductive invariant: what is buffered of the incoming body, and how it ends, and of the
\* outgoing body where each offset is, who owns its buffer and who is owed its end.
THEOREM Invariance == Spec => []IInv
<1>1. Init => IInv
  BY InitInv
<1>2. IInv /\ [Next]_vars => IInv'
  BY StepInv
<1> QED BY <1>1, <1>2, PTL DEF Spec

\* Every field of the stream, of its handles and of its writes has a value of its type, and no
\* more is ever queued than there is.
THEOREM TypeCorrect == Spec => []TypeOK
<1>1. IInv => TypeOK
  BY DEF IInv
<1> QED BY <1>1, Invariance, PTL

\* What pending_data() would find is what is due.
LEMMA UnsentDue ==
  ASSUME TypeOK, Good(w), Unsent
  PROVE  Due(w)
<1> DEFINE p == PendingData(w, Upto(w))
<1>1. /\ registered /\ strm = "open" /\ headers_submitted /\ ~(Plain /\ w.blocked)
      /\ p.n > 0 \/ (p.fin /\ ~w.fin_offered)
  BY DEF Unsent, Upto
<1>2. ~closed /\ ~w.aborted
  <2>1. SUFFICES ASSUME closed \/ w.aborted PROVE FALSE
    OBVIOUS
  <2>2. p.n = 0 /\ p.fin = FALSE
    BY <2>1 DEF PendingData
  <2> HIDE DEF p
  <2> QED BY <1>1, <2>2
<1>3. Upto(w) \in w.acked .. w.queued /\ Upto(w) \in Nat /\ w.queued \in Nat
  BY UptoType DEF Good, WriteState
<1>4. /\ p.n = IF mode = "Staged" \/ w.active THEN Next1(w).queued - Upto(w) ELSE 0
      /\ p.fin <=> w.active /\ w.is_eof /\ Copied(Next1(w))
  BY <1>2, <1>3, PendingFacts DEF TypeOK, Good
<1> HIDE DEF p
<1>5. More(w)
  <2>1. CASE Carves(w)
    BY <2>1 DEF More
  <2>2. CASE ~Carves(w)
    <3>1. Next1(w) = w
      BY <2>2 DEF Next1
    <3> QED BY <1>1, <1>3, <1>4, <3>1 DEF More
  <2> QED BY <2>1, <2>2
<1> QED BY <1>1, <1>2, <1>5 DEF Due

\* What waits, waits for something that can still come, and a stream that has something to send
\* and is allowed to is in the write queue: call_read_handler(), on_writable(), fail() and
\* async_get_response() leave nobody behind.
THEOREM Wakes == Spec => []NothingWaits
<1>1. IInv => NothingWaits
  <2>1. SUFFICES ASSUME IInv PROVE NothingWaits
    OBVIOUS
  <2>2. TypeOK /\ Over /\ Handles /\ Waiting /\ Responds /\ OutInv(w)
    BY <2>1 DEF IInv, ReadInv
  <2>3. Unsent => w.scheduled
    BY <2>2, UnsentDue DEF OutInv
  <2>4. SUFFICES ASSUME Idle
        PROVE  /\ read_handler > 0 =>
                      /\ registered /\ strm = "open" /\ ~read_aborted
                      /\ ~eof_received /\ pending_read = <<>>
               /\ w.op = "held" => registered /\ strm = "open" /\ w.active /\ ~w.aborted
               /\ response_handler => registered /\ strm = "open" /\ ~headers_received
    BY <2>3 DEF NothingWaits
  <2>5. read_handler > 0 =>
            registered /\ strm = "open" /\ ~read_aborted /\ ~eof_received /\ pending_read = <<>>
    BY <2>2, <2>4 DEF Waiting, Handles, Idle
  <2>6. w.op = "held" => registered /\ strm = "open" /\ w.active /\ ~w.aborted
    BY <2>2, <2>4 DEF OutInv, Good, Active, Writes, Handles, Idle
  <2>7. response_handler => registered /\ strm = "open" /\ ~headers_received
    BY <2>2, <2>4 DEF Responds, Handles, Idle
  <2> QED BY <2>5, <2>6, <2>7
<1> QED BY <1>1, Invariance, PTL

\* What ngtcp2 or nghttp3 was given and may have to send again is there: of a ZeroCopy write in
\* the buffer of a user that still waits, of a Staged one in the chunks.  This is what
\* on_acked(), the cancellation of a write and abort_writing() have to keep.
THEOREM KeepsBuffers == Spec => []BufferKept
<1>1. IInv => BufferKept
  <2>1. SUFFICES ASSUME IInv, strm = "open", tx = "open", w.offered > w.acked
        PROVE  IF mode = "ZeroCopy"
               THEN w.active /\ w.op = "held" /\ w.base <= w.acked /\ w.offered <= w.base + w.size
               ELSE w.acked .. (w.offered - 1) \subseteq w.chunks
    BY DEF BufferKept
  <2>2. /\ w \in WriteState /\ Offsets(w) /\ Held(w) /\ Active(w)
        /\ mode \in {"ZeroCopy", "Staged"}
    BY <2>1 DEF IInv, OutInv, Good, TypeOK
  <2>3. CASE mode = "ZeroCopy"
    <3>1. w.active /\ w.base <= w.acked
      BY <2>1, <2>2, <2>3 DEF Held, Offsets, WriteState
    <3>2. w.offered <= w.base + w.size
      BY <2>2, <2>3, <3>1 DEF Offsets
    <3>3. w.size > 0
      BY <2>1, <2>2, <3>1, <3>2 DEF WriteState
    <3>4. w.op = "held"
      BY <2>2, <3>1, <3>3 DEF Active
    <3> QED BY <2>3, <3>1, <3>2, <3>4
  <2>4. CASE mode = "Staged"
    <3>1. w.chunks = w.acked .. (w.queued - 1) /\ w.offered <= w.queued
      BY <2>2, <2>4 DEF Offsets
    <3> QED BY <2>2, <2>4, <3>1 DEF WriteState
  <2> QED BY <2>2, <2>3, <2>4
<1> QED BY <1>1, Invariance, PTL

\* A FIN ends a body that was meant to end there, a writer that is gone has ended its body or
\* reset the stream, and a user is told that a body was ended only after its FIN was handed
\* over: on_offered(), delete_writer(), start_write() and detach().
THEOREM EndsTruly == Spec => []EndIsTrue
<1>1. IInv => EndIsTrue
  BY DEF IInv, OutInv, Good, Ends, Writes, EndIsTrue
<1> QED BY <1>1, Invariance, PTL

-----------------------------------------------------------------------------
(* The contract of the reader.                                             *)

\* The body comes to its end, and is cut, once.
LEMMA ArriveStep ==
  ASSUME IInv, IInv', Next
  PROVE  Body!Arrive
<1> USE DEF engine, reading, life, response
<1>1. received' \in Nat /\ received \in Nat
  BY DEF IInv, TypeOK
<1>2. SUFFICES /\ received' >= received /\ (eof_received => eof_received' /\ received' = received)
               /\ (closed => closed') /\ (read_aborted => read_aborted') /\ (registered' => registered)
  BY <1>1 DEF Body!Arrive
<1>3. CASE Outgoing
  BY <1>1, <1>3, OutgoingOnly
<1>4. CASE OnEof \/ ReadLoop \/ ReadDetached \/ CancelRead \/ \E n \in 1 .. MaxChunk : ReadSome(n)
  BY <1>1, <1>4 DEF OnEof, ReadLoop, ReadDetached, CancelRead, ReadSome
<1>5. CASE FailReturns
  <2>1. registered' => registered
    BY <1>5, Zenon DEF FailReturns
  <2> QED BY <1>1, <1>5, <2>1 DEF FailReturns
<1>6. CASE ReleaseReader
  <2>1. (registered' => registered) /\ (read_aborted => read_aborted')
    BY <1>6, Zenon DEF ReleaseReader, MaybeClose
  <2> QED BY <1>1, <1>6, <2>1 DEF ReleaseReader
<1>7. CASE StopSending \/ RecvReset
  BY <1>1, <1>7 DEF StopSending, RecvReset, AbortReading
<1>8. CASE CancelWrite
  <2>1. closed => closed'
    BY <1>8, Zenon DEF CancelWrite
  <2>2. UNCHANGED <<received, eof_received, read_aborted, registered>>
    BY <1>8, Zenon DEF CancelWrite
  <2> QED BY <1>1, <2>1, <2>2
<1>9. CASE ResetStream \/ ReleaseWriter \/ GetResponse \/ CancelGetResponse \/ SubmitResponse
  BY <1>1, <1>9 DEF ResetStream, ReleaseWriter, GetResponse, CancelGetResponse, SubmitResponse
<1>10. CASE ReleasePlainWriter
  <2>1. registered' => registered
    BY <1>10, Zenon DEF ReleasePlainWriter, MaybeClose
  <2>2. UNCHANGED <<received, eof_received, read_aborted, closed>>
    BY <1>10, Zenon DEF ReleasePlainWriter
  <2> QED BY <1>1, <2>1, <2>2
<1>11. CASE ReleaseH3Writer
  <2>1. (registered' => registered) /\ (closed => closed')
    <3>1. /\ \/ registered' = registered
             \/ MaybeClose(reader, "gone", closed) \/ MaybeClose(reader, "gone", TRUE)
          /\ closed' = closed \/ closed' = TRUE
      BY <1>11 DEF ReleaseH3Writer, Fail
    <3>2. CASE registered' = registered
      BY <3>1, <3>2
    <3>3. CASE MaybeClose(reader, "gone", closed) \/ MaybeClose(reader, "gone", TRUE)
      <4>1. registered' => registered
        BY <3>3, Zenon DEF MaybeClose
      <4> QED BY <3>1, <4>1
    <3> QED BY <3>1, <3>2, <3>3
  <2>2. UNCHANGED <<received, eof_received, read_aborted>>
    BY <1>11, Zenon DEF ReleaseH3Writer
  <2> QED BY <1>1, <2>1, <2>2
<1>12. CASE \E n \in 0 .. MaxChunk, fin \in BOOLEAN :
                RecvStreamData(n, fin) \/ H3RecvStreamData(n, fin)
  <2>1. PICK n \in 0 .. MaxChunk, fin \in BOOLEAN : Arrives(n, fin)
    BY <1>12 DEF RecvStreamData, H3RecvStreamData
  <2>2. ~eof_received
    BY <2>1 DEF Arrives, IInv, ReadInv, Over
  <2> QED BY <1>1, <2>1, <2>2, BoundsAssumption DEF Arrives
<1>13. CASE H3RecvReset \/ RecvUnread \/ RecvStopSending
  BY <1>1, <1>13 DEF H3RecvReset, RecvUnread, RecvStopSending
<1>14. CASE StreamClose \/ (\E ec \in {"ok", "error"} : H3StreamClose(ec)) \/ ConnectionFails
  BY <1>1, <1>14 DEF StreamClose, H3StreamClose, Closes, ConnectionFails, Fail
<1>15. CASE \E too_large \in BOOLEAN : OnHeadersComplete(too_large)
  BY <1>1, <1>15 DEF OnHeadersComplete
<1>16. CASE SessionEnds
  BY <1>1, <1>16 DEF SessionEnds
<1> QED BY <1>3, <1>4, <1>5, <1>6, <1>7, <1>8, <1>9, <1>10, <1>11, <1>12, <1>13, <1>14, <1>15,
           <1>16 DEF Next, Goes, User, Peer, Outgoing

\* A step that says nothing, and leaves the buffers alone.
Unheard ==
    /\ UNCHANGED <<last, eof_received, delivered, pending_read, incoming, fin_next, read_aborted>>
    /\ UNCHANGED pc \/ reader = "attached"
    /\ (closed => closed') /\ (registered' => registered)
    /\ fin_next /\ closed' => gave_up'
    /\ gave_up => gave_up'
    /\ \/ reader' = reader
       \/ reader = "none" /\ reader' = "attached"

LEMMA UnheardStep ==
  ASSUME IInv, Told, Whole, Unheard
  PROVE  Told' /\ Whole' /\ UNCHANGED <<delivered, last>>
<1>1. reader = "none" => last = "nothing"
  BY DEF IInv, ReadInv, Responds
<1>2. Drained' <=> Drained
  BY DEF Unheard, Drained
<1>3. Told'
  BY <1>1, <1>2 DEF Unheard, Told
<1>4. Whole'
  BY DEF Unheard, Whole
<1> QED BY <1>3, <1>4 DEF Unheard

\* Steps of which the reader does not hear.
LEMMA OthersUnheard ==
  ASSUME IInv, Told, Whole,
         \/ Outgoing \/ FailReturns \/ (\E n \in 1 .. MaxChunk : ReadSome(n)) \/ CancelRead
         \/ CancelWrite \/ ResetStream \/ ReleaseWriter \/ ReleasePlainWriter
         \/ GetResponse \/ CancelGetResponse \/ SubmitResponse
         \/ H3RecvReset \/ RecvUnread \/ RecvStopSending
         \/ (\E too_large \in BOOLEAN : OnHeadersComplete(too_large))
  PROVE  Unheard
<1> USE DEF engine, reading, life, response
<1>1. /\ fin_next /\ closed => gave_up
      /\ kind = "client" /\ (~response_delivered \/ ~headers_received) => reader = "none"
  BY DEF Whole, IInv, ReadInv, Responds
<1>2. CASE Outgoing
  <2>1. UNCHANGED <<engine, reading, life, reader>>
    BY <1>2, OutgoingOnly
  <2> QED BY <1>1, <2>1 DEF Unheard
<1>3. CASE FailReturns
  <2>1. registered' => registered
    BY <1>3, Zenon DEF FailReturns
  <2> QED BY <1>1, <1>3, <2>1 DEF FailReturns, Unheard
<1>4. CASE (\E n \in 1 .. MaxChunk : ReadSome(n)) \/ CancelRead
  BY <1>1, <1>4 DEF ReadSome, CancelRead, Unheard
<1>5. CASE CancelWrite
  <2>1. (fin_next /\ closed' => gave_up') /\ (closed => closed') /\ (gave_up => gave_up')
    <3> DEFINE b == MustReset /\ ~Plain
    <3>1. \/ UNCHANGED <<closed, gave_up>>
          \/ ~b /\ UNCHANGED gave_up /\ closed' = (closed \/ b)
          \/ b /\ GivesUp
      BY <1>5, Zenon DEF CancelWrite
    <3>2. CASE UNCHANGED <<closed, gave_up>>
      BY <1>1, <3>2
    <3>3. CASE ~b /\ UNCHANGED gave_up /\ closed' = (closed \/ b)
      BY <1>1, <3>3, Zenon
    <3>5. closed => closed'
      BY <1>5, Zenon DEF CancelWrite
    <3>4. CASE b /\ GivesUp
      BY <3>4, <3>5, Zenon DEF GivesUp
    <3> QED BY <3>1, <3>2, <3>3, <3>4
  <2>2. UNCHANGED <<reading, registered, reader>>
    BY <1>5, Zenon DEF CancelWrite
  <2> QED BY <2>1, <2>2 DEF Unheard
<1>6. CASE ResetStream \/ ReleaseWriter \/ CancelGetResponse \/ SubmitResponse
  BY <1>1, <1>6 DEF ResetStream, ReleaseWriter, CancelGetResponse, SubmitResponse, Unheard
<1>7. CASE GetResponse \/ \E too_large \in BOOLEAN : OnHeadersComplete(too_large)
  BY <1>1, <1>7 DEF GetResponse, OnHeadersComplete, Unheard
<1>8. CASE ReleasePlainWriter
  <2>1. registered' => registered
    BY <1>8, Zenon DEF ReleasePlainWriter, MaybeClose
  <2>2. UNCHANGED <<reading, closed, gave_up, reader>>
    BY <1>8, Zenon DEF ReleasePlainWriter
  <2> QED BY <1>1, <2>1, <2>2 DEF Unheard
<1>9. CASE H3RecvReset \/ RecvUnread \/ RecvStopSending
  BY <1>1, <1>9 DEF H3RecvReset, RecvUnread, RecvStopSending, Unheard
<1> QED BY <1>2, <1>3, <1>4, <1>5, <1>6, <1>7, <1>8, <1>9

\* The end of a body, told to a user that gave up in the handler of its last data.
TellsAnyway == gave_up /\ last' = "eof" /\ UNCHANGED delivered

\* One step of the contract, and what the reader was told stays true.
Keeps ==
    /\ Told' /\ Whole'
    /\ \/ Body!Give \/ Body!TellEnd \/ Body!TellCut \/ UNCHANGED <<delivered, last>>
       \/ TellsAnyway

\* The end of the body is only told to a reader that was given all of it.
LEMMA AllGiven ==
  ASSUME IInv, Whole, eof_received, Drained, reader # "gone", ~gave_up
  PROVE  Len(delivered) = received
<1>1. ~read_aborted
  BY DEF Whole
<1>2. Len(pending_read) = 0 /\ Len(incoming) = 0 /\ Len(delivered) \in Nat
  BY DEF Drained, IInv, TypeOK
<1>3. Kept = received
  BY <1>1 DEF IInv, ReadInv, Stored
<1> QED BY <1>2, <1>3 DEF Kept

\* Both buffers are empty when the two of them are.
LEMMA BothEmpty ==
  ASSUME TypeOK
  PROVE  pending_read \o incoming = <<>> <=> Drained
<1>1. pending_read \in Seq(Unit) /\ incoming \in Seq(Unit)
  BY DEF TypeOK, Unit
<1>2. CASE Drained
  BY <1>2 DEF Drained
<1>3. CASE pending_read \o incoming = <<>>
  <2>1. Len(pending_read \o incoming) = Len(pending_read) + Len(incoming)
    BY <1>1
  <2>2. Len(pending_read) = 0 /\ Len(incoming) = 0
    BY <1>1, <1>3, <2>1
  <2> QED BY <1>1, <2>2, EmptyRun DEF Drained
<1> QED BY <1>2, <1>3

\* The first n numbers.
LEMMA RunIs ==
  ASSUME NEW s \in Seq(Unit), Run(s, 0)
  PROVE  s = [i \in 1 .. Len(s) |-> i]
<1>1. s = [i \in 1 .. Len(s) |-> s[i]]
  OBVIOUS
<1>2. \A i \in 1 .. Len(s) : s[i] = i
  BY DEF Run
<1> QED BY <1>1, <1>2

\* The next data are given to a reader that was not told of an end.
LEMMA GivesStep ==
  ASSUME IInv, Told, Whole, ReadLoop, TurnWithData
  PROVE  Keeps
<1> USE DEF engine, reading, life, response
<1>1. TypeOK /\ Stored /\ Waiting
  BY DEF IInv, ReadInv
<1>2. /\ read_handler > 0 /\ last' = "data" /\ pending_read \o incoming # <<>>
      /\ UNCHANGED <<received, eof_received, read_aborted, fin_next, closed, registered, gave_up,
                     reader>>
  BY DEF ReadLoop, TurnWithData
<1>3. reader = "attached" /\ ~Drained
  BY <1>1, <1>2, BothEmpty DEF Waiting
<1>4. last \in {"nothing", "data"}
  BY <1>1, <1>3 DEF Told, TypeOK
<1>5. /\ Stored' /\ delivered' \in Seq(Unit) /\ pending_read' \in Seq(Unit)
      /\ incoming' \in Seq(Unit) /\ Len(delivered') > Len(delivered)
  BY <1>1, <1>2, TurnStored
<1>6. delivered' = [i \in 1 .. Len(delivered') |-> i]
  BY <1>5, RunIs DEF Stored
<1>7. Len(delivered') <= received'
  <2>1. Kept' <= received' /\ received' \in Nat
    BY <1>1, <1>2, <1>5 DEF Stored, TypeOK
  <2>2. Len(delivered') \in Nat /\ Len(pending_read') \in Nat /\ Len(incoming') \in Nat
    BY <1>5
  <2> QED BY <2>1, <2>2 DEF Kept
<1>8. Body!Give
  BY <1>2, <1>4, <1>5, <1>6, <1>7 DEF Body!Give
<1>9. Told' /\ Whole'
  BY <1>2, <1>3 DEF Told, Whole
<1> QED BY <1>8, <1>9 DEF Keeps

\* A read that finds the body at its end.
LEMMA TellsStep ==
  ASSUME IInv, Told, Whole, ReadLoop, TurnWithEnd
  PROVE  Keeps
<1> USE DEF engine, reading, life, response
<1>1. TypeOK /\ Waiting
  BY DEF IInv, ReadInv
<1>2. /\ read_handler > 0 /\ pending_read \o incoming = <<>>
      /\ \/ eof_received /\ last' = "eof"
         \/ ~eof_received /\ (closed \/ read_aborted) /\ last' = "partial"
      /\ UNCHANGED <<received, eof_received, read_aborted, fin_next, closed, registered, gave_up,
                     reader, delivered, pending_read, incoming>>
  BY DEF ReadLoop, TurnWithEnd
<1>3. reader = "attached" /\ Drained
  BY <1>1, <1>2, BothEmpty DEF Waiting
<1>4. Drained'
  BY <1>2, <1>3 DEF Drained
<1>5. Told' /\ Whole'
  BY <1>2, <1>3, <1>4 DEF Told, Whole
<1>6. CASE eof_received /\ ~gave_up
  <2>1. last # "partial"
    BY <1>3, <1>6 DEF Told
  <2>2. Len(delivered) = received
    BY <1>3, <1>6, AllGiven
  <2> QED BY <1>2, <1>5, <1>6, <2>1, <2>2 DEF Keeps, Body!TellEnd
<1>8. CASE eof_received /\ gave_up
  BY <1>2, <1>5, <1>8 DEF Keeps, TellsAnyway
<1>7. CASE ~eof_received
  <2>1. last # "eof"
    BY <1>7 DEF Told
  <2> QED BY <1>2, <1>5, <1>7, <2>1 DEF Keeps, Body!TellCut
<1> QED BY <1>6, <1>7, <1>8

LEMMA LeavesStep ==
  ASSUME IInv, Told, Whole, ReadLoop, LeaveLoop
  PROVE  Keeps
<1> USE DEF engine, reading, life, response
<1>1. /\ pc # "out" /\ pending_read' = pending_read \o incoming /\ incoming' = <<>>
      /\ UNCHANGED <<last, eof_received, read_aborted, fin_next, closed, registered, gave_up,
                     reader, delivered>>
  BY DEF ReadLoop, LeaveLoop
<1>2. Drained => Drained'
  BY <1>1 DEF Drained
<1>3. Told' /\ Whole'
  BY <1>1, <1>2 DEF Told, Whole
<1> QED BY <1>1, <1>3 DEF Keeps

\* The end of the body comes after all of it, and to a reader that was not told of a cut.
LEMMA OnEofKeeps ==
  ASSUME IInv, Told, Whole, OnEof
  PROVE  Keeps
<1> USE DEF engine, reading, life, response
<1>1. /\ fin_next /\ fin_next' = FALSE /\ eof_received' = TRUE
      /\ UNCHANGED <<pending_read, incoming, read_aborted, delivered, last, closed, registered,
                     gave_up, reader>>
  BY DEF OnEof
<1>2. reader = "attached" => registered
  BY DEF IInv, ReadInv, Handles
<1>3. last = "partial" => reader # "attached" \/ gave_up
  BY <1>1, <1>2 DEF Told, Whole
<1>4. Drained' <=> Drained
  BY <1>1 DEF Drained
<1>5. Told' /\ Whole'
  BY <1>1, <1>3, <1>4 DEF Told, Whole
<1> QED BY <1>1, <1>5 DEF Keeps

\* What arrives, arrives at a reader that was told nothing about the end.
LEMMA ArrivesKeeps ==
  ASSUME IInv, Told, Whole, NEW n, NEW fin, Arrives(n, fin)
  PROVE  Keeps
<1> USE DEF engine, reading, life, response
<1>1. /\ registered /\ strm = "open" /\ rx = "open" /\ ~stopped
      /\ UNCHANGED <<eof_received, read_aborted, delivered, last, closed, registered, gave_up,
                     reader>>
  BY DEF Arrives
<1>2. ~closed /\ ~read_aborted /\ ~eof_received /\ reader \notin {"gone", "eof", "partial"}
  BY <1>1 DEF IInv, ReadInv, Over, Silent
<1>3. last \notin {"eof", "partial"}
  BY <1>1, <1>2 DEF Told
<1>4. Told' /\ Whole'
  BY <1>1, <1>2, <1>3 DEF Told, Whole
<1> QED BY <1>1, <1>4 DEF Keeps

\* A body that is given up was not complete, or its user gave up in the handler of the last data.
LEMMA AbortKeeps ==
  ASSUME IInv, Told, Whole, RecvReset \/ StopSending
  PROVE  Keeps
<1> USE DEF engine, reading, life, response
<1>1. /\ AbortReading
      /\ UNCHANGED <<eof_received, fin_next, delivered, last, closed, registered, reader>>
  BY DEF RecvReset, StopSending
<1>2. ~eof_received
  BY DEF RecvReset, StopSending, IInv, ReadInv, Over
<1>3. (fin_next => gave_up') /\ (gave_up => gave_up')
  <2>1. CASE RecvReset
    BY <2>1 DEF RecvReset, Idle
  <2>2. CASE StopSending
    BY <2>2, Zenon DEF StopSending, GivesUp
  <2> QED BY <2>1, <2>2
<1>4. reader \notin {"eof", "partial"}
  BY DEF RecvReset, StopSending, IInv, ReadInv, Handles
<1>5. (Drained => Drained') /\ (read_aborted => read_aborted')
  BY <1>1 DEF AbortReading, Drained
<1>6. Told' /\ Whole'
  BY <1>1, <1>2, <1>3, <1>4, <1>5 DEF Told, Whole
<1> QED BY <1>1, <1>6 DEF Keeps

\* detach() has latched the truth.
LEMMA DetachedKeeps ==
  ASSUME IInv, Told, Whole, ReadDetached
  PROVE  Keeps
<1> USE DEF engine, reading, life, response
<1>1. /\ reader \in {"eof", "partial"} /\ last' = reader
      /\ UNCHANGED <<received, pending_read, incoming, eof_received, read_aborted, pc, fin_next,
                     delivered, closed, registered, gave_up, reader>>
  BY DEF ReadDetached
<1>2. ~registered
  BY <1>1 DEF IInv, ReadInv, Handles
<1>3. Drained' <=> Drained
  BY <1>1 DEF Drained
<1>4. Told' /\ Whole'
  BY <1>1, <1>2, <1>3 DEF Told, Whole
<1>7. CASE reader = "eof" /\ gave_up
  BY <1>1, <1>4, <1>7 DEF Keeps, TellsAnyway
<1>5. CASE reader = "eof" /\ ~gave_up
  <2>1. last # "partial" /\ eof_received /\ Drained
    BY <1>5 DEF Told
  <2>2. Len(delivered) = received
    BY <1>5, <2>1, AllGiven
  <2> QED BY <1>1, <1>4, <1>5, <2>1, <2>2 DEF Keeps, Body!TellEnd
<1>6. CASE reader = "partial"
  <2>1. last # "eof"
    BY <1>6 DEF Told
  <2> QED BY <1>1, <1>2, <1>4, <1>6, <2>1 DEF Keeps, Body!TellCut
<1> QED BY <1>1, <1>5, <1>6, <1>7

LEMMA ReleaseReaderKeeps ==
  ASSUME IInv, Told, Whole, ReleaseReader
  PROVE  Keeps
<1> USE DEF engine, reading, life, response
<1>1. /\ reader' = "gone" /\ pending_read' = <<>> /\ incoming' = <<>>
      /\ UNCHANGED <<eof_received, fin_next, delivered, last, closed, gave_up>>
  BY DEF ReleaseReader
<1>2. (registered' => registered) /\ (read_aborted => read_aborted')
  BY Zenon DEF ReleaseReader, MaybeClose
<1>3. Drained'
  BY <1>1 DEF Drained
<1>4. Told' /\ Whole'
  BY <1>1, <1>2, <1>3 DEF Told, Whole
<1> QED BY <1>1, <1>4 DEF Keeps

\* fail(): a read that waits is told that the body was cut, unless it was complete.
LEMMA FailKeeps ==
  ASSUME IInv, Told, Whole, NEW ec, Fail(ec), fin_next => gave_up', gave_up => gave_up',
         registered' => registered,
         reader \notin {"eof", "partial"}, read_handler > 0 => pc = "out",
         UNCHANGED <<pending_read, incoming, eof_received, read_aborted, fin_next, delivered,
                     reader>>
  PROVE  Keeps
<1>1. /\ closed' = TRUE
      /\ last' = (IF read_handler > 0 /\ ec = "error" /\ ~eof_received THEN "partial" ELSE last)
  BY DEF Fail
<1>2. Drained' <=> Drained
  BY DEF Drained
<1>3. Whole'
  BY DEF Whole
<1>4. CASE last' = last
  <2>1. Told'
    BY <1>1, <1>2, <1>4 DEF Told
  <2> QED BY <1>3, <1>4, <2>1 DEF Keeps
<1>5. CASE last' # last
  <2>1. read_handler > 0 /\ ~eof_received /\ last' = "partial"
    BY <1>1, <1>5
  <2>2. Drained
    BY <2>1 DEF IInv, ReadInv, Stored, Waiting, Drained
  <2>3. Told'
    BY <1>1, <1>2, <2>1, <2>2 DEF Told
  <2>4. last # "eof"
    BY <2>1 DEF Told
  <2> QED BY <1>1, <1>3, <2>1, <2>3, <2>4 DEF Keeps, Body!TellCut
<1> QED BY <1>4, <1>5

LEMMA CloseKeeps ==
  ASSUME IInv, Told, Whole, ConnectionFails \/ \E ec \in {"ok", "error"} : Closes(ec)
  PROVE  Keeps
<1> USE DEF engine, reading, life, response
<1>1. /\ \E ec \in {"ok", "error"} : Fail(ec)
      /\ registered /\ ~fin_next /\ pc = "out"
      /\ UNCHANGED <<pending_read, incoming, eof_received, read_aborted, fin_next, delivered,
                     registered, gave_up, reader>>
  BY DEF ConnectionFails, Closes, Idle
<1>2. reader \notin {"eof", "partial"}
  BY <1>1 DEF IInv, ReadInv, Handles
<1> QED BY <1>1, <1>2, FailKeeps

LEMMA ReleaseH3WriterKeeps ==
  ASSUME IInv, Told, Whole, ReleaseH3Writer
  PROVE  Keeps
<1> USE DEF engine, reading, life, response
<1>1. /\ writer = "attached" /\ UserActs
      /\ UNCHANGED <<pending_read, incoming, eof_received, read_aborted, pc, fin_next, delivered,
                     reader>>
  BY DEF ReleaseH3Writer
<1>2. reader \notin {"eof", "partial"}
  BY <1>1 DEF IInv, ReadInv, Handles
<1>3. \/ /\ MaybeClose(reader, "gone", closed) \/ MaybeClose(reader, "gone", TRUE)
         /\ last' = last /\ (UNCHANGED <<closed, gave_up>> \/ (closed' = TRUE /\ GivesUp))
      \/ GivesUp /\ Fail("error") /\ registered' = registered
  BY DEF ReleaseH3Writer
<1>4. CASE GivesUp /\ Fail("error") /\ registered' = registered
  <2>1. (fin_next => gave_up') /\ (gave_up => gave_up')
    BY <1>4, Zenon DEF GivesUp
  <2>2. read_handler > 0 => pc = "out"
    BY <1>1 DEF UserActs
  <2> QED BY <1>1, <1>2, <1>4, <2>1, <2>2, FailKeeps
<1>5. CASE /\ MaybeClose(reader, "gone", closed) \/ MaybeClose(reader, "gone", TRUE)
           /\ last' = last /\ (UNCHANGED <<closed, gave_up>> \/ (closed' = TRUE /\ GivesUp))
  <2>1. registered' => registered
    BY <1>5, Zenon DEF MaybeClose
  <2>2. (closed => closed') /\ (fin_next /\ closed' => gave_up') /\ (gave_up => gave_up')
    <3>1. CASE UNCHANGED <<closed, gave_up>>
      BY <3>1 DEF Whole
    <3>2. CASE closed' = TRUE /\ GivesUp
      BY <3>2, Zenon DEF GivesUp
    <3> QED BY <1>5, <3>1, <3>2
  <2>3. Unheard
    BY <1>1, <1>5, <2>1, <2>2 DEF Unheard
  <2> QED BY <2>3, UnheardStep DEF Keeps
<1> QED BY <1>3, <1>4, <1>5

LEMMA SessionEndsKeeps ==
  ASSUME IInv, Told, Whole, SessionEnds
  PROVE  Keeps
<1> USE DEF engine, reading, life, response
<1>1. /\ Idle /\ registered' = FALSE
      /\ reader' = (IF reader = "attached" THEN DetachReader ELSE reader)
      /\ last' = (IF read_handler > 0 THEN "partial" ELSE last)
      /\ UNCHANGED <<pending_read, incoming, eof_received, read_aborted, pc, fin_next, delivered,
                     closed, gave_up>>
  BY DEF SessionEnds
<1>2. ~fin_next /\ pc = "out"
  BY <1>1 DEF Idle
<1>3. read_handler > 0 => reader = "attached" /\ ~eof_received
  BY <1>2 DEF IInv, ReadInv, Waiting
<1>4. reader = "attached" => reader' = (IF eof_received /\ Drained THEN "eof" ELSE "partial")
  BY <1>1, BothEmpty DEF DetachReader, IInv
<1>5. reader # "attached" => reader' = reader
  BY <1>1
<1>6. Drained' <=> Drained
  BY <1>1 DEF Drained
<1>7. Whole'
  BY <1>1, <1>2, <1>5 DEF Whole
<1>8. CASE read_handler > 0
  <2>1. last' = "partial" /\ reader' = "partial" /\ ~eof_received /\ last # "eof"
    BY <1>1, <1>3, <1>4, <1>8 DEF Told
  <2>2. Told'
    BY <1>1, <1>2, <2>1 DEF Told
  <2> QED BY <1>1, <1>7, <2>1, <2>2 DEF Keeps, Body!TellCut
<1>9. CASE ~(read_handler > 0)
  <2>1. Told'
    <3>1. CASE reader = "attached"
      BY <1>1, <1>2, <1>4, <1>6, <1>9, <3>1 DEF Told
    <3>2. CASE reader # "attached"
      BY <1>1, <1>2, <1>5, <1>6, <1>9, <3>2 DEF Told
    <3> QED BY <3>1, <3>2
  <2> QED BY <1>1, <1>7, <1>9, <2>1 DEF Keeps
<1> QED BY <1>8, <1>9

LEMMA StepKeeps ==
  ASSUME IInv, Told, Whole, Next
  PROVE  Keeps
<1>1. CASE ReadLoop
  BY <1>1, GivesStep, TellsStep, LeavesStep DEF ReadLoop
<1>2. CASE OnEof \/ ReadDetached \/ ReleaseReader \/ StopSending \/ RecvReset
  BY <1>2, OnEofKeeps, DetachedKeeps, ReleaseReaderKeeps, AbortKeeps
<1>3. CASE ReleaseH3Writer \/ SessionEnds
  BY <1>3, ReleaseH3WriterKeeps, SessionEndsKeeps
<1>4. CASE ConnectionFails \/ StreamClose \/ \E ec \in {"ok", "error"} : H3StreamClose(ec)
  BY <1>4, CloseKeeps DEF StreamClose, H3StreamClose
<1>5. CASE \E n \in 0 .. MaxChunk, fin \in BOOLEAN :
               RecvStreamData(n, fin) \/ H3RecvStreamData(n, fin)
  BY <1>5, ArrivesKeeps DEF RecvStreamData, H3RecvStreamData
<1>6. CASE \/ Outgoing \/ FailReturns \/ (\E n \in 1 .. MaxChunk : ReadSome(n)) \/ CancelRead
           \/ CancelWrite \/ ResetStream \/ ReleaseWriter \/ ReleasePlainWriter
           \/ GetResponse \/ CancelGetResponse \/ SubmitResponse
           \/ H3RecvReset \/ RecvUnread \/ RecvStopSending
           \/ (\E too_large \in BOOLEAN : OnHeadersComplete(too_large))
  <2>1. Unheard
    BY <1>6, OthersUnheard
  <2> QED BY <2>1, UnheardStep DEF Keeps
<1> QED BY <1>1, <1>2, <1>3, <1>4, <1>5, <1>6 DEF Next, Goes, User, Peer, Outgoing

\* A stream implements the contract of a Reader: call_read_handler(), abort_reading(), fail()
\* and detach() give the body out in order and without a gap, tell its end only after all of
\* it, and never take back what they told.  Only a user that gave up in the handler of the last
\* data of a body may be told its end anyway.
THEOREM ReaderRefines == Spec => ReaderContract
<1> DEFINE CInv == IInv /\ Told /\ Whole
<1>1. Init => CInv
  <2>1. SUFFICES ASSUME Init PROVE CInv
    OBVIOUS
  <2>2. IInv
    BY <2>1, InitInv
  <2>3. Told /\ Whole
    BY <2>1 DEF Init, Told, Whole
  <2> QED BY <2>2, <2>3
<1>2. CInv /\ [Next]_vars => CInv'
  <2>1. SUFFICES ASSUME CInv, [Next]_vars PROVE CInv'
    OBVIOUS
  <2>2. IInv'
    BY <2>1, StepInv
  <2>3. CASE Next
    BY <2>1, <2>2, <2>3, StepKeeps DEF Keeps
  <2>4. CASE UNCHANGED vars
    BY <2>1, <2>2, <2>4 DEF vars, reading, life, Told, Whole, Drained
  <2> QED BY <2>1, <2>3, <2>4
<1>3. Init => Body!Init
  BY DEF Init, Body!Init
<1>4. CInv /\ CInv' /\ [Next]_vars => [Body!Next \/ ToldAnyway]_(Body!vars)
  <2>1. SUFFICES ASSUME CInv, CInv', [Next]_vars PROVE [Body!Next \/ ToldAnyway]_(Body!vars)
    OBVIOUS
  <2>2. CASE Next
    <3>1. Body!Arrive
      BY <2>1, <2>2, ArriveStep
    <3>2. Keeps
      BY <2>1, <2>2, StepKeeps
    <3> QED BY <3>1, <3>2 DEF Keeps, TellsAnyway, Body!Next, ToldAnyway
  <2>3. CASE UNCHANGED vars
    BY <2>3 DEF vars, reading, life, Body!vars
  <2> QED BY <2>1, <2>2, <2>3
<1> QED BY <1>1, <1>2, <1>3, <1>4, PTL DEF Spec, ReaderContract

=============================================================================
