--------------------------- MODULE H2StreamProofs ---------------------------
(***************************************************************************)
(* Proofs about H2Stream, for a body of any length in frames of any size:  *)
(* the reader of a stream keeps the contract of BodyReader, what waits can *)
(* still be woken, and a response that came is kept.  And about its        *)
(* sibling H2v2Stream, which is instantiated as V2: the same of its        *)
(* reader, and that it neither gives back a buffer that nghttp2 reads      *)
(* from, nor cuts a response whose end it has accepted.                    *)
(*                                                                         *)
(* What the buffers hold is stated by position, each buffer as a run of    *)
(* numbers that begins where the one before it ends, so that no proof      *)
(* needs induction over the queue of buffers.                              *)
(***************************************************************************)
EXTENDS H2Stream, TLAPS

CONSTANT ChunkSize
VARIABLES vec, fin, unoffered, write_cancelled, asking, ended, posted

V2 == INSTANCE H2v2Stream

Unit == 1 .. MaxData

-----------------------------------------------------------------------------
(* The invariant.                                                          *)

\* The numbers from a on.
Run(s, a) == \A i \in 1 .. Len(s) : s[i] = a + i - 1

\* The last unit of the i-th of some buffers, where e is that of the first.
End(e, bufs, i) == IF i <= 1 THEN e ELSE bufs[i][Len(bufs[i])]

\* After d units, what is left of the first buffer, the other buffers, and the rest follow
\* each other without a gap, up to the unit r.
Chain(d, buf, bufs, rest, r) ==
    LET e == d + Len(buf) IN
    /\ Run(buf, d + 1)
    /\ bufs = <<>> => rest = <<>>
    /\ \A i \in 1 .. Len(bufs) : End(e, bufs, i) <= r
    /\ \A i \in 2 .. Len(bufs) : bufs[i] # <<>> /\ Run(bufs[i], End(e, bufs, i - 1) + 1)
    /\ Run(rest, End(e, bufs, Len(bufs)) + 1)
    /\ r = End(e, bufs, Len(bufs)) + Len(rest)

\* What was delivered, and what is stored, is the body so far; and between two calls of
\* call_read_handler(), there is a buffer exactly if there is something to read in it.
Stored ==
    /\ Run(delivered, 1)
    /\ Chain(Len(delivered), read_buffer, pending_read_buffers, view, received)
    /\ pc = "out" => view = <<>> /\ (pending_read_buffers = <<>> <=> read_buffer = <<>>)
    /\ pc \in {"eof", "last"} =>
        read_buffer = <<>> /\ pending_read_buffers = <<>> /\ view = <<>>

\* Everything was delivered.
Drained == read_buffer = <<>> /\ pending_read_buffers = <<>> /\ view = <<>>

\* What the last read said about the end of the body was true, and is still so; a handle
\* that is detached knows the same.
Told ==
    /\ (pc = "data" => last = "data") /\ (pc = "eof" => last = "eof") /\ (pc = "last" => last = "partial")
    /\ last = "eof" => eof_received /\ Drained
    /\ last = "partial" => /\ closed \/ ~alive
                           /\ ~(eof_received /\ Drained)
                           /\ reader = "attached" => Drained
    /\ reader = "eof" => eof_received /\ Drained
    /\ reader = "partial" => ~(eof_received /\ Drained)
    /\ reader \in {"eof", "partial"} => ~alive

\* A stream lives until nghttp2 closes it, is closed until it is erased, and then destroyed.
Lives ==
    /\ live <=> alive /\ ~closed
    /\ live => registered
    /\ registered => alive
    /\ closing => closed /\ alive
    /\ close_deferred => closed /\ eof_received
    /\ ~alive => pc = "out" /\ reader # "attached" /\ writer # "attached"

\* A read waits in its reader.
Parked == read_handler > 0 => alive /\ reader = "attached"

\* A response comes once, on the side of the client, and is where its reader comes from.
Responds ==
    /\ role = "server" => headers
    /\ ~headers => ~has_response /\ ~response_error /\ ~response_delivered
    /\ has_response \/ response_error \/ response_handler \/ response_delivered => role = "client"
    /\ response_handler => ~response_delivered
    /\ role = "client" /\ ~response_delivered => reader = "none"
    /\ reader = "none" => last = "nothing"
    /\ close_deferred => ~KeepForResponse
    /\ (role = "client" /\ closed /\ ~closing /\ ~response_delivered /\ registered)
        => has_response \/ response_error

\* The inductive invariant.
IInv == /\ TypeOK /\ Stored /\ Told /\ Lives /\ Parked /\ Responds
        /\ NothingStuck /\ ResponseKept

-----------------------------------------------------------------------------
(* Buffers.                                                                *)

\* A sequence is empty or has a length.
LEMMA Lengths ==
  ASSUME NEW S, NEW s \in Seq(S)
  PROVE  /\ Len(s) \in Nat
         /\ s # <<>> => Len(s) \in Nat \ {0} /\ Len(s) \in 1 .. Len(s) /\ s[Len(s)] \in S
OBVIOUS

\* A sequence that grows by one element.
LEMMA Grown ==
  ASSUME NEW S, NEW s \in Seq(S), NEW x \in S
  PROVE  /\ Append(s, x) \in Seq(S) /\ Append(s, x) # <<>> /\ Len(Append(s, x)) = Len(s) + 1
         /\ \A i \in 1 .. Len(s) : Append(s, x)[i] = s[i]
         /\ Append(s, x)[Len(s) + 1] = x
OBVIOUS

\* Two sequences, one behind the other.
Joined(s, t) == s \o t

LEMMA JoinedFacts ==
  ASSUME NEW S, NEW s \in Seq(S), NEW t \in Seq(S)
  PROVE  /\ Joined(s, t) \in Seq(S) /\ Len(Joined(s, t)) = Len(s) + Len(t)
         /\ \A i \in 1 .. Len(s) : Joined(s, t)[i] = s[i]
         /\ \A i \in 1 .. Len(t) : Joined(s, t)[Len(s) + i] = t[i]
BY DEF Joined

\* A sequence without its first element.
LEMMA Shrunk ==
  ASSUME NEW S, NEW s \in Seq(S), Len(s) > 1
  PROVE  /\ Tail(s) \in Seq(S) /\ Tail(s) # <<>> /\ Len(Tail(s)) = Len(s) - 1
         /\ \A i \in 1 .. Len(s) - 1 : Tail(s)[i] = s[i + 1]
<1>1. Tail(s) \in Seq(S) /\ Len(Tail(s)) = Len(s) - 1
  OBVIOUS
<1>2. Tail(s) # <<>>
  <2> DEFINE t == Tail(s)
  <2>1. t \in Seq(S) /\ Len(t) > 0
    BY <1>1
  <2> HIDE DEF t
  <2>2. t # <<>>
    BY <2>1
  <2> QED BY <2>2 DEF t
<1>3. \A i \in 1 .. Len(s) - 1 : Tail(s)[i] = s[i + 1]
  OBVIOUS
<1> QED BY <1>1, <1>2, <1>3

\* Where the buffers end, in numbers.
LEMMA EndType ==
  ASSUME NEW d \in Nat, NEW buf \in Seq(Unit), NEW bufs \in Seq(Seq(Unit)), NEW rest \in Seq(Unit),
         NEW r \in Nat, Chain(d, buf, bufs, rest, r)
  PROVE  \A i \in 0 .. Len(bufs) : End(d + Len(buf), bufs, i) \in Nat
<1> SUFFICES ASSUME NEW i \in 0 .. Len(bufs) PROVE End(d + Len(buf), bufs, i) \in Nat
  OBVIOUS
<1>1. CASE i <= 1
  BY <1>1 DEF End
<1>2. CASE i > 1
  <2>1. bufs[i] \in Seq(Unit) /\ bufs[i] # <<>>
    BY <1>2 DEF Chain
  <2>2. Len(bufs[i]) \in 1 .. Len(bufs[i])
    BY <2>1
  <2>3. bufs[i][Len(bufs[i])] \in Unit
    BY <2>1, <2>2
  <2> QED BY <1>2, <2>3, MaxDataAssumption DEF End, Unit
<1> QED BY <1>1, <1>2

\* The first c units of the first buffer are taken.
LEMMA ChainConsume ==
  ASSUME NEW d \in Nat, NEW buf \in Seq(Unit), NEW bufs \in Seq(Seq(Unit)), NEW rest \in Seq(Unit),
         NEW r \in Nat, Chain(d, buf, bufs, rest, r), NEW c \in 0 .. Len(buf)
  PROVE  /\ SubSeq(buf, c + 1, Len(buf)) \in Seq(Unit)
         /\ Chain(d + c, SubSeq(buf, c + 1, Len(buf)), bufs, rest, r)
<1> DEFINE left == SubSeq(buf, c + 1, Len(buf))
<1>1. /\ left \in Seq(Unit) /\ Len(left) = Len(buf) - c
      /\ \A i \in 1 .. Len(buf) - c : left[i] = buf[c + i]
  OBVIOUS
<1>2. d + c + Len(left) = d + Len(buf)
  <2>1. Len(buf) \in Nat
    OBVIOUS
  <2> HIDE DEF left
  <2> QED BY <1>1, <2>1
<1>3. Run(left, d + c + 1)
  <2>1. \A i \in 1 .. Len(buf) : buf[i] = d + 1 + i - 1
    BY DEF Chain, Run
  <2> HIDE DEF left
  <2> QED BY <1>1, <2>1 DEF Run
<1> HIDE DEF left
<1>4. Chain(d + c, left, bufs, rest, r)
  BY <1>1, <1>2, <1>3 DEF Chain
<1> QED BY <1>1, <1>4 DEF left

\* What is left over is stored.
LEMMA ChainStore ==
  ASSUME NEW d \in Nat, NEW buf \in Seq(Unit), NEW bufs \in Seq(Seq(Unit)), NEW rest \in Seq(Unit),
         NEW r \in Nat, Chain(d, buf, bufs, rest, r), buf = <<>> => bufs = <<>>
  PROVE  /\ Store(buf, bufs, rest) \in Seq(Seq(Unit))
         /\ Store(buf, bufs, rest) = <<>> <=> buf = <<>>
         /\ Chain(d, buf, Store(buf, bufs, rest), <<>>, r)
<1> DEFINE e == d + Len(buf)
<1>1. /\ Run(buf, d + 1) /\ (bufs = <<>> => rest = <<>>)
      /\ \A i \in 1 .. Len(bufs) : End(e, bufs, i) <= r
      /\ \A i \in 2 .. Len(bufs) : bufs[i] # <<>> /\ Run(bufs[i], End(e, bufs, i - 1) + 1)
      /\ Run(rest, End(e, bufs, Len(bufs)) + 1)
      /\ r = End(e, bufs, Len(bufs)) + Len(rest)
  BY DEF Chain
<1>2. /\ Len(<<>>) = 0 /\ e \in Nat /\ (\A a : Run(<<>>, a)) /\ <<>> \in Seq(Unit)
      /\ \A i \in 0 .. Len(bufs) : End(e, bufs, i) \in Nat
  BY EndType DEF Run
<1>3. CASE buf = <<>>
  <2>1. Store(buf, bufs, rest) = <<>> /\ bufs = <<>> /\ rest = <<>>
    BY <1>1, <1>3 DEF Store
  <2> QED BY <1>3, <2>1
<1>4. CASE buf # <<>> /\ bufs = <<>>
  <2>1. /\ Store(buf, bufs, rest) = <<buf>> /\ <<buf>> \in Seq(Seq(Unit)) /\ <<buf>> # <<>>
        /\ Len(<<buf>>) = 1
    BY <1>4 DEF Store
  <2>2. r = e /\ End(e, <<buf>>, 1) = e
    BY <1>1, <1>2, <1>4 DEF End
  <2> HIDE DEF e
  <2>3. Chain(d, buf, <<buf>>, <<>>, r)
    BY <1>1, <1>2, <2>1, <2>2 DEF Chain, e
  <2> QED BY <1>4, <2>1, <2>3
<1>5. CASE buf # <<>> /\ bufs # <<>> /\ rest = <<>>
  <2>1. Store(buf, bufs, rest) = bufs
    BY <1>5 DEF Store
  <2> QED BY <1>5, <2>1
<1>6. CASE buf # <<>> /\ bufs # <<>> /\ rest # <<>>
  <2> DEFINE more == Append(bufs, rest)
  <2>1. Store(buf, bufs, rest) = more
    BY <1>6 DEF Store
  <2>2. /\ more \in Seq(Seq(Unit)) /\ more # <<>> /\ Len(more) = Len(bufs) + 1
        /\ \A i \in 1 .. Len(bufs) : more[i] = bufs[i]
        /\ more[Len(bufs) + 1] = rest /\ Len(bufs) \in Nat \ {0} /\ Len(rest) \in Nat \ {0}
    <3>1. Len(bufs) \in Nat \ {0} /\ Len(rest) \in Nat \ {0}
      BY <1>6, Lengths
    <3>2. /\ more \in Seq(Seq(Unit)) /\ more # <<>> /\ Len(more) = Len(bufs) + 1
          /\ \A i \in 1 .. Len(bufs) : more[i] = bufs[i]
          /\ more[Len(bufs) + 1] = rest
      BY Grown
    <3> HIDE DEF more
    <3> QED BY ONLY <3>1, <3>2
  <2> HIDE DEF more, e
  <2>3. ASSUME NEW i \in 0 .. Len(bufs) PROVE End(e, more, i) = End(e, bufs, i)
    <3>1. CASE i <= 1
      BY <3>1 DEF End
    <3>2. CASE i > 1
      <4>1. i \in 1 .. Len(bufs)
        BY <2>2, <3>2
      <4>2. more[i] = bufs[i]
        BY ONLY <2>2, <4>1
      <4> QED BY <3>2, <4>2 DEF End
    <3> QED BY <2>2, <3>1, <3>2
  <2>4. End(e, more, Len(bufs) + 1) = r
    <3>1. rest[Len(rest)] = End(e, bufs, Len(bufs)) + 1 + Len(rest) - 1
      BY <1>1, <2>2 DEF Run
    <3>2. Len(bufs) + 1 > 1 /\ End(e, bufs, Len(bufs)) \in Nat
      BY <1>2, <2>2
    <3>3. End(e, more, Len(bufs) + 1) = rest[Len(rest)]
      BY <2>2, <3>2 DEF End
    <3> QED BY <1>1, <2>2, <3>1, <3>2, <3>3
  <2>5. \A i \in 1 .. Len(more) : End(e, more, i) <= r
    <3> SUFFICES ASSUME NEW i \in 1 .. Len(more) PROVE End(e, more, i) <= r
      OBVIOUS
    <3>1. CASE i = Len(bufs) + 1
      BY <2>4, <3>1
    <3>2. CASE i \in 1 .. Len(bufs)
      BY <1>1, <2>3, <3>2
    <3> QED BY <2>2, <3>1, <3>2
  <2>6. \A i \in 2 .. Len(more) : more[i] # <<>> /\ Run(more[i], End(e, more, i - 1) + 1)
    <3> SUFFICES ASSUME NEW i \in 2 .. Len(more)
                 PROVE  more[i] # <<>> /\ Run(more[i], End(e, more, i - 1) + 1)
      OBVIOUS
    <3>1. End(e, more, i - 1) = End(e, bufs, i - 1)
      BY <2>2, <2>3
    <3>2. CASE i = Len(bufs) + 1
      BY <1>1, <1>6, <2>2, <3>1, <3>2
    <3>3. CASE i \in 2 .. Len(bufs)
      <4>1. bufs[i] # <<>> /\ Run(bufs[i], End(e, bufs, i - 1) + 1)
        BY <1>1, <3>3
      <4>2. more[i] = bufs[i]
        BY <2>2, <3>3
      <4> QED BY <3>1, <4>1, <4>2
    <3> QED BY <2>2, <3>2, <3>3
  <2>7. Chain(d, buf, more, <<>>, r)
    BY <1>1, <1>2, <2>2, <2>4, <2>5, <2>6 DEF Chain, e
  <2> QED BY <1>6, <2>1, <2>2, <2>7
<1> QED BY <1>3, <1>4, <1>5, <1>6

\* The first buffer is used up, and the next one takes its place ...
LEMMA ChainNext ==
  ASSUME NEW d \in Nat, NEW bufs \in Seq(Seq(Unit)), NEW rest \in Seq(Unit), NEW r \in Nat,
         Chain(d, <<>>, bufs, rest, r), Len(bufs) > 1
  PROVE  /\ bufs[2] \in Seq(Unit) /\ bufs[2] # <<>> /\ Tail(bufs) \in Seq(Seq(Unit))
         /\ Tail(bufs) # <<>>
         /\ Chain(d, bufs[2], Tail(bufs), rest, r)
<1> DEFINE more == Tail(bufs)
           e == d + Len(bufs[2])
<1>1. /\ \A i \in 1 .. Len(bufs) : End(d, bufs, i) <= r
      /\ \A i \in 2 .. Len(bufs) : bufs[i] # <<>> /\ Run(bufs[i], End(d, bufs, i - 1) + 1)
      /\ Run(rest, End(d, bufs, Len(bufs)) + 1)
      /\ r = End(d, bufs, Len(bufs)) + Len(rest)
  <2>1. d + Len(<<>>) = d
    OBVIOUS
  <2> QED BY <2>1 DEF Chain
<1>2. /\ more \in Seq(Seq(Unit)) /\ Len(more) = Len(bufs) - 1 /\ more # <<>>
      /\ \A i \in 1 .. Len(bufs) - 1 : more[i] = bufs[i + 1]
      /\ bufs[2] \in Seq(Unit) /\ bufs[2] # <<>> /\ Len(bufs[2]) \in Nat \ {0}
      /\ e \in Nat /\ Len(bufs) \in Nat
  <2>1. Len(bufs) \in Nat /\ 2 \in 2 .. Len(bufs) /\ 2 \in 1 .. Len(bufs)
    OBVIOUS
  <2>2. bufs[2] \in Seq(Unit) /\ bufs[2] # <<>>
    BY <1>1, <2>1
  <2>3. Len(bufs[2]) \in Nat \ {0}
    BY <2>2, Lengths
  <2>4. /\ more \in Seq(Seq(Unit)) /\ Len(more) = Len(bufs) - 1 /\ more # <<>>
        /\ \A i \in 1 .. Len(bufs) - 1 : more[i] = bufs[i + 1]
    BY Shrunk
  <2>5. e \in Nat
    BY <2>3
  <2> HIDE DEF more, e
  <2> QED BY <2>1, <2>2, <2>3, <2>4, <2>5
<1>3. Run(bufs[2], d + 1)
  <2> DEFINE k == 2
  <2>1. k \in 2 .. Len(bufs) /\ k - 1 <= 1
    BY <1>2
  <2>2. Run(bufs[k], End(d, bufs, k - 1) + 1)
    BY ONLY <1>1, <2>1
  <2>3. End(d, bufs, k - 1) = d
    BY <2>1 DEF End
  <2> QED BY <2>2, <2>3
<1>4. bufs[2][Len(bufs[2])] = e
  <2> HIDE DEF more, e
  <2>1. Len(bufs[2]) \in 1 .. Len(bufs[2])
    BY <1>2
  <2>2. bufs[2][Len(bufs[2])] = d + 1 + Len(bufs[2]) - 1
    BY <1>3, <2>1 DEF Run
  <2>3. Len(bufs[2]) \in Nat
    BY ONLY <1>2
  <2>4. \A n \in Nat : d + 1 + n - 1 = d + n
    OBVIOUS
  <2> QED BY <2>2, <2>3, <2>4, Zenon DEF e
<1> HIDE DEF more, e
<1>5. \A i \in 1 .. Len(more) : End(e, more, i) = End(d, bufs, i + 1)
  <2> SUFFICES ASSUME NEW i \in 1 .. Len(more) PROVE End(e, more, i) = End(d, bufs, i + 1)
    OBVIOUS
  <2>1. CASE i = 1
    BY <1>4, <2>1 DEF End
  <2>2. CASE i > 1
    <3>1. more[i] = bufs[i + 1] /\ i + 1 > 1
      BY ONLY <1>2, <2>2, i \in 1 .. Len(more)
    <3> QED BY <2>2, <3>1 DEF End
  <2>3. i = 1 \/ i > 1
    BY <1>2
  <2> QED BY <2>1, <2>2, <2>3
<1>6. \A i \in 2 .. Len(more) : more[i] # <<>> /\ Run(more[i], End(e, more, i - 1) + 1)
  <2> SUFFICES ASSUME NEW i \in 2 .. Len(more)
               PROVE  more[i] # <<>> /\ Run(more[i], End(e, more, i - 1) + 1)
    OBVIOUS
  <2> DEFINE j == i - 1
  <2>0. j \in 1 .. Len(more) /\ j + 1 = i /\ i \in 1 .. Len(bufs) - 1
    BY <1>2
  <2>1. End(e, more, i - 1) = End(d, bufs, i) /\ more[i] = bufs[i + 1]
    <3>1. End(e, more, j) = End(d, bufs, j + 1)
      BY ONLY <1>5, <2>0
    <3>2. more[i] = bufs[i + 1]
      BY ONLY <1>2, <2>0
    <3> QED BY <2>0, <3>1, <3>2
  <2> HIDE DEF j
  <2>2. i + 1 \in 2 .. Len(bufs) /\ i + 1 - 1 = i
    BY ONLY <1>2, <2>0
  <2>3. bufs[i + 1] # <<>> /\ Run(bufs[i + 1], End(d, bufs, i + 1 - 1) + 1)
    BY ONLY <1>1, <2>2
  <2> QED BY <2>1, <2>2, <2>3
<1>7. End(e, more, Len(more)) = End(d, bufs, Len(bufs))
  BY <1>2, <1>5
<1>8. \A i \in 1 .. Len(more) : End(e, more, i) <= r
  <2> SUFFICES ASSUME NEW i \in 1 .. Len(more) PROVE End(e, more, i) <= r
    OBVIOUS
  <2>1. i + 1 \in 1 .. Len(bufs) /\ End(e, more, i) = End(d, bufs, i + 1)
    BY <1>2, <1>5
  <2> QED BY <1>1, <2>1
<1>9. Chain(d, bufs[2], more, rest, r)
  BY <1>1, <1>2, <1>3, <1>6, <1>7, <1>8 DEF Chain, e
<1> QED BY <1>2, <1>9 DEF more

\* ... or there is none, and the rest does.
LEMMA ChainLast ==
  ASSUME NEW d \in Nat, NEW bufs \in Seq(Seq(Unit)), NEW rest \in Seq(Unit), NEW r \in Nat,
         Chain(d, <<>>, bufs, rest, r), ~(Len(bufs) > 1)
  PROVE  Chain(d, rest, <<>>, <<>>, r)
<1>1. Len(<<>>) = 0 /\ d + Len(<<>>) = d /\ \A a : Run(<<>>, a)
  BY DEF Run
<1>2. End(d, bufs, Len(bufs)) = d
  BY DEF End
<1>3. Run(rest, d + 1) /\ r = d + Len(rest)
  BY <1>1, <1>2 DEF Chain
<1>4. End(d + Len(rest), <<>>, 0) = d + Len(rest)
  BY DEF End
<1> QED BY <1>1, <1>3, <1>4 DEF Chain

\* A chunk of n units arrives, with nothing before it ...
LEMMA ChainArriveFirst ==
  ASSUME NEW d \in Nat, NEW r \in Nat, Chain(d, <<>>, <<>>, <<>>, r), NEW n \in Nat \ {0}
  PROVE  Chain(d, [i \in 1 .. n |-> r + i], <<>>, <<>>, r + n)
<1> DEFINE data == [i \in 1 .. n |-> r + i]
<1>1. Len(<<>>) = 0 /\ d + Len(<<>>) = d /\ (\A a : Run(<<>>, a)) /\ Len(data) = n
  BY DEF Run
<1>2. r = d
  BY <1>1 DEF Chain, End
<1>3. Run(data, d + 1)
  BY <1>1, <1>2 DEF Run
<1> HIDE DEF data
<1>4. End(d + Len(data), <<>>, 0) = d + n
  BY <1>1 DEF End
<1>5. Chain(d, data, <<>>, <<>>, r + n)
  BY <1>1, <1>2, <1>3, <1>4 DEF Chain
<1> QED BY <1>5 DEF data

\* ... or behind what is there.
LEMMA ChainArrive ==
  ASSUME NEW d \in Nat, NEW buf \in Seq(Unit), NEW bufs \in Seq(Seq(Unit)), NEW r \in Nat,
         Chain(d, buf, bufs, <<>>, r), bufs # <<>>, NEW n \in Nat \ {0}
  PROVE  Chain(d, buf, bufs, [i \in 1 .. n |-> r + i], r + n)
<1> DEFINE data == [i \in 1 .. n |-> r + i]
           e == d + Len(buf)
<1>1. Len(<<>>) = 0 /\ Len(data) = n
  OBVIOUS
<1>2. /\ Run(buf, d + 1)
      /\ \A i \in 1 .. Len(bufs) : End(e, bufs, i) <= r
      /\ \A i \in 2 .. Len(bufs) : bufs[i] # <<>> /\ Run(bufs[i], End(e, bufs, i - 1) + 1)
      /\ r = End(e, bufs, Len(bufs)) + Len(<<>>)
  BY DEF Chain
<1>3. \A i \in 0 .. Len(bufs) : End(e, bufs, i) \in Nat
  <2>1. <<>> \in Seq(Unit)
    OBVIOUS
  <2> QED BY <2>1, EndType
<1>4. End(e, bufs, Len(bufs)) = r
  BY <1>1, <1>2, <1>3
<1>5. Run(data, r + 1)
  BY <1>1 DEF Run
<1> HIDE DEF data, e
<1>6. \A i \in 1 .. Len(bufs) : End(e, bufs, i) <= r + n
  BY <1>2, <1>3
<1>7. Chain(d, buf, bufs, data, r + n)
  BY <1>1, <1>2, <1>4, <1>5, <1>6 DEF Chain, e
<1> QED BY <1>7 DEF data

\* The first buffer is within the body.
LEMMA ChainWithin ==
  ASSUME NEW d \in Nat, NEW buf \in Seq(Unit), NEW bufs \in Seq(Seq(Unit)), NEW rest \in Seq(Unit),
         NEW r \in Nat, Chain(d, buf, bufs, rest, r)
  PROVE  d + Len(buf) <= r
<1>1. CASE bufs = <<>>
  BY <1>1 DEF Chain, End
<1>2. CASE bufs # <<>>
  <2>1. 1 \in 1 .. Len(bufs) /\ End(d + Len(buf), bufs, 1) = d + Len(buf)
    BY <1>2 DEF End
  <2> QED BY <2>1 DEF Chain
<1> QED BY <1>1, <1>2

\* Where nothing is stored, everything was delivered.
LEMMA ChainDrained ==
  ASSUME NEW d \in Nat, NEW r \in Nat, Chain(d, <<>>, <<>>, <<>>, r)
  PROVE  d = r
BY DEF Chain, End

-----------------------------------------------------------------------------
(* call_read_handler().                                                    *)

ReadTypes ==
    /\ read_buffer \in Seq(Unit) /\ pending_read_buffers \in Seq(Seq(Unit)) /\ view \in Seq(Unit)
    /\ read_handler \in 0 .. MaxChunk
    /\ pc \in {"out", "data", "eof", "last"}
    /\ delivered \in Seq(Unit)
    /\ last \in {"nothing", "data", "eof", "partial"}

\* What a call of call_read_handler() may come to, for the buffer that it begins with and a
\* handler: the handler is called with data, with the end, with the news that the body was
\* cut, or not at all.
Gives(buf, h) ==
    /\ h > 0 /\ buf # <<>> /\ read_handler' = 0
    /\ last' = "data" /\ pc' = "data"
    /\ Len(delivered') > Len(delivered) /\ Len(delivered') <= received'
    /\ UNCHANGED <<close_deferred, registered>>

Ends(buf, h) ==
    /\ h > 0 /\ buf = <<>> /\ read_handler' = 0
    /\ last' = "eof" /\ pc' = "eof" /\ eof_received' /\ Drained'
    /\ UNCHANGED <<delivered, close_deferred, registered>>

Cuts(buf, h) ==
    /\ h > 0 /\ buf = <<>> /\ read_handler' = 0
    /\ last' = "partial" /\ pc' = "last" /\ ~eof_received' /\ closed /\ Drained'
    /\ UNCHANGED <<delivered, close_deferred, registered>>

Waits(buf, h) ==
    /\ h = 0 \/ (buf = <<>> /\ ~eof_received' /\ ~closed)
    /\ read_handler' = h /\ pc' = "out"
    /\ read_buffer' = buf /\ (buf = <<>> => Drained')
    /\ FinishDeferredClose(reader, eof_received', buf, h)
    /\ UNCHANGED <<delivered, last>>

Outcome(buf, h) == Gives(buf, h) \/ Ends(buf, h) \/ Cuts(buf, h) \/ Waits(buf, h)

\* The loop keeps the body together, whatever it comes to.
LEMMA DeliverKeeps ==
  ASSUME ReadTypes, Run(delivered, 1), received' \in Nat,
         NEW buf \in Seq(Unit), NEW bufs \in Seq(Seq(Unit)), NEW rest \in Seq(Unit),
         NEW h \in 0 .. MaxChunk,
         Chain(Len(delivered), buf, bufs, rest, received'), buf = <<>> => bufs = <<>>,
         Deliver(buf, bufs, rest, h)
  PROVE  ReadTypes' /\ Stored' /\ Outcome(buf, h)
<1> USE MaxChunkAssumption
<1>1. Len(delivered) \in Nat /\ delivered \in Seq(Unit) /\ Len(buf) \in Nat
  BY DEF ReadTypes
<1>2. CASE CallWithData(buf, bufs, rest, h)
  <2> DEFINE copied == IF h < Len(buf) THEN h ELSE Len(buf)
             part == SubSeq(buf, 1, copied)
  <2>1. /\ h > 0 /\ buf # <<>> /\ read_handler' = 0 /\ last' = "data" /\ pc' = "data"
        /\ delivered' = delivered \o part
        /\ read_buffer' = SubSeq(buf, copied + 1, Len(buf))
        /\ pending_read_buffers' = bufs /\ view' = rest
        /\ UNCHANGED <<close_deferred, registered>>
    BY <1>2 DEF CallWithData
  <2>2. copied \in 0 .. Len(buf) /\ copied > 0
    BY <1>1, <2>1, Lengths
  <2> HIDE DEF copied
  <2>3. /\ part \in Seq(Unit) /\ Len(part) = copied
        /\ \A i \in 1 .. copied : part[i] = buf[i]
    BY <2>2
  <2> HIDE DEF part
  <2>4. /\ delivered' \in Seq(Unit) /\ Len(delivered') = Len(delivered) + copied
        /\ \A i \in 1 .. Len(delivered) : delivered'[i] = delivered[i]
        /\ \A i \in 1 .. copied : delivered'[Len(delivered) + i] = part[i]
    <3>1. delivered' = Joined(delivered, part)
      BY <2>1 DEF Joined
    <3>2. delivered \in Seq(Unit) /\ part \in Seq(Unit)
      BY <1>1, <2>3
    <3>3. Joined(delivered, part) \in Seq(Unit)
      BY <3>2, JoinedFacts
    <3>4. Len(Joined(delivered, part)) = Len(delivered) + Len(part)
      BY <3>2, JoinedFacts
    <3>5. \A i \in 1 .. Len(delivered) : Joined(delivered, part)[i] = delivered[i]
      BY <3>2, JoinedFacts
    <3>6. \A i \in 1 .. Len(part) : Joined(delivered, part)[Len(delivered) + i] = part[i]
      BY <3>2, JoinedFacts
    <3> QED BY <2>3, <3>1, <3>3, <3>4, <3>5, <3>6
  <2>5. Run(delivered', 1)
    <3> SUFFICES ASSUME NEW i \in 1 .. Len(delivered') PROVE delivered'[i] = 1 + i - 1
      BY DEF Run
    <3>1. CASE i <= Len(delivered)
      <4>1. i \in 1 .. Len(delivered)
        BY <1>1, <2>4, <3>1
      <4> QED BY <2>4, <4>1 DEF Run
    <3>2. CASE i > Len(delivered)
      <4> DEFINE k == i - Len(delivered)
      <4>1. k \in 1 .. copied /\ k \in 1 .. Len(buf) /\ i = Len(delivered) + k
        BY <1>1, <2>2, <2>4, <3>2
      <4>2. delivered'[i] = buf[k]
        BY <2>3, <2>4, <4>1
      <4>3. buf[k] = Len(delivered) + 1 + k - 1
        BY <4>1 DEF Chain, Run
      <4> HIDE DEF k
      <4> QED BY <1>1, <4>1, <4>2, <4>3
    <3> QED BY <1>1, <3>1, <3>2
  <2>6. /\ read_buffer' \in Seq(Unit)
        /\ Chain(Len(delivered) + copied, read_buffer', bufs, rest, received')
    BY <1>1, <2>1, <2>2, ChainConsume
  <2>7. Len(delivered') <= received'
    BY <1>1, <2>2, <2>4, ChainWithin
  <2>8. Stored'
    BY <2>1, <2>4, <2>5, <2>6 DEF Stored
  <2> QED BY <1>1, <2>1, <2>2, <2>4, <2>6, <2>7, <2>8 DEF ReadTypes, Outcome, Gives
<1>3. CASE CallWithEnd(buf, bufs, rest, h)
  <2>1. bufs = <<>> /\ rest = <<>> /\ buf = <<>> /\ <<>> \in Seq(Unit) /\ <<>> \in Seq(Seq(Unit))
    BY <1>3 DEF CallWithEnd, Chain
  <2>2. /\ h > 0 /\ read_handler' = 0 /\ read_buffer' = <<>> /\ pending_read_buffers' = <<>>
        /\ view' = <<>> /\ UNCHANGED <<delivered, close_deferred, registered>>
    BY <1>3, <2>1 DEF CallWithEnd
  <2>3. \/ eof_received' /\ last' = "eof" /\ pc' = "eof"
        \/ ~eof_received' /\ closed /\ last' = "partial" /\ pc' = "last"
    BY <1>3 DEF CallWithEnd
  <2>4. Stored'
    BY <2>1, <2>2, <2>3 DEF Stored
  <2>5. Outcome(buf, h)
    BY <2>1, <2>2, <2>3 DEF Outcome, Ends, Cuts, Drained
  <2>6. ReadTypes'
    BY <2>1, <2>2, <2>3 DEF ReadTypes
  <2> QED BY <2>4, <2>5, <2>6
<1>4. CASE NoCall(buf, bufs, rest, h)
  <2>1. /\ h = 0 \/ (buf = <<>> /\ ~eof_received' /\ ~closed)
        /\ read_handler' = h /\ read_buffer' = buf /\ view' = <<>> /\ pc' = "out"
        /\ pending_read_buffers' = Store(buf, bufs, rest)
        /\ FinishDeferredClose(reader, eof_received', buf, h)
        /\ UNCHANGED <<delivered, last>>
    BY <1>4 DEF NoCall
  <2>2. /\ pending_read_buffers' \in Seq(Seq(Unit)) /\ (pending_read_buffers' = <<>> <=> buf = <<>>)
        /\ Chain(Len(delivered), buf, pending_read_buffers', <<>>, received')
        /\ <<>> \in Seq(Unit)
    BY <1>1, <2>1, ChainStore
  <2>3. Stored'
    BY <2>1, <2>2 DEF Stored
  <2>4. Outcome(buf, h)
    BY <2>1, <2>2 DEF Outcome, Waits, Drained
  <2>5. ReadTypes'
    BY <2>1, <2>2 DEF ReadTypes
  <2> QED BY <2>3, <2>4, <2>5
<1> QED BY <1>2, <1>3, <1>4 DEF Deliver

\* call_read_handler() with n units of data, which may be none.
LEMMA CallKeeps ==
  ASSUME ReadTypes, Stored, pc = "out", received \in Nat, NEW n \in Nat, received' = received + n,
         received' <= MaxData, NEW h \in 0 .. MaxChunk,
         CallReadHandler([i \in 1 .. n |-> received + i], h)
  PROVE  /\ ReadTypes' /\ Stored'
         /\ \E buf : Outcome(buf, h) /\ (n = 0 => buf = read_buffer)
<1> DEFINE data == [i \in 1 .. n |-> received + i]
<1>1. /\ data \in Seq(Unit) /\ Len(data) = n /\ (data = <<>> <=> n = 0)
      /\ received' \in Nat
  BY MaxDataAssumption DEF Unit
<1>2. /\ Run(delivered, 1) /\ view = <<>> /\ (pending_read_buffers = <<>> <=> read_buffer = <<>>)
      /\ Chain(Len(delivered), read_buffer, pending_read_buffers, <<>>, received)
      /\ Len(delivered) \in Nat /\ read_buffer \in Seq(Unit)
      /\ pending_read_buffers \in Seq(Seq(Unit)) /\ <<>> \in Seq(Unit) /\ <<>> \in Seq(Seq(Unit))
  BY DEF Stored, ReadTypes
<1>3. CallReadHandler(data, h)
  OBVIOUS
<1>4. pending_read_buffers = <<>> => Chain(Len(delivered), data, <<>>, <<>>, received')
  <2>1. CASE n = 0
    BY <1>1, <1>2, <2>1
  <2>2. CASE n # 0
    BY <1>2, <2>2, ChainArriveFirst
  <2> QED BY <2>1, <2>2
<1>5. pending_read_buffers # <<>> =>
        Chain(Len(delivered), read_buffer, pending_read_buffers, data, received')
  <2>1. CASE n = 0
    BY <1>1, <1>2, <2>1
  <2>2. CASE n # 0
    BY <1>2, <2>2, ChainArrive
  <2> QED BY <2>1, <2>2
<1> HIDE DEF data
<1>6. CASE h > 0 /\ pending_read_buffers = <<>>
  <2>1. Deliver(data, <<>>, <<>>, h)
    BY <1>2, <1>3, <1>6 DEF CallReadHandler
  <2>2. ReadTypes' /\ Stored' /\ Outcome(data, h)
    BY <1>1, <1>2, <1>4, <1>6, <2>1, DeliverKeeps
  <2> QED BY <1>1, <1>2, <1>6, <2>2
<1>7. CASE h > 0 /\ pending_read_buffers # <<>>
  <2>1. Deliver(read_buffer, pending_read_buffers, data, h)
    BY <1>3, <1>7 DEF CallReadHandler
  <2>2. ReadTypes' /\ Stored' /\ Outcome(read_buffer, h)
    BY <1>1, <1>2, <1>5, <1>7, <2>1, DeliverKeeps
  <2> QED BY <2>2
<1>8. CASE h = 0
  <2>1. /\ read_handler' = 0
        /\ pending_read_buffers' = IF data = <<>> THEN pending_read_buffers
                                   ELSE Append(pending_read_buffers, data)
        /\ read_buffer' = IF pending_read_buffers = <<>> /\ data # <<>> THEN data
                          ELSE read_buffer
        /\ FinishDeferredClose(reader, eof_received', read_buffer', 0)
        /\ UNCHANGED <<view, pc, delivered, last>>
    BY <1>3, <1>8 DEF CallReadHandler
  <2>2. /\ read_buffer' \in Seq(Unit) /\ pending_read_buffers' \in Seq(Seq(Unit))
        /\ pending_read_buffers' = <<>> <=> read_buffer' = <<>>
        /\ Chain(Len(delivered), read_buffer', pending_read_buffers', <<>>, received')
    <3>1. CASE pending_read_buffers = <<>>
      <4>1. read_buffer' = data
        BY <1>2, <2>1, <3>1
      <4>2. pending_read_buffers' = Store(data, pending_read_buffers, view)
        <5>1. Append(<<>>, data) = <<data>>
          BY <1>1
        <5>2. pending_read_buffers' = IF data = <<>> THEN <<>> ELSE <<data>>
          BY <2>1, <3>1, <5>1
        <5> QED BY <3>1, <5>2 DEF Store
      <4>3. Chain(Len(delivered), data, pending_read_buffers, view, received')
        BY <1>2, <1>4, <3>1
      <4>4. /\ Store(data, pending_read_buffers, view) \in Seq(Seq(Unit))
            /\ Store(data, pending_read_buffers, view) = <<>> <=> data = <<>>
            /\ Chain(Len(delivered), data, Store(data, pending_read_buffers, view), <<>>, received')
        <5>1. view \in Seq(Unit) /\ (data = <<>> => pending_read_buffers = <<>>)
          BY <3>1 DEF ReadTypes
        <5>2. /\ data \in Seq(Unit) /\ pending_read_buffers \in Seq(Seq(Unit))
              /\ Len(delivered) \in Nat /\ received' \in Nat
          BY <1>1, <1>2
        <5>3. Store(data, pending_read_buffers, view) \in Seq(Seq(Unit))
          BY <4>3, <5>1, <5>2, ChainStore
        <5>4. Store(data, pending_read_buffers, view) = <<>> <=> data = <<>>
          BY <4>3, <5>1, <5>2, ChainStore
        <5>5. Chain(Len(delivered), data, Store(data, pending_read_buffers, view), <<>>,
                    received')
          BY <4>3, <5>1, <5>2, ChainStore
        <5> QED BY <5>3, <5>4, <5>5
      <4> QED BY <1>1, <4>1, <4>2, <4>4
    <3>2. CASE pending_read_buffers # <<>>
      <4>1. read_buffer' = read_buffer /\ read_buffer # <<>>
        BY <1>2, <2>1, <3>2
      <4>2. pending_read_buffers' = Store(read_buffer, pending_read_buffers, data)
        BY <2>1, <3>2, <4>1 DEF Store
      <4> QED BY <1>1, <1>2, <1>5, <3>2, <4>1, <4>2, ChainStore
    <3> QED BY <3>1, <3>2
  <2>3. Stored'
    BY <1>2, <2>1, <2>2 DEF Stored
  <2>4. ReadTypes'
    BY <1>8, <2>1, <2>2 DEF ReadTypes
  <2>5. Outcome(read_buffer', h)
    BY <1>2, <1>8, <2>1, <2>2 DEF Outcome, Waits, Drained
  <2>6. n = 0 => read_buffer' = read_buffer
    BY <1>1, <2>1
  <2> QED BY <2>3, <2>4, <2>5, <2>6
<1> QED BY <1>6, <1>7, <1>8

\* ... and with none.
LEMMA CallNothing ==
  ASSUME ReadTypes, Stored, pc = "out", received \in Nat, received' = received,
         received <= MaxData, NEW h \in 0 .. MaxChunk, CallReadHandler(<<>>, h)
  PROVE  ReadTypes' /\ Stored' /\ Outcome(read_buffer, h)
<1>1. [i \in 1 .. 0 |-> received + i] = <<>>
  OBVIOUS
<1>2. CallReadHandler([i \in 1 .. 0 |-> received + i], h)
  BY <1>1
<1>3. 0 \in Nat /\ received' = received + 0
  OBVIOUS
<1>4. /\ ReadTypes' /\ Stored'
      /\ \E buf : Outcome(buf, h) /\ (0 = 0 => buf = read_buffer)
  BY <1>2, <1>3, CallKeeps
<1> QED BY <1>4

\* The read handler returns, and the loop goes on with what is left.
GoesOn ==
    /\ UNCHANGED eof_received
    /\ \/ /\ pc = "data" /\ read_buffer # <<>>
          /\ Deliver(read_buffer, pending_read_buffers, view, read_handler)
       \/ /\ pc = "data" /\ read_buffer = <<>> /\ Len(pending_read_buffers) > 1
          /\ Deliver(pending_read_buffers[2], Tail(pending_read_buffers), view, read_handler)
       \/ /\ pc = "data" /\ read_buffer = <<>> /\ ~(Len(pending_read_buffers) > 1)
          /\ Deliver(view, <<>>, <<>>, read_handler)
       \/ pc = "eof" /\ Deliver(<<>>, pending_read_buffers, <<>>, read_handler)
       \/ /\ pc = "last" /\ pc' = "out"
          /\ FinishDeferredClose(reader, eof_received, read_buffer, read_handler)
          /\ UNCHANGED <<read_buffer, pending_read_buffers, view, read_handler, delivered, last>>

LEMMA ReturnKeeps ==
  ASSUME ReadTypes, Stored, received \in Nat, received' = received, GoesOn
  PROVE  /\ ReadTypes' /\ Stored'
         /\ \/ pc = "data" /\ \E buf : Outcome(buf, read_handler)
            \/ pc = "eof" /\ Outcome(<<>>, read_handler)
            \/ /\ pc = "last" /\ pc' = "out" /\ Drained /\ Drained'
               /\ FinishDeferredClose(reader, eof_received, read_buffer, read_handler)
               /\ UNCHANGED <<read_handler, delivered, last>>
<1>1. eof_received' = eof_received /\ read_handler \in 0 .. MaxChunk /\ received' \in Nat
  BY DEF ReadTypes, GoesOn
<1>2. /\ Run(delivered, 1) /\ Len(delivered) \in Nat /\ read_buffer \in Seq(Unit)
      /\ pending_read_buffers \in Seq(Seq(Unit)) /\ view \in Seq(Unit)
      /\ Chain(Len(delivered), read_buffer, pending_read_buffers, view, received')
      /\ <<>> \in Seq(Unit) /\ <<>> \in Seq(Seq(Unit))
  BY <1>1 DEF Stored, ReadTypes
<1>3. CASE pc = "data" /\ read_buffer # <<>>
  <2>1. Deliver(read_buffer, pending_read_buffers, view, read_handler)
    BY <1>3 DEF GoesOn
  <2> QED BY <1>1, <1>2, <1>3, <2>1, DeliverKeeps
<1>4. CASE pc = "data" /\ read_buffer = <<>> /\ Len(pending_read_buffers) > 1
  <2>1. Deliver(pending_read_buffers[2], Tail(pending_read_buffers), view, read_handler)
    BY <1>4 DEF GoesOn
  <2>2. /\ pending_read_buffers[2] \in Seq(Unit) /\ pending_read_buffers[2] # <<>>
        /\ Tail(pending_read_buffers) \in Seq(Seq(Unit))
        /\ Chain(Len(delivered), pending_read_buffers[2], Tail(pending_read_buffers), view,
                 received')
    BY <1>1, <1>2, <1>4, ChainNext
  <2> QED BY <1>1, <1>2, <1>4, <2>1, <2>2, DeliverKeeps
<1>5. CASE pc = "data" /\ read_buffer = <<>> /\ ~(Len(pending_read_buffers) > 1)
  <2>1. Deliver(view, <<>>, <<>>, read_handler)
    BY <1>5 DEF GoesOn
  <2>2. Chain(Len(delivered), view, <<>>, <<>>, received')
    BY <1>1, <1>2, <1>5, ChainLast
  <2> QED BY <1>1, <1>2, <1>5, <2>1, <2>2, DeliverKeeps
<1>6. CASE pc = "eof"
  <2>1. Deliver(<<>>, pending_read_buffers, <<>>, read_handler)
    BY <1>6 DEF GoesOn
  <2>2. read_buffer = <<>> /\ pending_read_buffers = <<>> /\ view = <<>>
    BY <1>6 DEF Stored
  <2> QED BY <1>1, <1>2, <1>6, <2>1, <2>2, DeliverKeeps
<1>7. CASE pc = "last"
  <2>1. /\ pc' = "out" /\ FinishDeferredClose(reader, eof_received, read_buffer, read_handler)
        /\ UNCHANGED <<read_buffer, pending_read_buffers, view, read_handler, delivered, last>>
    BY <1>7 DEF GoesOn
  <2>2. Drained /\ Drained'
    BY <1>7, <2>1 DEF Stored, Drained
  <2>3. Stored'
    BY <1>1, <1>2, <2>1, <2>2 DEF Stored, Drained
  <2>4. ReadTypes'
    BY <1>1, <2>1 DEF ReadTypes
  <2> QED BY <1>7, <2>1, <2>2, <2>3, <2>4
<1> QED BY <1>3, <1>4, <1>5, <1>6, <1>7 DEF GoesOn

\* The type invariant, in parts.
EngineTypes ==
    /\ role \in {"client", "server"}
    /\ headers \in BOOLEAN /\ submitted \in {"no", "queued", "sent", "failed"}
    /\ rst \in BOOLEAN /\ live \in BOOLEAN
    /\ received \in 0 .. MaxData

BodyTypes == eof_received \in BOOLEAN /\ ReadTypes

WriteTypes ==
    /\ write_handler \in BOOLEAN /\ write_buffer \in 0 .. MaxChunk
    /\ eof_requested \in BOOLEAN /\ eof_submitted \in BOOLEAN /\ is_deferred \in BOOLEAN

ResponseTypes ==
    /\ response_handler \in BOOLEAN /\ has_response \in BOOLEAN
    /\ response_error \in BOOLEAN /\ response_delivered \in BOOLEAN

LifeTypes ==
    /\ closed \in BOOLEAN /\ closing \in BOOLEAN /\ close_deferred \in BOOLEAN
    /\ registered \in BOOLEAN /\ alive \in BOOLEAN

HandleTypes ==
    /\ reader \in {"none", "attached", "eof", "partial", "gone"}
    /\ writer \in {"attached", "detached", "gone"}

LEMMA TypeParts ==
  TypeOK <=> /\ EngineTypes /\ BodyTypes /\ WriteTypes /\ ResponseTypes
             /\ LifeTypes /\ HandleTypes
BY DEF TypeOK, EngineTypes, BodyTypes, ReadTypes, Unit, WriteTypes, ResponseTypes, LifeTypes,
       HandleTypes

-----------------------------------------------------------------------------
(* Steps that call call_read_handler(), or return to it.                   *)

\* finish_deferred_close() erases none but a stream whose close was deferred.
Settles ==
    /\ close_deferred' \in BOOLEAN /\ registered' \in BOOLEAN
    /\ (close_deferred' => close_deferred) /\ (registered' => registered)
    /\ ~close_deferred => (registered => registered')

LEMMA FinishSettles ==
  ASSUME LifeTypes, NEW rd, NEW eof \in BOOLEAN, NEW b, NEW h,
         FinishDeferredClose(rd, eof, b, h)
  PROVE  Settles
BY DEF LifeTypes, FinishDeferredClose, Settles

LEMMA OutcomeSettles ==
  ASSUME LifeTypes, NEW buf, NEW h, eof_received' \in BOOLEAN, Outcome(buf, h)
  PROVE  Settles
<1>1. CASE UNCHANGED <<close_deferred, registered>>
  BY <1>1 DEF LifeTypes, Settles
<1>2. CASE Waits(buf, h)
  BY <1>2, FinishSettles DEF Waits
<1> QED BY <1>1, <1>2 DEF Outcome, Gives, Ends, Cuts

\* A step that comes to an outcome, on a stream that has not been destroyed; the reader that
\* was told about the end of the body is told the same again.
Gets(buf, h) ==
    /\ Outcome(buf, h) /\ alive
    /\ h \in 0 .. MaxChunk /\ (h > 0 => reader = "attached")
    /\ last = "partial" => buf = <<>> /\ ~eof_received'
    /\ last = "eof" => buf = <<>> /\ eof_received'
    /\ received' \in 0 .. MaxData /\ received' >= received
    /\ eof_received' \in BOOLEAN /\ (eof_received => eof_received' /\ received' = received)
    /\ UNCHANGED <<closed, alive, reader>>

\* ... and that leaves everything else alone.
Reads(buf, h) ==
    /\ Gets(buf, h)
    /\ UNCHANGED <<role, headers, submitted, rst, live, writing, response, closed, closing,
                   alive, handles>>

\* What these steps leave alone.
LEMMA TypeReads ==
  ASSUME IInv, ReadTypes', NEW buf, NEW h, Reads(buf, h)
  PROVE  TypeOK'
<1>1. Settles
  BY OutcomeSettles, TypeParts DEF IInv, Reads, Gets
<1> QED BY <1>1 DEF IInv, TypeOK, ReadTypes, Reads, Settles, Unit, writing, response, handles, Gets

LEMMA ToldReads ==
  ASSUME Told, Stored', NEW buf, NEW h, Gets(buf, h)
  PROVE  Told'
<1>1. /\ alive /\ alive' = alive /\ closed' = closed /\ reader' = reader
      /\ reader \notin {"eof", "partial"} /\ (last = "partial" => closed)
  BY DEF Told, Gets
<1>2. CASE Gives(buf, h)
  BY <1>1, <1>2 DEF Gives, Told
<1>3. CASE Ends(buf, h)
  BY <1>1, <1>3 DEF Ends, Told
<1>4. CASE Cuts(buf, h)
  BY <1>1, <1>4 DEF Cuts, Told
<1>5. CASE Waits(buf, h)
  <2>1. /\ last = "partial" => buf = <<>> /\ ~eof_received'
        /\ last = "eof" => buf = <<>> /\ eof_received'
    BY DEF Gets
  <2> QED BY <1>1, <1>5, <2>1 DEF Waits, Told
<1> QED BY <1>2, <1>3, <1>4, <1>5 DEF Gets, Outcome

LEMMA LifeReads ==
  ASSUME IInv, TypeOK', NEW buf, NEW h, Reads(buf, h)
  PROVE  Lives' /\ Parked' /\ Responds' /\ NothingStuck' /\ ResponseKept'
<1>1. Settles
  BY OutcomeSettles, TypeParts DEF IInv, Reads, Gets
<1>2. UNCHANGED <<role, headers, live, has_response, response_error, response_handler,
                  response_delivered, write_handler, is_deferred, closed, closing, alive,
                  reader, writer>>
  BY DEF Reads, writing, response, handles
<1>3. /\ read_handler' > 0 => alive /\ reader = "attached"
      /\ last' = last \/ reader = "attached"
      /\ read_handler' > 0 /\ pc' = "out" => read_buffer' = <<>> /\ ~eof_received' /\ ~closed
  BY MaxChunkAssumption DEF Reads, Gets, Outcome, Gives, Ends, Cuts, Waits
<1>4. Lives'
  BY <1>1, <1>2 DEF IInv, TypeOK, Lives, Settles, Reads, Gets
<1>5. Parked'
  BY <1>2, <1>3 DEF Parked
<1>6. Responds'
  BY <1>1, <1>2, <1>3 DEF IInv, TypeOK, Responds, Settles, KeepForResponse
<1>7. NothingStuck'
  BY <1>1, <1>2, <1>3 DEF IInv, TypeOK, NothingStuck, Settles
<1>8. ResponseKept'
  BY <1>1, <1>2 DEF IInv, TypeOK, ResponseKept, Responds, Settles, KeepForResponse
<1> QED BY <1>4, <1>5, <1>6, <1>7, <1>8

LEMMA ReadsKeep ==
  ASSUME IInv, ReadTypes', Stored', NEW buf, NEW h, Reads(buf, h)
  PROVE  IInv'
<1>1. TypeOK'
  BY TypeReads
<1>2. Told'
  BY ToldReads DEF IInv, Reads
<1>3. Lives' /\ Parked' /\ Responds' /\ NothingStuck' /\ ResponseKept'
  BY <1>1, LifeReads
<1> QED BY <1>1, <1>2, <1>3 DEF IInv

\* on_data(), on_eof(), async_read_some() and the return of a read handler are such steps.
LEMMA DataReads ==
  ASSUME IInv, NEW n \in 1 .. MaxChunk, OnData(n)
  PROVE  ReadTypes' /\ Stored' /\ \E buf, h : Reads(buf, h)
<1>1. /\ pc = "out" /\ live /\ ~eof_received /\ received' = received + n /\ received' <= MaxData
      /\ received \in Nat /\ n \in Nat /\ received \in 0 .. MaxData /\ eof_received \in BOOLEAN
      /\ read_handler \in 0 .. MaxChunk /\ eof_received' = eof_received
      /\ CallReadHandler([i \in 1 .. n |-> received + i], read_handler)
      /\ UNCHANGED <<role, headers, submitted, rst, live, writing, response, closed, closing,
                     alive, handles>>
  BY MaxChunkAssumption, MaxDataAssumption DEF OnData, Idle, IInv, TypeOK
<1>2. ReadTypes
  BY DEF IInv, TypeOK, ReadTypes, Unit
<1>3. ReadTypes' /\ Stored' /\ \E buf : Outcome(buf, read_handler) /\ (n = 0 => buf = read_buffer)
  BY <1>1, <1>2, CallKeeps DEF IInv
<1>4. PICK buf : Outcome(buf, read_handler)
  BY <1>3
<1>5. alive /\ (read_handler > 0 => reader = "attached") /\ last # "partial" /\ last # "eof"
  BY <1>1 DEF IInv, Lives, Parked, Told
<1>6. received' \in 0 .. MaxData /\ received' >= received
  BY <1>1, MaxDataAssumption
<1>7. Reads(buf, read_handler)
  BY <1>1, <1>4, <1>5, <1>6 DEF Reads, Gets, handles
<1> QED BY <1>3, <1>7

LEMMA EofReads ==
  ASSUME IInv, OnEof
  PROVE  ReadTypes' /\ Stored' /\ \E buf, h : Reads(buf, h)
<1>1. /\ pc = "out" /\ live /\ ~eof_received /\ received' = received /\ eof_received' = TRUE
      /\ received \in Nat /\ received \in 0 .. MaxData /\ read_handler \in 0 .. MaxChunk
      /\ CallReadHandler(<<>>, read_handler)
      /\ UNCHANGED <<role, headers, submitted, rst, live, writing, response, closed, closing,
                     alive, handles>>
  BY MaxDataAssumption DEF OnEof, Idle, IInv, TypeOK, engine
<1>2. ReadTypes
  BY DEF IInv, TypeOK, ReadTypes, Unit
<1>3. ReadTypes' /\ Stored' /\ \E buf : Outcome(buf, read_handler)
  BY <1>1, <1>2, CallNothing DEF IInv
<1>4. PICK buf : Outcome(buf, read_handler)
  BY <1>3
<1>5. alive /\ (read_handler > 0 => reader = "attached") /\ last # "partial" /\ last # "eof"
  BY <1>1 DEF IInv, Lives, Parked, Told
<1>6. Reads(buf, read_handler)
  BY <1>1, <1>4, <1>5 DEF Reads, Gets, handles
<1> QED BY <1>3, <1>6

LEMMA ReadReads ==
  ASSUME IInv, NEW n \in 1 .. MaxChunk, Read(n), pc = "out"
  PROVE  ReadTypes' /\ Stored' /\ \E buf, h : Reads(buf, h)
<1>1. /\ reader = "attached" /\ received' = received /\ eof_received' = eof_received
      /\ received \in Nat /\ received \in 0 .. MaxData /\ n \in 0 .. MaxChunk
      /\ eof_received \in BOOLEAN
      /\ CallReadHandler(<<>>, n)
      /\ UNCHANGED <<role, headers, submitted, rst, live, writing, response, closed, closing,
                     alive, handles>>
  BY MaxDataAssumption, MaxChunkAssumption DEF Read, IInv, TypeOK, engine
<1>2. ReadTypes
  BY DEF IInv, TypeOK, ReadTypes, Unit
<1>3. ReadTypes' /\ Stored' /\ Outcome(read_buffer, n)
  BY <1>1, <1>2, CallNothing DEF IInv
<1>4. /\ alive
      /\ last = "partial" => read_buffer = <<>> /\ ~eof_received
      /\ last = "eof" => read_buffer = <<>> /\ eof_received
  BY <1>1 DEF IInv, Lives, Told, Drained
<1>5. Reads(read_buffer, n)
  BY <1>1, <1>3, <1>4 DEF Reads, Gets, handles
<1> QED BY <1>3, <1>5

LEMMA ReturnGoesOn ==
  ASSUME ReadHandlerReturns
  PROVE  GoesOn
BY DEF ReadHandlerReturns, GoesOn

LEMMA ReturnReads ==
  ASSUME IInv, ReadHandlerReturns, pc # "last"
  PROVE  ReadTypes' /\ Stored' /\ \E buf, h : Reads(buf, h)
<1>1. /\ pc # "out" /\ received' = received /\ eof_received' = eof_received
      /\ received \in Nat /\ received \in 0 .. MaxData /\ read_handler \in 0 .. MaxChunk
      /\ eof_received \in BOOLEAN
      /\ UNCHANGED <<role, headers, submitted, rst, live, writing, response, closed, closing,
                     alive, handles>>
  BY MaxDataAssumption DEF ReadHandlerReturns, IInv, TypeOK, engine
<1>2. alive /\ (read_handler > 0 => reader = "attached")
  BY <1>1 DEF IInv, Lives, Parked
<1>3. /\ ReadTypes' /\ Stored'
      /\ \/ pc = "data" /\ \E buf : Outcome(buf, read_handler)
         \/ pc = "eof" /\ Outcome(<<>>, read_handler)
  <2>1. ReadTypes /\ Stored /\ GoesOn
    BY ReturnGoesOn DEF IInv, TypeOK, ReadTypes, Unit
  <2> QED BY <1>1, <2>1, ReturnKeeps
<1>4. CASE pc = "data"
  <2>1. PICK buf : Outcome(buf, read_handler)
    BY <1>3, <1>4
  <2>2. last = "data"
    BY <1>4 DEF IInv, Told
  <2>3. Reads(buf, read_handler)
    BY <1>1, <1>2, <2>1, <2>2 DEF Reads, Gets, handles
  <2> QED BY <1>3, <2>3
<1>5. CASE pc = "eof"
  <2>1. Outcome(<<>>, read_handler)
    BY <1>3, <1>5
  <2>2. last = "eof" /\ eof_received
    BY <1>5 DEF IInv, Told
  <2>3. Reads(<<>>, read_handler)
    BY <1>1, <1>2, <2>1, <2>2 DEF Reads, Gets, handles
  <2> QED BY <1>3, <2>3
<1> QED BY <1>3, <1>4, <1>5

-----------------------------------------------------------------------------
(* All other steps, which leave the stored body alone.                     *)

LEMMA StoredFrame ==
  ASSUME Stored,
         UNCHANGED <<received, read_buffer, pending_read_buffers, view, pc, delivered>>
  PROVE  Stored'
BY DEF Stored, Chain, Run, End

\* The read handler that was told of the cut returns.
LEMMA LastReturnKeeps ==
  ASSUME IInv, ReadHandlerReturns, pc = "last"
  PROVE  IInv'
<1>1. /\ ReadTypes' /\ Stored' /\ pc' = "out" /\ Drained /\ Drained'
      /\ FinishDeferredClose(reader, eof_received, read_buffer, read_handler)
      /\ UNCHANGED <<read_handler, delivered, last>>
  <2>1. ReadTypes /\ Stored /\ GoesOn
    BY ReturnGoesOn DEF IInv, TypeOK, ReadTypes, Unit
  <2>2. received \in Nat /\ received' = received
    BY DEF IInv, TypeOK, ReadHandlerReturns, engine
  <2> QED BY <2>1, <2>2, ReturnKeeps
<1>2. Settles
  BY <1>1, FinishSettles, TypeParts DEF IInv, TypeOK
<1>3. UNCHANGED <<engine, eof_received, writing, response, closed, closing, alive, handles>>
  BY DEF ReadHandlerReturns
<1>4. TypeOK'
  BY <1>1, <1>2, <1>3
  DEF IInv, TypeOK, ReadTypes, Settles, Unit, engine, writing, response, handles
<1>5. Told'
  BY <1>1, <1>3 DEF IInv, Told, handles
<1> USE <1>1, <1>2, <1>3 DEF IInv, TypeOK, engine, writing, response, handles, Settles
<1>6. last = "partial" /\ alive /\ closed /\ ~eof_received
  BY DEF Told, Lives
<1>7. Lives' /\ Parked'
  BY DEF Lives, Parked
<1>8. Responds' /\ ResponseKept'
  BY DEF Responds, ResponseKept, KeepForResponse
<1>9. NothingStuck'
  BY <1>6 DEF NothingStuck, Kept, Drained, Parked, Lives
<1> QED BY <1>1, <1>4, <1>5, <1>7, <1>8, <1>9

\* The ways out of close_stream(): the stream is kept for its response, or for what was not
\* read of its body, or erased.
Keeps ==
    /\ registered' = registered /\ read_handler' = read_handler /\ last' = last
    /\ response_handler' = response_handler

KeepsOrErases ==
    /\ closing' = FALSE
    /\ \/ KeepForResponse /\ close_deferred' = FALSE /\ Keeps
       \/ /\ ~KeepForResponse /\ reader = "attached" /\ eof_received /\ read_buffer # <<>>
          /\ close_deferred' = TRUE /\ Keeps
       \/ /\ ~KeepForResponse /\ ~(reader = "attached" /\ eof_received /\ read_buffer # <<>>)
          /\ close_deferred' = FALSE /\ registered' = FALSE /\ response_handler' = FALSE
          /\ read_handler' = 0
          /\ last' = IF read_handler > 0 THEN "partial" ELSE last

LEMMA KeepOrEraseFacts ==
  ASSUME BodyTypes, ResponseTypes, LifeTypes, KeepOrErase
  PROVE  KeepsOrErases
<1>1. /\ registered \in BOOLEAN /\ response_handler \in BOOLEAN /\ eof_received \in BOOLEAN
      /\ KeepForResponse \in BOOLEAN
  BY DEF BodyTypes, ResponseTypes, LifeTypes, KeepForResponse
<1>2. CASE KeepForResponse
  BY <1>1, <1>2 DEF KeepOrErase, KeepsOrErases, Keeps
<1>3. CASE ~KeepForResponse /\ reader = "attached" /\ eof_received /\ read_buffer # <<>>
  BY <1>1, <1>3 DEF KeepOrErase, KeepsOrErases, Keeps
<1>4. CASE ~KeepForResponse /\ ~(reader = "attached" /\ eof_received /\ read_buffer # <<>>)
  BY <1>1, <1>4 DEF KeepOrErase, KeepsOrErases
<1> QED BY <1>2, <1>3, <1>4

\* on_response().
LEMMA ResponseStep ==
  ASSUME IInv, NEW too_large \in BOOLEAN, OnResponse(too_large)
  PROVE  IInv'
<1> USE DEF OnResponse, DeliverResponse, Idle
<1>1. Stored'
  BY StoredFrame DEF IInv, engine, reading
<1> USE DEF engine, reading, writing, response, life, handles
<1>2. TypeOK'
  BY MaxChunkAssumption DEF IInv, TypeOK
<1>3. Told'
  BY DEF IInv, TypeOK, Stored, Told, Drained, Lives, NothingStuck, Responds
<1>4. Lives'
  BY DEF IInv, TypeOK, Lives
<1>5. Parked'
  BY DEF IInv, TypeOK, Parked, Lives
<1>6. Responds'
  BY DEF IInv, TypeOK, Responds, Lives, Parked, KeepForResponse
<1>7. NothingStuck'
  BY DEF IInv, TypeOK, NothingStuck, Lives, Parked, Responds, Kept, KeepForResponse
<1>8. ResponseKept'
  BY DEF IInv, TypeOK, ResponseKept, Lives, Responds, KeepForResponse
<1> QED BY <1>1, <1>2, <1>3, <1>4, <1>5, <1>6, <1>7, <1>8 DEF IInv

\* nghttp2 sends the header.
LEMMA SendHeadersStep ==
  ASSUME IInv, NEW fits \in BOOLEAN, SendHeaders(fits)
  PROVE  IInv'
<1> USE DEF SendHeaders, Idle
<1>1. Stored'
  BY StoredFrame DEF IInv, engine, reading
<1> USE DEF engine, reading, writing, response, life, handles
<1>2. TypeOK'
  BY MaxChunkAssumption DEF IInv, TypeOK
<1>3. Told'
  BY DEF IInv, TypeOK, Stored, Told, Drained, Lives, NothingStuck, Responds
<1>4. Lives'
  BY DEF IInv, TypeOK, Lives
<1>5. Parked'
  BY DEF IInv, TypeOK, Parked, Lives
<1>6. Responds'
  BY DEF IInv, TypeOK, Responds, Lives, Parked, KeepForResponse
<1>7. NothingStuck'
  BY DEF IInv, TypeOK, NothingStuck, Lives, Parked, Responds, Kept, KeepForResponse
<1>8. ResponseKept'
  BY DEF IInv, TypeOK, ResponseKept, Lives, Responds, KeepForResponse
<1> QED BY <1>1, <1>2, <1>3, <1>4, <1>5, <1>6, <1>7, <1>8 DEF IInv

\* producer_callback().
LEMMA ProduceStep ==
  ASSUME IInv, NEW n \in 0 .. MaxChunk, Produce(n)
  PROVE  IInv'
<1> USE DEF Produce, Idle
<1>1. Stored'
  BY StoredFrame DEF IInv, engine, reading
<1> USE DEF engine, reading, writing, response, life, handles
<1>2. TypeOK'
  <2>1. /\ EngineTypes /\ BodyTypes /\ WriteTypes /\ ResponseTypes /\ LifeTypes /\ HandleTypes
    BY TypeParts DEF IInv
  <2>2. EngineTypes'
    BY <2>1, MaxChunkAssumption DEF EngineTypes
  <2>3. BodyTypes'
    BY <2>1, MaxChunkAssumption DEF BodyTypes, ReadTypes
  <2>4. WriteTypes'
    <3>1. write_handler => write_buffer - n \in 0 .. MaxChunk
      BY <2>1, MaxChunkAssumption DEF WriteTypes
    <3>2. CASE write_handler
      BY <2>1, <3>1, <3>2 DEF WriteTypes
    <3>3. CASE ~write_handler
      BY <2>1, <3>3 DEF WriteTypes
    <3> QED BY <3>2, <3>3
  <2>5. ResponseTypes'
    BY <2>1, MaxChunkAssumption DEF ResponseTypes
  <2>6. LifeTypes'
    BY <2>1, MaxChunkAssumption DEF LifeTypes
  <2>7. HandleTypes'
    BY <2>1, MaxChunkAssumption DEF HandleTypes
  <2>8. TypeOK' <=> /\ EngineTypes' /\ BodyTypes' /\ WriteTypes' /\ ResponseTypes'
                    /\ LifeTypes' /\ HandleTypes'
    BY TypeParts, PTL
  <2> QED BY <2>2, <2>3, <2>4, <2>5, <2>6, <2>7, <2>8
<1>3. Told'
  BY DEF IInv, TypeOK, Stored, Told, Drained, Lives, NothingStuck, Responds
<1>4. Lives'
  BY DEF IInv, TypeOK, Lives
<1>5. Parked'
  BY DEF IInv, TypeOK, Parked, Lives
<1>6. Responds'
  BY DEF IInv, TypeOK, Responds, Lives, Parked, KeepForResponse
<1>7. NothingStuck'
  BY DEF IInv, TypeOK, NothingStuck, Lives, Parked, Responds, Kept, KeepForResponse
<1>8. ResponseKept'
  BY DEF IInv, TypeOK, ResponseKept, Lives, Responds, KeepForResponse
<1> QED BY <1>1, <1>2, <1>3, <1>4, <1>5, <1>6, <1>7, <1>8 DEF IInv

\* close_stream(), with the handler of a write to call ...
LEMMA CloseWritingStep ==
  ASSUME IInv, CloseStream, write_handler
  PROVE  IInv'
<1> USE DEF CloseStream, Idle
<1>1. Stored'
  BY StoredFrame DEF IInv, engine, reading
<1> USE DEF engine, reading, writing, response, life, handles
<1>2. TypeOK'
  <2>1. /\ EngineTypes /\ BodyTypes /\ WriteTypes /\ ResponseTypes /\ LifeTypes /\ HandleTypes
    BY TypeParts DEF IInv
  <2>2. EngineTypes'
    BY <2>1, MaxChunkAssumption DEF EngineTypes
  <2>3. BodyTypes'
    BY <2>1, MaxChunkAssumption DEF BodyTypes, ReadTypes
  <2>4. WriteTypes'
    BY <2>1, MaxChunkAssumption DEF WriteTypes
  <2>5. ResponseTypes'
    BY <2>1, MaxChunkAssumption DEF ResponseTypes
  <2>6. LifeTypes'
    BY <2>1, MaxChunkAssumption DEF LifeTypes
  <2>7. HandleTypes'
    BY <2>1, MaxChunkAssumption DEF HandleTypes
  <2>8. TypeOK' <=> /\ EngineTypes' /\ BodyTypes' /\ WriteTypes' /\ ResponseTypes'
                    /\ LifeTypes' /\ HandleTypes'
    BY TypeParts, PTL
  <2> QED BY <2>2, <2>3, <2>4, <2>5, <2>6, <2>7, <2>8
<1>3. Told'
  BY DEF IInv, TypeOK, Stored, Told, Drained, Lives, NothingStuck, Responds
<1>4. Lives'
  BY DEF IInv, TypeOK, Lives
<1>5. Parked'
  BY DEF IInv, TypeOK, Parked, Lives
<1>6. Responds'
  BY DEF IInv, TypeOK, Responds, Lives, Parked, KeepForResponse
<1>7. NothingStuck'
  BY DEF IInv, TypeOK, NothingStuck, Lives, Parked, Responds, Kept, KeepForResponse
<1>8. ResponseKept'
  BY DEF IInv, TypeOK, ResponseKept, Lives, Responds, KeepForResponse
<1> QED BY <1>1, <1>2, <1>3, <1>4, <1>5, <1>6, <1>7, <1>8 DEF IInv

\* ... and without.
LEMMA CloseStep ==
  ASSUME IInv, CloseStream, ~write_handler
  PROVE  IInv'
<1>0. KeepsOrErases
  BY KeepOrEraseFacts, TypeParts DEF IInv, WriteHandlerReturns, CloseStream
<1>9. /\ pc = "out" /\ ~closing /\ live /\ live' = FALSE /\ closed' = TRUE /\ write_handler' = FALSE
      /\ UNCHANGED <<role, headers, submitted, rst, received, eof_received, read_buffer,
                     pending_read_buffers, view, pc, delivered, write_buffer, eof_requested,
                     eof_submitted, is_deferred, has_response, response_error,
                     response_delivered, alive, handles>>
  BY DEF CloseStream, Idle
<1> USE <1>0, <1>9 DEF KeepsOrErases, Keeps
<1>1. Stored'
  BY StoredFrame DEF IInv, engine, reading
<1> USE DEF engine, reading, writing, response, life, handles
<1>2. TypeOK'
  <2>1. /\ EngineTypes /\ BodyTypes /\ WriteTypes /\ ResponseTypes /\ LifeTypes /\ HandleTypes
    BY TypeParts DEF IInv
  <2>2. EngineTypes'
    BY <2>1, MaxChunkAssumption DEF EngineTypes
  <2>3. BodyTypes'
    BY <2>1, MaxChunkAssumption DEF BodyTypes, ReadTypes
  <2>4. WriteTypes'
    BY <2>1, MaxChunkAssumption DEF WriteTypes
  <2>5. ResponseTypes'
    BY <2>1, MaxChunkAssumption DEF ResponseTypes
  <2>6. LifeTypes'
    BY <2>1, MaxChunkAssumption DEF LifeTypes
  <2>7. HandleTypes'
    BY <2>1, MaxChunkAssumption DEF HandleTypes
  <2>8. TypeOK' <=> /\ EngineTypes' /\ BodyTypes' /\ WriteTypes' /\ ResponseTypes'
                    /\ LifeTypes' /\ HandleTypes'
    BY TypeParts, PTL
  <2> QED BY <2>2, <2>3, <2>4, <2>5, <2>6, <2>7, <2>8
<1>3. Told'
  BY DEF IInv, TypeOK, Stored, Told, Drained, Lives, NothingStuck, Responds
<1>4. Lives'
  BY DEF IInv, TypeOK, Lives
<1>5. Parked'
  <2>1. read_handler' = 0 \/ read_handler' = read_handler
    OBVIOUS
  <2>2. reader' = reader /\ alive' = alive
    OBVIOUS
  <2> QED BY ONLY <2>1, <2>2, IInv DEF IInv, Parked
<1>6. Responds'
  <2>1. CASE KeepForResponse
    BY <2>1 DEF IInv, TypeOK, Responds, KeepForResponse
  <2>2. CASE ~KeepForResponse /\ close_deferred' = TRUE /\ Keeps /\ reader = "attached"
    BY <2>2 DEF IInv, TypeOK, Responds, KeepForResponse
  <2>3. CASE ~KeepForResponse /\ close_deferred' = FALSE /\ registered' = FALSE
    BY <2>3 DEF IInv, TypeOK, Responds, Parked, KeepForResponse
  <2> QED BY <2>1, <2>2, <2>3
<1>7. NothingStuck'
  <2>1. CASE KeepForResponse
    <3>1. ~response_handler
      BY <2>1 DEF IInv, NothingStuck, KeepForResponse
    <3>2. /\ read_handler' = read_handler /\ response_handler' = response_handler
          /\ Kept' /\ pc' = pc /\ alive' = alive /\ reader' = reader
          /\ read_buffer' = read_buffer /\ eof_received' = eof_received
      BY <2>1 DEF IInv, Lives, Kept
    <3> QED BY ONLY IInv, <1>9, <3>1, <3>2 DEF IInv, NothingStuck
  <2>2. CASE ~KeepForResponse /\ Keeps /\ reader = "attached" /\ read_buffer # <<>>
    BY <2>2 DEF IInv, TypeOK, NothingStuck, Responds, Kept, KeepForResponse
  <2>3. CASE ~KeepForResponse /\ read_handler' = 0 /\ response_handler' = FALSE
    BY <2>3 DEF NothingStuck
  <2> QED BY <2>1, <2>2, <2>3
<1>8. ResponseKept'
  BY DEF IInv, TypeOK, ResponseKept, Lives, Responds, KeepForResponse
<1> QED BY <1>1, <1>2, <1>3, <1>4, <1>5, <1>6, <1>7, <1>8 DEF IInv

\* The rest of close_stream().
LEMMA WriteReturnStep ==
  ASSUME IInv, WriteHandlerReturns
  PROVE  IInv'
<1>0. KeepsOrErases
  BY KeepOrEraseFacts, TypeParts DEF IInv, WriteHandlerReturns, CloseStream
<1> USE <1>0
<1> USE DEF WriteHandlerReturns, KeepsOrErases, Keeps
<1>1. Stored'
  BY StoredFrame DEF IInv, engine, reading
<1> USE DEF engine, reading, writing, response, life, handles
<1>2. TypeOK'
  <2>1. /\ EngineTypes /\ BodyTypes /\ WriteTypes /\ ResponseTypes /\ LifeTypes /\ HandleTypes
    BY TypeParts DEF IInv
  <2>2. EngineTypes'
    BY <2>1, MaxChunkAssumption DEF EngineTypes
  <2>3. BodyTypes'
    BY <2>1, MaxChunkAssumption DEF BodyTypes, ReadTypes
  <2>4. WriteTypes'
    BY <2>1, MaxChunkAssumption DEF WriteTypes
  <2>5. ResponseTypes'
    BY <2>1, MaxChunkAssumption DEF ResponseTypes
  <2>6. LifeTypes'
    BY <2>1, MaxChunkAssumption DEF LifeTypes
  <2>7. HandleTypes'
    BY <2>1, MaxChunkAssumption DEF HandleTypes
  <2>8. TypeOK' <=> /\ EngineTypes' /\ BodyTypes' /\ WriteTypes' /\ ResponseTypes'
                    /\ LifeTypes' /\ HandleTypes'
    BY TypeParts, PTL
  <2> QED BY <2>2, <2>3, <2>4, <2>5, <2>6, <2>7, <2>8
<1>3. Told'
  BY DEF IInv, TypeOK, Stored, Told, Drained, Lives, NothingStuck, Responds
<1>4. Lives'
  BY DEF IInv, TypeOK, Lives
<1>5. Parked'
  BY DEF IInv, TypeOK, Parked, Lives
<1>6. Responds'
  BY DEF IInv, TypeOK, Responds, Lives, Parked, KeepForResponse
<1>7. NothingStuck'
  BY DEF IInv, TypeOK, NothingStuck, Lives, Parked, Responds, Kept, KeepForResponse
<1>8. ResponseKept'
  BY DEF IInv, TypeOK, ResponseKept, Lives, Responds, KeepForResponse
<1> QED BY <1>1, <1>2, <1>3, <1>4, <1>5, <1>6, <1>7, <1>8 DEF IInv

\* ~NGHttp2Stream().
LEMMA DestroyStep ==
  ASSUME IInv, Idle, alive, DestroyStream
  PROVE  IInv'
<1> USE DEF DestroyStream, DetachReader, Idle
<1>1. Stored'
  BY StoredFrame DEF IInv, engine, reading
<1> USE DEF engine, reading, writing, response, life, handles
<1>2. TypeOK'
  <2>1. /\ EngineTypes /\ BodyTypes /\ WriteTypes /\ ResponseTypes /\ LifeTypes /\ HandleTypes
    BY TypeParts DEF IInv
  <2>2. EngineTypes'
    BY <2>1, MaxChunkAssumption DEF EngineTypes
  <2>3. BodyTypes'
    BY <2>1, MaxChunkAssumption DEF BodyTypes, ReadTypes
  <2>4. WriteTypes'
    BY <2>1, MaxChunkAssumption DEF WriteTypes
  <2>5. ResponseTypes'
    BY <2>1, MaxChunkAssumption DEF ResponseTypes
  <2>6. LifeTypes'
    BY <2>1, MaxChunkAssumption DEF LifeTypes
  <2>7. HandleTypes'
    BY <2>1, MaxChunkAssumption DEF HandleTypes
  <2>8. TypeOK' <=> /\ EngineTypes' /\ BodyTypes' /\ WriteTypes' /\ ResponseTypes'
                    /\ LifeTypes' /\ HandleTypes'
    BY TypeParts, PTL
  <2> QED BY <2>2, <2>3, <2>4, <2>5, <2>6, <2>7, <2>8
<1>3. Told'
  BY DEF IInv, TypeOK, Stored, Told, Drained, Lives, NothingStuck, Responds
<1>4. Lives'
  BY DEF IInv, TypeOK, Lives
<1>5. Parked'
  BY DEF IInv, TypeOK, Parked, Lives
<1>6. Responds'
  BY DEF IInv, TypeOK, Responds, Lives, Parked, KeepForResponse
<1>7. NothingStuck'
  BY DEF IInv, TypeOK, NothingStuck, Lives, Parked, Responds, Kept, KeepForResponse
<1>8. ResponseKept'
  BY DEF IInv, TypeOK, ResponseKept, Lives, Responds, KeepForResponse
<1> QED BY <1>1, <1>2, <1>3, <1>4, <1>5, <1>6, <1>7, <1>8 DEF IInv

\* async_read_some() on a reader that is detached.
LEMMA DetachedStep ==
  ASSUME IInv, ReadDetached
  PROVE  IInv'
<1> USE DEF ReadDetached
<1>1. Stored'
  BY StoredFrame DEF IInv, engine, reading
<1> USE DEF engine, reading, writing, response, life, handles
<1>2. TypeOK'
  BY MaxChunkAssumption DEF IInv, TypeOK
<1>3. Told'
  BY DEF IInv, TypeOK, Stored, Told, Drained, Lives, NothingStuck, Responds
<1>4. Lives'
  BY DEF IInv, TypeOK, Lives
<1>5. Parked'
  BY DEF IInv, TypeOK, Parked, Lives
<1>6. Responds'
  BY DEF IInv, TypeOK, Responds, Lives, Parked, KeepForResponse
<1>7. NothingStuck'
  BY DEF IInv, TypeOK, NothingStuck, Lives, Parked, Responds, Kept, KeepForResponse
<1>8. ResponseKept'
  BY DEF IInv, TypeOK, ResponseKept, Lives, Responds, KeepForResponse
<1> QED BY <1>1, <1>2, <1>3, <1>4, <1>5, <1>6, <1>7, <1>8 DEF IInv

\* A read is cancelled.
LEMMA CancelReadStep ==
  ASSUME IInv, CancelRead
  PROVE  IInv'
<1> USE DEF CancelRead
<1>1. Stored'
  BY StoredFrame DEF IInv, engine, reading
<1> USE DEF engine, reading, writing, response, life, handles
<1>2. TypeOK'
  BY MaxChunkAssumption DEF IInv, TypeOK
<1>3. Told'
  BY DEF IInv, TypeOK, Stored, Told, Drained, Lives, NothingStuck, Responds
<1>4. Lives'
  BY DEF IInv, TypeOK, Lives
<1>5. Parked'
  BY DEF IInv, TypeOK, Parked, Lives
<1>6. Responds'
  BY DEF IInv, TypeOK, Responds, Lives, Parked, KeepForResponse
<1>7. NothingStuck'
  BY DEF IInv, TypeOK, NothingStuck, Lives, Parked, Responds, Kept, KeepForResponse
<1>8. ResponseKept'
  BY DEF IInv, TypeOK, ResponseKept, Lives, Responds, KeepForResponse
<1> QED BY <1>1, <1>2, <1>3, <1>4, <1>5, <1>6, <1>7, <1>8 DEF IInv

\* async_read_some() from within a read handler.
LEMMA ReadLaterStep ==
  ASSUME IInv, NEW n \in 1 .. MaxChunk, Read(n), pc # "out"
  PROVE  IInv'
<1> USE DEF Read
<1>1. Stored'
  BY StoredFrame DEF IInv, engine, reading
<1> USE DEF engine, reading, writing, response, life, handles
<1>2. TypeOK'
  BY MaxChunkAssumption DEF IInv, TypeOK
<1>3. Told'
  BY DEF IInv, TypeOK, Stored, Told, Drained, Lives, NothingStuck, Responds
<1>4. Lives'
  BY DEF IInv, TypeOK, Lives
<1>5. Parked'
  BY DEF IInv, TypeOK, Parked, Lives
<1>6. Responds'
  BY DEF IInv, TypeOK, Responds, Lives, Parked, KeepForResponse
<1>7. NothingStuck'
  BY DEF IInv, TypeOK, NothingStuck, Lives, Parked, Responds, Kept, KeepForResponse
<1>8. ResponseKept'
  BY DEF IInv, TypeOK, ResponseKept, Lives, Responds, KeepForResponse
<1> QED BY <1>1, <1>2, <1>3, <1>4, <1>5, <1>6, <1>7, <1>8 DEF IInv

\* The writer.
LEMMA WritingStep ==
  ASSUME IInv, \/ Submit \/ CancelWrite
         \/ \E n \in 0 .. MaxChunk, eof \in BOOLEAN : Write(n, eof)
  PROVE  IInv'
<1> USE DEF Submit, CancelWrite, Write
<1>1. Stored'
  BY StoredFrame DEF IInv, engine, reading
<1> USE DEF engine, reading, writing, response, life, handles
<1>2. TypeOK'
  <2>1. /\ EngineTypes /\ BodyTypes /\ WriteTypes /\ ResponseTypes /\ LifeTypes /\ HandleTypes
    BY TypeParts DEF IInv
  <2>2. EngineTypes'
    BY <2>1, MaxChunkAssumption DEF EngineTypes
  <2>3. BodyTypes'
    BY <2>1, MaxChunkAssumption DEF BodyTypes, ReadTypes
  <2>4. WriteTypes'
    BY <2>1, MaxChunkAssumption DEF WriteTypes
  <2>5. ResponseTypes'
    BY <2>1, MaxChunkAssumption DEF ResponseTypes
  <2>6. LifeTypes'
    BY <2>1, MaxChunkAssumption DEF LifeTypes
  <2>7. HandleTypes'
    BY <2>1, MaxChunkAssumption DEF HandleTypes
  <2>8. TypeOK' <=> /\ EngineTypes' /\ BodyTypes' /\ WriteTypes' /\ ResponseTypes'
                    /\ LifeTypes' /\ HandleTypes'
    BY TypeParts, PTL
  <2> QED BY <2>2, <2>3, <2>4, <2>5, <2>6, <2>7, <2>8
<1>3. Told'
  <2>1. UNCHANGED <<eof_received, read_buffer, pending_read_buffers, view, pc, last, closed, alive,
                    reader>>
    OBVIOUS
  <2>2. Told
    BY DEF IInv
  <2> QED BY ONLY <2>1, <2>2 DEF Told, Drained
<1>4. Lives'
  BY DEF IInv, TypeOK, Lives
<1>5. Parked'
  BY DEF IInv, TypeOK, Parked, Lives
<1>6. Responds'
  BY DEF IInv, TypeOK, Responds, Lives, Parked, KeepForResponse
<1>7. NothingStuck'
  BY DEF IInv, TypeOK, NothingStuck, Lives, Parked, Responds, Kept, KeepForResponse
<1>8. ResponseKept'
  BY DEF IInv, TypeOK, ResponseKept, Lives, Responds, KeepForResponse
<1> QED BY <1>1, <1>2, <1>3, <1>4, <1>5, <1>6, <1>7, <1>8 DEF IInv

\* async_get_response().
LEMMA GetResponseStep ==
  ASSUME IInv, GetResponse
  PROVE  IInv'
<1> USE DEF GetResponse, DeliverResponse
<1>1. Stored'
  BY StoredFrame DEF IInv, engine, reading
<1> USE DEF engine, reading, writing, response, life, handles
<1>2. TypeOK'
  BY MaxChunkAssumption DEF IInv, TypeOK
<1>3. Told'
  BY DEF IInv, TypeOK, Stored, Told, Drained, Lives, NothingStuck, Responds
<1>4. Lives'
  BY DEF IInv, TypeOK, Lives
<1>5. Parked'
  BY DEF IInv, TypeOK, Parked, Lives
<1>6. Responds'
  BY DEF IInv, TypeOK, Responds, Lives, Parked, KeepForResponse
<1>7. NothingStuck'
  BY DEF IInv, TypeOK, NothingStuck, Lives, Parked, Responds, Kept, KeepForResponse
<1>8. ResponseKept'
  BY DEF IInv, TypeOK, ResponseKept, Lives, Responds, KeepForResponse
<1> QED BY <1>1, <1>2, <1>3, <1>4, <1>5, <1>6, <1>7, <1>8 DEF IInv

\* A get_response() is cancelled.
LEMMA CancelGetResponseStep ==
  ASSUME IInv, CancelGetResponse
  PROVE  IInv'
<1> USE DEF CancelGetResponse
<1>1. Stored'
  BY StoredFrame DEF IInv, engine, reading
<1> USE DEF engine, reading, writing, response, life, handles
<1>2. TypeOK'
  <2>1. /\ EngineTypes /\ BodyTypes /\ WriteTypes /\ ResponseTypes /\ LifeTypes /\ HandleTypes
    BY TypeParts DEF IInv
  <2>2. EngineTypes'
    BY <2>1, MaxChunkAssumption DEF EngineTypes
  <2>3. BodyTypes'
    BY <2>1, MaxChunkAssumption DEF BodyTypes, ReadTypes
  <2>4. WriteTypes'
    BY <2>1, MaxChunkAssumption DEF WriteTypes
  <2>5. ResponseTypes'
    BY <2>1, MaxChunkAssumption DEF ResponseTypes
  <2>6. LifeTypes'
    BY <2>1, MaxChunkAssumption DEF LifeTypes
  <2>7. HandleTypes'
    BY <2>1, MaxChunkAssumption DEF HandleTypes
  <2>8. TypeOK' <=> /\ EngineTypes' /\ BodyTypes' /\ WriteTypes' /\ ResponseTypes'
                    /\ LifeTypes' /\ HandleTypes'
    BY TypeParts, PTL
  <2> QED BY <2>2, <2>3, <2>4, <2>5, <2>6, <2>7, <2>8
<1>3. Told'
  BY DEF IInv, TypeOK, Stored, Told, Drained, Lives, NothingStuck, Responds
<1>4. Lives'
  BY DEF IInv, TypeOK, Lives
<1>5. Parked'
  BY DEF IInv, TypeOK, Parked, Lives
<1>6. Responds'
  BY DEF IInv, TypeOK, Responds, Lives, Parked, KeepForResponse
<1>7. NothingStuck'
  BY DEF IInv, TypeOK, NothingStuck, Lives, Parked, Responds, Kept, KeepForResponse
<1>8. ResponseKept'
  BY DEF IInv, TypeOK, ResponseKept, Lives, Responds, KeepForResponse
<1> QED BY <1>1, <1>2, <1>3, <1>4, <1>5, <1>6, <1>7, <1>8 DEF IInv

\* ~NGHttp2Reader().
LEMMA DropReaderStep ==
  ASSUME IInv, DropReader
  PROVE  IInv'
<1> USE DEF DropReader, MaybeCloseStream, FinishDeferredClose
<1>1. Stored'
  BY StoredFrame DEF IInv, engine, reading
<1> USE DEF engine, reading, writing, response, life, handles
<1>2. TypeOK'
  <2>1. /\ EngineTypes /\ BodyTypes /\ WriteTypes /\ ResponseTypes /\ LifeTypes /\ HandleTypes
    BY TypeParts DEF IInv
  <2>2. EngineTypes'
    BY <2>1, MaxChunkAssumption DEF EngineTypes
  <2>3. BodyTypes'
    BY <2>1, MaxChunkAssumption DEF BodyTypes, ReadTypes
  <2>4. WriteTypes'
    BY <2>1, MaxChunkAssumption DEF WriteTypes
  <2>5. ResponseTypes'
    BY <2>1, MaxChunkAssumption DEF ResponseTypes
  <2>6. LifeTypes'
    BY <2>1, MaxChunkAssumption DEF LifeTypes
  <2>7. HandleTypes'
    BY <2>1, MaxChunkAssumption DEF HandleTypes
  <2>8. TypeOK' <=> /\ EngineTypes' /\ BodyTypes' /\ WriteTypes' /\ ResponseTypes'
                    /\ LifeTypes' /\ HandleTypes'
    BY TypeParts, PTL
  <2> QED BY <2>2, <2>3, <2>4, <2>5, <2>6, <2>7, <2>8
<1>3. Told'
  BY DEF IInv, TypeOK, Stored, Told, Drained, Lives, NothingStuck, Responds
<1>4. Lives'
  BY DEF IInv, TypeOK, Lives
<1>5. Parked'
  BY DEF IInv, TypeOK, Parked, Lives
<1>6. Responds'
  BY DEF IInv, TypeOK, Responds, Lives, Parked, KeepForResponse
<1>7. NothingStuck'
  BY DEF IInv, TypeOK, NothingStuck, Lives, Parked, Responds, Kept, KeepForResponse
<1>8. ResponseKept'
  BY DEF IInv, TypeOK, ResponseKept, Lives, Responds, KeepForResponse
<1> QED BY <1>1, <1>2, <1>3, <1>4, <1>5, <1>6, <1>7, <1>8 DEF IInv

\* ~NGHttp2Writer().
LEMMA DropWriterStep ==
  ASSUME IInv, DropWriter
  PROVE  IInv'
<1> USE DEF DropWriter, MaybeCloseStream
<1>1. Stored'
  BY StoredFrame DEF IInv, engine, reading
<1> USE DEF engine, reading, writing, response, life, handles
<1>2. TypeOK'
  BY MaxChunkAssumption DEF IInv, TypeOK
<1>3. Told'
  BY DEF IInv, TypeOK, Stored, Told, Drained, Lives, NothingStuck, Responds
<1>4. Lives'
  BY DEF IInv, TypeOK, Lives
<1>5. Parked'
  BY DEF IInv, TypeOK, Parked, Lives
<1>6. Responds'
  BY DEF IInv, TypeOK, Responds, Lives, Parked, KeepForResponse
<1>7. NothingStuck'
  BY DEF IInv, TypeOK, NothingStuck, Lives, Parked, Responds, Kept, KeepForResponse
<1>8. ResponseKept'
  BY DEF IInv, TypeOK, ResponseKept, Lives, Responds, KeepForResponse
<1> QED BY <1>1, <1>2, <1>3, <1>4, <1>5, <1>6, <1>7, <1>8 DEF IInv

-----------------------------------------------------------------------------
(* The theorems.                                                           *)

\* The steps that leave the body alone.
Others ==
    \/ \E too_large \in BOOLEAN : OnResponse(too_large)
    \/ \E fits \in BOOLEAN : SendHeaders(fits)
    \/ \E n \in 0 .. MaxChunk : Produce(n)
    \/ CloseStream \/ WriteHandlerReturns \/ (Idle /\ alive /\ DestroyStream)
    \/ ReadDetached \/ CancelRead
    \/ \E n \in 1 .. MaxChunk : Read(n) /\ pc # "out"
    \/ Submit \/ CancelWrite \/ \E n \in 0 .. MaxChunk, eof \in BOOLEAN : Write(n, eof)
    \/ GetResponse \/ CancelGetResponse \/ DropReader \/ DropWriter
    \/ ReadHandlerReturns /\ pc = "last"

\* A step delivers some of the body, or comes to know its end, or leaves it alone.
LEMMA StepKinds ==
  ASSUME IInv, Next
  PROVE  \/ ReadTypes' /\ Stored' /\ \E buf, h : Reads(buf, h)
         \/ Others
<1>1. ASSUME NEW n \in 1 .. MaxChunk, OnData(n)
      PROVE  ReadTypes' /\ Stored' /\ \E buf, h : Reads(buf, h)
  BY <1>1, DataReads
<1>2. CASE OnEof
  BY <1>2, EofReads
<1>3. ASSUME NEW n \in 1 .. MaxChunk, Read(n), pc = "out"
      PROVE  ReadTypes' /\ Stored' /\ \E buf, h : Reads(buf, h)
  BY <1>3, ReadReads
<1>4. CASE ReadHandlerReturns /\ pc # "last"
  BY <1>4, ReturnReads
<1>5. CASE StreamReset \/ StreamEnds \/ SessionEnds \/ DeleteStream
  BY <1>5 DEF Others, StreamReset, StreamEnds, SessionEnds, DeleteStream
<1> QED BY <1>1, <1>2, <1>3, <1>4, <1>5 DEF Next, Engine, Progress, User, Others

LEMMA OthersKeep ==
  ASSUME IInv, Others
  PROVE  IInv'
<1>1. ASSUME NEW too_large \in BOOLEAN, OnResponse(too_large) PROVE IInv'
  BY <1>1, ResponseStep
<1>2. ASSUME NEW fits \in BOOLEAN, SendHeaders(fits) PROVE IInv'
  BY <1>2, SendHeadersStep
<1>3. ASSUME NEW n \in 0 .. MaxChunk, Produce(n) PROVE IInv'
  BY <1>3, ProduceStep
<1>4. CASE CloseStream
  BY <1>4, CloseWritingStep, CloseStep
<1>5. ASSUME NEW n \in 1 .. MaxChunk, Read(n), pc # "out" PROVE IInv'
  BY <1>5, ReadLaterStep
<1>6. CASE Submit \/ CancelWrite \/ \E n \in 0 .. MaxChunk, eof \in BOOLEAN : Write(n, eof)
  BY <1>6, WritingStep
<1> QED
  BY <1>1, <1>2, <1>3, <1>4, <1>5, <1>6, WriteReturnStep, DestroyStep, DetachedStep,
     CancelReadStep, GetResponseStep, CancelGetResponseStep, DropReaderStep, DropWriterStep,
     LastReturnKeeps
     DEF Others

LEMMA InitIInv == Init => IInv
<1> SUFFICES ASSUME Init PROVE IInv
  OBVIOUS
<1>1. /\ <<>> \in Seq(Unit) /\ <<>> \in Seq(Seq(Unit)) /\ Len(<<>>) = 0
      /\ \A a : Run(<<>>, a)
  BY DEF Run
<1>2. TypeOK
  <2>0. 0 \in 0 .. MaxData /\ 0 \in 0 .. MaxChunk
    BY MaxDataAssumption, MaxChunkAssumption
  <2>1. EngineTypes /\ HandleTypes
    <3>1. role \in {"client", "server"} /\ headers = (role = "server")
      BY DEF Init
    <3>2. headers \in BOOLEAN
      BY <3>1
    <3>3. /\ submitted \in {"no", "queued"} /\ reader \in {"none", "attached"}
          /\ rst = FALSE /\ live = TRUE /\ received = 0 /\ writer = "attached"
      BY DEF Init
    <3> QED BY <2>0, <3>1, <3>2, <3>3 DEF EngineTypes, HandleTypes
  <2>2. BodyTypes
    <3>1. /\ eof_received = FALSE /\ read_buffer = <<>> /\ pending_read_buffers = <<>>
          /\ view = <<>> /\ read_handler = 0 /\ pc = "out" /\ delivered = <<>>
          /\ last = "nothing"
      BY DEF Init
    <3> QED BY <1>1, <2>0, <3>1 DEF BodyTypes, ReadTypes
  <2>3. WriteTypes /\ ResponseTypes /\ LifeTypes
    BY <2>0 DEF Init, WriteTypes, ResponseTypes, LifeTypes
  <2> QED BY <2>1, <2>2, <2>3, TypeParts
<1>3. Stored
  <2>1. Chain(0, <<>>, <<>>, <<>>, 0)
    BY <1>1 DEF Chain, End
  <2> QED BY <1>1, <2>1 DEF Init, Stored
<1>4. Told /\ Lives /\ Parked
  BY DEF Init, Told, Lives, Parked
<1>5. Responds /\ NothingStuck /\ ResponseKept
  <2>1. role = "server" => headers
    BY DEF Init
  <2> QED BY <2>1 DEF Init, Responds, NothingStuck, ResponseKept, KeepForResponse
<1> QED BY <1>2, <1>3, <1>4, <1>5 DEF IInv

\* In every state of a stream, each part of the invariant holds.
THEOREM Safety == Spec => []IInv
<1>1. ASSUME IInv, [Next]_vars PROVE IInv'
  <2>1. CASE Next
    BY <1>1, <2>1, StepKinds, ReadsKeep, OthersKeep
  <2>2. CASE UNCHANGED vars
    <3> USE <1>1, <2>2 DEF vars, engine, reading, writing, response, life, handles
    <3>1. Stored'
      BY StoredFrame DEF IInv
    <3>2. TypeOK'
      BY DEF IInv, TypeOK
    <3>3. Told' /\ Lives' /\ Parked'
      BY DEF IInv, Told, Lives, Parked, Drained
    <3>4. Responds' /\ NothingStuck' /\ ResponseKept'
      BY DEF IInv, Responds, NothingStuck, ResponseKept, Kept, KeepForResponse
    <3> QED BY <3>1, <3>2, <3>3, <3>4 DEF IInv
  <2> QED BY <1>1, <2>1, <2>2
<1> QED BY <1>1, InitIInv, PTL DEF Spec

\* Every field of a stream and of its handles keeps its type.
THEOREM TypeCorrect == Spec => []TypeOK
<1>1. IInv => TypeOK
  BY DEF IInv
<1> QED BY <1>1, Safety, PTL

\* What waits, waits for something that can still come: call_read_handler(), close_stream()
\* and deliver_response() leave no operation behind that nothing will complete.
THEOREM NothingIsStuck == Spec => []NothingStuck
<1>1. IInv => NothingStuck
  BY DEF IInv
<1> QED BY <1>1, Safety, PTL

\* A response that nobody has asked for yet is kept: neither close_stream() nor
\* finish_deferred_close() erases its stream.
THEOREM ResponseIsKept == Spec => []ResponseKept
<1>1. IInv => ResponseKept
  BY DEF IInv
<1> QED BY <1>1, Safety, PTL

-----------------------------------------------------------------------------
(* The reader of a stream is a BodyReader.                                 *)

\* A step that calls the read handler, or leaves a read waiting, is one of its steps ...
LEMMA ReadsContract ==
  ASSUME received \in Nat, ReadTypes, ReadTypes', Stored', NEW buf, NEW h, Gets(buf, h)
  PROVE  Body!Next
<1>1. /\ received \in Nat /\ received' \in Nat /\ received' >= received
      /\ eof_received => eof_received' /\ received' = received
      /\ closed' = closed /\ alive' = alive
  BY MaxDataAssumption DEF Gets
<1>2. Body!Arrive
  BY <1>1 DEF Body!Arrive
<1>3. CASE Gives(buf, h)
  <2>1. last \in {"nothing", "data"} /\ last' = "data"
    BY <1>3 DEF ReadTypes, Gets, Gives
  <2>2. delivered' \in Seq(Unit) /\ Run(delivered', 1)
    BY DEF ReadTypes, Stored
  <2>3. delivered' = [i \in 1 .. Len(delivered') |-> i]
    <3>1. \A i \in 1 .. Len(delivered') : delivered'[i] = i
      BY <2>2 DEF Run
    <3> QED BY <2>2, <3>1
  <2>4. Len(delivered') > Len(delivered) /\ Len(delivered') <= received'
    BY <1>3 DEF Gives
  <2>5. Body!Give
    BY <2>1, <2>3, <2>4 DEF Body!Give
  <2> QED BY <1>2, <2>5 DEF Body!Next
<1>4. CASE Ends(buf, h)
  <2>1. last # "partial" /\ last' = "eof" /\ eof_received' /\ delivered' = delivered
    BY <1>4 DEF Gets, Ends
  <2>2. Len(delivered) = received'
    <3>1. Chain(Len(delivered'), <<>>, <<>>, <<>>, received')
      BY <1>4 DEF Ends, Drained, Stored
    <3>2. Len(delivered') \in Nat
      BY DEF ReadTypes
    <3> QED BY <1>1, <2>1, <3>1, <3>2, ChainDrained
  <2>3. Body!TellEnd
    BY <2>1, <2>2 DEF Body!TellEnd
  <2> QED BY <1>2, <2>3 DEF Body!Next
<1>5. CASE Cuts(buf, h)
  <2>1. last # "eof" /\ last' = "partial" /\ closed /\ delivered' = delivered
    BY <1>5 DEF Gets, Cuts
  <2>2. Body!TellCut
    BY <1>1, <2>1 DEF Body!TellCut
  <2> QED BY <1>2, <2>2 DEF Body!Next
<1>6. CASE Waits(buf, h)
  <2>1. UNCHANGED <<delivered, last>>
    BY <1>6 DEF Waits
  <2> QED BY <1>2, <2>1 DEF Body!Next
<1> QED BY <1>3, <1>4, <1>5, <1>6 DEF Gets, Outcome

\* ... and of the others, close_stream() and ~NGHttp2Stream() end a read that waits, and a
\* reader that is detached says what it knows.
Tells ==
    /\ received' = received /\ eof_received' = eof_received /\ delivered' = delivered
    /\ closed \/ ~alive => closed' \/ ~alive'
    /\ \/ last' = last
       \/ last' = "partial" /\ last # "eof" /\ (closed' \/ ~alive')
       \/ last' = "eof" /\ last # "partial" /\ eof_received /\ Drained

LEMMA OthersTell ==
  ASSUME IInv, Others
  PROVE  Tells
<1> USE DEF Tells
<1>1. ASSUME NEW too_large \in BOOLEAN, OnResponse(too_large) PROVE Tells
  BY <1>1 DEF OnResponse, reading
<1>2. ASSUME NEW fits \in BOOLEAN, SendHeaders(fits) PROVE Tells
  BY <1>2 DEF SendHeaders, reading, life
<1>3. ASSUME NEW n \in 0 .. MaxChunk, Produce(n) PROVE Tells
  BY <1>3 DEF Produce, engine, reading, life
<1>4. (read_handler > 0 /\ pc = "out") => last # "eof"
  BY DEF IInv, Told, NothingStuck
<1>5. CASE CloseStream
  BY <1>4, <1>5 DEF CloseStream, Idle, KeepOrErase
<1>6. CASE WriteHandlerReturns
  <2>1. closed
    BY <1>6 DEF IInv, Lives, WriteHandlerReturns
  <2> QED BY <1>4, <1>6, <2>1 DEF WriteHandlerReturns, KeepOrErase, engine
<1>7. CASE Idle /\ alive /\ DestroyStream
  BY <1>4, <1>7 DEF Idle, DestroyStream
<1>8. CASE ReadDetached
  BY <1>8 DEF IInv, Told, ReadDetached, engine, life
<1>9. CASE CancelRead
  BY <1>9 DEF CancelRead, engine, life
<1>10. ASSUME NEW n \in 1 .. MaxChunk, Read(n), pc # "out" PROVE Tells
  BY <1>10 DEF Read, engine
<1>11. CASE Submit
  BY <1>11 DEF Submit, reading, life
<1>12. CASE CancelWrite
  BY <1>12 DEF CancelWrite, engine, reading, life
<1>13. ASSUME NEW n \in 0 .. MaxChunk, NEW eof \in BOOLEAN, Write(n, eof) PROVE Tells
  BY <1>13 DEF Write, engine, reading, life
<1>14. CASE GetResponse
  BY <1>14 DEF GetResponse, engine, reading
<1>15. CASE CancelGetResponse
  BY <1>15 DEF CancelGetResponse, engine, reading, life
<1>16. CASE DropReader
  BY <1>16 DEF DropReader, reading
<1>17. CASE DropWriter
  BY <1>17 DEF DropWriter, reading, life
<1>18. CASE ReadHandlerReturns /\ pc = "last"
  BY <1>18 DEF ReadHandlerReturns, engine
<1> HIDE DEF Tells
<1> QED
  BY <1>1, <1>2, <1>3, <1>5, <1>6, <1>7, <1>8, <1>9, <1>10, <1>11, <1>12, <1>13, <1>14,
     <1>15, <1>16, <1>17, <1>18
     DEF Others

LEMMA TellsContract ==
  ASSUME received \in Nat, ReadTypes, Stored, Tells
  PROVE  Body!Next
<1>1. /\ received' = received /\ eof_received' = eof_received /\ delivered' = delivered
      /\ closed \/ ~alive => closed' \/ ~alive'
      /\ \/ last' = last
         \/ last' = "partial" /\ last # "eof" /\ (closed' \/ ~alive')
         \/ last' = "eof" /\ last # "partial" /\ eof_received /\ Drained
  BY DEF Tells
<1>2. received \in Nat /\ Len(delivered) \in Nat
  BY DEF ReadTypes
<1>3. Body!Arrive
  BY <1>1, <1>2 DEF Body!Arrive
<1>4. CASE last' = last
  BY <1>1, <1>3, <1>4 DEF Body!Next
<1>5. CASE last' = "partial" /\ last # "eof" /\ (closed' \/ ~alive')
  BY <1>1, <1>3, <1>5 DEF Body!Next, Body!TellCut
<1>6. CASE last' = "eof" /\ last # "partial" /\ eof_received /\ Drained
  <2>1. Chain(Len(delivered), <<>>, <<>>, <<>>, received)
    BY <1>6 DEF Stored, Drained
  <2>2. Len(delivered) = received
    BY <1>2, <2>1, ChainDrained
  <2> QED BY <1>1, <1>3, <1>6, <2>2 DEF Body!Next, Body!TellEnd
<1> QED BY <1>1, <1>4, <1>5, <1>6

\* The reader of a stream keeps the contract of a Reader: whatever call_read_handler() was
\* interrupted by, each unit of the body is given out once and in order, the end is told only
\* of a body that was ended and given out, and what was told of the end never changes.
THEOREM ReaderImplements == Spec => ReaderContract
<1>1. Init => Body!Init
  BY DEF Init, Body!Init
<1>2. ASSUME IInv, [Next]_vars PROVE [Body!Next]_(Body!vars)
  <2>1. CASE Next
    <3>1. ReadTypes /\ received \in Nat /\ Stored
      BY <1>2 DEF IInv, TypeOK, ReadTypes, Unit
    <3> QED BY <1>2, <2>1, <3>1, StepKinds, ReadsContract, OthersTell, TellsContract DEF Reads
  <2>2. CASE UNCHANGED vars
    BY <2>2 DEF vars, engine, reading, life, Body!vars
  <2> QED BY <1>2, <2>1, <2>2
<1> QED BY <1>1, <1>2, Safety, PTL DEF Spec, ReaderContract, Body!Spec

\* What a user of a Reader builds on: it was given a prefix of the body, all of it if it was told
\* the end, and was told that the body was cut only if nothing more comes.
Promised ==
    /\ Run(delivered, 1) /\ received \in Nat /\ Len(delivered) <= received
    /\ last = "eof" => eof_received /\ Len(delivered) = received
    /\ last = "partial" => closed \/ ~alive

\* What was told of the end is final.
Final == last \in {"eof", "partial"} => UNCHANGED <<delivered, last>>

\* The contract says what it is meant to say: who implements BodyReader keeps its promises, so
\* that common.hpp and end-of-body.rst hold of every reader that was shown to implement it.
THEOREM ContractPromises ==
  Body!Spec /\ [](delivered \in Seq(Nat)) => []Promised /\ [][Final]_(Body!vars)
<1>1. Body!Init => Promised
  BY DEF Body!Init, Promised, Run
<1>2. ASSUME Promised, delivered \in Seq(Nat), (delivered \in Seq(Nat))', [Body!Next]_(Body!vars)
      PROVE  Promised'
  <2>1. CASE Body!Next
    <3>1. received' \in Nat /\ received' >= received
      BY <2>1 DEF Body!Next, Body!Arrive
    <3>2. /\ eof_received => eof_received' /\ received' = received
          /\ closed \/ ~alive => closed' \/ ~alive'
      BY <2>1 DEF Body!Next, Body!Arrive
    <3>3. CASE Body!Give
      <4>1. Run(delivered', 1)
        BY <1>2, <3>3 DEF Body!Give, Run
      <4> QED BY <3>1, <3>3, <4>1 DEF Body!Give, Promised
    <3>4. CASE Body!TellEnd
      BY <1>2, <3>1, <3>4 DEF Body!TellEnd, Promised
    <3>5. CASE Body!TellCut
      BY <1>2, <3>1, <3>5 DEF Body!TellCut, Promised
    <3>6. CASE UNCHANGED <<delivered, last>>
      BY <1>2, <3>1, <3>2, <3>6 DEF Promised
    <3> QED BY <2>1, <3>3, <3>4, <3>5, <3>6 DEF Body!Next
  <2>2. CASE UNCHANGED Body!vars
    BY <1>2, <2>2 DEF Body!vars, Promised
  <2> QED BY <1>2, <2>1, <2>2
<1>3. ASSUME [Body!Next]_(Body!vars) PROVE [Final]_(Body!vars)
  BY <1>3 DEF Body!Next, Body!Give, Body!TellEnd, Body!TellCut, Final
<1> QED BY <1>1, <1>2, <1>3, PTL DEF Body!Spec

\* A sequence of units of the body is one of numbers.
LEMMA UnitsAreNumbers == ASSUME delivered \in Seq(Unit) PROVE delivered \in Seq(Nat)
<1>1. Len(delivered) \in Nat /\ \A i \in 1 .. Len(delivered) : delivered[i] \in Nat
  <2>1. Len(delivered) \in Nat /\ \A i \in 1 .. Len(delivered) : delivered[i] \in Unit
    OBVIOUS
  <2>2. \A u \in Unit : u \in Nat
    BY MaxDataAssumption DEF Unit
  <2> QED BY <2>1, <2>2
<1>2. delivered = [i \in 1 .. Len(delivered) |-> delivered[i]]
  OBVIOUS
<1> QED BY ONLY <1>1, <1>2

\* The reader of an HTTP/2 stream was given a prefix of the body, and all of it if it was told the
\* end, in whatever pieces call_read_handler() has handed it out.
THEOREM BodyIsWhole == Spec => []Promised /\ [][Final]_(Body!vars)
<1>1. IInv => delivered \in Seq(Nat)
  BY UnitsAreNumbers DEF IInv, TypeOK, Unit
<1> QED BY <1>1, Safety, ReaderImplements, ContractPromises, PTL DEF ReaderContract

-----------------------------------------------------------------------------
(* Version 2 of nghttp2: the invariant of V2.  Stored, Told, Lives and     *)
(* Parked are those of H2Stream, as call_read_handler(), close_stream()    *)
(* and the handles have been taken over from there.                        *)

V2EngineTypes ==
    /\ role \in {"client", "server"}
    /\ headers \in BOOLEAN /\ submitted \in BOOLEAN /\ rst \in BOOLEAN /\ live \in BOOLEAN
    /\ received \in 0 .. MaxData

V2WriteTypes ==
    /\ vec \in 0 .. MaxChunk /\ unoffered \in 0 .. MaxChunk
    /\ fin \in BOOLEAN /\ write_handler \in BOOLEAN /\ write_cancelled \in BOOLEAN
    /\ eof_requested \in BOOLEAN /\ eof_submitted \in BOOLEAN /\ is_deferred \in BOOLEAN
    /\ asking \in BOOLEAN /\ posted \in BOOLEAN
    /\ ended \in {"nothing", "ok", "failed"}

V2HandleTypes ==
    /\ reader \in {"none", "attached", "eof", "partial", "gone"}
    /\ writer \in {"none", "attached", "detached", "gone"}

V2Types ==
    /\ V2EngineTypes /\ BodyTypes /\ V2WriteTypes /\ ResponseTypes /\ LifeTypes
    /\ V2HandleTypes

\* A stream lives until nghttp2 closes it.  Its reader comes with the header of the request,
\* or with the response, which comes once.
V2Responds ==
    /\ live \/ closed
    /\ ~headers => ~has_response /\ ~response_error /\ ~response_delivered /\ reader = "none"
    /\ has_response \/ response_error \/ response_handler \/ response_delivered => role = "client"
    /\ response_handler => ~response_delivered
    /\ role = "client" /\ ~response_delivered => reader = "none"
    /\ reader = "none" => last = "nothing"
    /\ close_deferred => ~KeepForResponse
    /\ (role = "client" /\ closed /\ ~closing /\ ~response_delivered /\ registered)
        => has_response \/ response_error

\* A read waits for what is still to come, and so does get_response().
V2Waits ==
    /\ (read_handler > 0 /\ pc = "out") =>
        /\ read_buffer = <<>> /\ ~eof_received
        /\ closed => closing \/ ~registered \/ last = "partial"
    /\ response_handler => /\ alive /\ ~has_response /\ ~response_error
                           /\ closed => closing \/ ~registered

V2ReadInv == Stored /\ Told /\ Lives /\ Parked /\ V2Responds /\ V2Waits

\* A write waits in its writer, on a stream that lives and is not deferred.  One of which
\* nothing is left to be offered has the end of the body to give, or is being framed; and
\* the end is given with the last of the body.  Behind it, nothing is framed.
V2Writes ==
    /\ write_handler => writer = "attached" /\ live /\ ~is_deferred
    /\ (write_handler /\ unoffered = 0) => eof_requested \/ (V2!ZeroCopy /\ vec > 0)
    /\ eof_submitted => eof_requested
    /\ (eof_submitted /\ write_handler) => V2!ZeroCopy /\ unoffered = 0 /\ vec > 0
    /\ fin => vec = 0 /\ ~asking
    /\ ended = "ok" => eof_submitted

\* Of a response: what nghttp2 has not framed belongs to a write that has not completed; a
\* write handler is called when it has framed all; who has the stream reset, or posts that,
\* is not its writer, unless that has cancelled a write; and where the end of the body was
\* accepted, END_STREAM is framed, or is about to be, with no reset in its way.
V2Framed ==
    V2!ZeroCopy =>
        /\ live /\ vec > 0 => write_handler
        /\ asking => vec = 0
        /\ ~headers => writer = "none" /\ ~posted /\ ~rst
        /\ (rst \/ posted) /\ ~write_cancelled => writer # "attached"
        /\ (live /\ eof_submitted /\ ~write_handler /\ ~write_cancelled)
            => fin \/ (asking /\ ~rst)

V2WriteInv == V2Writes /\ V2Framed

V2Inv == V2Types /\ V2ReadInv /\ V2WriteInv

\* The parts of the invariant are the properties.
LEMMA V2InvImplies ==
  ASSUME V2Inv
  PROVE  V2!BufferKept /\ V2!EndGoesOut /\ V2!NothingStalls
<1>1. V2!BufferKept
  BY DEF V2Inv, V2WriteInv, V2Framed, V2!BufferKept
<1>2. V2!EndGoesOut
  BY DEF V2Inv, V2WriteInv, V2Writes, V2Framed, V2!EndGoesOut
<1>3. V2!NothingStalls
  BY DEF V2Inv, V2ReadInv, V2WriteInv, V2Writes, V2Waits, Parked, Lives, V2!NothingStalls
<1> QED BY <1>1, <1>2, <1>3

LEMMA V2TypesImply ==
  ASSUME V2Types, ChunkSize \in Nat \ {0}
  PROVE  V2!TypeOK
<1> USE DEF V2Types, V2EngineTypes, BodyTypes, ReadTypes, Unit, V2WriteTypes, ResponseTypes,
            LifeTypes, V2HandleTypes
<1>1. {headers, submitted, rst, live, fin, eof_received, write_handler, write_cancelled,
       eof_requested, eof_submitted, is_deferred, asking, response_handler, has_response,
       response_error, response_delivered, closed, closing, close_deferred, registered,
       alive, posted} \subseteq BOOLEAN
  OBVIOUS
<1>2. {read_buffer, view, delivered} \subseteq Seq(1 .. MaxData)
  OBVIOUS
<1>3. {vec, unoffered} \subseteq 0 .. MaxChunk + ChunkSize
  <2>1. vec \in 0 .. MaxChunk + ChunkSize /\ unoffered \in 0 .. MaxChunk + ChunkSize
    BY MaxChunkAssumption
  <2> QED BY <2>1
<1> QED BY <1>1, <1>2, <1>3 DEF V2!TypeOK

-----------------------------------------------------------------------------
(* What the two versions have in common.                                   *)

LEMMA V2SameFinish ==
  ASSUME NEW rd, NEW eof, NEW b, NEW h, V2!FinishDeferredClose(rd, eof, b, h)
  PROVE  FinishDeferredClose(rd, eof, b, h)
BY DEF FinishDeferredClose, V2!FinishDeferredClose

LEMMA V2SameLoop ==
  ASSUME NEW buf, NEW bufs, NEW rest, NEW h, V2!Deliver(buf, bufs, rest, h)
  PROVE  Deliver(buf, bufs, rest, h)
<1>1. V2!NoCall(buf, bufs, rest, h) => NoCall(buf, bufs, rest, h)
  BY V2SameFinish DEF NoCall, V2!NoCall, Store, V2!Store
<1>2. V2!CallWithEnd(buf, bufs, h) => CallWithEnd(buf, bufs, rest, h)
  BY DEF CallWithEnd, V2!CallWithEnd
<1>3. V2!CallWithData(buf, bufs, rest, h) => CallWithData(buf, bufs, rest, h)
  BY DEF CallWithData, V2!CallWithData
<1> QED BY <1>1, <1>2, <1>3 DEF Deliver, V2!Deliver

LEMMA V2SameCall ==
  ASSUME NEW data, NEW h, V2!CallReadHandler(data, h)
  PROVE  CallReadHandler(data, h)
BY V2SameLoop, V2SameFinish DEF CallReadHandler, V2!CallReadHandler

LEMMA V2GoesOn ==
  ASSUME V2!ReadHandlerReturns
  PROVE  GoesOn
<1>1. CASE pc = "data" /\ read_buffer = <<>>
  <2>1. V2!Deliver(V2!NextBuffer.buffer, V2!NextBuffer.buffers, V2!NextBuffer.rest, read_handler)
    BY <1>1 DEF V2!ReadHandlerReturns
  <2>2. CASE Len(pending_read_buffers) > 1
    <3>1. /\ V2!NextBuffer.buffer = pending_read_buffers[2]
          /\ V2!NextBuffer.buffers = Tail(pending_read_buffers) /\ V2!NextBuffer.rest = view
      BY <2>2 DEF V2!NextBuffer
    <3> QED BY <1>1, <2>1, <2>2, <3>1, V2SameLoop DEF V2!ReadHandlerReturns, GoesOn
  <2>3. CASE ~(Len(pending_read_buffers) > 1)
    <3>1. /\ V2!NextBuffer.buffer = view /\ V2!NextBuffer.buffers = <<>>
          /\ V2!NextBuffer.rest = <<>>
      BY <2>3 DEF V2!NextBuffer
    <3> QED BY <1>1, <2>1, <2>3, <3>1, V2SameLoop DEF V2!ReadHandlerReturns, GoesOn
  <2> QED BY <2>2, <2>3
<1>2. CASE ~(pc = "data" /\ read_buffer = <<>>)
  BY <1>2, V2SameLoop, V2SameFinish DEF V2!ReadHandlerReturns, GoesOn
<1> QED BY <1>1, <1>2

LEMMA V2SameErase ==
  ASSUME V2!KeepOrErase
  PROVE  KeepOrErase
BY DEF KeepOrErase, V2!KeepOrErase, KeepForResponse, V2!KeepForResponse

-----------------------------------------------------------------------------
(* The steps of V2 that deliver some of the body, or come to know its end. *)

V2Reads(buf, h) ==
    /\ Gets(buf, h)
    /\ UNCHANGED <<role, headers, submitted, rst, live, vec, fin, V2!writing, response, closing,
                   posted, writer>>

\* Steps that leave the outgoing body alone keep what is said of it ...
LEMMA V2OutgoingKept ==
  ASSUME V2WriteInv, UNCHANGED <<role, headers, rst, live, vec, fin, V2!writing, posted, writer>>
  PROVE  V2WriteInv'
BY DEF V2WriteInv, V2Writes, V2Framed, V2!ZeroCopy, V2!writing

\* ... and so do those that leave the incoming one alone.
LEMMA V2IncomingKept ==
  ASSUME V2ReadInv,
         UNCHANGED <<role, headers, live, received, reading, response, closed, closing,
                     close_deferred, registered, alive, reader>>,
         writer' \in {writer, "gone"}
  PROVE  V2ReadInv'
<1> USE DEF V2ReadInv, reading, response
<1>1. Stored'
  BY StoredFrame
<1>2. Told'
  BY DEF Told, Drained
<1>3. Lives' /\ Parked'
  BY DEF Lives, Parked
<1>4. V2Responds' /\ V2Waits'
  BY DEF V2Responds, V2Waits, KeepForResponse
<1> QED BY <1>1, <1>2, <1>3, <1>4

LEMMA V2ReadsKeep ==
  ASSUME V2Inv, ReadTypes', Stored', NEW buf, NEW h, V2Reads(buf, h)
  PROVE  V2Inv'
<1>1. /\ V2Types /\ Told /\ Lives /\ V2Responds /\ V2Waits /\ V2WriteInv
  BY DEF V2Inv, V2ReadInv
<1>2. Settles
  BY <1>1, OutcomeSettles DEF V2Types, V2Reads, Gets
<1>3. UNCHANGED <<role, headers, live, has_response, response_error, response_handler,
                  response_delivered, closed, closing, alive, reader, writer>>
  BY DEF V2Reads, Gets, response
<1>4. /\ read_handler' > 0 => alive /\ reader = "attached"
      /\ last' = last \/ reader = "attached"
      /\ read_handler' > 0 /\ pc' = "out" => read_buffer' = <<>> /\ ~eof_received' /\ ~closed
      /\ alive /\ eof_received' \in BOOLEAN /\ (eof_received => eof_received')
      /\ received' \in 0 .. MaxData
  BY MaxChunkAssumption DEF V2Reads, Gets, Outcome, Gives, Ends, Cuts, Waits
<1>5. V2Types'
  <2>1. V2EngineTypes' /\ V2WriteTypes' /\ V2HandleTypes' /\ ResponseTypes'
    BY <1>1, <1>4 DEF V2Types, V2EngineTypes, V2WriteTypes, V2HandleTypes, ResponseTypes,
                      V2Reads, Gets, V2!writing, response
  <2>2. BodyTypes' /\ LifeTypes'
    BY <1>1, <1>2, <1>3, <1>4 DEF V2Types, BodyTypes, LifeTypes, Settles
  <2> QED BY <2>1, <2>2 DEF V2Types
<1>6. Told'
  BY <1>1, ToldReads DEF V2Reads
<1>7. Lives'
  BY <1>1, <1>2, <1>3, <1>4 DEF Lives, Settles
<1>8. Parked'
  BY <1>3, <1>4 DEF Parked
<1>9. V2Responds'
  BY <1>1, <1>2, <1>3, <1>4 DEF V2Responds, Settles, KeepForResponse
<1>10. V2Waits'
  BY <1>1, <1>2, <1>3, <1>4 DEF V2Waits, V2Types, LifeTypes, Settles
<1>11. V2WriteInv'
  BY <1>1, V2OutgoingKept DEF V2Reads
<1> QED BY <1>5, <1>6, <1>7, <1>8, <1>9, <1>10, <1>11 DEF V2Inv, V2ReadInv

\* What these steps may rely on.
LEMMA V2Facts ==
  ASSUME V2Inv
  PROVE  /\ ReadTypes /\ Stored /\ received \in Nat /\ received \in 0 .. MaxData
         /\ eof_received \in BOOLEAN /\ read_handler \in 0 .. MaxChunk
         /\ received <= MaxData
         /\ live => last \notin {"partial", "eof"} \/ eof_received
         /\ read_handler > 0 => reader = "attached"
         /\ reader = "attached" \/ pc # "out" => alive
         /\ live => alive
         /\ pc = "data" => last = "data"
         /\ pc = "eof" => last = "eof" /\ eof_received
         /\ reader = "attached" =>
                /\ last = "partial" => read_buffer = <<>> /\ ~eof_received
                /\ last = "eof" => read_buffer = <<>> /\ eof_received
BY MaxDataAssumption
   DEF V2Inv, V2Types, V2EngineTypes, BodyTypes, ReadTypes, V2ReadInv, Told, Lives, Parked,
       Drained

LEMMA V2DataReads ==
  ASSUME V2Inv, NEW n \in 1 .. MaxChunk, V2!OnData(n)
  PROVE  ReadTypes' /\ Stored' /\ \E buf, h : V2Reads(buf, h)
<1>1. /\ pc = "out" /\ live /\ ~eof_received /\ received' = received + n /\ received' <= MaxData
      /\ eof_received' = eof_received
      /\ V2!CallReadHandler([i \in 1 .. n |-> received + i], read_handler)
      /\ UNCHANGED <<role, headers, submitted, rst, live, vec, fin, V2!writing, response, closed,
                     closing, alive, posted, reader, writer>>
  BY DEF V2!OnData, V2!Idle, V2!framing, V2!response, V2!handles, response
<1>2. CallReadHandler([i \in 1 .. n |-> received + i], read_handler)
  BY <1>1, V2SameCall
<1>3. n \in Nat
  BY MaxChunkAssumption
<1>4. ReadTypes' /\ Stored' /\ \E buf : Outcome(buf, read_handler) /\ (n = 0 => buf = read_buffer)
  BY <1>1, <1>2, <1>3, V2Facts, CallKeeps
<1>5. PICK buf : Outcome(buf, read_handler)
  BY <1>4
<1>6. received' \in 0 .. MaxData /\ received' >= received
  BY <1>1, <1>3, V2Facts, MaxDataAssumption
<1>7. Gets(buf, read_handler)
  BY <1>1, <1>5, <1>6, V2Facts DEF Gets
<1> QED BY <1>1, <1>4, <1>7 DEF V2Reads

LEMMA V2EofReads ==
  ASSUME V2Inv, V2!OnEof
  PROVE  ReadTypes' /\ Stored' /\ \E buf, h : V2Reads(buf, h)
<1>1. /\ pc = "out" /\ live /\ ~eof_received /\ received' = received /\ eof_received' = TRUE
      /\ V2!CallReadHandler(<<>>, read_handler)
      /\ UNCHANGED <<role, headers, submitted, rst, live, vec, fin, V2!writing, response, closed,
                     closing, alive, posted, reader, writer>>
  BY DEF V2!OnEof, V2!Idle, V2!framing, V2!response, V2!handles, V2!engine, response
<1>2. CallReadHandler(<<>>, read_handler)
  BY <1>1, V2SameCall
<1>3. ReadTypes' /\ Stored' /\ Outcome(read_buffer, read_handler)
  BY <1>1, <1>2, V2Facts, CallNothing
<1>4. Gets(read_buffer, read_handler)
  BY <1>1, <1>3, V2Facts DEF Gets
<1> QED BY <1>1, <1>3, <1>4 DEF V2Reads

LEMMA V2ReadReads ==
  ASSUME V2Inv, NEW n \in 1 .. MaxChunk, V2!Read(n), pc = "out"
  PROVE  ReadTypes' /\ Stored' /\ \E buf, h : V2Reads(buf, h)
<1>1. /\ reader = "attached" /\ received' = received /\ eof_received' = eof_received
      /\ V2!CallReadHandler(<<>>, n)
      /\ UNCHANGED <<role, headers, submitted, rst, live, vec, fin, V2!writing, response, closed,
                     closing, alive, posted, reader, writer>>
  BY DEF V2!Read, V2!framing, V2!response, V2!handles, V2!engine, response
<1>2. CallReadHandler(<<>>, n) /\ n \in 0 .. MaxChunk
  BY <1>1, V2SameCall, MaxChunkAssumption
<1>3. ReadTypes' /\ Stored' /\ Outcome(read_buffer, n)
  BY <1>1, <1>2, V2Facts, CallNothing
<1>4. Gets(read_buffer, n)
  BY <1>1, <1>2, <1>3, V2Facts DEF Gets
<1> QED BY <1>1, <1>3, <1>4 DEF V2Reads

LEMMA V2ReturnReads ==
  ASSUME V2Inv, V2!ReadHandlerReturns, pc # "last"
  PROVE  ReadTypes' /\ Stored' /\ \E buf, h : V2Reads(buf, h)
<1>1. /\ pc # "out" /\ received' = received /\ eof_received' = eof_received
      /\ UNCHANGED <<role, headers, submitted, rst, live, vec, fin, V2!writing, response, closed,
                     closing, alive, posted, reader, writer>>
  BY DEF V2!ReadHandlerReturns, V2!framing, V2!response, V2!handles, V2!engine, response
<1>2. /\ ReadTypes' /\ Stored'
      /\ \/ pc = "data" /\ \E buf : Outcome(buf, read_handler)
         \/ pc = "eof" /\ Outcome(<<>>, read_handler)
  BY <1>1, V2Facts, V2GoesOn, ReturnKeeps
<1>3. CASE pc = "data"
  <2>1. PICK buf : Outcome(buf, read_handler)
    BY <1>2, <1>3
  <2>2. Gets(buf, read_handler)
    BY <1>1, <1>3, <2>1, V2Facts DEF Gets
  <2> QED BY <1>1, <1>2, <2>2 DEF V2Reads
<1>4. CASE pc = "eof"
  <2>1. Outcome(<<>>, read_handler)
    BY <1>2, <1>4
  <2>2. Gets(<<>>, read_handler)
    BY <1>1, <1>4, <2>1, V2Facts DEF Gets
  <2> QED BY <1>1, <1>2, <2>2 DEF V2Reads
<1> QED BY <1>2, <1>3, <1>4

-----------------------------------------------------------------------------
(* Steps of V2 on the outgoing body only.                                  *)

V2WritesOnly ==
    /\ UNCHANGED <<role, headers, live, received, reading, response, closed, closing,
                   close_deferred, registered, alive, reader>>
    /\ writer' \in {writer, "gone"} /\ submitted' \in BOOLEAN /\ rst' \in BOOLEAN

LEMMA V2WritesOnlyKeep ==
  ASSUME V2Inv, V2WritesOnly, V2WriteTypes', V2WriteInv'
  PROVE  V2Inv'
<1>1. V2ReadInv'
  BY V2IncomingKept DEF V2Inv, V2WritesOnly
<1>2. V2EngineTypes' /\ ResponseTypes' /\ V2HandleTypes' /\ LifeTypes'
  BY DEF V2Inv, V2Types, V2EngineTypes, ResponseTypes, V2HandleTypes, LifeTypes, V2WritesOnly,
         response
<1>3. BodyTypes'
  BY DEF V2Inv, V2Types, BodyTypes, ReadTypes, V2WritesOnly, reading
<1> QED BY <1>1, <1>2, <1>3 DEF V2Inv, V2Types

\* What they may rely on.
LEMMA V2WriteFacts ==
  ASSUME V2Inv
  PROVE  /\ V2WriteTypes /\ V2Writes /\ V2Framed /\ (live => ~closed)
         /\ rst \in BOOLEAN /\ submitted \in BOOLEAN /\ role \in {"client", "server"}
         /\ live \in BOOLEAN
BY DEF V2Inv, V2Types, V2WriteInv, V2ReadInv, V2EngineTypes, Lives

\* data_reader(), which defers the stream or ends it again, ...
LEMMA V2DefersStep ==
  ASSUME V2Inv, V2!ReaderDefers
  PROVE  V2Inv'
<1> USE DEF V2!ReaderDefers, V2!Asks, V2!Idle, V2!engine, V2!reading, V2!response, V2!life,
            V2!handles
<1>1. V2WritesOnly
  BY V2WriteFacts DEF V2WritesOnly, reading, response
<1>2. V2WriteTypes'
  BY V2WriteFacts DEF V2WriteTypes
<1>3. V2Writes'
  BY V2WriteFacts DEF V2Writes, V2!ZeroCopy
<1>4. V2Framed'
  BY V2WriteFacts DEF V2Framed, V2!ZeroCopy
<1> QED BY <1>1, <1>2, <1>3, <1>4, V2WritesOnlyKeep DEF V2WriteInv

\* ... gives the end of the body, ...
LEMMA V2EndsStep ==
  ASSUME V2Inv, V2!ReaderEnds
  PROVE  V2Inv'
<1> USE DEF V2!ReaderEnds, V2!Asks, V2!Idle, V2!engine, V2!framing, V2!reading, V2!response,
            V2!life, V2!handles
<1>1. V2WritesOnly
  BY V2WriteFacts DEF V2WritesOnly, reading, response
<1>2. V2WriteTypes'
  BY V2WriteFacts DEF V2WriteTypes
<1>3. V2Writes'
  BY V2WriteFacts DEF V2Writes, V2!ZeroCopy
<1>4. V2Framed'
  BY V2WriteFacts DEF V2Framed, V2!ZeroCopy
<1> QED BY <1>1, <1>2, <1>3, <1>4, V2WritesOnlyKeep DEF V2WriteInv

\* ... or some of it.
LEMMA V2OffersStep ==
  ASSUME V2Inv, ChunkSize \in Nat \ {0}, V2!ReaderOffers
  PROVE  V2Inv'
<1> USE DEF V2!ReaderOffers, V2!Asks, V2!Idle, V2!engine, V2!reading, V2!response,
            V2!life, V2!handles
<1>1. V2WritesOnly
  BY V2WriteFacts DEF V2WritesOnly, reading, response
<1>2. /\ vec' \in 0 .. MaxChunk /\ unoffered' \in 0 .. MaxChunk /\ vec' > 0 /\ unoffered > 0
      /\ V2!ZeroCopy => unoffered' = 0
  <2>1. unoffered \in 0 .. MaxChunk /\ unoffered > 0
    BY V2WriteFacts DEF V2WriteTypes
  <2>2. /\ vec' = IF V2!ZeroCopy \/ unoffered < ChunkSize THEN unoffered ELSE ChunkSize
        /\ unoffered' = unoffered - vec'
    OBVIOUS
  <2> QED BY ONLY <2>1, <2>2, ChunkSize \in Nat \ {0}, MaxChunkAssumption
<1>3. /\ eof_submitted' = (unoffered' = 0 /\ eof_requested)
      /\ write_handler' = (V2!ZeroCopy \/ unoffered' > 0)
      /\ asking' = ~write_handler'
      /\ ended' = IF eof_submitted' /\ ~V2!ZeroCopy THEN "ok" ELSE ended
      /\ UNCHANGED <<role, headers, rst, live, fin, write_cancelled, eof_requested, is_deferred,
                     posted, writer>>
      /\ vec = 0 /\ ~fin /\ ~rst /\ write_handler /\ live
  OBVIOUS
<1>4. V2WriteTypes'
  BY ONLY <1>2, <1>3, V2WriteFacts, V2Inv DEF V2WriteTypes
<1>5. V2Writes'
  BY ONLY <1>2, <1>3, V2WriteFacts, V2Inv DEF V2Writes, V2WriteTypes, V2!ZeroCopy
<1>6. V2Framed'
  BY ONLY <1>2, <1>3, V2WriteFacts, V2Inv DEF V2Framed, V2WriteTypes, V2!ZeroCopy
<1> QED BY <1>1, <1>4, <1>5, <1>6, V2WritesOnlyKeep DEF V2WriteInv

\* on_write_offset().
LEMMA V2OffsetStep ==
  ASSUME V2Inv, NEW n \in 1 .. MaxChunk, V2!OnWriteOffset(n)
  PROVE  V2Inv'
<1> DEFINE complete == V2!ZeroCopy /\ write_handler /\ n = vec
<1>1. V2WritesOnly
  BY V2WriteFacts DEF V2!OnWriteOffset, V2!engine, V2!reading, V2!response, V2!life,
     V2!handles, V2WritesOnly, reading, response
<1>2. /\ live /\ n \in 1 .. vec /\ vec' = vec - n /\ ~asking
      /\ write_handler' = (write_handler /\ ~complete)
      /\ asking' = complete
      /\ ended' = IF complete /\ eof_submitted THEN "ok" ELSE ended
      /\ fin' = (~complete /\ eof_submitted /\ n = vec)
      /\ UNCHANGED <<role, headers, rst, live, unoffered, write_cancelled, eof_requested,
                     eof_submitted, is_deferred, posted, writer>>
  BY DEF V2!OnWriteOffset, V2!Idle, V2!engine, V2!life, V2!handles
<1>3. /\ vec' \in 0 .. MaxChunk /\ vec > 0 /\ (vec' = 0 <=> n = vec)
  BY <1>2, V2WriteFacts, MaxChunkAssumption DEF V2WriteTypes
<1>4. V2!ZeroCopy => write_handler
  BY <1>2, <1>3, V2WriteFacts DEF V2Framed
<1>5. V2WriteTypes'
  BY <1>2, <1>3, V2WriteFacts DEF V2WriteTypes
<1>6. /\ write_handler' <=> write_handler /\ ~complete
      /\ asking' <=> complete
      /\ fin' <=> ~complete /\ eof_submitted /\ n = vec
  BY <1>2, Zenon
<1>7. ended' = ended \/ (ended' = "ok" /\ eof_submitted)
  BY <1>2
<1>8. CASE complete
  <2>1. ~write_handler' /\ asking' /\ ~fin' /\ vec' = 0 /\ V2!ZeroCopy /\ write_handler
    BY <1>3, <1>6, <1>8
  <2> HIDE DEF complete
  <2>2. V2Writes'
    BY <1>2, <1>7, <2>1, V2WriteFacts DEF V2Writes, V2!ZeroCopy
  <2>3. V2Framed'
    BY <1>2, <2>1, V2WriteFacts DEF V2Framed, V2Writes, V2!ZeroCopy
  <2> QED BY <1>1, <1>5, <2>2, <2>3, V2WritesOnlyKeep DEF V2WriteInv
<1>9. CASE ~complete
  <2>1. /\ write_handler' <=> write_handler
        /\ ~asking' /\ (fin' => vec' = 0) /\ (V2!ZeroCopy => vec' > 0)
    BY <1>3, <1>4, <1>6, <1>9
  <2> HIDE DEF complete
  <2>2. V2Writes'
    BY <1>2, <1>7, <2>1, V2WriteFacts DEF V2Writes, V2!ZeroCopy
  <2>3. V2Framed'
    BY <1>2, <1>4, <2>1, V2WriteFacts DEF V2Framed, V2!ZeroCopy
  <2> QED BY <1>1, <1>5, <2>2, <2>3, V2WritesOnlyKeep DEF V2WriteInv
<1> QED BY <1>8, <1>9

\* A write handler returns into nghttp2_conn_write().
LEMMA V2FrameStep ==
  ASSUME V2Inv, V2!FrameGoesOn
  PROVE  V2Inv'
<1> USE DEF V2!FrameGoesOn, V2!engine, V2!reading, V2!response, V2!life, V2!handles
<1>1. V2WritesOnly
  BY V2WriteFacts DEF V2WritesOnly, reading, response
<1>2. V2WriteTypes'
  BY V2WriteFacts DEF V2WriteTypes
<1>3. V2Writes'
  BY V2WriteFacts DEF V2Writes, V2!ZeroCopy
<1>4. V2Framed'
  <2>1. /\ fin' <=> eof_submitted /\ vec = 0 /\ ~rst
        /\ asking /\ ~asking'
    BY Zenon
  <2>2. UNCHANGED <<role, headers, rst, live, vec, write_handler, write_cancelled, eof_submitted,
                    posted, writer>>
    OBVIOUS
  <2> QED BY ONLY <2>1, <2>2, V2WriteFacts, V2Inv DEF V2Framed, V2Writes, V2!ZeroCopy
<1> QED BY <1>1, <1>2, <1>3, <1>4, V2WritesOnlyKeep DEF V2WriteInv

\* async_write().
LEMMA V2WriteStep ==
  ASSUME V2Inv, NEW n \in 0 .. MaxChunk, NEW eof \in BOOLEAN, V2!Write(n, eof)
  PROVE  V2Inv'
<1> USE DEF V2!Write, V2!Resume, V2!engine, V2!framing, V2!reading, V2!response, V2!life, V2!handles
<1>1. V2WritesOnly
  BY V2WriteFacts DEF V2WritesOnly, reading, response
<1>2. V2WriteTypes'
  BY V2WriteFacts DEF V2WriteTypes
<1>3. live
  BY DEF V2Inv, V2ReadInv, V2Responds
<1>4. V2Writes'
  BY <1>3, V2WriteFacts DEF V2Writes, V2!ZeroCopy
<1>5. V2Framed'
  BY V2WriteFacts DEF V2Framed, V2!ZeroCopy
<1> QED BY <1>1, <1>2, <1>4, <1>5, V2WritesOnlyKeep DEF V2WriteInv

\* Its cancellation.
LEMMA V2CancelStep ==
  ASSUME V2Inv, V2!CancelWrite
  PROVE  V2Inv'
<1> USE DEF V2!CancelWrite, V2!framing, V2!reading, V2!response, V2!life, V2!handles
<1>1. V2WritesOnly
  BY V2WriteFacts DEF V2WritesOnly, reading, response
<1>2. V2WriteTypes'
  BY V2WriteFacts DEF V2WriteTypes
<1>3. V2Writes'
  BY V2WriteFacts DEF V2Writes, V2!ZeroCopy
<1>4. V2Framed'
  <2>1. UNCHANGED <<role, headers, live, vec, fin, asking, eof_submitted, posted, writer, closed>>
    OBVIOUS
  <2>2. CASE V2!MustReset
    <3>1. write_cancelled' /\ write_handler' /\ write_handler
      BY <2>2
    <3>2. V2!ZeroCopy => headers
      BY V2WriteFacts DEF V2Framed, V2Writes
    <3> QED BY ONLY <2>1, <3>1, <3>2, V2WriteFacts, V2Inv DEF V2Framed, V2!ZeroCopy
  <2>3. CASE ~V2!MustReset
    <3>1. /\ ~write_handler' /\ write_handler /\ rst' = rst /\ write_cancelled' = write_cancelled
          /\ ~(V2!ZeroCopy /\ vec > 0 /\ ~closed)
      BY <2>3 DEF V2!MustReset
    <3> QED BY ONLY <2>1, <3>1, V2WriteFacts, V2Inv DEF V2Framed, V2Writes, V2!ZeroCopy
  <2> QED BY <2>2, <2>3
<1> QED BY <1>1, <1>2, <1>3, <1>4, V2WritesOnlyKeep DEF V2WriteInv

\* Another write_eof(), and async_submit().
LEMMA V2EndAgainStep ==
  ASSUME V2Inv, V2!EndAgain \/ V2!Submit
  PROVE  V2Inv'
<1> USE DEF V2!EndAgain, V2!Submit, V2!engine, V2!framing, V2!reading, V2!writing, V2!response,
            V2!life, V2!handles
<1>1. V2WritesOnly
  BY V2WriteFacts DEF V2WritesOnly, reading, response
<1>2. V2WriteTypes'
  BY V2WriteFacts DEF V2WriteTypes
<1>3. V2Writes'
  BY V2WriteFacts DEF V2Writes, V2!ZeroCopy
<1>4. V2Framed'
  BY V2WriteFacts DEF V2Framed, V2!ZeroCopy
<1> QED BY <1>1, <1>2, <1>3, <1>4, V2WritesOnlyKeep DEF V2WriteInv

\* The reset that was posted.
LEMMA V2PostedStep ==
  ASSUME V2Inv, V2!PostedReset
  PROVE  V2Inv'
<1> USE DEF V2!PostedReset, V2!Idle, V2!framing, V2!reading, V2!writing, V2!response, V2!handles
<1>1. V2WritesOnly
  BY V2WriteFacts DEF V2WritesOnly, reading, response
<1>2. V2WriteTypes'
  BY V2WriteFacts DEF V2WriteTypes
<1>3. V2Writes'
  BY V2WriteFacts DEF V2Writes, V2!ZeroCopy
<1>4. V2Framed'
  BY V2WriteFacts DEF V2Framed, V2!ZeroCopy
<1> QED BY <1>1, <1>2, <1>3, <1>4, V2WritesOnlyKeep DEF V2WriteInv

\* ~NGHttp2Writer().
LEMMA V2DropWriterStep ==
  ASSUME V2Inv, V2!DropWriter
  PROVE  V2Inv'
<1> USE DEF V2!DropWriter, V2!MaybeCloseStream, V2!Unfinished, V2!framing, V2!reading, V2!writing,
            V2!response
<1>1. V2WritesOnly
  BY V2WriteFacts DEF V2WritesOnly, reading, response
<1>2. V2WriteTypes'
  BY V2WriteFacts DEF V2WriteTypes
<1>3. V2Writes'
  BY V2WriteFacts DEF V2Writes, V2!ZeroCopy
<1>4. V2Framed'
  BY V2WriteFacts DEF V2Framed, V2!ZeroCopy
<1> QED BY <1>1, <1>2, <1>3, <1>4, V2WritesOnlyKeep DEF V2WriteInv

-----------------------------------------------------------------------------
(* All other steps of V2.                                                  *)

\* The steps that leave the outgoing body and the stored one alone.
V2Quiet ==
    UNCHANGED <<role, submitted, rst, received, vec, fin, V2!writing, eof_received, read_buffer,
                pending_read_buffers, view, delivered, posted, writer>>

LEMMA V2QuietTypes ==
  ASSUME V2Inv, V2Quiet, live' \in BOOLEAN, headers' \in BOOLEAN, read_handler' \in 0 .. MaxChunk,
         pc' \in {pc, "out"}, last' \in {last, "partial", "eof"},
         ResponseTypes', LifeTypes', reader' \in {reader, "attached", "eof", "partial", "gone"}
  PROVE  V2Types'
<1>1. V2EngineTypes' /\ V2HandleTypes' /\ V2WriteTypes'
  BY DEF V2Inv, V2Types, V2EngineTypes, V2HandleTypes, V2WriteTypes, V2Quiet, V2!writing
<1>2. BodyTypes'
  BY DEF V2Inv, V2Types, BodyTypes, ReadTypes, V2Quiet
<1> QED BY <1>1, <1>2 DEF V2Types

\* What they may rely on.
LEMMA V2QuietFacts ==
  ASSUME V2Inv
  PROVE  /\ Stored /\ Told /\ Lives /\ Parked /\ V2Responds /\ V2Waits /\ V2WriteInv
         /\ BodyTypes /\ ResponseTypes /\ LifeTypes /\ V2HandleTypes
         /\ headers \in BOOLEAN /\ live \in BOOLEAN /\ role \in {"client", "server"}
         /\ read_handler \in 0 .. MaxChunk
BY DEF V2Inv, V2ReadInv, V2Types, V2EngineTypes, BodyTypes, ReadTypes

\* on_end_headers(), of a request ...
LEMMA V2RequestStep ==
  ASSUME V2Inv, NEW too_large \in BOOLEAN, V2!OnEndHeaders(too_large), role = "server"
  PROVE  V2Inv'
<1>1. /\ pc = "out" /\ ~closing /\ ~asking /\ live /\ ~headers /\ headers' = TRUE
      /\ reader' = "attached" /\ writer' = "attached"
      /\ UNCHANGED <<role, submitted, live, received, vec, fin, reading, V2!writing, closed,
                     closing, close_deferred, alive, posted, rst, registered, response>>
  BY DEF V2!OnEndHeaders, V2!OnRequest, V2!OnResponse, V2!Idle, V2!framing, V2!reading,
         V2!response, reading, response
<1>2. V2Types'
  BY <1>1 DEF V2Inv, V2Types, V2EngineTypes, BodyTypes, ReadTypes, V2WriteTypes, ResponseTypes,
              LifeTypes, V2HandleTypes, reading, response, V2!writing
<1> USE <1>1, V2QuietFacts DEF reading, response
<1>3. Stored'
  BY StoredFrame
<1>4. Told'
  BY DEF V2Responds, Told, Drained
<1>5. Lives' /\ Parked'
  BY DEF Lives, Parked
<1>6. V2Responds' /\ V2Waits'
  BY DEF V2Responds, V2Waits, Parked, KeepForResponse
<1>7. V2Writes' /\ V2Framed'
  BY DEF V2WriteInv, V2Writes, V2Framed, V2!ZeroCopy, V2!writing
<1> QED BY <1>2, <1>3, <1>4, <1>5, <1>6, <1>7 DEF V2Inv, V2ReadInv, V2WriteInv

\* ... and of a response.
LEMMA V2ResponseStep ==
  ASSUME V2Inv, NEW too_large \in BOOLEAN, V2!OnEndHeaders(too_large), role = "client"
  PROVE  V2Inv'
<1>1. /\ pc = "out" /\ ~closing /\ ~asking /\ live /\ ~headers /\ headers' = TRUE
      /\ has_response' = ~too_large /\ response_error' = too_large
      /\ rst' = (rst \/ too_large)
      /\ response_handler' = FALSE /\ reader' \in {reader, "attached"}
      /\ UNCHANGED <<role, submitted, live, received, vec, fin, reading, V2!writing, closed,
                     closing, close_deferred, alive, posted, writer>>
  BY V2QuietFacts DEF V2!OnEndHeaders, V2!OnRequest, V2!OnResponse, V2!DeliverResponse, V2!Idle,
         V2!framing, V2!reading, reading, ResponseTypes
<1>2. /\ response_delivered' = response_handler
      /\ reader' = IF response_handler /\ ~too_large THEN "attached" ELSE reader
      /\ registered' = registered
  BY V2QuietFacts DEF V2!OnEndHeaders, V2!OnRequest, V2!OnResponse, V2!DeliverResponse, V2Responds,
                      Lives, ResponseTypes, LifeTypes
<1> USE <1>1, <1>2, V2QuietFacts DEF reading
<1>3. V2Types'
  <2>1. V2EngineTypes' /\ V2HandleTypes'
    BY DEF V2Inv, V2Types, V2EngineTypes, V2HandleTypes
  <2>2. V2WriteTypes'
    BY DEF V2Inv, V2Types, V2WriteTypes, V2!writing
  <2>3. BodyTypes'
    BY DEF V2Inv, V2Types, BodyTypes, ReadTypes
  <2>4. ResponseTypes' /\ LifeTypes'
    BY DEF V2Inv, V2Types, ResponseTypes, LifeTypes
  <2> QED BY <2>1, <2>2, <2>3, <2>4 DEF V2Types
<1>4. Stored'
  BY StoredFrame
<1>5. Told'
  BY DEF V2Responds, Told, Drained
<1>6. Lives' /\ Parked'
  BY DEF Lives, Parked
<1>7. V2Responds' /\ V2Waits'
  BY DEF V2Responds, V2Waits, Parked, Lives, KeepForResponse
<1>8. V2Writes' /\ V2Framed'
  BY DEF V2WriteInv, V2Writes, V2Framed, V2!ZeroCopy, V2!writing
<1> QED BY <1>3, <1>4, <1>5, <1>6, <1>7, <1>8 DEF V2Inv, V2ReadInv, V2WriteInv

\* close_stream(), with the handler of a write to call ...
LEMMA V2CloseWritingStep ==
  ASSUME V2Inv, V2!CloseStream, write_handler
  PROVE  V2Inv'
<1>1. /\ pc = "out" /\ ~closing /\ ~asking /\ live /\ live' = FALSE /\ closed' = TRUE
      /\ write_handler' = FALSE /\ closing' = TRUE /\ ended' \in {ended, "failed"}
      /\ UNCHANGED <<role, headers, submitted, rst, received, vec, fin, reading, unoffered,
                     write_cancelled, eof_requested, eof_submitted, is_deferred, asking, response,
                     close_deferred, registered, alive, posted, reader, writer>>
  BY DEF V2!CloseStream, V2!Idle, V2!framing, V2!handles, reading, response
<1>2. V2Types'
  <2>1. V2EngineTypes' /\ V2HandleTypes'
    BY <1>1 DEF V2Inv, V2Types, V2EngineTypes, V2HandleTypes
  <2>2. V2WriteTypes'
    BY <1>1 DEF V2Inv, V2Types, V2WriteTypes
  <2>3. BodyTypes'
    BY <1>1 DEF V2Inv, V2Types, BodyTypes, ReadTypes, reading
  <2>4. ResponseTypes' /\ LifeTypes'
    BY <1>1 DEF V2Inv, V2Types, ResponseTypes, LifeTypes, response
  <2> QED BY <2>1, <2>2, <2>3, <2>4 DEF V2Types
<1> USE <1>1, V2QuietFacts DEF reading, response
<1>3. Stored'
  BY StoredFrame
<1>4. Told'
  BY DEF Lives, Told, Drained
<1>5. Lives' /\ Parked'
  BY DEF Lives, Parked
<1>6. V2Responds' /\ V2Waits'
  BY DEF V2Responds, V2Waits, KeepForResponse
<1>7. V2Writes' /\ V2Framed'
  BY DEF V2WriteInv, V2Writes, V2Framed, V2!ZeroCopy
<1> QED BY <1>2, <1>3, <1>4, <1>5, <1>6, <1>7 DEF V2Inv, V2ReadInv, V2WriteInv

\* ... and the end of it: no handler is left waiting on a stream that is kept.
LEMMA V2CloseKeeps ==
  ASSUME V2Inv, V2!KeepOrErase, pc = "out", closed', ~live', live \/ closing,
         UNCHANGED <<role, headers, submitted, rst, received, vec, fin, eof_received, read_buffer,
                     pending_read_buffers, view, pc, delivered, unoffered, write_cancelled,
                     eof_requested, eof_submitted, is_deferred, asking, has_response,
                     response_error, response_delivered, alive, posted, reader, writer>>,
         live' \in BOOLEAN, closed' \in BOOLEAN, ~write_handler', write_handler' \in BOOLEAN,
         ended' = ended
  PROVE  V2Inv'
<1>1. KeepsOrErases
  BY V2SameErase, KeepOrEraseFacts, V2QuietFacts
<1>2. /\ closing' = FALSE /\ close_deferred' \in BOOLEAN
      /\ registered' \in {registered, FALSE} /\ response_handler' \in {response_handler, FALSE}
      /\ read_handler' \in {read_handler, 0} /\ last' \in {last, "partial"}
  BY <1>1 DEF KeepsOrErases, Keeps
<1>3. V2Types'
  <2>1. V2EngineTypes' /\ V2HandleTypes' /\ V2WriteTypes'
    BY DEF V2Inv, V2Types, V2EngineTypes, V2HandleTypes, V2WriteTypes
  <2>2. BodyTypes'
    <3>1. 0 \in 0 .. MaxChunk
      BY MaxChunkAssumption
    <3> QED BY <1>2, <3>1 DEF V2Inv, V2Types, BodyTypes, ReadTypes
  <2>3. ResponseTypes' /\ LifeTypes'
    BY <1>2 DEF V2Inv, V2Types, ResponseTypes, LifeTypes
  <2> QED BY <2>1, <2>2, <2>3 DEF V2Types
<1>4. Stored'
  BY V2QuietFacts, StoredFrame
<1>5. alive /\ (registered => alive)
  BY V2QuietFacts DEF Lives
<1>6. Told'
  <2>1. read_handler > 0 => Drained /\ ~eof_received
    BY V2QuietFacts DEF V2Waits, Stored, Drained
  <2>2. last' = last \/ (last' = "partial" /\ read_handler > 0)
    BY <1>1 DEF KeepsOrErases, Keeps
  <2> QED BY <1>5, <2>1, <2>2, V2QuietFacts DEF Told, Drained
<1>7. Lives'
  BY <1>1, <1>2, <1>5, V2QuietFacts DEF KeepsOrErases, Lives
<1>8. Parked'
  BY <1>2, V2QuietFacts DEF Parked
<1>9. V2Responds'
  BY <1>1, V2QuietFacts DEF KeepsOrErases, Keeps, V2Responds, V2Waits, Parked, KeepForResponse
<1>10. V2Waits'
  <2>1. CASE KeepForResponse
    <3>1. ~response_handler /\ ~response_handler' /\ reader = "none"
      BY <1>1, <2>1, V2QuietFacts DEF KeepsOrErases, Keeps, V2Waits, KeepForResponse, V2Responds
    <3>2. ~(read_handler' > 0)
      BY <1>2, <3>1, V2QuietFacts DEF Parked
    <3> QED BY <3>1, <3>2 DEF V2Waits
  <2>2. CASE ~KeepForResponse /\ Keeps /\ reader = "attached" /\ eof_received /\ read_buffer # <<>>
    <3>1. ~(read_handler > 0) /\ ~response_handler
      BY <2>2, V2QuietFacts DEF V2Waits, V2Responds
    <3> QED BY <2>2, <3>1 DEF V2Waits, Keeps
  <2>3. CASE ~KeepForResponse /\ read_handler' = 0 /\ response_handler' = FALSE
    BY <2>3 DEF V2Waits
  <2> QED BY <1>1, <2>1, <2>2, <2>3 DEF KeepsOrErases
<1>11. V2Writes' /\ V2Framed'
  BY V2QuietFacts DEF V2WriteInv, V2Writes, V2Framed, V2!ZeroCopy
<1> QED BY <1>3, <1>4, <1>6, <1>7, <1>8, <1>9, <1>10, <1>11 DEF V2Inv, V2ReadInv, V2WriteInv

LEMMA V2CloseStep ==
  ASSUME V2Inv, V2!CloseStream, ~write_handler
  PROVE  V2Inv'
BY V2CloseKeeps DEF V2!CloseStream, V2!Idle, V2!framing, V2!handles

LEMMA V2WriteReturnStep ==
  ASSUME V2Inv, V2!WriteHandlerReturns
  PROVE  V2Inv'
<1>1. closed /\ ~live /\ ~write_handler /\ closed' = closed /\ live' = live
  BY V2QuietFacts DEF Lives, V2WriteInv, V2Writes, V2!WriteHandlerReturns, V2!engine
<1>2. write_handler' = write_handler /\ write_handler \in BOOLEAN
  BY DEF V2!WriteHandlerReturns, V2!writing, V2Inv, V2Types, V2WriteTypes
<1>3. live' \in BOOLEAN /\ closed' \in BOOLEAN
  BY <1>1, V2QuietFacts DEF LifeTypes
<1> QED BY <1>1, <1>2, <1>3, V2CloseKeeps
        DEF V2!WriteHandlerReturns, V2!engine, V2!framing, V2!writing, V2!handles

\* ~NGHttp2Stream().
LEMMA V2DestroyStep ==
  ASSUME V2Inv, V2!Idle, alive, ~live, V2!DestroyStream
  PROVE  V2Inv'
<1>1. /\ pc = "out" /\ ~closing /\ alive' = FALSE /\ registered' = FALSE
      /\ reader' = (IF reader = "attached" THEN DetachReader ELSE reader)
      /\ writer' = (IF writer = "attached" THEN "detached" ELSE writer)
      /\ response_handler' = FALSE /\ read_handler' = 0
      /\ last' = (IF read_handler > 0 THEN "partial" ELSE last)
      /\ UNCHANGED <<role, headers, submitted, rst, live, received, vec, fin, eof_received,
                     read_buffer, pending_read_buffers, view, pc, delivered, V2!writing,
                     has_response, response_error, response_delivered, closed, closing,
                     close_deferred, posted>>
  BY DEF V2!Idle, V2!DestroyStream, DetachReader, V2!DetachReader, V2!engine, V2!framing
<1>2. V2Types'
  <2>1. V2EngineTypes' /\ V2HandleTypes' /\ V2WriteTypes'
    BY <1>1 DEF V2Inv, V2Types, V2EngineTypes, V2HandleTypes, V2WriteTypes, V2!writing,
                DetachReader
  <2>2. BodyTypes'
    <3>1. 0 \in 0 .. MaxChunk
      BY MaxChunkAssumption
    <3> QED BY <1>1, <3>1 DEF V2Inv, V2Types, BodyTypes, ReadTypes
  <2>3. ResponseTypes' /\ LifeTypes'
    BY <1>1 DEF V2Inv, V2Types, ResponseTypes, LifeTypes
  <2> QED BY <2>1, <2>2, <2>3 DEF V2Types
<1> USE <1>1, V2QuietFacts
<1>3. Stored'
  BY StoredFrame
<1>4. Told'
  BY DEF Told, Stored, Drained, V2Waits, DetachReader
<1>5. Lives' /\ Parked'
  BY DEF Lives, Parked, DetachReader
<1>6. V2Responds'
  BY DEF V2Responds, Parked, KeepForResponse, DetachReader
<1>7. V2Waits'
  BY DEF V2Waits
<1>8. V2Writes' /\ V2Framed'
  BY DEF V2WriteInv, V2Writes, V2Framed, V2!ZeroCopy, V2!writing
<1> QED BY <1>2, <1>3, <1>4, <1>5, <1>6, <1>7, <1>8 DEF V2Inv, V2ReadInv, V2WriteInv

\* The read handler that was told of the cut returns.
LEMMA V2LastReturnStep ==
  ASSUME V2Inv, V2!ReadHandlerReturns, pc = "last"
  PROVE  V2Inv'
<1>1. UNCHANGED <<role, headers, submitted, rst, live, received, vec, fin, V2!writing,
                  eof_received, response, closed, closing, alive, posted, reader, writer>>
  BY DEF V2!ReadHandlerReturns, V2!engine, V2!framing, V2!response, V2!handles, response
<1>2. /\ ReadTypes' /\ Stored' /\ pc' = "out" /\ Drained /\ Drained'
      /\ FinishDeferredClose(reader, eof_received, read_buffer, read_handler)
      /\ UNCHANGED <<read_handler, delivered, last>>
  BY <1>1, V2Facts, V2GoesOn, ReturnKeeps
<1>3. Settles
  BY <1>2, FinishSettles, V2QuietFacts DEF BodyTypes
<1>4. last = "partial" /\ alive /\ closed /\ ~eof_received
  BY <1>2, V2QuietFacts DEF Told, Lives
<1>5. V2Types'
  <2>1. V2EngineTypes' /\ V2HandleTypes' /\ V2WriteTypes'
    BY <1>1 DEF V2Inv, V2Types, V2EngineTypes, V2HandleTypes, V2WriteTypes, V2!writing
  <2>2. BodyTypes' /\ ResponseTypes' /\ LifeTypes'
    BY <1>1, <1>2, <1>3 DEF V2Inv, V2Types, BodyTypes, ResponseTypes, LifeTypes, Settles, response
  <2> QED BY <2>1, <2>2 DEF V2Types
<1>6. Told'
  BY <1>1, <1>2, V2QuietFacts DEF Told
<1>7. Lives' /\ Parked'
  BY <1>1, <1>2, <1>3, <1>4, V2QuietFacts DEF Lives, Parked, Settles
<1>8. V2Responds'
  BY <1>1, <1>2, <1>3, V2QuietFacts DEF V2Responds, Settles, KeepForResponse, response
<1>9. V2Waits'
  BY <1>1, <1>2, <1>3, <1>4, V2QuietFacts DEF V2Waits, Settles, Drained, response
<1>10. V2WriteInv'
  BY <1>1, V2QuietFacts, V2OutgoingKept
<1> QED BY <1>2, <1>5, <1>6, <1>7, <1>8, <1>9, <1>10 DEF V2Inv, V2ReadInv

\* A read on a reader that is detached, a read that is cancelled, and one that is left to the
\* call of call_read_handler() that is in progress.
LEMMA V2ReadingStep ==
  ASSUME V2Inv,
         \/ V2!ReadDetached \/ V2!CancelRead
         \/ \E n \in 1 .. MaxChunk : V2!Read(n) /\ pc # "out"
  PROVE  V2Inv'
<1>1. /\ V2Quiet
      /\ UNCHANGED <<headers, live, pc, response, closed, closing, close_deferred, registered,
                     alive, reader>>
  BY DEF V2!ReadDetached, V2!CancelRead, V2!Read, V2Quiet, V2!engine, V2!framing, V2!response,
         V2!life, V2!handles, response
<1>2. \/ reader \in {"eof", "partial"} /\ last' = reader /\ read_handler' = read_handler
      \/ read_handler' = 0 /\ last' = last
      \/ /\ read_handler' \in 0 .. MaxChunk /\ reader = "attached" /\ pc # "out" /\ last' = last
  BY MaxChunkAssumption DEF V2!ReadDetached, V2!CancelRead, V2!Read
<1>3. V2Types'
  <2>1. read_handler' \in 0 .. MaxChunk /\ last' \in {last, "partial", "eof"}
    BY <1>2, V2QuietFacts, MaxChunkAssumption
  <2>2. ResponseTypes' /\ LifeTypes'
    BY <1>1, V2QuietFacts DEF ResponseTypes, LifeTypes, response
  <2> QED BY <1>1, <2>1, <2>2, V2QuietFacts, V2QuietTypes
<1>4. Stored'
  BY <1>1, V2QuietFacts, StoredFrame DEF V2Quiet
<1>5. Told'
  <2>1. /\ UNCHANGED <<eof_received, read_buffer, pending_read_buffers, view, pc, closed, alive,
                      reader>>
        /\ last' = last \/ (reader \in {"eof", "partial"} /\ last' = reader)
    BY <1>1, <1>2 DEF V2Quiet
  <2>2. Drained' <=> Drained
    BY <2>1 DEF Drained
  <2>3. Told /\ (~alive => pc = "out" /\ reader # "attached")
    BY V2QuietFacts DEF Lives
  <2> QED BY ONLY <2>1, <2>2, <2>3 DEF Told
<1>6. Lives' /\ Parked'
  BY <1>1, <1>2, V2QuietFacts DEF V2Quiet, Lives, Parked
<1>7. V2Responds'
  BY <1>1, <1>2, V2QuietFacts DEF V2Quiet, V2Responds, KeepForResponse, response
<1>8. V2Waits'
  BY <1>1, <1>2, V2QuietFacts DEF V2Quiet, V2Waits, Told, Parked, response
<1>9. V2WriteInv'
  BY <1>1, V2QuietFacts, V2OutgoingKept DEF V2Quiet
<1> QED BY <1>3, <1>4, <1>5, <1>6, <1>7, <1>8, <1>9 DEF V2Inv, V2ReadInv

\* async_get_response(), and its cancellation.
LEMMA V2GetResponseStep ==
  ASSUME V2Inv, V2!GetResponse \/ V2!CancelGetResponse
  PROVE  V2Inv'
<1>1. /\ V2Quiet
      /\ UNCHANGED <<headers, live, pc, read_handler, last, has_response, response_error, closed,
                     closing, close_deferred, alive>>
  BY DEF V2!GetResponse, V2!CancelGetResponse, V2Quiet, V2!engine, V2!framing, V2!reading,
         V2!life, V2!handles
<1>2. \/ /\ response_handler' = FALSE /\ UNCHANGED <<response_delivered, registered, reader>>
      \/ /\ role = "client" /\ writer = "attached" /\ ~response_handler /\ ~response_delivered
         /\ has_response \/ response_error
         /\ response_handler' = FALSE /\ response_delivered' = TRUE
         /\ reader' = IF ~response_error THEN "attached" ELSE reader
         /\ registered' \in BOOLEAN /\ (registered' => registered)
         /\ ~closed \/ ~response_error => registered' = registered
      \/ /\ role = "client" /\ writer = "attached" /\ ~response_handler /\ ~response_delivered
         /\ ~has_response /\ ~response_error
         /\ response_handler' = TRUE /\ response_delivered' = FALSE
         /\ UNCHANGED <<registered, reader>>
  <2>1. CASE V2!CancelGetResponse
    BY <2>1 DEF V2!CancelGetResponse, V2!life, V2!handles
  <2>2. CASE V2!GetResponse /\ (has_response \/ response_error)
    BY <2>2, V2QuietFacts DEF V2!GetResponse, V2!DeliverResponse, ResponseTypes, LifeTypes
  <2>3. CASE V2!GetResponse /\ ~(has_response \/ response_error)
    BY <2>3, V2QuietFacts DEF V2!GetResponse, V2!DeliverResponse, ResponseTypes, LifeTypes
  <2> QED BY <2>1, <2>2, <2>3
<1>3. alive \/ writer # "attached"
  BY V2QuietFacts DEF Lives
<1>4. V2Types'
  <2>1. ResponseTypes'
    BY <1>1, <1>2, V2QuietFacts DEF ResponseTypes
  <2>2. LifeTypes'
    BY <1>1, <1>2, V2QuietFacts DEF LifeTypes
  <2>3. reader' \in {reader, "attached"}
    BY <1>2
  <2> QED BY <1>1, <2>1, <2>2, <2>3, V2QuietFacts, V2QuietTypes
<1>5. Stored'
  BY <1>1, V2QuietFacts, StoredFrame DEF V2Quiet
<1> USE <1>1, <1>2, <1>3, V2QuietFacts DEF V2Quiet
<1>6. Told'
  BY DEF Told, Drained, V2Responds
<1>7. Lives' /\ Parked'
  BY DEF Lives, Parked, V2Responds, LifeTypes
<1>8. V2Responds'
  BY DEF V2Responds, KeepForResponse
<1>9. V2Waits'
  BY DEF V2Waits, V2Responds, Parked
<1>10. V2WriteInv'
  BY V2OutgoingKept
<1> QED BY <1>4, <1>5, <1>6, <1>7, <1>8, <1>9, <1>10 DEF V2Inv, V2ReadInv

\* ~NGHttp2Reader().
LEMMA V2DropReaderStep ==
  ASSUME V2Inv, V2!DropReader
  PROVE  V2Inv'
<1>1. /\ reader \in {"attached", "eof", "partial"} /\ read_handler = 0 /\ reader' = "gone"
      /\ UNCHANGED <<role, headers, submitted, live, received, vec, fin, reading, V2!writing,
                     response, closed, closing, alive, writer, rst>>
  BY DEF V2!DropReader, V2!MaybeCloseStream, V2!framing, V2!reading, V2!response, reading, response
<1>2. \/ posted' = posted
      \/ posted' \in BOOLEAN /\ (posted' => posted \/ (reader = "attached" /\ writer # "attached"))
  <2>1. CASE reader = "attached"
    <3>1. posted' = (posted \/ V2!Unfinished("gone", writer))
      BY <2>1 DEF V2!DropReader, V2!MaybeCloseStream
    <3>2. V2!Unfinished("gone", writer) => writer # "attached"
      BY DEF V2!Unfinished
    <3>3. posted' \in BOOLEAN
      BY <3>1, Zenon DEF V2!Unfinished
    <3>4. posted' => posted \/ V2!Unfinished("gone", writer)
      BY <3>1, Zenon
    <3> QED BY <2>1, <3>2, <3>3, <3>4
  <2>2. CASE reader # "attached"
    BY <2>2 DEF V2!DropReader
  <2> QED BY <2>1, <2>2
<1>3. Settles
  <2>1. CASE reader = "attached" /\ pc = "out"
    <3>1. FinishDeferredClose("gone", eof_received, read_buffer, 0)
      BY <2>1, V2SameFinish DEF V2!DropReader
    <3> QED BY <3>1, FinishSettles, V2QuietFacts DEF BodyTypes
  <2>2. CASE UNCHANGED <<close_deferred, registered>>
    BY <2>2, V2QuietFacts DEF Settles, LifeTypes
  <2> QED BY <2>1, <2>2 DEF V2!DropReader
<1>4. V2Types'
  <2>1. V2EngineTypes' /\ V2HandleTypes' /\ BodyTypes'
    BY <1>1 DEF V2Inv, V2Types, V2EngineTypes, V2HandleTypes, BodyTypes, ReadTypes, reading
  <2>2. V2WriteTypes'
    BY <1>1, <1>2 DEF V2Inv, V2Types, V2WriteTypes, V2!writing
  <2>3. ResponseTypes' /\ LifeTypes'
    BY <1>1, <1>3, V2QuietFacts DEF ResponseTypes, LifeTypes, Settles, response
  <2> QED BY <2>1, <2>2, <2>3 DEF V2Types
<1> USE <1>1, V2QuietFacts DEF reading
<1>5. Stored'
  BY StoredFrame
<1>6. Told'
  BY DEF Told, Drained
<1>7. Lives' /\ Parked'
  BY <1>3 DEF Lives, Parked, Settles
<1>8. V2Responds' /\ V2Waits'
  BY <1>3 DEF V2Responds, V2Waits, Settles, KeepForResponse, response
<1>9. V2Writes' /\ V2Framed'
  BY <1>2 DEF V2WriteInv, V2Writes, V2Framed, V2Responds, V2!ZeroCopy, V2!writing
<1> QED BY <1>4, <1>5, <1>6, <1>7, <1>8, <1>9 DEF V2Inv, V2ReadInv, V2WriteInv

-----------------------------------------------------------------------------
(* The theorems about V2.                                                  *)

\* The steps on the outgoing body.
V2Outgoing ==
    \/ V2!ReaderDefers \/ V2!ReaderEnds \/ V2!ReaderOffers
    \/ \E n \in 1 .. MaxChunk : V2!OnWriteOffset(n)
    \/ V2!FrameGoesOn \/ V2!PostedReset \/ V2!Submit \/ V2!EndAgain \/ V2!CancelWrite
    \/ \E n \in 0 .. MaxChunk, eof \in BOOLEAN : V2!Write(n, eof)
    \/ V2!DropWriter

\* The others that leave the stored body alone.
V2Others ==
    \/ \E too_large \in BOOLEAN : V2!OnEndHeaders(too_large)
    \/ V2!CloseStream \/ V2!WriteHandlerReturns
    \/ (V2!Idle /\ alive /\ ~live /\ V2!DestroyStream)
    \/ V2!ReadDetached \/ V2!CancelRead
    \/ \E n \in 1 .. MaxChunk : V2!Read(n) /\ pc # "out"
    \/ V2!GetResponse \/ V2!CancelGetResponse \/ V2!DropReader
    \/ V2!ReadHandlerReturns /\ pc = "last"

LEMMA V2StepKinds ==
  ASSUME V2Inv, V2!Next
  PROVE  \/ ReadTypes' /\ Stored' /\ \E buf, h : V2Reads(buf, h)
         \/ V2Outgoing \/ V2Others
<1>1. ASSUME NEW n \in 1 .. MaxChunk, V2!OnData(n)
      PROVE  ReadTypes' /\ Stored' /\ \E buf, h : V2Reads(buf, h)
  BY <1>1, V2DataReads
<1>2. CASE V2!OnEof
  BY <1>2, V2EofReads
<1>3. ASSUME NEW n \in 1 .. MaxChunk, V2!Read(n), pc = "out"
      PROVE  ReadTypes' /\ Stored' /\ \E buf, h : V2Reads(buf, h)
  BY <1>3, V2ReadReads
<1>4. CASE V2!ReadHandlerReturns /\ pc # "last"
  BY <1>4, V2ReturnReads
<1>5. CASE V2!StreamReset \/ V2!StreamEnds
  BY <1>5 DEF V2Others, V2!StreamReset, V2!StreamEnds
<1>6. CASE V2!SessionEnds \/ V2!DeleteStream
  <2>1. ~live
    BY <1>6, V2QuietFacts DEF V2!SessionEnds, V2!DeleteStream, Lives
  <2> QED BY <1>6, <2>1 DEF V2Others, V2!SessionEnds, V2!DeleteStream
<1>7. CASE \E too_large \in V2!OnRecvHeader : V2!OnEndHeaders(too_large)
  BY <1>7 DEF V2Others, V2!OnRecvHeader
<1> QED BY <1>1, <1>2, <1>3, <1>4, <1>5, <1>6, <1>7
        DEF V2!Next, V2!Engine, V2!Returns, V2!Loop, V2!User, V2Others, V2Outgoing

LEMMA V2OutgoingKeeps ==
  ASSUME V2Inv, ChunkSize \in Nat \ {0}, V2Outgoing
  PROVE  V2Inv'
BY V2DefersStep, V2EndsStep, V2OffersStep, V2OffsetStep, V2FrameStep, V2PostedStep,
   V2EndAgainStep, V2CancelStep, V2WriteStep, V2DropWriterStep
   DEF V2Outgoing

LEMMA V2OthersKeep ==
  ASSUME V2Inv, V2Others
  PROVE  V2Inv'
<1>1. ASSUME NEW too_large \in BOOLEAN, V2!OnEndHeaders(too_large) PROVE V2Inv'
  BY <1>1, V2QuietFacts, V2RequestStep, V2ResponseStep
<1>2. CASE V2!CloseStream
  BY <1>2, V2CloseWritingStep, V2CloseStep
<1> QED BY <1>1, <1>2, V2WriteReturnStep, V2DestroyStep, V2ReadingStep, V2GetResponseStep,
           V2DropReaderStep, V2LastReturnStep
        DEF V2Others

LEMMA V2InitInv == V2!Init => V2Inv
<1> SUFFICES ASSUME V2!Init PROVE V2Inv
  OBVIOUS
<1>1. /\ <<>> \in Seq(Unit) /\ <<>> \in Seq(Seq(Unit)) /\ Len(<<>>) = 0
      /\ \A a : Run(<<>>, a)
  BY DEF Run
<1>2. V2Types
  <2>1. 0 \in 0 .. MaxData /\ 0 \in 0 .. MaxChunk
    BY MaxDataAssumption, MaxChunkAssumption
  <2>2. submitted \in BOOLEAN
    BY Zenon DEF V2!Init
  <2>3. V2EngineTypes /\ V2HandleTypes
    BY <2>1, <2>2 DEF V2!Init, V2EngineTypes, V2HandleTypes
  <2>4. BodyTypes
    BY <1>1, <2>1 DEF V2!Init, BodyTypes, ReadTypes
  <2>5. V2WriteTypes /\ ResponseTypes /\ LifeTypes
    BY <2>1 DEF V2!Init, V2WriteTypes, ResponseTypes, LifeTypes
  <2> QED BY <2>3, <2>4, <2>5 DEF V2Types
<1>3. Stored
  <2>1. Chain(0, <<>>, <<>>, <<>>, 0)
    BY <1>1 DEF Chain, End
  <2> QED BY <1>1, <2>1 DEF V2!Init, Stored
<1>4. Told /\ Lives /\ Parked
  BY DEF V2!Init, Told, Lives, Parked
<1>5. V2Responds /\ V2Waits
  BY DEF V2!Init, V2Responds, V2Waits, KeepForResponse
<1>6. V2Writes /\ V2Framed
  BY DEF V2!Init, V2Writes, V2Framed, V2!ZeroCopy
<1> QED BY <1>2, <1>3, <1>4, <1>5, <1>6 DEF V2Inv, V2ReadInv, V2WriteInv

\* In every state of a stream on version 2 of nghttp2, each part of the invariant holds.
THEOREM V2Safety == ASSUME ChunkSize \in Nat \ {0} PROVE V2!Spec => []V2Inv
<1>1. ASSUME V2Inv, [V2!Next]_V2!vars PROVE V2Inv'
  <2>1. CASE V2!Next
    BY <1>1, <2>1, V2StepKinds, V2ReadsKeep, V2OutgoingKeeps, V2OthersKeep
  <2>2. CASE UNCHANGED V2!vars
    <3> USE <1>1, <2>2 DEF V2!vars, V2!engine, V2!framing, V2!reading, V2!writing, V2!response,
                           V2!life, V2!handles
    <3>1. V2WritesOnly
      BY V2WriteFacts DEF V2WritesOnly, reading, response
    <3>2. V2WriteTypes'
      BY V2WriteFacts DEF V2WriteTypes
    <3>3. V2WriteInv'
      BY V2OutgoingKept DEF V2Inv
    <3> QED BY <3>1, <3>2, <3>3, V2WritesOnlyKeep
  <2> QED BY <1>1, <2>1, <2>2
<1> QED BY <1>1, V2InitInv, PTL DEF V2!Spec

\* Every field of a stream and of its handles keeps its type.
THEOREM V2TypeCorrect == ASSUME ChunkSize \in Nat \ {0} PROVE V2!Spec => []V2!TypeOK
<1>1. V2Inv => V2!TypeOK
  BY V2TypesImply DEF V2Inv
<1> QED BY <1>1, V2Safety, PTL

\* The buffer of a ZeroCopy write is not given back while nghttp2 may read from it: neither
\* on_write_offset() nor a cancellation completes a write of which something is not framed.
THEOREM V2KeepsBuffers == ASSUME ChunkSize \in Nat \ {0} PROVE V2!Spec => []V2!BufferKept
<1>1. V2Inv => V2!BufferKept
  BY V2InvImplies
<1> QED BY <1>1, V2Safety, PTL

\* A response whose end was accepted is not replaced by a reset: what maybe_close_stream()
\* has posted runs only when END_STREAM is framed.
THEOREM V2EndsResponse == ASSUME ChunkSize \in Nat \ {0} PROVE V2!Spec => []V2!EndGoesOut
<1>1. V2Inv => V2!EndGoesOut
  BY V2InvImplies
<1> QED BY <1>1, V2Safety, PTL

\* What waits, waits for something that can still come: call_read_handler(), data_reader(),
\* close_stream() and deliver_response() leave no operation behind that nothing will complete.
THEOREM V2NothingIsStuck == ASSUME ChunkSize \in Nat \ {0} PROVE V2!Spec => []V2!NothingStalls
<1>1. V2Inv => V2!NothingStalls
  BY V2InvImplies
<1> QED BY <1>1, V2Safety, PTL

\* The steps that leave the stored body alone tell a reader of its end, if anything.
LEMMA V2OthersTell ==
  ASSUME V2Inv, V2Outgoing \/ V2Others
  PROVE  Tells
<1> USE DEF Tells
<1>1. (read_handler > 0 /\ pc = "out") => last # "eof"
  BY V2QuietFacts DEF Told, V2Waits
<1>2. CASE V2Outgoing
  BY <1>2 DEF V2Outgoing, V2!ReaderDefers, V2!ReaderEnds, V2!ReaderOffers, V2!OnWriteOffset,
              V2!FrameGoesOn, V2!PostedReset, V2!Submit, V2!EndAgain, V2!CancelWrite, V2!Write,
              V2!DropWriter, V2!engine, V2!reading, V2!life
<1>3. ASSUME NEW too_large \in BOOLEAN, V2!OnEndHeaders(too_large) PROVE Tells
  BY <1>3 DEF V2!OnEndHeaders, V2!reading
<1>4. CASE V2!CloseStream
  BY <1>1, <1>4 DEF V2!CloseStream, V2!Idle, V2!KeepOrErase
<1>5. CASE V2!WriteHandlerReturns
  <2>1. closed
    BY <1>5, V2QuietFacts DEF Lives, V2!WriteHandlerReturns
  <2> QED BY <1>1, <1>5, <2>1 DEF V2!WriteHandlerReturns, V2!KeepOrErase, V2!engine
<1>6. CASE V2!Idle /\ V2!DestroyStream
  BY <1>1, <1>6 DEF V2!Idle, V2!DestroyStream, V2!engine
<1>7. CASE V2!ReadDetached
  BY <1>7, V2QuietFacts DEF Told, V2!ReadDetached, V2!engine, V2!life
<1>8. CASE V2!CancelRead
  BY <1>8 DEF V2!CancelRead, V2!engine, V2!life
<1>9. ASSUME NEW n \in 1 .. MaxChunk, V2!Read(n), pc # "out" PROVE Tells
  BY <1>9 DEF V2!Read, V2!engine
<1>10. CASE V2!GetResponse
  BY <1>10 DEF V2!GetResponse, V2!engine, V2!reading
<1>11. CASE V2!CancelGetResponse
  BY <1>11 DEF V2!CancelGetResponse, V2!engine, V2!reading, V2!life
<1>12. CASE V2!DropReader
  BY <1>12 DEF V2!DropReader, V2!reading
<1>13. CASE V2!ReadHandlerReturns /\ pc = "last"
  BY <1>13 DEF V2!ReadHandlerReturns, V2!engine
<1> HIDE DEF Tells
<1> QED BY <1>2, <1>3, <1>4, <1>5, <1>6, <1>7, <1>8, <1>9, <1>10, <1>11, <1>12, <1>13
        DEF V2Others

\* The reader of a stream of the second engine implements BodyReader: call_read_handler(), with
\* the user resumed in the middle of it, gives the body out in order and without a gap, and tells
\* its end, or that it was cut, only after all of it and truly.
THEOREM V2ReaderImplements ==
  ASSUME ChunkSize \in Nat \ {0} PROVE V2!Spec => V2!ReaderContract
<1>1. V2!Init => V2!Body!Init
  BY DEF V2!Init, V2!Body!Init
<1>2. Body!Next => V2!Body!Next
  BY DEF Body!Next, V2!Body!Next, Body!Arrive, V2!Body!Arrive, Body!Give, V2!Body!Give,
         Body!TellEnd, V2!Body!TellEnd, Body!TellCut, V2!Body!TellCut
<1>3. ASSUME V2Inv, [V2!Next]_V2!vars PROVE [V2!Body!Next]_(V2!Body!vars)
  <2>1. CASE V2!Next
    <3>1. ReadTypes /\ received \in Nat /\ Stored
      BY <1>3, V2Facts
    <3>2. Body!Next
      BY <1>3, <2>1, <3>1, V2StepKinds, ReadsContract, V2OthersTell, TellsContract DEF V2Reads
    <3> QED BY <1>2, <3>2
  <2>2. CASE UNCHANGED V2!vars
    BY <2>2 DEF V2!vars, V2!engine, V2!reading, V2!life, V2!Body!vars
  <2> QED BY <1>3, <2>1, <2>2
<1> QED BY <1>1, <1>3, V2Safety, PTL DEF V2!Spec, V2!ReaderContract, V2!Body!Spec

\* And so it is with the reader of a stream of the second engine.
THEOREM V2BodyIsWhole ==
  ASSUME ChunkSize \in Nat \ {0} PROVE V2!Spec => []Promised /\ [][Final]_(Body!vars)
<1>1. V2Inv => delivered \in Seq(Nat)
  BY UnitsAreNumbers, V2Facts DEF ReadTypes
<1>2. V2!Body!Init <=> Body!Init
  BY DEF V2!Body!Init, Body!Init
<1>3. [V2!Body!Next]_(V2!Body!vars) <=> [Body!Next]_(Body!vars)
  BY DEF Body!Next, V2!Body!Next, Body!Arrive, V2!Body!Arrive, Body!Give, V2!Body!Give,
         Body!TellEnd, V2!Body!TellEnd, Body!TellCut, V2!Body!TellCut, Body!vars, V2!Body!vars
<1> QED BY <1>1, <1>2, <1>3, V2Safety, V2ReaderImplements, ContractPromises, PTL
        DEF V2!ReaderContract, V2!Body!Spec, Body!Spec
=============================================================================
