---------------------------- MODULE ServerProofs ----------------------------
(***************************************************************************)
(* Proofs about Server, for any finite set of connections.                 *)
(***************************************************************************)
EXTENDS Server, FiniteSetTheorems, TLAPS

\* The registry, the count and every connection keep their types, given that the count is
\* that of the active connections: taking it down does not make it negative.
LEMMA TypeStep == TypeOK /\ Counted /\ [Next]_vars => TypeOK'
<1> SUFFICES ASSUME TypeOK, Counted, [Next]_vars PROVE TypeOK'
  OBVIOUS
<1> USE DEF TypeOK
<1>1. ASSUME NEW c \in Connections, Connect(c) \/ Detect(c) \/ DetectFails(c) PROVE TypeOK'
  BY <1>1 DEF Connect, Detect, DetectFails
<1>2. ASSUME NEW c \in Connections, Register(c) \/ Unregister(c) PROVE TypeOK'
  BY <1>2 DEF Register, Unregister
<1>3. ASSUME NEW c \in Connections, Leave(c) PROVE TypeOK'
  <2>1. c \in Active /\ Active \subseteq Connections
    BY <1>3 DEF Leave, Active
  <2>2. IsFiniteSet(Active)
    BY <2>1, ConnectionsAssumption, FS_Subset
  <2>3. counter # 0
    BY <2>1, <2>2, FS_EmptySet DEF Counted
  <2>4. counter' \in Nat
    BY <1>3, <2>3 DEF Leave
  <2> QED BY <1>3, <2>4 DEF Leave
<1>4. ASSUME NEW c \in Connections, SessionEnds(c) \/ SessionThrows(c) \/ RunDestroy(c)
      PROVE  TypeOK'
  BY <1>4 DEF SessionEnds, SessionThrows, RunDestroy
<1>5. CASE Accept
  BY <1>5 DEF Accept
<1>6. CASE Sweep
  BY <1>6 DEF Sweep, Dispatched
<1>7. CASE WakeUp \/ AcceptFails \/ CloseAcceptor
  BY <1>7 DEF WakeUp, AcceptFails, CloseAcceptor
<1>8. CASE DestroySessions
  BY <1>8 DEF DestroySessions, Dispatched
<1>9. CASE UNCHANGED vars
  BY <1>9 DEF vars
<1> QED
  BY <1>1, <1>2, <1>3, <1>4, <1>5, <1>6, <1>7, <1>8, <1>9
     DEF Next, Client, Connection, Session, AcceptLoop

-----------------------------------------------------------------------------
(* The count.                                                              *)

\* A step that does not change which connections are active keeps the count right.
LEMMA CountFrame ==
  ASSUME Counted, Active' = Active, counter' = counter
  PROVE  Counted'
BY DEF Counted

\* A connection that moves on within handle_connection() stays active.
LEMMA StaysActive ==
  ASSUME TypeOK, NEW c \in Connections, conn[c] \notin {"none", "arrived", "gone"},
         NEW s \in {"detecting", "ready", "serving", "served", "leaving"},
         conn' = [conn EXCEPT ![c] = s]
  PROVE  Active' = Active
BY DEF TypeOK, Active

\* sessionCounter is the number of connections that have been launched and not ended yet.
LEMMA CountStep ==
  ASSUME TypeOK, Counted, Arriving, Next
  PROVE  Counted'
<1>1. Active \subseteq Connections /\ IsFiniteSet(Active)
  BY ConnectionsAssumption, FS_Subset DEF Active
<1>2. CASE UNCHANGED <<conn, counter>>
  BY <1>2, CountFrame DEF Active
<1>3. ASSUME NEW c \in Connections, Connect(c) PROVE Counted'
  <2>1. Active' = Active
    BY <1>3 DEF Connect, TypeOK, Active
  <2> QED BY <1>3, <2>1, CountFrame DEF Connect
<1>4. ASSUME NEW c \in Connections, Detect(c) \/ DetectFails(c) \/ SessionEnds(c) \/ SessionThrows(c)
      PROVE  Counted'
  <2>1. Active' = Active
    BY <1>4, StaysActive DEF Detect, DetectFails, SessionEnds, SessionThrows
  <2> QED BY <1>4, <2>1, CountFrame DEF Detect, DetectFails, SessionEnds, SessionThrows
<1>5. ASSUME NEW c \in Connections, Register(c) \/ Unregister(c) PROVE Counted'
  <2>1. Active' = Active
    BY <1>5, StaysActive DEF Register, Unregister
  <2> QED BY <1>5, <2>1, CountFrame DEF Register, Unregister
<1>6. ASSUME NEW c \in Connections, Leave(c) PROVE Counted'
  <2>1. c \in Active /\ Active' = Active \ {c}
    BY <1>6 DEF Leave, Active, TypeOK
  <2>2. Cardinality(Active') = Cardinality(Active) - 1
    BY <1>1, <2>1, FS_RemoveElement
  <2> QED BY <1>6, <2>2 DEF Leave, Counted
<1>7. CASE Accept
  <2>1. arrived \in Connections /\ conn[arrived] = "arrived"
    BY <1>7 DEF Accept, TypeOK, Arriving
  <2>2. arrived \notin Active /\ Active' = Active \cup {arrived}
    BY <1>7, <2>1 DEF Accept, Active, TypeOK
  <2>3. Cardinality(Active') = Cardinality(Active) + 1
    BY <1>1, <2>2, FS_AddElement
  <2> QED BY <1>7, <2>3 DEF Accept, Counted
<1>8. CASE Sweep \/ WakeUp \/ AcceptFails \/ CloseAcceptor \/ DestroySessions
  BY <1>2, <1>8 DEF Sweep, WakeUp, AcceptFails, CloseAcceptor, DestroySessions
<1>9. ASSUME NEW c \in Connections, RunDestroy(c) PROVE Counted'
  BY <1>2, <1>9 DEF RunDestroy
<1> QED
  BY <1>3, <1>4, <1>5, <1>6, <1>7, <1>8, <1>9 DEF Next, Client, Connection, Session, AcceptLoop

\* If nothing is counted, no connection is active.
LEMMA NoneActive ==
  ASSUME TypeOK, Counted, counter = 0
  PROVE  Active = {}
<1>1. IsFiniteSet(Active)
  BY ConnectionsAssumption, FS_Subset DEF Active
<1> QED BY <1>1, FS_EmptySet DEF Counted

-----------------------------------------------------------------------------
(* The rest of the invariant.                                              *)

\* Only the accept loop takes what has arrived.
LEMMA ArrivingStep ==
  ASSUME TypeOK, Arriving, Next
  PROVE  Arriving'
<1> USE ConnectionsAssumption DEF TypeOK, Arriving
<1>1. ASSUME NEW c \in Connections, Connect(c) \/ Detect(c) \/ DetectFails(c) PROVE Arriving'
  BY <1>1 DEF Connect, Detect, DetectFails
<1>2. ASSUME NEW c \in Connections, Register(c) \/ Unregister(c) \/ Leave(c) PROVE Arriving'
  BY <1>2 DEF Register, Unregister, Leave
<1>3. ASSUME NEW c \in Connections, SessionEnds(c) \/ SessionThrows(c) \/ RunDestroy(c)
      PROVE  Arriving'
  BY <1>3 DEF SessionEnds, SessionThrows, RunDestroy
<1>4. CASE Accept \/ AcceptFails
  BY <1>4 DEF Accept, AcceptFails
<1>5. CASE Sweep \/ WakeUp \/ CloseAcceptor \/ DestroySessions
  BY <1>5 DEF Sweep, WakeUp, CloseAcceptor, DestroySessions
<1> QED
  BY <1>1, <1>2, <1>3, <1>4, <1>5 DEF Next, Client, Connection, Session, AcceptLoop

\* A sweep tells every session it takes out of the registry to end, and so does destroy();
\* nothing is registered after that.
LEMMA RegistryStep ==
  ASSUME TypeOK, Registered, NoneEscapes, Next
  PROVE  Registered' /\ NoneEscapes'
<1> USE DEF TypeOK, Registered, NoneEscapes
<1>1. ASSUME NEW c \in Connections, Connect(c) \/ Detect(c) \/ DetectFails(c)
      PROVE  Registered' /\ NoneEscapes'
  BY <1>1 DEF Connect, Detect, DetectFails
<1>2. ASSUME NEW c \in Connections, Register(c) PROVE Registered' /\ NoneEscapes'
  BY <1>2 DEF Register
<1>3. ASSUME NEW c \in Connections, Unregister(c) \/ Leave(c) PROVE Registered' /\ NoneEscapes'
  BY <1>3 DEF Unregister, Leave
<1>4. ASSUME NEW c \in Connections, SessionEnds(c) \/ SessionThrows(c) \/ RunDestroy(c)
      PROVE  Registered' /\ NoneEscapes'
  BY <1>4 DEF SessionEnds, SessionThrows, RunDestroy
<1>5. CASE Accept \/ AcceptFails \/ WakeUp \/ CloseAcceptor
  BY <1>5 DEF Accept, AcceptFails, WakeUp, CloseAcceptor
<1>6. CASE Sweep \/ DestroySessions
  <2>1. \A c \in Connections : c \in sessions \/ ending[c] # "no" => Dispatched[c] # "no"
    BY DEF Dispatched
  <2> QED BY <1>6, <2>1 DEF Sweep, DestroySessions
<1> QED
  BY <1>1, <1>2, <1>3, <1>4, <1>5, <1>6 DEF Next, Client, Connection, Session, AcceptLoop

\* The accept loop ends with the last connection, and waits with a wake-up pending or
\* something to wait for.
LEMMA LoopStep ==
  ASSUME TypeOK, Inv, Next
  PROVE  LoopIsLast' /\ ((loop = "waiting" /\ ~signal) => counter # 0)'
<1> USE DEF TypeOK, Inv, LoopIsLast
<1>1. ASSUME NEW c \in Connections, Connect(c) \/ Detect(c) \/ DetectFails(c)
      PROVE  LoopIsLast' /\ ((loop = "waiting" /\ ~signal) => counter # 0)'
  BY <1>1 DEF Connect, Detect, DetectFails
<1>2. ASSUME NEW c \in Connections, Register(c) \/ Unregister(c) \/ Leave(c)
      PROVE  LoopIsLast' /\ ((loop = "waiting" /\ ~signal) => counter # 0)'
  BY <1>2 DEF Register, Unregister, Leave
<1>3. ASSUME NEW c \in Connections, SessionEnds(c) \/ SessionThrows(c) \/ RunDestroy(c)
      PROVE  LoopIsLast' /\ ((loop = "waiting" /\ ~signal) => counter # 0)'
  BY <1>3 DEF SessionEnds, SessionThrows, RunDestroy
<1>4. CASE Accept \/ AcceptFails \/ WakeUp \/ CloseAcceptor \/ DestroySessions
  BY <1>4 DEF Accept, AcceptFails, WakeUp, CloseAcceptor, DestroySessions
<1>5. CASE Sweep
  <2>1. counter = 0 => \A c \in Connections : conn[c] \in {"none", "arrived", "gone"}
    BY NoneActive DEF Active
  <2>2. arrived = None /\ \A c \in Connections : conn[c] # "arrived"
    BY <1>5, ConnectionsAssumption DEF Sweep, Arriving
  <2> QED BY <1>5, <2>1, <2>2 DEF Sweep
<1> QED
  BY <1>1, <1>2, <1>3, <1>4, <1>5 DEF Next, Client, Connection, Session, AcceptLoop

-----------------------------------------------------------------------------
(* The theorems.                                                           *)

\* The inductive invariant of the server, together with its types.
THEOREM Safety == Spec => [](TypeOK /\ Inv)
<1>1. Init => TypeOK /\ Inv
  <2> SUFFICES ASSUME Init PROVE TypeOK /\ Inv
    OBVIOUS
  <2>1. TypeOK
    BY DEF Init, TypeOK
  <2>2. Active = {}
    BY DEF Init, Active
  <2>3. Counted
    BY <2>2, FS_EmptySet DEF Init, Counted
  <2> QED BY <2>1, <2>3, ConnectionsAssumption
          DEF Init, Inv, Arriving, Registered, NoneEscapes, LoopIsLast
<1>2. TypeOK /\ Inv /\ [Next]_vars => (TypeOK /\ Inv)'
  <2> SUFFICES ASSUME TypeOK, Inv, [Next]_vars PROVE (TypeOK /\ Inv)'
    OBVIOUS
  <2>1. TypeOK'
    BY TypeStep DEF Inv
  <2>2. CASE Next
    <3>1. Counted' /\ Arriving' /\ Registered' /\ NoneEscapes'
      BY <2>2, CountStep, ArrivingStep, RegistryStep DEF Inv
    <3> QED BY <2>1, <2>2, <3>1, LoopStep DEF Inv
  <2>3. CASE UNCHANGED vars
    <3>1. Active' = Active
      BY <2>3 DEF vars, Active
    <3> QED BY <2>1, <2>3, <3>1
            DEF vars, Inv, Counted, Arriving, Registered, NoneEscapes, LoopIsLast
  <2> QED BY <2>2, <2>3
<1> QED BY <1>1, <1>2, PTL DEF Spec

\* No session escapes a server that is destroyed, however its registration and the sweeps
\* of destroy() and of the accept loop interleave.
THEOREM NoSessionEscapes == Spec => []NoneEscapes
<1>1. Inv => NoneEscapes
  BY DEF Inv
<1> QED BY <1>1, Safety, PTL

\* The accept loop outlives all connections, and never waits with nothing to wake it.
THEOREM LoopOutlives == Spec => [](LoopIsLast /\ NoLostWakeUp)
<1>1. TypeOK /\ Inv => LoopIsLast /\ NoLostWakeUp
  <2> SUFFICES ASSUME TypeOK, Inv PROVE LoopIsLast /\ NoLostWakeUp
    OBVIOUS
  <2>1. Active = {} => counter = 0
    BY FS_EmptySet DEF Inv, Counted
  <2> QED BY <2>1 DEF Inv, NoLostWakeUp, Active
<1> QED BY <1>1, Safety, PTL
=============================================================================
