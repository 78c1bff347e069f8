--------------------------- MODULE HubSessionProofs ---------------------------
(***************************************************************************)
(* TLAPS proofs about HubSession, for every set of streams, every block    *)
(* size and every width of the counter.                                    *)
(***************************************************************************)
EXTENDS HubSession, TLAPS

-----------------------------------------------------------------------------
(* Types of the operators *)

LEMMA InvalidateType == ASSUME NEW r \in Reservation PROVE Invalidate(r) \in Reservation
  BY DEF Reservation, Invalidate

LEMMA AfterTakeType ==
  ASSUME NEW r \in Reservation, NEW e \in Nat
  PROVE  AfterTake(r, e) \in Reservation /\ Taken(r, e) \in Nat
  BY DEF Reservation, Invalidate, AfterTake, Taken

LEMMA GrantType ==
  ASSUME NEW first \in Nat, NEW last \in Nat, NEW e \in Nat
  PROVE  Grant(first, last, e) \in Reservation
  BY DEF Reservation, Grant

LEMMA PlainType == Plain \in Frame /\ NoFrame \in Frame /\ ~IsSealed(Plain) /\ ~IsSealed(NoFrame)
  BY LimitAssumption DEF Plain, NoFrame, Frame, Key, NoKeys, IsSealed

LEMMA AllocType ==
  ASSUME TypeOK
  PROVE  Allocated \in Nat /\ AfterAlloc \in Nat
  BY LimitAssumption DEF TypeOK, LoopType, Allocated, AfterAlloc, Spent

LEMMA SealedType ==
  ASSUME TypeOK, NEW n \in Nat, NEW e \in BOOLEAN
  PROVE  /\ Sealed(n, e) \in Frame
         /\ IsSealed(Sealed(n, e)) =>
              /\ live # NoKeys /\ sid # 0 /\ n < FcntLimit
              /\ Sealed(n, e) = [sid |-> sid, key |-> live, fcnt |-> n, epoch |-> epoch]
  <1>1. sid \in Nat /\ epoch \in Nat /\ live \in Key
    BY DEF TypeOK, KeyType
  <1>2. n < FcntLimit \/ n >= FcntLimit
    BY LimitAssumption
  <1> QED
    BY <1>1, <1>2, PlainType DEF Sealed, Frame, IsSealed

LEMMA ReservedType ==
  ASSUME TypeOK, NEW r \in Reservation, NEW c \in Nat, NEW n \in BlockSizes
  PROVE  /\ Reserved(r, c, n) \in Reservation
         /\ AfterReserve(c, n) \in Nat /\ AfterReserve(c, n) >= c
  <1>1. n \in Nat /\ n > 0 /\ epoch \in Nat
    BY BlockAssumption DEF TypeOK, KeyType
  <1>2. BlockEnd(c, n) \in Nat /\ (c < FcntLimit - 1 => BlockEnd(c, n) >= c)
    BY <1>1, LimitAssumption DEF BlockEnd
  <1> QED
    BY <1>1, <1>2, InvalidateType, GrantType, LimitAssumption DEF Reserved, AfterReserve

LEMMA HandOverType ==
  ASSUME TypeOK, NEW f \in Frame, HandOver(f)
  PROVE  queue' \subseteq Frame /\ handed' \subseteq Frame /\ reused' \in BOOLEAN
  BY DEF TypeOK, AirType, HandOver

-----------------------------------------------------------------------------
(* Types of the variables *)

LEMMA TypeInit == Init => TypeOK
  <1> SUFFICES ASSUME Init PROVE TypeOK
    OBVIOUS
  <1>1. NoReservation \in Reservation /\ NoCopy \in [cipher : Key \X Nat, tag : Key \X Nat]
    BY DEF NoReservation, Reservation, NoCopy, Key, NoKeys
  <1>2. NoKeys \in Key
    BY DEF NoKeys, Key
  <1>3. LoopType /\ KeyType
    BY <1>1, <1>2, PlainType DEF Init, LoopType, KeyType
  <1>4. StreamType
    BY <1>1, PlainType DEF Init, StreamType
  <1>5. AirType /\ NodeType
    BY <1>1, <1>2 DEF Init, AirType, NodeType
  <1> QED
    BY <1>3, <1>4, <1>5 DEF Init, TypeOK

LEMMA InvalidateAllType == ASSUME TypeOK PROVE InvalidateAll \in [Streams -> Reservation]
  BY InvalidateType DEF TypeOK, StreamType, InvalidateAll

LEMMA BuiltType ==
  ASSUME TypeOK, NEW s \in Streams, NEW r \in Reservation, NEW e \in BOOLEAN
  PROVE  BuiltOnLoop(s, r, e) \in Frame
  <1>1. Taken(r, epoch) \in Nat
    BY AfterTakeType DEF TypeOK, KeyType
  <1> QED
    BY <1>1, PlainType, SealedType DEF BuiltOnLoop

LEMMA LeaveType ==
  ASSUME TypeOK, NEW s \in Streams, NEW f \in Frame, Leave(s, f),
         UNCHANGED <<active, timerOn>>, res' \in [Streams -> Reservation],
         crypto' \in [Streams -> BOOLEAN]
  PROVE  StreamType'
  BY PlainType DEF TypeOK, StreamType, Leave

LEMMA TypeStep == TypeOK /\ [Next]_vars => TypeOK'
  <1> SUFFICES ASSUME TypeOK, [Next]_vars PROVE TypeOK'
    OBVIOUS
  <1> USE DEF TypeOK, vars, loopVars, keyVars, timerVars, nodeVars, airVars
  <1>1. ASSUME SendLogin PROVE TypeOK'
    <2>1. LoopType'
      BY <1>1 DEF LoopType, SendLogin, BeginLogin
    <2>2. KeyType'
      BY <1>1 DEF KeyType, SendLogin, BeginLogin, ClearKeys, NoKeys, Key
    <2>3. (StreamType /\ AirType /\ NodeType)'
      BY <1>1 DEF StreamType, AirType, NodeType, SendLogin
    <2> QED
      BY <1>1, <2>1, <2>2, <2>3
  <1>2. ASSUME DropKeyedState PROVE TypeOK'
    <2>1. LoopType'
      BY <1>2, PlainType DEF LoopType, DropKeyedState
    <2>2. StreamType'
      BY <1>2, InvalidateAllType DEF StreamType, DropKeyedState
    <2>3. (KeyType /\ AirType /\ NodeType)'
      BY <1>2 DEF KeyType, AirType, NodeType, DropKeyedState
    <2> QED
      BY <1>2, <2>1, <2>2, <2>3
  <1>3. ASSUME RestartCounters PROVE TypeOK'
    <2>1. LoopType'
      BY <1>3 DEF LoopType, RestartCounters
    <2>2. StreamType'
      BY <1>3, InvalidateAllType DEF StreamType, RestartCounters
    <2>3. (KeyType /\ AirType /\ NodeType)'
      BY <1>3 DEF KeyType, AirType, NodeType, RestartCounters
    <2> QED
      BY <1>3, <2>1, <2>2, <2>3
  <1>4. ASSUME PublishLogin PROVE TypeOK'
    <2>1. LoopType'
      BY <1>4, AllocType DEF LoopType, PublishLogin, SetSessionId
    <2>2. KeyType'
      BY <1>4 DEF KeyType, PublishLogin, SetSessionId, LoopType
    <2>3. NodeType'
      BY <1>4 DEF NodeType, PublishLogin, SetSessionId, LoopType
    <2>4. (StreamType /\ AirType)'
      BY <1>4 DEF StreamType, AirType, PublishLogin, SetSessionId
    <2> QED
      BY <1>4, <2>1, <2>2, <2>3, <2>4
  <1>5. ASSUME HandleRegister PROVE TypeOK'
    <2>1. LoopType'
      BY <1>5 DEF LoopType, HandleRegister
    <2>2. KeyType'
      BY <1>5 DEF KeyType, HandleRegister, ClearKeys, NoKeys, Key
    <2>3. (StreamType /\ AirType /\ NodeType)'
      BY <1>5 DEF StreamType, AirType, NodeType, HandleRegister
    <2> QED
      BY <1>5, <2>1, <2>2, <2>3
  <1>6. ASSUME ConfirmSession PROVE TypeOK'
    <2>1. LoopType'
      BY <1>6 DEF LoopType, ConfirmSession
    <2>2. StreamType'
      BY <1>6, InvalidateAllType DEF StreamType, ConfirmSession
    <2>3. (KeyType /\ AirType /\ NodeType)'
      BY <1>6 DEF KeyType, AirType, NodeType, ConfirmSession
    <2> QED
      BY <1>6, <2>1, <2>2, <2>3
  <1>7. ASSUME NEW gate \in BOOLEAN, GiveUp(gate) PROVE TypeOK'
    <2>1. LoopType'
      <3>1. stored' \in Frame /\ confirmed' \in BOOLEAN
        BY <1>7, PlainType DEF GiveUp
      <3>2. /\ lpc' \in {"idle", "dropLogin", "restart"} /\ lbase' \in Nat /\ pending' \in Nat
            /\ minted' \in Nat
        BY <1>7 DEF LoopType, GiveUp, BeginLogin, LoopIdle
      <3>3. UNCHANGED <<tx, rx, stopping, relogin>>
        BY <1>7 DEF GiveUp
      <3> QED
        BY <3>1, <3>2, <3>3 DEF LoopType
    <2>2. KeyType'
      BY <1>7 DEF KeyType, GiveUp, BeginLogin, ClearKeys, NoKeys, Key
    <2>3. (StreamType /\ AirType /\ NodeType)'
      BY <1>7 DEF StreamType, AirType, NodeType, GiveUp
    <2> QED
      BY <1>7, <2>1, <2>2, <2>3
  <1>8. ASSUME SendFire PROVE TypeOK'
    <2>1. Sealed(Allocated, confirmed) \in Frame
      BY AllocType, SealedType DEF LoopType
    <2>2. LoopType'
      BY <1>8, AllocType DEF LoopType, SendFire
    <2>3. AirType'
      BY <1>8, <2>1, HandOverType DEF AirType, SendFire
    <2>4. (KeyType /\ StreamType /\ NodeType)'
      BY <1>8 DEF KeyType, StreamType, NodeType, SendFire
    <2> QED
      BY <1>8, <2>2, <2>3, <2>4
  <1>9. ASSUME SendControl PROVE TypeOK'
    <2>1. Sealed(Allocated, confirmed) \in Frame
      BY AllocType, SealedType DEF LoopType
    <2>2. LoopType'
      BY <1>9, <2>1, AllocType DEF LoopType, SendControl
    <2>3. AirType'
      BY <1>9, <2>1, HandOverType DEF AirType, SendControl
    <2>4. (KeyType /\ StreamType /\ NodeType)'
      BY <1>9 DEF KeyType, StreamType, NodeType, SendControl
    <2> QED
      BY <1>9, <2>2, <2>3, <2>4
  <1>10. ASSUME ResendControl PROVE TypeOK'
    <2>1. AirType'
      BY <1>10 DEF AirType, ResendControl, LoopType
    <2>2. (LoopType /\ KeyType /\ StreamType /\ NodeType)'
      BY <1>10 DEF LoopType, KeyType, StreamType, NodeType, ResendControl
    <2> QED
      BY <1>10, <2>1, <2>2
  <1>11. ASSUME ControlDone PROVE TypeOK'
    <2>1. LoopType'
      BY <1>11, PlainType DEF LoopType, ControlDone
    <2>2. (KeyType /\ StreamType /\ AirType /\ NodeType)'
      BY <1>11 DEF KeyType, StreamType, AirType, NodeType, ControlDone
    <2> QED
      BY <1>11, <2>1, <2>2
  <1>12. ASSUME NEW u \in uplinks, AcceptUplink(u) PROVE TypeOK'
    <2>1. u.key \in Key /\ u.fcnt \in Nat
      BY DEF NodeType
    <2>2. UplinkKey(u) \in Key
      BY <1>12, <2>1 DEF AcceptUplink, CommitFcnt, Install, Acceptable, Admitted, Verified
    <2>3. LoopType'
      BY <1>12, <2>1 DEF LoopType, AcceptUplink, CommitFcnt, Install
    <2>4. KeyType'
      BY <1>12, <2>2 DEF KeyType, AcceptUplink, CommitFcnt, Install
    <2>5. NodeType'
      BY <1>12, <2>1 DEF NodeType, AcceptUplink, CommitFcnt, Install
    <2>6. (StreamType /\ AirType)'
      BY <1>12 DEF StreamType, AirType, AcceptUplink, CommitFcnt, Install
    <2> QED
      BY <1>12, <2>3, <2>4, <2>5, <2>6
  <1>13. ASSUME NEW s \in TestStreams, NEW n \in BlockSizes, StartTest(s, n) PROVE TypeOK'
    <2>1. s \in Streams
      BY DEF Streams
    <2>2. Sealed(Allocated, confirmed) \in Frame
      BY AllocType, SealedType DEF LoopType
    <2>3. Reserved(res[s], AfterAlloc, n) \in Reservation /\ AfterReserve(AfterAlloc, n) \in Nat
      BY <2>1, AllocType, ReservedType DEF StreamType
    <2>4. LoopType'
      BY <1>13, <2>3 DEF LoopType, StartTest
    <2>5. StreamType'
      BY <1>13, <2>1, <2>2, <2>3 DEF StreamType, StartTest
    <2>6. AirType'
      BY <1>13, <2>2, HandOverType DEF AirType, StartTest
    <2>7. (KeyType /\ NodeType)'
      BY <1>13 DEF KeyType, NodeType, StartTest
    <2> QED
      BY <1>13, <2>4, <2>5, <2>6, <2>7
  <1>14. ASSUME NEW s \in TestStreams, ArmGrid(s) PROVE TypeOK'
    <2>1. s \in Streams
      BY DEF Streams
    <2>2. BuiltOnLoop(s, res[s], confirmed) \in Frame /\ AfterTake(res[s], epoch) \in Reservation
      BY <2>1, BuiltType, AfterTakeType DEF StreamType, LoopType, KeyType
    <2>3. StreamType'
      BY <1>14, <2>1, <2>2 DEF StreamType, ArmGrid
    <2>4. (LoopType /\ KeyType /\ AirType /\ NodeType)'
      BY <1>14 DEF LoopType, KeyType, AirType, NodeType, ArmGrid
    <2> QED
      BY <1>14, <2>3, <2>4
  <1>15. ASSUME NEW s \in PingStreams, NEW n \in BlockSizes, StartPing(s, n) PROVE TypeOK'
    <2>1. s \in Streams
      BY DEF Streams
    <2>2. Reserved(res[s], tx, n) \in Reservation /\ AfterReserve(tx, n) \in Nat
      BY <2>1, ReservedType DEF StreamType, LoopType
    <2>3. Invalidate(res[s]) \in Reservation
      BY <2>1, InvalidateType DEF StreamType
    <2>4. \A r \in Reservation : /\ BuiltOnLoop(s, r, TRUE) \in Frame
                            /\ AfterTake(r, epoch) \in Reservation /\ Taken(r, epoch) \in Nat
      BY <2>1, BuiltType, AfterTakeType DEF KeyType
    <2>5. LoopType'
      BY <1>15, <2>2 DEF LoopType, StartPing
    <2>6. StreamType'
      BY <1>15, <2>1, <2>2, <2>3, <2>4 DEF StreamType, StartPing
    <2>7. (KeyType /\ AirType /\ NodeType)'
      BY <1>15 DEF KeyType, AirType, NodeType, StartPing
    <2> QED
      BY <1>15, <2>5, <2>6, <2>7
  <1>16. ASSUME NEW s \in Streams, BeginStop(s) PROVE TypeOK'
    <2>1. LoopType'
      BY <1>16 DEF LoopType, BeginStop
    <2>2. StreamType'
      BY <1>16 DEF StreamType, BeginStop
    <2>3. (KeyType /\ AirType /\ NodeType)'
      BY <1>16 DEF KeyType, AirType, NodeType, BeginStop
    <2> QED
      BY <1>16, <2>1, <2>2, <2>3
  <1>17. ASSUME NEW s \in Streams, FinishStop(s) PROVE TypeOK'
    <2>1. Sealed(Allocated, confirmed) \in Frame
      BY AllocType, SealedType DEF LoopType
    <2>2. LoopType'
      BY <1>17, AllocType DEF LoopType, FinishStop
    <2>3. StreamType'
      BY <1>17, PlainType DEF StreamType, FinishStop
    <2>4. AirType'
      BY <1>17, <2>1, HandOverType DEF AirType, FinishStop
    <2>5. (KeyType /\ NodeType)'
      BY <1>17 DEF KeyType, NodeType, FinishStop
    <2> QED
      BY <1>17, <2>2, <2>3, <2>4, <2>5
  <1>18. ASSUME NEW s \in Streams, TimerFire(s) PROVE TypeOK'
    <2>1. StreamType'
      BY <1>18 DEF StreamType, TimerFire
    <2>2. AirType'
      BY <1>18, HandOverType DEF AirType, TimerFire, StreamType
    <2>3. (LoopType /\ KeyType /\ NodeType)'
      BY <1>18 DEF LoopType, KeyType, NodeType, TimerFire
    <2> QED
      BY <1>18, <2>1, <2>2, <2>3
  <1>19. ASSUME NEW s \in Streams, TimerReadEpoch(s) PROVE TypeOK'
    <2>1. StreamType'
      <3>1. CASE s \in TestStreams \/ (crypto[s] /\ confirmed)
        BY <1>19, <3>1 DEF StreamType, KeyType, TimerReadEpoch
      <3>2. CASE ~(s \in TestStreams \/ (crypto[s] /\ confirmed))
        <4>1. Leave(s, Plain) /\ crypto' = [crypto EXCEPT ![s] = FALSE] /\ UNCHANGED <<active, timerOn, res>>
          BY <1>19, <3>2 DEF TimerReadEpoch
        <4> QED
          BY <4>1, PlainType, LeaveType DEF StreamType
      <3> QED
        BY <3>1, <3>2
    <2>2. (LoopType /\ KeyType /\ AirType /\ NodeType)'
      BY <1>19 DEF LoopType, KeyType, AirType, NodeType, TimerReadEpoch
    <2> QED
      BY <1>19, <2>1, <2>2
  <1>20. ASSUME NEW s \in Streams, TimerTake(s) PROVE TypeOK'
    <2>1. AfterTake(res[s], tEpoch[s]) \in Reservation /\ Taken(res[s], tEpoch[s]) \in Nat
      BY AfterTakeType DEF StreamType
    <2>2. StreamType'
      <3>1. CASE Taken(res[s], tEpoch[s]) = 0
        <4>1. res' \in [Streams -> Reservation] /\ crypto' \in [Streams -> BOOLEAN]
          BY <1>20, <3>1, <2>1 DEF StreamType, TimerTake
        <4>2. Leave(s, IF s \in PingStreams THEN Plain ELSE NoFrame) /\ UNCHANGED <<active, timerOn>>
          BY <1>20, <3>1 DEF TimerTake
        <4> QED
          BY <4>1, <4>2, PlainType, LeaveType
      <3>2. CASE ~(Taken(res[s], tEpoch[s]) = 0)
        <4>1. (s \in PingStreams) \in BOOLEAN
          OBVIOUS
        <4>2. tEncrypt' \in [Streams -> BOOLEAN]
          BY <1>20, <3>2, <4>1 DEF StreamType, TimerTake
        <4>3. tpc' \in [Streams -> {"idle", "build", "take", "flag", "seal", "check"}]
          BY <1>20, <3>2 DEF StreamType, TimerTake
        <4>4. res' \in [Streams -> Reservation] /\ tFcnt' \in [Streams -> Nat]
          BY <1>20, <3>2, <2>1 DEF StreamType, TimerTake
        <4>5. UNCHANGED <<active, timerOn, crypto, tEpoch, tFrame, buf>>
          BY <1>20, <3>2 DEF TimerTake
        <4> QED
          BY <4>2, <4>3, <4>4, <4>5 DEF StreamType
      <3> QED
        BY <3>1, <3>2
    <2>3. (LoopType /\ KeyType /\ AirType /\ NodeType)'
      BY <1>20 DEF LoopType, KeyType, AirType, NodeType, TimerTake
    <2> QED
      BY <1>20, <2>2, <2>3
  <1>21. ASSUME NEW s \in Streams, TimerReadConfirmed(s) PROVE TypeOK'
    <2>1. StreamType'
      BY <1>21 DEF StreamType, TimerReadConfirmed, LoopType
    <2>2. (LoopType /\ KeyType /\ AirType /\ NodeType)'
      BY <1>21 DEF LoopType, KeyType, AirType, NodeType, TimerReadConfirmed
    <2> QED
      BY <1>21, <2>1, <2>2
  <1>22. ASSUME NEW s \in Streams, TimerSeal(s) PROVE TypeOK'
    <2>1. Sealed(tFcnt[s], tEncrypt[s]) \in Frame
      BY SealedType DEF StreamType
    <2>2. StreamType'
      <3>1. CASE IsSealed(Sealed(tFcnt[s], tEncrypt[s]))
        BY <1>22, <3>1, <2>1 DEF StreamType, TimerSeal
      <3>2. CASE ~IsSealed(Sealed(tFcnt[s], tEncrypt[s]))
        <4>1. Leave(s, Sealed(tFcnt[s], tEncrypt[s])) /\ UNCHANGED <<active, timerOn, res, crypto>>
          BY <1>22, <3>2 DEF TimerSeal
        <4> QED
          BY <4>1, <2>1, LeaveType DEF StreamType
      <3> QED
        BY <3>1, <3>2
    <2>3. (LoopType /\ KeyType /\ AirType /\ NodeType)'
      BY <1>22 DEF LoopType, KeyType, AirType, NodeType, TimerSeal
    <2> QED
      BY <1>22, <2>2, <2>3
  <1>23. ASSUME NEW s \in Streams, TimerCheck(s) PROVE TypeOK'
    <2>1. StreamType'
      BY <1>23, PlainType DEF StreamType, TimerCheck, Leave
    <2>2. (LoopType /\ KeyType /\ AirType /\ NodeType)'
      BY <1>23 DEF LoopType, KeyType, AirType, NodeType, TimerCheck
    <2> QED
      BY <1>23, <2>1, <2>2
  <1>24. ASSUME NEW base \in logins, NodeLogin(base) PROVE TypeOK'
    <2>1. NodeType'
      BY <1>24 DEF NodeType, NodeLogin, Key
    <2>2. (LoopType /\ KeyType /\ StreamType /\ AirType)'
      BY <1>24 DEF LoopType, KeyType, StreamType, AirType, NodeLogin
    <2> QED
      BY <1>24, <2>1, <2>2
  <1>25. ASSUME NEW opening \in BOOLEAN, NodeSend(opening) PROVE TypeOK'
    <2>1. NodeType'
      BY <1>25 DEF NodeType, NodeSend
    <2>2. (LoopType /\ KeyType /\ StreamType /\ AirType)'
      BY <1>25 DEF LoopType, KeyType, StreamType, AirType, NodeSend
    <2> QED
      BY <1>25, <2>1, <2>2
  <1>26. ASSUME NEW f \in queue, SendCopy(f) PROVE TypeOK'
    <2>1. f \in Frame
      BY DEF AirType
    <2>2. AirType'
      BY <1>26, <2>1 DEF AirType, SendCopy, Session, KeyType, Frame
    <2>3. (LoopType /\ KeyType /\ StreamType /\ NodeType)'
      BY <1>26 DEF LoopType, KeyType, StreamType, NodeType, SendCopy
    <2> QED
      BY <1>26, <2>2, <2>3
  <1>27. ASSUME Reboot PROVE TypeOK'
    <2>1. NoReservation \in Reservation /\ NoCopy \in [cipher : Key \X Nat, tag : Key \X Nat]
      BY DEF NoReservation, Reservation, NoCopy, Key, NoKeys
    <2>2. NoKeys \in Key
      BY DEF NoKeys, Key
    <2>3. LoopType'
      <3>1. stored' \in Frame /\ confirmed' \in BOOLEAN /\ relogin' \in BOOLEAN
        BY <1>27, PlainType DEF Reboot
      <3>2. tx' \in Nat /\ rx' \in Nat /\ minted' \in Nat
        BY <1>27, WindowAssumption DEF LoopType, Reboot
      <3>3. lpc' = "idle" /\ lbase' \in Nat /\ pending' \in Nat /\ stopping' \subseteq Streams
        BY <1>27 DEF Reboot
      <3> QED
        BY <3>1, <3>2, <3>3 DEF LoopType
    <2>6. KeyType'
      BY <1>27, <2>2 DEF KeyType, Reboot
    <2>4. StreamType'
      BY <1>27, <2>1, PlainType DEF StreamType, Reboot
    <2>5. (AirType /\ NodeType)'
      BY <1>27, <2>1 DEF AirType, NodeType, Reboot
    <2> QED
      BY <2>3, <2>4, <2>5, <2>6
  <1>28. CASE UNCHANGED vars
    BY <1>28 DEF LoopType, KeyType, StreamType, AirType, NodeType
  <1> QED
    BY <1>1, <1>2, <1>3, <1>4, <1>5, <1>6, <1>7, <1>8, <1>9, <1>10, <1>11, <1>12, <1>13, <1>14, <1>15, <1>16, <1>17, <1>18, <1>19, <1>20, <1>21, <1>22, <1>23, <1>24, <1>25, <1>26, <1>27, <1>28
       DEF Next, Running, LoopStep, StreamStep, TimerStep, CallbackStep, NodeStep, Streams

\* Every variable keeps its type: a key is a session id and a node nonce, every
\* buffer holds a frame, every reservation a block.
THEOREM TypeCorrect == Spec => []TypeOK
  BY TypeInit, TypeStep, PTL DEF Spec

-----------------------------------------------------------------------------
(* The session *)

SessionVars == <<sid, pending, minted, live, epoch, lbase, lpc, rx, accepted>>

\* The actions that leave the session as it is: they send, time or receive.
Quiet ==
    \/ SendFire \/ SendControl \/ ResendControl \/ ControlDone
    \/ StreamStep \/ TimerStep \/ NodeStep \/ \E f \in queue : SendCopy(f)

LEMMA QuietKeepsSession == Quiet => UNCHANGED SessionVars
  <1> USE DEF SessionVars, vars, loopVars, keyVars, timerVars, nodeVars, airVars
  <1>1. SendFire \/ SendControl \/ ResendControl \/ ControlDone => UNCHANGED SessionVars
    BY DEF SendFire, SendControl, ResendControl, ControlDone
  <1>2. StreamStep => UNCHANGED SessionVars
    BY DEF StreamStep, StartTest, ArmGrid, StartPing, BeginStop, FinishStop
  <1>3. TimerStep => UNCHANGED SessionVars
    BY DEF TimerStep, CallbackStep, TimerFire, TimerReadEpoch, TimerTake, TimerReadConfirmed, TimerSeal,
           TimerCheck
  <1>4. NodeStep \/ (\E f \in queue : SendCopy(f)) => UNCHANGED SessionVars
    BY DEF NodeStep, NodeLogin, NodeSend, SendCopy
  <1> QED
    BY <1>1, <1>2, <1>3, <1>4 DEF Quiet

LEMMA SessionInit == Init => SessionInv
  BY DEF Init, SessionInv, LoggingIn

LEMMA BeginLoginSession ==
  ASSUME TypeOK, SessionInv, lpc = "idle", BeginLogin
  PROVE  SessionInv'
  <1> USE DEF TypeOK, LoopType, KeyType, SessionInv, LoggingIn, BeginLogin
  <1>1. CASE pending # 0
    BY <1>1 DEF keyVars
  <1>2. CASE pending = 0
    BY <1>2 DEF ClearKeys
  <1> QED
    BY <1>1, <1>2

LEMMA SessionStep == TypeOK /\ SessionInv /\ [Next]_vars => SessionInv'
  <1> SUFFICES ASSUME TypeOK, SessionInv, [Next]_vars PROVE SessionInv'
    OBVIOUS
  <1>1. CASE SendLogin
    BY <1>1, BeginLoginSession DEF SendLogin, LoopIdle
  <1>2. CASE DropKeyedState
    BY <1>2 DEF DropKeyedState, SessionInv, LoggingIn, keyVars
  <1>3. CASE RestartCounters
    BY <1>3 DEF RestartCounters, SessionInv, LoggingIn, keyVars
  <1>4. CASE PublishLogin
    BY <1>4 DEF PublishLogin, SetSessionId, SessionInv, LoggingIn, TypeOK, LoopType, KeyType
  <1>5. CASE HandleRegister
    BY <1>5 DEF HandleRegister, SessionInv, LoggingIn, TypeOK, LoopType, KeyType, LoopIdle, ClearKeys
  <1>6. CASE ConfirmSession
    BY <1>6 DEF ConfirmSession, SessionInv, LoggingIn, TypeOK, LoopType, KeyType, keyVars
  <1>7. ASSUME NEW gate \in BOOLEAN, GiveUp(gate) PROVE SessionInv'
    <2>1. CASE gate
      BY <1>7, <2>1, BeginLoginSession DEF GiveUp, LoopIdle
    <2>2. CASE ~gate
      BY <1>7, <2>2 DEF GiveUp, SessionInv, LoggingIn, keyVars
    <2> QED
      BY <2>1, <2>2
  <1>8. ASSUME NEW u \in uplinks, AcceptUplink(u) PROVE SessionInv'
    <2>1. /\ lpc = "idle" /\ sid # 0 /\ UplinkKey(u) # NoKeys /\ UplinkKey(u)[1] = sid
          /\ UNCHANGED <<sid, pending, minted, lbase>>
      BY <1>8 DEF AcceptUplink, CommitFcnt, Install, Acceptable, Admitted, Verified, LoopIdle, keyVars
    <2>2. CASE NeedsCandidate(u)
      BY <1>8, <2>1, <2>2 DEF AcceptUplink, CommitFcnt, Install, SessionInv, LoggingIn
    <2>3. CASE ~NeedsCandidate(u)
      BY <1>8, <2>1, <2>3 DEF AcceptUplink, CommitFcnt, Install, SessionInv, LoggingIn, keyVars, UplinkKey
    <2> QED
      BY <2>2, <2>3
  <1>9. CASE Reboot
    BY <1>9 DEF Reboot, SessionInv, LoggingIn, TypeOK, LoopType, nodeVars
  <1>10. CASE Quiet \/ UNCHANGED vars
    <2>1. UNCHANGED SessionVars
      BY <1>10, QuietKeepsSession DEF vars, loopVars, keyVars, nodeVars, SessionVars
    <2> QED
      BY <2>1 DEF SessionVars, SessionInv, LoggingIn
  <1> QED
    BY <1>1, <1>2, <1>3, <1>4, <1>5, <1>6, <1>7, <1>8, <1>9, <1>10
       DEF Next, Running, LoopStep, Quiet

\* A key is live only under the session id it was derived for.
THEOREM KeysMatchSession == Spec => []KeysMatchSessionId
  <1>1. SessionInv => KeysMatchSessionId
    BY DEF SessionInv, KeysMatchSessionId
  <1> QED
    BY <1>1, TypeCorrect, SessionInit, SessionStep, PTL DEF Spec

-----------------------------------------------------------------------------
(* The reserved blocks *)

GoodBlock(r) == r.valid => r.next \in 1 .. r.last

LEMMA InvalidateBlock ==
  ASSUME NEW r \in Reservation
  PROVE  GoodBlock(Invalidate(r)) /\ Invalidate(r).epoch = r.epoch /\ ~Invalidate(r).valid
  BY DEF GoodBlock, Invalidate

LEMMA AfterTakeBlock ==
  ASSUME NEW r \in Reservation, NEW e \in Nat, GoodBlock(r)
  PROVE  GoodBlock(AfterTake(r, e)) /\ AfterTake(r, e).epoch = r.epoch
  BY DEF GoodBlock, AfterTake, Invalidate, Reservation

LEMMA ReservedBlock ==
  ASSUME TypeOK, NEW r \in Reservation, NEW c \in Nat, NEW n \in BlockSizes
  PROVE  /\ GoodBlock(Reserved(r, c, n))
         /\ r.epoch <= epoch => Reserved(r, c, n).epoch <= epoch
         /\ c >= FcntLimit - 1 => Reserved(r, c, n) = Invalidate(r) /\ AfterReserve(c, n) = c
         /\ c < FcntLimit - 1 =>
              /\ Reserved(r, c, n) = [valid |-> TRUE, next |-> c + 1, last |-> BlockEnd(c, n), epoch |-> epoch]
              /\ AfterReserve(c, n) = BlockEnd(c, n)
              /\ BlockEnd(c, n) \in c + 1 .. FcntLimit - 1
  <1>1. n \in Nat /\ n > 0 /\ FcntLimit \in Nat
    BY BlockAssumption, LimitAssumption
  <1>2. c < FcntLimit - 1 => BlockEnd(c, n) \in c + 1 .. FcntLimit - 1
    BY <1>1 DEF BlockEnd
  <1>3. CASE c >= FcntLimit - 1
    BY <1>1, <1>3, InvalidateBlock DEF Reserved, AfterReserve, TypeOK, KeyType
  <1>4. CASE c < FcntLimit - 1
    <2>1. BlockEnd(c, n) \in c + 1 .. FcntLimit - 1 /\ c + 1 # 0 /\ c + 1 <= BlockEnd(c, n)
      BY <1>1, <1>2, <1>4
    <2>2. Reserved(r, c, n) = Grant(c + 1, BlockEnd(c, n), epoch) /\ AfterReserve(c, n) = BlockEnd(c, n)
      BY <1>1, <1>4 DEF Reserved, AfterReserve
    <2>3. Reserved(r, c, n) = [valid |-> TRUE, next |-> c + 1, last |-> BlockEnd(c, n), epoch |-> epoch]
      BY <2>1, <2>2 DEF Grant
    <2>4. GoodBlock(Reserved(r, c, n)) /\ Reserved(r, c, n).epoch = epoch
      BY <1>1, <2>1, <2>3 DEF GoodBlock
    <2>5. epoch \in Nat /\ ~(c >= FcntLimit - 1)
      BY <1>1, <1>4 DEF TypeOK, KeyType
    <2>6. Reserved(r, c, n).epoch <= epoch
      BY <2>4, <2>5
    <2> QED
      BY <2>1, <2>2, <2>3, <2>4, <2>5, <2>6, Zenon
  <1> QED
    BY <1>1, <1>3, <1>4

\* A new reservation of stream s: the others keep theirs.
LEMMA BlockUpdate ==
  ASSUME TypeOK, BlockInv, NEW s \in Streams, NEW r \in Reservation,
         GoodBlock(r), r.epoch <= epoch, r.epoch = res[s].epoch \/ lpc' # "installed",
         res' = [res EXCEPT ![s] = r], UNCHANGED <<epoch, lpc>>
  PROVE  BlockInv'
  <1> SUFFICES ASSUME NEW t \in Streams
               PROVE  /\ GoodBlock(res'[t])
                      /\ res'[t].epoch <= epoch'
                      /\ lpc' = "installed" => res'[t].epoch < epoch'
    BY DEF BlockInv, GoodBlock
  <1>1. CASE t = s
    BY <1>1 DEF TypeOK, StreamType, BlockInv
  <1>2. CASE t # s
    BY <1>2 DEF TypeOK, StreamType, BlockInv, GoodBlock
  <1> QED
    BY <1>1, <1>2

\* All reservations dropped.
LEMMA BlockDrop ==
  ASSUME TypeOK, BlockInv, res' = InvalidateAll, epoch' = epoch, lpc' # "installed"
  PROVE  BlockInv'
  BY InvalidateBlock DEF BlockInv, InvalidateAll, GoodBlock, TypeOK, StreamType

LEMMA BlockInit == Init => BlockInv
  BY DEF Init, BlockInv, NoReservation

LEMMA BlockStep == TypeOK /\ BlockInv /\ [Next]_vars => BlockInv'
  <1> SUFFICES ASSUME TypeOK, BlockInv, [Next]_vars PROVE BlockInv'
    OBVIOUS
  <1>0. /\ epoch \in Nat /\ tx \in Nat /\ confirmed \in BOOLEAN
        /\ \A s \in Streams : /\ res[s] \in Reservation /\ GoodBlock(res[s]) /\ res[s].epoch <= epoch
                              /\ res[s].epoch \in Nat /\ tEpoch[s] \in Nat
    BY DEF TypeOK, LoopType, KeyType, StreamType, BlockInv, GoodBlock, Reservation
  <1>1. ASSUME UNCHANGED res, lpc' # "installed", epoch' \in Nat, epoch' >= epoch PROVE BlockInv'
    BY <1>0, <1>1 DEF BlockInv, GoodBlock
  <1>2. ASSUME BeginLogin PROVE lpc' # "installed" /\ epoch' \in Nat /\ epoch' >= epoch
    BY <1>0, <1>2 DEF BeginLogin, ClearKeys, keyVars
  <1>3. CASE SendLogin
    BY <1>1, <1>2, <1>3 DEF SendLogin
  <1>4. CASE DropKeyedState
    BY <1>4, BlockDrop DEF DropKeyedState, keyVars
  <1>5. CASE RestartCounters
    BY <1>5, BlockDrop DEF RestartCounters, keyVars
  <1>6. CASE PublishLogin
    BY <1>0, <1>1, <1>6 DEF PublishLogin, SetSessionId
  <1>7. CASE HandleRegister
    BY <1>0, <1>1, <1>7 DEF HandleRegister, ClearKeys
  <1>8. CASE ConfirmSession
    <2>1. CASE lpc = "installed"
      BY <1>8, <2>1, BlockDrop DEF ConfirmSession, keyVars
    <2>2. CASE lpc # "installed"
      BY <1>0, <1>1, <1>8, <2>2 DEF ConfirmSession, keyVars
    <2> QED
      BY <2>1, <2>2
  <1>9. ASSUME NEW gate \in BOOLEAN, GiveUp(gate) PROVE BlockInv'
    BY <1>0, <1>1, <1>2, <1>9 DEF GiveUp, LoopIdle, keyVars
  <1>10. ASSUME NEW u \in uplinks, AcceptUplink(u) PROVE BlockInv'
    <2>1. CASE NeedsCandidate(u)
      <3>1. UNCHANGED res /\ epoch' = epoch + 1
        BY <1>10, <2>1 DEF AcceptUplink, CommitFcnt, Install
      <3> QED
        BY <1>0, <3>1 DEF BlockInv, GoodBlock
    <2>2. CASE ~NeedsCandidate(u)
      BY <1>0, <1>1, <1>10, <2>2 DEF AcceptUplink, CommitFcnt, Install, keyVars
    <2> QED
      BY <2>1, <2>2
  <1>11. ASSUME NEW s \in TestStreams, NEW n \in BlockSizes, StartTest(s, n) PROVE BlockInv'
    <2>1. s \in Streams /\ AfterAlloc \in Nat /\ lpc = "idle"
      BY <1>11, AllocType DEF Streams, StartTest, LoopIdle
    <2>2. /\ Reserved(res[s], AfterAlloc, n) \in Reservation
          /\ GoodBlock(Reserved(res[s], AfterAlloc, n))
          /\ Reserved(res[s], AfterAlloc, n).epoch <= epoch
      BY <1>0, <2>1, ReservedType, ReservedBlock
    <2>3. res' = [res EXCEPT ![s] = Reserved(res[s], AfterAlloc, n)] /\ UNCHANGED <<epoch, lpc>>
      BY <1>11 DEF StartTest, keyVars
    <2> QED
      BY <2>1, <2>2, <2>3, BlockUpdate
  <1>12. ASSUME NEW s \in TestStreams, ArmGrid(s) PROVE BlockInv'
    <2>1. s \in Streams /\ res' = [res EXCEPT ![s] = AfterTake(res[s], epoch)] /\ UNCHANGED <<epoch, lpc>>
      BY <1>12 DEF Streams, ArmGrid, keyVars
    <2>2. /\ AfterTake(res[s], epoch) \in Reservation /\ GoodBlock(AfterTake(res[s], epoch))
          /\ AfterTake(res[s], epoch).epoch = res[s].epoch
      BY <1>0, <2>1, AfterTakeType, AfterTakeBlock
    <2> QED
      BY <1>0, <2>1, <2>2, BlockUpdate
  <1>13. ASSUME NEW s \in PingStreams, NEW n \in BlockSizes, StartPing(s, n) PROVE BlockInv'
    <2> DEFINE r == IF confirmed THEN Reserved(res[s], tx, n) ELSE Invalidate(res[s])
    <2>1. s \in Streams /\ lpc = "idle"
      BY <1>13 DEF Streams, StartPing, LoopIdle
    <2>2. r \in Reservation /\ GoodBlock(r) /\ r.epoch <= epoch
      <3>1. CASE confirmed
        BY <1>0, <2>1, <3>1, ReservedType, ReservedBlock
      <3>2. CASE ~confirmed
        BY <1>0, <2>1, <3>2, InvalidateType, InvalidateBlock
      <3> QED
        BY <3>1, <3>2
    <2>3. res' = [res EXCEPT ![s] = AfterTake(r, epoch)] /\ UNCHANGED <<epoch, lpc>>
      BY <1>13 DEF StartPing, keyVars
    <2> HIDE DEF r
    <2>4. AfterTake(r, epoch) \in Reservation /\ GoodBlock(AfterTake(r, epoch))
          /\ AfterTake(r, epoch).epoch <= epoch
      BY <1>0, <2>2, AfterTakeType, AfterTakeBlock
    <2> QED
      BY <2>1, <2>3, <2>4, BlockUpdate
  <1>14. ASSUME NEW s \in Streams, TimerTake(s) PROVE BlockInv'
    <2>1. res' = [res EXCEPT ![s] = AfterTake(res[s], tEpoch[s])] /\ UNCHANGED <<epoch, lpc>>
      BY <1>14 DEF TimerTake, keyVars, loopVars
    <2>2. /\ AfterTake(res[s], tEpoch[s]) \in Reservation /\ GoodBlock(AfterTake(res[s], tEpoch[s]))
          /\ AfterTake(res[s], tEpoch[s]).epoch = res[s].epoch
      BY <1>0, <2>1, AfterTakeType, AfterTakeBlock
    <2> QED
      BY <1>0, <2>1, <2>2, BlockUpdate
  <1>15. CASE Reboot
    BY <1>15 DEF Reboot, BlockInv, NoReservation
  <1>16. ASSUME UNCHANGED <<res, epoch, lpc>> PROVE BlockInv'
    BY <1>16 DEF BlockInv
  <1>17. CASE \/ SendFire \/ SendControl \/ ResendControl \/ ControlDone \/ NodeStep
              \/ (\E f \in queue : SendCopy(f)) \/ UNCHANGED vars
    BY <1>16, <1>17 DEF SendFire, SendControl, ResendControl, ControlDone, NodeStep, NodeLogin, NodeSend,
         SendCopy, vars, keyVars, loopVars
  <1>18. ASSUME NEW s \in Streams,
                \/ BeginStop(s) \/ FinishStop(s) \/ TimerFire(s) \/ TimerReadEpoch(s)
                \/ TimerReadConfirmed(s) \/ TimerSeal(s) \/ TimerCheck(s)
         PROVE BlockInv'
    BY <1>16, <1>18 DEF BeginStop, FinishStop, TimerFire, TimerReadEpoch, TimerReadConfirmed, TimerSeal,
         TimerCheck, keyVars, loopVars
  <1> QED
    BY <1>3, <1>4, <1>5, <1>6, <1>7, <1>8, <1>9, <1>10, <1>11, <1>12, <1>13, <1>14, <1>15, <1>17, <1>18
       DEF Next, Running, LoopStep, StreamStep, TimerStep, CallbackStep, Streams

-----------------------------------------------------------------------------
(* The streams: no start meets a running callback *)

StreamVars == <<timerOn, active, stopping, tpc, lpc>>

LEMMA StreamInit == Init => StreamInv
  BY DEF Init, StreamInv

LEMMA StreamStepInv ==
  ASSUME ~RestartTests
  PROVE  TypeOK /\ StreamInv /\ [Next]_vars => StreamInv'
  <1> SUFFICES ASSUME TypeOK, StreamInv, [Next]_vars PROVE StreamInv'
    OBVIOUS
  <1> USE DEF StreamType, StreamInv
  <1>0. StreamType /\ stopping \subseteq Streams
    BY DEF TypeOK, LoopType
  <1>1. ASSUME UNCHANGED <<timerOn, active, stopping, tpc>>, lpc' = "idle" \/ stopping = {} PROVE StreamInv'
    BY <1>1
  <1>2. CASE SendLogin \/ HandleRegister
    BY <1>1, <1>2 DEF SendLogin, HandleRegister, LoopIdle, timerVars
  <1>3. CASE DropKeyedState \/ RestartCounters \/ PublishLogin \/ ConfirmSession
    BY <1>1, <1>3 DEF DropKeyedState, RestartCounters, PublishLogin, SetSessionId, ConfirmSession, timerVars
  <1>4. ASSUME NEW gate \in BOOLEAN, GiveUp(gate) PROVE StreamInv'
    BY <1>1, <1>4 DEF GiveUp, LoopIdle, timerVars
  <1>5. ASSUME NEW u \in uplinks, AcceptUplink(u) PROVE StreamInv'
    BY <1>1, <1>5 DEF AcceptUplink, CommitFcnt, Install, Acceptable, Admitted, Verified, LoopIdle, timerVars
  <1>6. CASE \/ SendFire \/ SendControl \/ ResendControl \/ ControlDone \/ NodeStep
             \/ (\E f \in queue : SendCopy(f)) \/ UNCHANGED vars
    BY <1>6 DEF SendFire, SendControl, ResendControl, ControlDone, NodeStep, NodeLogin, NodeSend,
         SendCopy, vars, timerVars, loopVars
  <1>7. ASSUME NEW s \in TestStreams, NEW n \in BlockSizes, StartTest(s, n) PROVE StreamInv'
    <2>1. /\ s \in Streams /\ ~active[s] /\ stopping = {}
          /\ active' = [active EXCEPT ![s] = TRUE] /\ timerOn' = [timerOn EXCEPT ![s] = FALSE]
          /\ UNCHANGED <<stopping, tpc, lpc>>
      BY <1>7 DEF StartTest, LoopIdle, Streams
    <2> QED
      BY <1>0, <2>1
  <1>8. ASSUME NEW s \in TestStreams, ArmGrid(s) PROVE StreamInv'
    <2>1. /\ s \in Streams /\ active[s] /\ stopping = {}
          /\ timerOn' = [timerOn EXCEPT ![s] = TRUE]
          /\ UNCHANGED <<active, stopping, tpc, lpc>>
      BY <1>8 DEF ArmGrid, LoopIdle, Streams
    <2> QED
      BY <1>0, <2>1
  <1>9. ASSUME NEW s \in PingStreams, NEW n \in BlockSizes, StartPing(s, n) PROVE StreamInv'
    <2>1. /\ s \in Streams /\ ~active[s] /\ stopping = {}
          /\ active' = [active EXCEPT ![s] = TRUE] /\ timerOn' = [timerOn EXCEPT ![s] = TRUE]
          /\ UNCHANGED <<stopping, tpc, lpc>>
      BY <1>9 DEF StartPing, LoopIdle, Streams
    <2> QED
      BY <1>0, <2>1
  <1>10. ASSUME NEW s \in Streams, BeginStop(s) PROVE StreamInv'
    <2>1. /\ stopping = {} /\ stopping' = {s} /\ lpc = "idle"
          /\ active' = [active EXCEPT ![s] = FALSE] /\ timerOn' = [timerOn EXCEPT ![s] = FALSE]
          /\ UNCHANGED <<tpc, lpc>>
      BY <1>10 DEF BeginStop, LoopIdle
    <2> QED
      BY <1>0, <2>1
  <1>11. ASSUME NEW s \in Streams, FinishStop(s) PROVE StreamInv'
    <2>1. /\ s \in stopping /\ tpc[s] = "idle" /\ stopping' = {}
          /\ UNCHANGED <<active, timerOn, tpc, lpc>>
      BY <1>11 DEF FinishStop, CallbackIdle
    <2> QED
      BY <1>0, <2>1
  <1>12. ASSUME NEW s \in Streams, NEW c \in {"idle", "build", "take", "flag", "seal", "check"},
                timerOn[s] \/ tpc[s] # "idle", tpc' = [tpc EXCEPT ![s] = c],
                UNCHANGED <<timerOn, active, stopping, lpc>>
         PROVE StreamInv'
    BY <1>0, <1>12
  <1>13. ASSUME NEW s \in Streams,
                \/ TimerFire(s) \/ TimerReadEpoch(s) \/ TimerTake(s) \/ TimerReadConfirmed(s)
                \/ TimerSeal(s) \/ TimerCheck(s)
         PROVE StreamInv'
    <2>1. UNCHANGED <<timerOn, active, stopping, lpc>> /\ (timerOn[s] \/ tpc[s] # "idle")
      BY <1>13 DEF TimerFire, TimerReadEpoch, TimerTake, TimerReadConfirmed, TimerSeal, TimerCheck, loopVars
    <2>2. \E c \in {"idle", "build", "take", "flag", "seal", "check"} : tpc' = [tpc EXCEPT ![s] = c]
      BY <1>13 DEF TimerFire, TimerReadEpoch, TimerTake, TimerReadConfirmed, TimerSeal, TimerCheck, Leave
    <2> QED
      BY <2>1, <2>2, <1>12
  <1>14. CASE Reboot
    BY <1>14 DEF Reboot
  <1> QED
    BY <1>2, <1>3, <1>4, <1>5, <1>6, <1>7, <1>8, <1>9, <1>10, <1>11, <1>13, <1>14
       DEF Next, Running, LoopStep, StreamStep, TimerStep, CallbackStep, Streams

-----------------------------------------------------------------------------
(* Key epochs: no step leaves a frame that looks current under other keys  *)

KeysMoved ==
    \/ UNCHANGED <<sid, live, epoch>>
    \/ epoch' = epoch + 1
    \/ live = NoKeys /\ epoch' = epoch

LEMMA KeysMove == TypeOK /\ SessionInv /\ [Running]_vars => KeysMoved
  <1> SUFFICES ASSUME TypeOK, SessionInv, [Running]_vars PROVE KeysMoved
    OBVIOUS
  <1> USE DEF keyVars
  <1>1. ClearKeys => KeysMoved
    BY DEF ClearKeys, KeysMoved, SessionInv
  <1>2. BeginLogin => KeysMoved
    BY <1>1 DEF BeginLogin, KeysMoved
  <1>3. SendLogin \/ HandleRegister \/ (\E gate \in BOOLEAN : GiveUp(gate)) => KeysMoved
    BY <1>1, <1>2 DEF SendLogin, HandleRegister, GiveUp, KeysMoved
  <1>4. DropKeyedState \/ RestartCounters \/ ConfirmSession => KeysMoved
    BY DEF DropKeyedState, RestartCounters, ConfirmSession, KeysMoved
  <1>5. PublishLogin => KeysMoved
    BY DEF PublishLogin, SetSessionId, KeysMoved
  <1>6. (\E u \in uplinks : AcceptUplink(u)) => KeysMoved
    BY DEF AcceptUplink, CommitFcnt, Install, KeysMoved
  <1>7. SendFire \/ SendControl \/ ResendControl \/ ControlDone => KeysMoved
    BY DEF SendFire, SendControl, ResendControl, ControlDone, KeysMoved
  <1>8. StreamStep => KeysMoved
    BY DEF StreamStep, StartTest, ArmGrid, StartPing, BeginStop, FinishStop, KeysMoved
  <1>9. TimerStep => KeysMoved
    BY DEF TimerStep, CallbackStep, TimerFire, TimerReadEpoch, TimerTake, TimerReadConfirmed, TimerSeal,
           TimerCheck, KeysMoved
  <1>10. NodeStep \/ (\E f \in queue : SendCopy(f)) \/ UNCHANGED vars => KeysMoved
    BY DEF NodeStep, NodeLogin, NodeSend, SendCopy, KeysMoved, vars
  <1> QED
    BY <1>3, <1>4, <1>5, <1>6, <1>7, <1>8, <1>9, <1>10 DEF Running, LoopStep

LEMMA CurrentKept ==
  ASSUME TypeOK, KeysMoved, NEW f \in Frame, Current(f)
  PROVE  IsSealed(f) => f.epoch <= epoch' /\ (f.epoch = epoch' => Session(f) = <<live', sid'>>)
  BY DEF KeysMoved, Current, IsSealed, Session, TypeOK, KeyType, Frame, NoKeys, Key

LEMMA CurrentSealed ==
  ASSUME TypeOK, NEW n \in Nat, NEW e \in BOOLEAN
  PROVE  Current(Sealed(n, e))
  BY SealedType DEF Current, Session, TypeOK, KeyType

\* What a step may do with the frames: keep them, drop them, or bring in
\* current ones while the keys stand still.
LEMMA FramesKept ==
  ASSUME TypeOK, EpochInv, KeysMoved,
         queue' \subseteq queue,
         \A s \in Streams : buf'[s] \in {buf[s], Plain, NoFrame} /\ tFrame'[s] \in {tFrame[s], NoFrame},
         stored' \in {stored, Plain, NoFrame}
  PROVE  EpochInv'
  <1>1. /\ \A f \in queue : f \in Frame /\ Current(f) /\ IsSealed(f)
        /\ \A s \in Streams : buf[s] \in Frame /\ tFrame[s] \in Frame /\ Current(buf[s]) /\ Current(tFrame[s])
        /\ stored \in Frame /\ Current(stored)
    BY DEF TypeOK, AirType, StreamType, LoopType, EpochInv
  <1>2. Current(Plain) /\ Current(NoFrame) /\ Plain \in Frame /\ NoFrame \in Frame
    BY PlainType DEF Current
  <1> QED
    BY <1>1, <1>2, CurrentKept DEF EpochInv, Current

LEMMA FramesAdded ==
  ASSUME TypeOK, EpochInv, UNCHANGED <<sid, live, epoch>>,
         \A f \in queue' : f \in queue \/ (IsSealed(f) /\ Current(f)),
         \A s \in Streams : Current(buf'[s]) /\ Current(tFrame'[s]),
         Current(stored')
  PROVE  EpochInv'
  BY DEF EpochInv, Current

LEMMA HandOverFrames ==
  ASSUME EpochInv, NEW f \in Frame, HandOver(f), Current(f)
  PROVE  \A g \in queue' : g \in queue \/ (IsSealed(g) /\ Current(g))
  BY DEF HandOver, EpochInv

LEMMA EpochInit == Init => EpochInv
  BY PlainType DEF Init, EpochInv, Current

LEMMA EpochStep == TypeOK /\ SessionInv /\ EpochInv /\ [Next]_vars => EpochInv'
  <1> SUFFICES ASSUME TypeOK, SessionInv, EpochInv, [Next]_vars PROVE EpochInv'
    OBVIOUS
  <1> USE DEF vars, loopVars, keyVars, timerVars, airVars, nodeVars
  <1>0. /\ \A s \in Streams : /\ buf[s] \in Frame /\ tFrame[s] \in Frame /\ Current(buf[s]) /\ Current(tFrame[s])
                              /\ tFcnt[s] \in Nat /\ tEncrypt[s] \in BOOLEAN
        /\ stored \in Frame /\ Current(stored) /\ confirmed \in BOOLEAN /\ epoch \in Nat /\ tx \in Nat
        /\ buf \in [Streams -> Frame] /\ tFrame \in [Streams -> Frame]
        /\ Current(Plain) /\ Current(NoFrame)
    BY PlainType DEF TypeOK, LoopType, KeyType, StreamType, EpochInv, Current
  <1>1. CASE SendLogin \/ DropKeyedState \/ RestartCounters \/ PublishLogin \/ HandleRegister \/ ConfirmSession
    <2>1. /\ UNCHANGED <<queue, buf, tFrame>> /\ stored' \in {stored, NoFrame}
      BY <1>1 DEF SendLogin, DropKeyedState, RestartCounters, PublishLogin, SetSessionId, HandleRegister, ConfirmSession
    <2>2. KeysMoved
      BY <1>1, KeysMove DEF Running, LoopStep
    <2> QED
      BY <2>1, <2>2, FramesKept
  <1>2. ASSUME NEW gate \in BOOLEAN, GiveUp(gate) PROVE EpochInv'
    <2>1. UNCHANGED <<queue, buf, tFrame>> /\ stored' = NoFrame
      BY <1>2 DEF GiveUp
    <2>2. KeysMoved
      BY <1>2, KeysMove DEF Running, LoopStep
    <2> QED
      BY <2>1, <2>2, FramesKept
  <1>3. ASSUME NEW u \in uplinks, AcceptUplink(u) PROVE EpochInv'
    <2>1. UNCHANGED <<queue, buf, tFrame, stored>>
      BY <1>3 DEF AcceptUplink, CommitFcnt, Install
    <2>2. KeysMoved
      BY <1>3, KeysMove DEF Running, LoopStep
    <2> QED
      BY <2>1, <2>2, FramesKept
  <1>4. CASE SendFire \/ SendControl
    <2> DEFINE f == Sealed(Allocated, confirmed)
    <2>1. f \in Frame /\ Current(f)
      BY <1>0, AllocType, SealedType, CurrentSealed
    <2>2. HandOver(f) /\ stored' \in {stored, f} /\ UNCHANGED <<sid, live, epoch, buf, tFrame>>
      BY <1>4 DEF SendFire, SendControl
    <2> HIDE DEF f
    <2> QED
      BY <1>0, <2>1, <2>2, HandOverFrames, FramesAdded
  <1>5. CASE ResendControl
    <2>1. /\ queue' \subseteq queue \cup {stored} /\ (~IsSealed(stored) => queue' = queue)
          /\ UNCHANGED <<sid, live, epoch, buf, tFrame, stored>>
      BY <1>5 DEF ResendControl
    <2> QED
      BY <1>0, <2>1, FramesAdded
  <1>6. ASSUME UNCHANGED <<sid, live, epoch, queue, buf, tFrame>>, stored' \in {stored, NoFrame} PROVE EpochInv'
    BY <1>0, <1>6, FramesAdded
  <1>7. CASE ControlDone \/ NodeStep \/ (\E f \in queue : SendCopy(f)) \/ UNCHANGED vars
    BY <1>6, <1>7 DEF ControlDone, NodeStep, NodeLogin, NodeSend, SendCopy
  <1>8. ASSUME NEW s \in TestStreams, NEW n \in BlockSizes, StartTest(s, n) PROVE EpochInv'
    <2> DEFINE f == Sealed(Allocated, confirmed)
    <2>1. f \in Frame /\ Current(f) /\ s \in Streams
      BY <1>0, AllocType, SealedType, CurrentSealed DEF Streams
    <2>2. /\ HandOver(f) /\ buf' = [buf EXCEPT ![s] = f]
          /\ UNCHANGED <<sid, live, epoch, stored, tFrame>>
      BY <1>8 DEF StartTest
    <2> HIDE DEF f
    <2>3. \A t \in Streams : Current(buf'[t])
      BY <1>0, <2>1, <2>2
    <2> QED
      BY <1>0, <2>1, <2>2, <2>3, HandOverFrames, FramesAdded
  <1>9. ASSUME NEW s \in Streams, NEW r \in Reservation, NEW e \in BOOLEAN,
               buf' = [buf EXCEPT ![s] = BuiltOnLoop(s, r, e)],
               UNCHANGED <<sid, live, epoch, queue, tFrame, stored>>
        PROVE EpochInv'
    <2>1. Current(BuiltOnLoop(s, r, e))
      BY <1>0, AfterTakeType, CurrentSealed DEF BuiltOnLoop
    <2>2. \A t \in Streams : Current(buf'[t])
      BY <1>0, <1>9, <2>1
    <2> QED
      BY <1>0, <1>9, <2>2, FramesAdded
  <1>10. ASSUME NEW s \in TestStreams, ArmGrid(s) PROVE EpochInv'
    <2>1. s \in Streams /\ res[s] \in Reservation /\ confirmed \in BOOLEAN
      BY DEF Streams, TypeOK, StreamType, LoopType
    <2>2. /\ buf' = [buf EXCEPT ![s] = BuiltOnLoop(s, res[s], confirmed)]
          /\ UNCHANGED <<sid, live, epoch, queue, tFrame, stored>>
      BY <1>10 DEF ArmGrid
    <2> QED
      BY <1>9, <2>1, <2>2
  <1>11. ASSUME NEW s \in PingStreams, NEW n \in BlockSizes, StartPing(s, n) PROVE EpochInv'
    <2> DEFINE r == IF confirmed THEN Reserved(res[s], tx, n) ELSE Invalidate(res[s])
    <2>1. s \in Streams
      BY DEF Streams
    <2>2. r \in Reservation
      BY <1>0, <2>1, ReservedType, InvalidateType DEF TypeOK, StreamType
    <2>3. buf' = [buf EXCEPT ![s] = BuiltOnLoop(s, r, TRUE)] /\ UNCHANGED <<sid, live, epoch, queue, tFrame, stored>>
      BY <1>11 DEF StartPing
    <2> HIDE DEF r
    <2> QED
      BY <1>9, <2>1, <2>2, <2>3
  <1>12. ASSUME NEW s \in Streams, BeginStop(s) PROVE EpochInv'
    BY <1>6, <1>12 DEF BeginStop
  <1>13. ASSUME NEW s \in Streams, FinishStop(s) PROVE EpochInv'
    <2> DEFINE f == Sealed(Allocated, confirmed)
    <2>1. f \in Frame /\ Current(f)
      BY <1>0, AllocType, SealedType, CurrentSealed
    <2>2. \A g \in queue' : g \in queue \/ (IsSealed(g) /\ Current(g))
      BY <1>13, <2>1, HandOverFrames DEF FinishStop
    <2>3. buf' = [buf EXCEPT ![s] = NoFrame] /\ UNCHANGED <<sid, live, epoch, tFrame, stored>>
      BY <1>13 DEF FinishStop
    <2>4. \A t \in Streams : Current(buf'[t])
      BY <1>0, <2>3
    <2> QED
      BY <1>0, <2>2, <2>3, <2>4, FramesAdded
  <1>14. ASSUME NEW s \in Streams, TimerFire(s) PROVE EpochInv'
    <2>1. \A g \in queue' : g \in queue \/ (IsSealed(g) /\ Current(g))
      BY <1>0, <1>14, HandOverFrames DEF TimerFire
    <2> QED
      BY <1>0, <1>14, <2>1, FramesAdded DEF TimerFire
  <1>15. ASSUME NEW s \in Streams, NEW f \in Frame, Leave(s, f), Current(f),
                UNCHANGED <<sid, live, epoch, queue, stored>>
         PROVE EpochInv'
    <2>1. \A t \in Streams : Current(buf'[t]) /\ Current(tFrame'[t])
      BY <1>0, <1>15 DEF Leave
    <2> QED
      BY <1>0, <1>15, <2>1, FramesAdded
  <1>16. ASSUME NEW s \in Streams, TimerReadEpoch(s) PROVE EpochInv'
    <2>1. CASE s \in TestStreams \/ (crypto[s] /\ confirmed)
      BY <1>6, <1>16, <2>1 DEF TimerReadEpoch
    <2>2. CASE ~(s \in TestStreams \/ (crypto[s] /\ confirmed))
      BY <1>0, <1>15, <1>16, <2>2, PlainType DEF TimerReadEpoch
    <2> QED
      BY <2>1, <2>2
  <1>17. ASSUME NEW s \in Streams, TimerTake(s) PROVE EpochInv'
    <2>1. CASE Taken(res[s], tEpoch[s]) = 0
      <3>1. Leave(s, IF s \in PingStreams THEN Plain ELSE NoFrame) /\ UNCHANGED <<sid, live, epoch, queue, stored>>
        BY <1>17, <2>1 DEF TimerTake
      <3> QED
        BY <1>0, <1>15, <3>1, PlainType
    <2>2. CASE Taken(res[s], tEpoch[s]) # 0
      BY <1>6, <1>17, <2>2 DEF TimerTake
    <2> QED
      BY <2>1, <2>2
  <1>18. ASSUME NEW s \in Streams, TimerReadConfirmed(s) PROVE EpochInv'
    BY <1>6, <1>18 DEF TimerReadConfirmed
  <1>19. ASSUME NEW s \in Streams, TimerSeal(s) PROVE EpochInv'
    <2> DEFINE f == Sealed(tFcnt[s], tEncrypt[s])
    <2>1. f \in Frame /\ Current(f)
      BY <1>0, SealedType, CurrentSealed
    <2>2. CASE IsSealed(f)
      <3>1. tFrame' = [tFrame EXCEPT ![s] = f] /\ UNCHANGED <<sid, live, epoch, queue, stored, buf>>
        BY <1>19, <2>2 DEF TimerSeal
      <3>2. \A t \in Streams : Current(tFrame'[t])
        BY <1>0, <2>1, <3>1
      <3> QED
        BY <1>0, <3>1, <3>2, FramesAdded
    <2>3. CASE ~IsSealed(f)
      BY <1>15, <1>19, <2>1, <2>3 DEF TimerSeal
    <2> QED
      BY <2>2, <2>3
  <1>20. ASSUME NEW s \in Streams, TimerCheck(s) PROVE EpochInv'
    <2>1. /\ Leave(s, IF SealedInEpoch(tFrame[s], res[s]) THEN tFrame[s] ELSE NoFrame)
          /\ UNCHANGED <<sid, live, epoch, queue, stored>>
      BY <1>20 DEF TimerCheck
    <2> QED
      BY <1>0, <1>15, <2>1, PlainType
  <1>21. CASE Reboot
    BY <1>21, PlainType DEF Reboot, EpochInv, Current
  <1> QED
    BY <1>1, <1>2, <1>3, <1>4, <1>5, <1>7, <1>8, <1>10, <1>11, <1>12, <1>13, <1>14, <1>16, <1>17, <1>18,
       <1>19, <1>20, <1>21
       DEF Next, Running, LoopStep, StreamStep, TimerStep, CallbackStep, Streams

LEMMA CopyStep == TypeOK /\ EpochInv /\ CopyMatchesSeal /\ [Next]_vars => CopyMatchesSeal'
  <1> SUFFICES ASSUME TypeOK, EpochInv, CopyMatchesSeal, [Next]_vars PROVE CopyMatchesSeal'
    OBVIOUS
  <1> USE DEF vars, loopVars, keyVars, timerVars, airVars, nodeVars, CopyMatchesSeal
  <1>1. ASSUME NEW f \in queue, SendCopy(f) PROVE CopyMatchesSeal'
    BY <1>1 DEF SendCopy, Taggable, EpochInv, Current
  <1>2. CASE Reboot
    BY <1>2 DEF Reboot, NoCopy
  <1>3. CASE LoopStep
    BY <1>3 DEF LoopStep, SendLogin, DropKeyedState, RestartCounters, PublishLogin, SetSessionId, HandleRegister, ConfirmSession,
         GiveUp, SendFire, SendControl, ResendControl, ControlDone, AcceptUplink
  <1>4. CASE StreamStep
    BY <1>4 DEF StreamStep, StartTest, ArmGrid, StartPing, BeginStop, FinishStop
  <1>5. CASE TimerStep \/ NodeStep
    BY <1>5 DEF TimerStep, CallbackStep, TimerFire, TimerReadEpoch, TimerTake, TimerReadConfirmed, TimerSeal,
         TimerCheck, NodeStep, NodeLogin, NodeSend
  <1> QED
    BY <1>1, <1>2, <1>3, <1>4, <1>5 DEF Next, Running

LEMMA CopyInit == Init => CopyMatchesSeal
  BY DEF Init, CopyMatchesSeal, NoCopy

\* The send task never tags a copy under other keys than the frame was sealed
\* under, with any number of streams and however often they are restarted.
THEOREM CopyMatchesSealHolds == Spec => []CopyMatchesSeal
  <1>1. TypeOK /\ SessionInv /\ EpochInv /\ CopyMatchesSeal /\ [Next]_vars
        => SessionInv' /\ EpochInv' /\ CopyMatchesSeal'
    BY SessionStep, EpochStep, CopyStep
  <1> QED
    BY <1>1, CopyInit, TypeCorrect, SessionInit, EpochInit, PTL DEF Spec

-----------------------------------------------------------------------------
(* Uplinks are accepted once *)

LEMMA AcceptedInit == Init => AcceptedInv
  BY DEF Init, AcceptedInv

\* An uplink that can be accepted is of the current session and above rx.
LEMMA AcceptableNew ==
  ASSUME TypeOK, AcceptedInv, NEW u \in uplinks, Acceptable(u)
  PROVE  /\ u.key \in Key /\ u.fcnt \in Nat /\ u.fcnt > rx /\ u.key[1] = sid /\ sid # 0
         /\ lpc = "idle" /\ <<u.key, u.fcnt>> \notin accepted
  <1>1. u.key \in Key /\ u.fcnt \in Nat /\ rx \in Nat
    BY DEF TypeOK, NodeType, LoopType
  <1>2. u.fcnt > rx /\ u.key[1] = sid /\ sid # 0 /\ lpc = "idle"
    BY DEF Acceptable, Admitted, Verified, LoopIdle
  <1>3. ASSUME <<u.key, u.fcnt>> \in accepted PROVE FALSE
    BY <1>1, <1>2, <1>3 DEF AcceptedInv
  <1> QED
    BY <1>1, <1>2, <1>3

LEMMA AcceptedStep == TypeOK /\ SessionInv /\ AcceptedInv /\ [Next]_vars => AcceptedInv'
  <1> SUFFICES ASSUME TypeOK, SessionInv, AcceptedInv, [Next]_vars PROVE AcceptedInv'
    OBVIOUS
  <1> USE DEF loopVars, keyVars, nodeVars
  <1>0. /\ sid \in Nat /\ pending \in Nat /\ minted \in Nat /\ rx \in Nat
        /\ \A a \in accepted : a[1][1] \in Nat /\ a[2] \in Nat
    BY DEF TypeOK, LoopType, KeyType, NodeType, Key
  <1>1. ASSUME BeginLogin, lpc = "idle", UNCHANGED <<sid, rx, accepted>> PROVE AcceptedInv'
    BY <1>0, <1>1 DEF BeginLogin, AcceptedInv
  <1>2. CASE SendLogin
    BY <1>1, <1>2 DEF SendLogin, LoopIdle, BeginLogin, ClearKeys
  <1>3. CASE DropKeyedState
    BY <1>3 DEF DropKeyedState, AcceptedInv
  <1>4. CASE RestartCounters
    BY <1>4 DEF RestartCounters, AcceptedInv
  <1>5. CASE PublishLogin
    BY <1>5 DEF PublishLogin, SetSessionId, AcceptedInv, SessionInv, LoggingIn
  <1>6. CASE HandleRegister
    BY <1>0, <1>6 DEF HandleRegister, AcceptedInv, ClearKeys, LoopIdle
  <1>7. CASE ConfirmSession
    BY <1>0, <1>7 DEF ConfirmSession, AcceptedInv
  <1>8. ASSUME NEW gate \in BOOLEAN, GiveUp(gate) PROVE AcceptedInv'
    <2>1. CASE gate
      BY <1>1, <1>8, <2>1 DEF GiveUp, LoopIdle, BeginLogin, ClearKeys
    <2>2. CASE ~gate
      BY <1>8, <2>2 DEF GiveUp, AcceptedInv
    <2> QED
      BY <2>1, <2>2
  <1>9. ASSUME NEW u \in uplinks, AcceptUplink(u) PROVE AcceptedInv'
    <2>1. /\ u.key[1] = sid /\ sid # 0 /\ u.fcnt \in Nat /\ u.fcnt > rx /\ lpc = "idle"
          /\ UplinkKey(u) # NoKeys
      BY <1>9, AcceptableNew DEF AcceptUplink, CommitFcnt, Install, Acceptable, Admitted, Verified
    <2>2. /\ rx' = u.fcnt /\ accepted' = accepted \cup {<<u.key, u.fcnt>>}
          /\ UNCHANGED <<sid, pending, minted>>
          /\ lpc' = IF NeedsCandidate(u) THEN "installed" ELSE "confirm"
      BY <1>9 DEF AcceptUplink, CommitFcnt, Install
    <2>3. pending = sid => NeedsCandidate(u)
      BY <1>0, <2>1 DEF SessionInv, UplinkKey
    <2>4. SUFFICES ASSUME NEW a \in accepted'
                   PROVE  /\ a[1][1] \in 1 .. minted
                          /\ a[1][1] = pending => lpc' = "installed"
                          /\ a[1][1] = sid => a[2] <= u.fcnt
      BY <2>2 DEF AcceptedInv
    <2>5. CASE a \in accepted
      BY <1>0, <2>1, <2>5 DEF AcceptedInv
    <2>6. CASE a = <<u.key, u.fcnt>>
      BY <1>0, <2>1, <2>2, <2>3, <2>6 DEF SessionInv
    <2> QED
      BY <2>2, <2>5, <2>6
  <1>10. CASE Reboot
    BY <1>0, <1>10 DEF Reboot, AcceptedInv
  <1>11. CASE Quiet \/ UNCHANGED vars
    <2>1. UNCHANGED SessionVars
      BY <1>11, QuietKeepsSession DEF vars, SessionVars
    <2> QED
      BY <2>1 DEF SessionVars, AcceptedInv
  <1> QED
    BY <1>2, <1>3, <1>4, <1>5, <1>6, <1>7, <1>8, <1>9, <1>10, <1>11 DEF Next, Running, LoopStep, Quiet

\* The hub acts at most once on an authenticated uplink, whatever is
\* duplicated, delayed or reordered, across relogins and hub reboots.
THEOREM AcceptedOnceHolds == Spec => AcceptedOnce
  <1>1. TypeOK /\ AcceptedInv /\ [Next]_vars
        => [\A u \in uplinks : AcceptUplink(u) => <<u.key, u.fcnt>> \notin accepted]_vars
    BY AcceptableNew DEF AcceptUplink, CommitFcnt, Install
  <1> QED
    BY <1>1, TypeCorrect, SessionInit, SessionStep, AcceptedInit, AcceptedStep, PTL DEF Spec, AcceptedOnce
-----------------------------------------------------------------------------
(* What the loop believes of its keys *)

LEMMA LiveInit == Init => LiveInv
  BY DEF Init, LiveInv, ConfirmedHasKeys, IsSealed, NoFrame, NoKeys

\* A frame the loop seals now is of the keys now live.
LEMMA SealedIsLive ==
  ASSUME TypeOK, NEW n, NEW c \in BOOLEAN, IsSealed(Sealed(n, c))
  PROVE  Sealed(n, c).epoch = epoch /\ Sealed(n, c).key = live /\ live # NoKeys
  BY DEF IsSealed, Sealed, Plain, NoFrame, NoKeys

\* The actions in which neither the loop's belief nor the key store moves.
LEMMA LiveKept ==
  ASSUME LiveInv, UNCHANGED <<confirmed, relogin, lpc, live, epoch, stored>>
  PROVE  LiveInv'
  BY DEF LiveInv, ConfirmedHasKeys, IsSealed

\* Starting a login keeps the keys only if a challenge is pending, and then there are none.
LEMMA BeginLoginLive ==
  ASSUME TypeOK, SessionInv, LiveInv, lpc = "idle", BeginLogin,
         UNCHANGED relogin, confirmed' \in {FALSE, confirmed}, stored' \in {NoFrame, stored}
  PROVE  LiveInv'
  <1> USE DEF LiveInv, ConfirmedHasKeys, IsSealed
  <1>1. CASE pending # 0
    <2>1. live = NoKeys /\ lpc' = "restart" /\ UNCHANGED <<live, epoch>>
      BY <1>1 DEF BeginLogin, SessionInv, keyVars
    <2>2. ~IsSealed(stored) /\ ~IsSealed(stored')
      BY <2>1 DEF NoFrame
    <2> QED
      BY <2>1, <2>2
  <1>2. CASE pending = 0
    BY <1>2 DEF BeginLogin
  <1> QED
    BY <1>1, <1>2

LEMMA LiveStep == TypeOK /\ SessionInv /\ LiveInv /\ [Next]_vars => LiveInv'
  <1> SUFFICES ASSUME TypeOK, SessionInv, LiveInv, [Next]_vars PROVE LiveInv'
    OBVIOUS
  <1> USE DEF LoopIdle
  <1>1. CASE SendLogin
    BY <1>1, BeginLoginLive DEF SendLogin
  <1>2. CASE DropKeyedState
    <2>1. ~IsSealed(stored') /\ lpc' \in {"restart", "idle"}
          /\ (lpc' = "idle" => lpc = "dropRegister")
          /\ UNCHANGED <<confirmed, relogin, live, epoch>>
      BY <1>2 DEF DropKeyedState, keyVars, IsSealed, NoFrame
    <2> QED
      BY <2>1 DEF LiveInv, ConfirmedHasKeys
  <1>3. CASE RestartCounters
    BY <1>3 DEF RestartCounters, keyVars, LiveInv, ConfirmedHasKeys, IsSealed
  <1>4. CASE PublishLogin
    <2>1. live = NoKeys /\ lpc = "setid" /\ lpc' = "idle"
          /\ UNCHANGED <<confirmed, relogin, live, stored>>
      BY <1>4 DEF PublishLogin, SetSessionId, SessionInv, LoggingIn
    <2>2. ~IsSealed(stored)
      BY <2>1 DEF LiveInv, IsSealed
    <2> QED
      BY <2>1, <2>2 DEF LiveInv, ConfirmedHasKeys, IsSealed
  <1>5. CASE HandleRegister
    BY <1>5 DEF HandleRegister, LiveInv, ConfirmedHasKeys
  <1>6. CASE ConfirmSession
    BY <1>6 DEF ConfirmSession, keyVars, LiveInv, ConfirmedHasKeys, IsSealed
  <1>7. ASSUME NEW gate \in BOOLEAN, GiveUp(gate) PROVE LiveInv'
    <2>1. CASE gate
      BY <1>7, <2>1, BeginLoginLive DEF GiveUp
    <2>2. CASE ~gate
      BY <1>7, <2>2 DEF GiveUp, LiveInv, ConfirmedHasKeys, IsSealed, NoFrame, keyVars
    <2> QED
      BY <2>1, <2>2
  <1>8. ASSUME NEW u \in uplinks, AcceptUplink(u) PROVE LiveInv'
    <2>1. lpc = "idle" /\ UplinkKey(u) # NoKeys /\ UNCHANGED <<confirmed, relogin, stored>>
      BY <1>8 DEF AcceptUplink, Acceptable, Verified
    <2>2. CASE NeedsCandidate(u)
      <3>1. live = NoKeys
        BY <2>2 DEF NeedsCandidate, SessionInv
      <3>2. ~IsSealed(stored)
        BY <2>1, <3>1 DEF LiveInv, IsSealed
      <3>3. live' = UplinkKey(u) /\ lpc' = "installed"
        BY <1>8, <2>2 DEF AcceptUplink, Install
      <3> QED
        BY <2>1, <3>2, <3>3 DEF LiveInv, ConfirmedHasKeys, IsSealed
    <2>3. CASE ~NeedsCandidate(u)
      <3>1. live = UplinkKey(u) /\ lpc' = "confirm" /\ UNCHANGED <<live, epoch>>
        BY <1>8, <2>3 DEF AcceptUplink, UplinkKey, keyVars
      <3> QED
        BY <2>1, <3>1 DEF LiveInv, ConfirmedHasKeys, IsSealed
    <2> QED
      BY <2>2, <2>3
  <1>9. CASE SendControl
    <2>1. lpc = "idle" /\ stored' = Sealed(Allocated, confirmed)
          /\ UNCHANGED <<confirmed, relogin, lpc, live, epoch>>
      BY <1>9 DEF SendControl, keyVars
    <2>2. confirmed \in BOOLEAN
      BY DEF TypeOK, LoopType
    <2>3. IsSealed(stored') => stored'.epoch = epoch /\ stored'.key = live
      BY <2>1, <2>2, SealedIsLive
    <2> QED
      BY <2>1, <2>3 DEF LiveInv, ConfirmedHasKeys, IsSealed
  <1>10. CASE ControlDone
    BY <1>10 DEF ControlDone, keyVars, LiveInv, ConfirmedHasKeys, IsSealed, NoFrame
  <1>11. CASE SendFire \/ ResendControl
    BY <1>11, LiveKept DEF SendFire, ResendControl, loopVars, keyVars
  <1>12. CASE StreamStep
    BY <1>12, LiveKept DEF StreamStep, StartTest, ArmGrid, StartPing, BeginStop, FinishStop, loopVars, keyVars
  <1>13. CASE TimerStep
    BY <1>13, LiveKept
       DEF TimerStep, CallbackStep, TimerFire, TimerReadEpoch, TimerTake, TimerReadConfirmed, TimerSeal,
           TimerCheck, loopVars, keyVars
  <1>14. CASE NodeStep \/ \E f \in queue : SendCopy(f)
    BY <1>14, LiveKept DEF NodeStep, NodeLogin, NodeSend, SendCopy, loopVars, keyVars
  <1>15. CASE Reboot
    BY <1>15 DEF Reboot, LiveInv, ConfirmedHasKeys, IsSealed, NoFrame, NoKeys
  <1>16. CASE UNCHANGED vars
    BY <1>16, LiveKept DEF vars, loopVars, keyVars
  <1> QED
    BY <1>1, <1>2, <1>3, <1>4, <1>5, <1>6, <1>7, <1>8, <1>9, <1>10, <1>11, <1>12, <1>13, <1>14, <1>15, <1>16
       DEF Next, Running, LoopStep

\* Between handlers a session the loop counts as confirmed has keys, and bytes kept for a
\* retry are of the keys now live, even if running tests are started again.
THEOREM KeysAreLiveHolds == Spec => []KeysAreLive
  <1>1. LiveInv => KeysAreLive
    BY DEF LiveInv, KeysAreLive, ConfirmedHasKeys, StoredFrameIsLive, LoopIdle
  <1> QED
    BY <1>1, TypeCorrect, SessionInit, SessionStep, LiveInit, LiveStep, PTL DEF Spec

-----------------------------------------------------------------------------
(***************************************************************************)
(* No two ciphertexts share a CTR keystream, when no test stream is        *)
(* started while it runs.  Every FCNT has one owner: a frame handed over,  *)
(* the frame a stream will hand over, or the block a stream may still seal *)
(* from.  Steps move FCNTs between owners; a key change leaves every block *)
(* behind with its key epoch.                                              *)
(***************************************************************************)

\* A frame sealed in the session that is up.
Ours(f) ==
    /\ f.sid = sid /\ sid \in 1 .. minted /\ sid # pending
    /\ f.fcnt \in 1 .. FcntLimit - 1

LEMMA UpcomingType == TypeOK => \A s \in Streams : Upcoming(s) \in Frame
  BY PlainType DEF TypeOK, StreamType, Upcoming

LEMMA MineType ==
  ASSUME TypeOK, OwnInv, NEW s \in Streams, NEW n \in Mine(s)
  PROVE  n \in Nat /\ n <= tx /\ n \in 1 .. FcntLimit - 1 /\ tx \in Nat /\ FcntLimit \in Nat
  BY LimitAssumption DEF OwnInv, TypeOK, LoopType

\* A frame that spent its FCNT has spent it still, while the session stands.
LEMMA SpentKept ==
  ASSUME TypeOK, UNCHANGED <<sid, pending, minted, lpc>>, tx' \in Nat, tx' >= tx,
         NEW f \in Frame, SpentBy(f)
  PROVE  /\ f.fcnt \in 1 .. FcntLimit - 1 /\ f.sid \in 1 .. minted' /\ f.sid # pending'
         /\ f.sid = sid' /\ lpc' # "setid" => f.fcnt <= tx'
  BY LimitAssumption DEF TypeOK, LoopType, SpentBy, Frame

\* The step in which stream s gains FCNTs above lo, the loop sends a frame of
\* its own at most at lo, and no other stream gains anything.
LEMMA Claims ==
  ASSUME TypeOK, FrameInv, OwnInv, UNCHANGED <<sid, pending, minted, lpc>>,
         NEW lo \in Nat, tx <= lo, lo <= tx', tx' \in Nat, lpc # "setid" \/ tx' = tx,
         NEW s,
         handed' \subseteq Frame,
         \A g \in handed' : g \in handed \/ (Ours(g) /\ g.fcnt \in tx + 1 .. lo),
         \A t \in Streams :
           /\ Upcoming(t)' \in Frame
           /\ \A n \in Mine(t)' : n \in Mine(t) \/ (t = s /\ n \in lo + 1 .. tx' /\ n < FcntLimit)
           /\ IsSealed(Upcoming(t)') =>
                \/ Upcoming(t)' = Upcoming(t)
                \/ /\ t = s /\ Ours(Upcoming(t)') /\ Upcoming(t)'.fcnt \notin Mine(t)'
                   /\ Upcoming(t)'.fcnt \in Mine(t) \/ Upcoming(t)'.fcnt \in lo + 1 .. tx'
           /\ (Usable(t) => Block(t) \cap Held(t) = {})'
  PROVE  FrameInv' /\ OwnInv'
  <1>0. /\ tx \in Nat /\ FcntLimit \in Nat /\ sid \in Nat /\ minted \in Nat /\ tx' >= tx
        /\ handed \subseteq Frame /\ \A t \in Streams : Upcoming(t) \in Frame
        /\ \A f \in Frame : f.fcnt \in Nat /\ f.sid \in Nat
    BY LimitAssumption, UpcomingType DEF TypeOK, LoopType, KeyType, AirType, Frame
  <1>1. \A t \in Streams : \A n \in Mine(t) : n \in Nat /\ n <= tx /\ n \in 1 .. FcntLimit - 1
    BY MineType
  \* what was spent is at most tx, what is new above lo
  <1>2. ASSUME NEW f \in Frame, SpentBy(f), f.sid = sid PROVE f.fcnt <= tx \/ tx' = tx
    BY <1>2 DEF SpentBy
  <1>3. \A f \in handed' : /\ f \in Frame
                           /\ f.fcnt \in 1 .. FcntLimit - 1 /\ f.sid \in 1 .. minted /\ f.sid # pending
                           /\ f.sid = sid /\ lpc # "setid" => f.fcnt <= lo
                           /\ f.sid = sid /\ tx' # tx => f.fcnt <= lo
    <2> SUFFICES ASSUME NEW f \in handed'
                 PROVE  /\ f \in Frame
                        /\ f.fcnt \in 1 .. FcntLimit - 1 /\ f.sid \in 1 .. minted /\ f.sid # pending
                        /\ f.sid = sid /\ lpc # "setid" => f.fcnt <= lo
      OBVIOUS
    <2>1. CASE f \in handed
      BY <1>0, <2>1 DEF FrameInv, SpentBy
    <2>2. CASE Ours(f) /\ f.fcnt \in tx + 1 .. lo
      BY <1>0, <2>2 DEF Ours
    <2> QED
      BY <2>1, <2>2
  <1>4. \A t \in Streams : IsSealed(Upcoming(t)') =>
          /\ Upcoming(t)' \in Frame
          /\ Upcoming(t)'.fcnt \in 1 .. FcntLimit - 1 /\ Upcoming(t)'.sid \in 1 .. minted
          /\ Upcoming(t)'.sid # pending
          /\ Upcoming(t)'.sid = sid /\ lpc # "setid" => Upcoming(t)'.fcnt <= tx'
    <2> SUFFICES ASSUME NEW t \in Streams, IsSealed(Upcoming(t)')
                 PROVE  /\ Upcoming(t)' \in Frame
                        /\ Upcoming(t)'.fcnt \in 1 .. FcntLimit - 1 /\ Upcoming(t)'.sid \in 1 .. minted
                        /\ Upcoming(t)'.sid # pending
                        /\ Upcoming(t)'.sid = sid /\ lpc # "setid" => Upcoming(t)'.fcnt <= tx'
      OBVIOUS
    <2>1. CASE Upcoming(t)' = Upcoming(t)
      BY <1>0, <2>1 DEF FrameInv, SpentBy
    <2>2. CASE Upcoming(t)' # Upcoming(t)
      <3>1. t = s /\ Ours(Upcoming(t)') /\ (Upcoming(t)'.fcnt \in Mine(s) \/ Upcoming(t)'.fcnt \in lo + 1 .. tx')
        BY <2>2
      <3> QED
        BY <1>0, <1>1, <3>1 DEF Ours
    <2> QED
      BY <2>1, <2>2
  <1>5. ASSUME NEW t \in Streams, NEW f \in handed', IsSealed(Upcoming(t)')
        PROVE  Distinct(Upcoming(t)', f)
    <2>1. CASE Upcoming(t)' = Upcoming(t) /\ f \in handed
      BY <1>0, <1>5, <2>1 DEF FrameInv
    <2>2. CASE Upcoming(t)' = Upcoming(t) /\ f \notin handed
      BY <1>0, <1>5, <2>2 DEF FrameInv, SpentBy, Distinct, Ours
    <2>3. CASE Upcoming(t)' # Upcoming(t)
      <3>1. t = s /\ Ours(Upcoming(t)') /\ (Upcoming(t)'.fcnt \in Mine(s) \/ Upcoming(t)'.fcnt \in lo + 1 .. tx')
        BY <1>5, <2>3
      <3>2. CASE Upcoming(t)'.fcnt \in Mine(s)
        <4>1. CASE f \in handed
          BY <3>1, <3>2, <4>1 DEF OwnInv, Distinct, Ours
        <4>2. CASE f \notin handed
          BY <1>0, <1>1, <3>1, <3>2, <4>2 DEF Distinct, Ours
        <4> QED
          BY <4>1, <4>2
      <3>3. CASE Upcoming(t)'.fcnt \in lo + 1 .. tx'
        BY <1>0, <1>3, <3>1, <3>3 DEF Distinct, Ours
      <3> QED
        BY <3>1, <3>2, <3>3
    <2> QED
      BY <2>1, <2>2, <2>3
  <1>6. ASSUME NEW t \in Streams, NEW u \in Streams \ {t}, IsSealed(Upcoming(t)'), IsSealed(Upcoming(u)'),
               Upcoming(t)' = Upcoming(t)
        PROVE  Distinct(Upcoming(t)', Upcoming(u)') /\ Distinct(Upcoming(u)', Upcoming(t)')
    <2>1. CASE Upcoming(u)' = Upcoming(u)
      BY <1>6, <2>1 DEF FrameInv, Distinct
    <2>2. CASE Upcoming(u)' # Upcoming(u)
      <3>1. u = s /\ Ours(Upcoming(u)') /\ (Upcoming(u)'.fcnt \in Mine(s) \/ Upcoming(u)'.fcnt \in lo + 1 .. tx')
        BY <1>6, <2>2
      <3>2. CASE Upcoming(u)'.fcnt \in Mine(s)
        BY <1>6, <3>1, <3>2 DEF OwnInv, Distinct, Ours
      <3>3. CASE Upcoming(u)'.fcnt \in lo + 1 .. tx'
        <4>1. SpentBy(Upcoming(t)) /\ Upcoming(t) \in Frame
          BY <1>0, <1>6 DEF FrameInv
        <4> QED
          BY <1>0, <1>2, <1>6, <3>1, <3>3, <4>1 DEF Distinct, Ours
      <3> QED
        BY <3>1, <3>2, <3>3
    <2> QED
      BY <2>1, <2>2
  <1>7. FrameInv'
    <2>1. \A f \in handed' : SpentBy(f)'
      BY <1>0, <1>3 DEF SpentBy
    <2>2. \A t \in Streams : IsSealed(Upcoming(t)') => SpentBy(Upcoming(t))'
      BY <1>0, <1>4 DEF SpentBy
    <2>3. \A t \in Streams, u \in Streams : t # u /\ IsSealed(Upcoming(t)') /\ IsSealed(Upcoming(u)')
            => Distinct(Upcoming(t)', Upcoming(u)')
      <3> SUFFICES ASSUME NEW t \in Streams, NEW u \in Streams, t # u, IsSealed(Upcoming(t)'),
                          IsSealed(Upcoming(u)')
                   PROVE  Distinct(Upcoming(t)', Upcoming(u)')
        OBVIOUS
      <3>1. Upcoming(t)' = Upcoming(t) \/ Upcoming(u)' = Upcoming(u)
        OBVIOUS
      <3> QED
        BY <1>6, <3>1
    <2> QED
      BY <1>5, <2>1, <2>2, <2>3 DEF FrameInv, Distinct, IsSealed
  <1>8. ASSUME NEW t \in Streams, NEW n \in Mine(t)'
        PROVE  /\ n \in 1 .. tx' /\ n < FcntLimit
               /\ n \in Mine(t) \/ (t = s /\ n \in lo + 1 .. tx')
    BY <1>0, <1>1, <1>8
  <1>9. ASSUME NEW t \in Streams, NEW n \in Mine(t)', NEW f \in handed', f.sid = sid PROVE f.fcnt # n
    <2>1. CASE n \in Mine(t) /\ f \in handed
      BY <1>9, <2>1 DEF OwnInv
    <2>2. CASE n \in Mine(t) /\ f \notin handed
      BY <1>0, <1>1, <1>9, <2>2
    <2>3. CASE n \in lo + 1 .. tx'
      BY <1>0, <1>3, <1>9, <2>3
    <2> QED
      BY <1>8, <2>1, <2>2, <2>3
  <1>10. ASSUME NEW t \in Streams, NEW n \in Mine(t)', NEW u \in Streams, IsSealed(Upcoming(u)'),
                Upcoming(u)'.sid = sid
         PROVE  Upcoming(u)'.fcnt # n
    <2>1. CASE Upcoming(u)' = Upcoming(u)
      <3>1. CASE n \in Mine(t)
        BY <1>10, <2>1, <3>1 DEF OwnInv
      <3>2. CASE n \in lo + 1 .. tx'
        <4>1. SpentBy(Upcoming(u)) /\ Upcoming(u) \in Frame
          BY <1>0, <1>10, <2>1 DEF FrameInv
        <4> QED
          BY <1>0, <1>2, <1>10, <2>1, <3>2, <4>1
      <3> QED
        BY <1>8, <3>1, <3>2
    <2>2. CASE Upcoming(u)' # Upcoming(u)
      <3>1. /\ u = s /\ Upcoming(u)'.fcnt \notin Mine(s)'
            /\ Upcoming(u)'.fcnt \in Mine(s) \/ Upcoming(u)'.fcnt \in lo + 1 .. tx'
        BY <1>10, <2>2
      <3>2. CASE t = s
        BY <1>10, <3>1, <3>2
      <3>3. CASE t # s
        <4>1. n \in Mine(t) /\ n <= tx /\ n \notin Mine(s) /\ n \in Nat
          BY <1>1, <1>8, <3>1, <3>3 DEF OwnInv
        <4> QED
          BY <1>0, <3>1, <4>1
      <3> QED
        BY <3>2, <3>3
    <2> QED
      BY <2>1, <2>2
  <1>11. ASSUME NEW t \in Streams, NEW n \in Mine(t)', NEW u \in Streams, u # t PROVE n \notin Mine(u)'
    <2> SUFFICES ASSUME n \in Mine(u)' PROVE FALSE
      OBVIOUS
    <2>1. n \in Mine(t) \/ (t = s /\ n \in lo + 1 .. tx')
      BY <1>8
    <2>2. n \in Mine(u) \/ (u = s /\ n \in lo + 1 .. tx')
      BY <1>8
    <2>3. ~(n \in Mine(t) /\ n \in Mine(u))
      BY <1>11 DEF OwnInv
    <2> QED
      BY <1>0, <1>1, <1>11, <2>1, <2>2, <2>3
  <1>12. OwnInv'
    BY <1>8, <1>9, <1>10, <1>11 DEF OwnInv, IsSealed
  <1> QED
    BY <1>7, <1>12

\* A step that leaves the session, the streams and the counter alone.
LEMMA Still ==
  ASSUME FrameInv, OwnInv, UNCHANGED <<sid, live, epoch, pending, minted, tx, res, handed, timerVars>>,
         lpc' = lpc \/ (lpc # "setid" /\ lpc' # "setid")
  PROVE  FrameInv' /\ OwnInv'
  <1> USE DEF timerVars
  <1>1. \A t \in Streams : /\ Upcoming(t)' = Upcoming(t) /\ Mine(t)' = Mine(t) /\ Usable(t)' = Usable(t)
                           /\ Block(t)' = Block(t) /\ Held(t)' = Held(t)
    BY DEF Upcoming, Mine, Usable, Block, Held
  <1>2. \A f : SpentBy(f) => (f.sid = sid /\ lpc' # "setid" => f.fcnt <= tx)
    BY DEF SpentBy
  <1>3. FrameInv'
    BY <1>1, <1>2 DEF FrameInv, SpentBy, Distinct, IsSealed
  <1>4. OwnInv'
    BY <1>1 DEF OwnInv, IsSealed
  <1> QED
    BY <1>3, <1>4

\* A step that leaves no stream a usable block: the session or its keys change.
LEMMA Severed ==
  ASSUME TypeOK, FrameInv, UNCHANGED handed, \A t \in Streams : ~Usable(t)' /\ Upcoming(t)' = Upcoming(t),
         \A f \in Frame : SpentBy(f) => /\ f.sid \in 1 .. minted' /\ f.sid # pending'
                                        /\ f.sid = sid' /\ lpc' # "setid" => f.fcnt <= tx'
  PROVE  FrameInv' /\ OwnInv'
  <1>1. handed \subseteq Frame /\ \A t \in Streams : Upcoming(t) \in Frame
    BY UpcomingType DEF TypeOK, AirType
  <1>2. FrameInv'
    BY <1>1 DEF FrameInv, SpentBy, Distinct, IsSealed
  <1>3. OwnInv'
    BY DEF OwnInv, Mine, IsSealed
  <1> QED
    BY <1>2, <1>3

\* The step in which the timer of stream s hands over the stream's frame.
LEMMA Fires ==
  ASSUME TypeOK, FrameInv, OwnInv, UNCHANGED <<sid, pending, minted, lpc, tx>>,
         NEW s \in Streams, HandOver(Upcoming(s)), ~IsSealed(Upcoming(s)'), ~reused,
         \A t \in Streams : /\ t # s => Upcoming(t)' = Upcoming(t)
                            /\ Mine(t)' = Mine(t) /\ Usable(t)' = Usable(t)
                            /\ Block(t)' = Block(t) /\ Held(t)' = Held(t)
  PROVE  FrameInv' /\ OwnInv' /\ ~reused'
  <1> DEFINE f == Upcoming(s)
  <1>1. f \in Frame
    BY UpcomingType
  <1>2. IsSealed(f) => /\ \A g \in handed : Distinct(f, g)
                       /\ SpentBy(f)
                       /\ \A t \in Streams \ {s} : IsSealed(Upcoming(t)) => Distinct(Upcoming(t), f)
    BY DEF FrameInv, Distinct
  <1>3. handed' = (IF IsSealed(f) THEN handed \cup {f} ELSE handed)
        /\ (reused' = (reused \/ (IsSealed(f) /\ \E g \in handed : Keystream(g) = Keystream(f))))
    BY DEF HandOver
  <1> HIDE DEF f
  <1>4. ~reused'
    BY <1>2, <1>3 DEF Distinct, Keystream
  <1>5. FrameInv'
    <2>1. \A g \in handed' : SpentBy(g)
      BY <1>2, <1>3 DEF FrameInv
    <2>2. \A t \in Streams : IsSealed(Upcoming(t)') => t # s
      OBVIOUS
    <2>3. \A t \in Streams : IsSealed(Upcoming(t)') =>
            /\ Upcoming(t)' = Upcoming(t) /\ SpentBy(Upcoming(t))
            /\ \A g \in handed' : Distinct(Upcoming(t), g)
            /\ \A u \in Streams \ {t} : IsSealed(Upcoming(u)') => Distinct(Upcoming(t), Upcoming(u)')
      BY <1>2, <1>3, <2>2 DEF FrameInv
    <2> QED
      BY <2>1, <2>3 DEF FrameInv, SpentBy, Distinct, IsSealed
  <1>6. OwnInv'
    <2>1. ASSUME NEW t \in Streams, NEW n \in Mine(t), NEW g \in handed', g.sid = sid PROVE g.fcnt # n
      BY <1>3, <2>1 DEF OwnInv, f
    <2>2. ASSUME NEW t \in Streams, NEW n \in Mine(t), NEW u \in Streams, IsSealed(Upcoming(u)'),
                 Upcoming(u)'.sid = sid
          PROVE  Upcoming(u)'.fcnt # n
      BY <2>2 DEF OwnInv
    <2>3. \A t \in Streams : /\ Usable(t) => Block(t) \cap Held(t) = {}
                             /\ \A n \in Mine(t) : /\ n \in 1 .. tx /\ n < FcntLimit
                                                   /\ \A u \in Streams : u # t => n \notin Mine(u)
      BY DEF OwnInv
    <2> QED
      BY <2>1, <2>2, <2>3 DEF OwnInv, IsSealed
  <1> QED
    BY <1>4, <1>5, <1>6

-----------------------------------------------------------------------------
(* What the pieces of a step contribute *)

\* A stream the step does not touch.
LEMMA SameStream ==
  ASSUME UNCHANGED <<live, epoch>>, NEW t \in Streams, timerOn'[t] = timerOn[t], tpc'[t] = tpc[t],
         tFcnt'[t] = tFcnt[t], tFrame'[t] = tFrame[t], buf'[t] = buf[t], res'[t] = res[t]
  PROVE  /\ Upcoming(t)' = Upcoming(t) /\ Mine(t)' = Mine(t) /\ Usable(t)' = Usable(t)
         /\ Block(t)' = Block(t) /\ Held(t)' = Held(t)
  BY DEF Upcoming, Mine, Usable, Block, Held

LEMMA OneStream ==
  ASSUME TypeOK, FrameInv, OwnInv, UNCHANGED <<sid, live, epoch, pending, minted, lpc>>,
         NEW lo \in Nat, tx <= lo, lo <= tx', tx' \in Nat, lpc # "setid" \/ tx' = tx,
         NEW s \in Streams,
         handed' \subseteq Frame,
         \A g \in handed' : g \in handed \/ (Ours(g) /\ g.fcnt \in tx + 1 .. lo),
         \A t \in Streams \ {s} :
           /\ timerOn'[t] = timerOn[t] /\ tpc'[t] = tpc[t] /\ tFcnt'[t] = tFcnt[t]
           /\ tFrame'[t] = tFrame[t] /\ buf'[t] = buf[t] /\ res'[t] = res[t],
         Upcoming(s)' \in Frame,
         \A n \in Mine(s)' : n \in Mine(s) \/ (n \in lo + 1 .. tx' /\ n < FcntLimit),
         IsSealed(Upcoming(s)') =>
           \/ Upcoming(s)' = Upcoming(s)
           \/ /\ Ours(Upcoming(s)') /\ Upcoming(s)'.fcnt \notin Mine(s)'
              /\ Upcoming(s)'.fcnt \in Mine(s) \/ Upcoming(s)'.fcnt \in lo + 1 .. tx',
         (Usable(s) => Block(s) \cap Held(s) = {})'
  PROVE  FrameInv' /\ OwnInv'
  <1>1. \A t \in Streams \ {s} :
          /\ Upcoming(t)' = Upcoming(t) /\ Mine(t)' = Mine(t) /\ Usable(t)' = Usable(t)
          /\ Block(t)' = Block(t) /\ Held(t)' = Held(t)
    BY SameStream
  <1>2. \A t \in Streams \ {s} : Upcoming(t) \in Frame /\ (Usable(t) => Block(t) \cap Held(t) = {})
    BY UpcomingType DEF OwnInv
  <1>3. \A t \in Streams :
           /\ Upcoming(t)' \in Frame
           /\ \A n \in Mine(t)' : n \in Mine(t) \/ (t = s /\ n \in lo + 1 .. tx' /\ n < FcntLimit)
           /\ IsSealed(Upcoming(t)') =>
                \/ Upcoming(t)' = Upcoming(t)
                \/ /\ t = s /\ Ours(Upcoming(t)') /\ Upcoming(t)'.fcnt \notin Mine(t)'
                   /\ Upcoming(t)'.fcnt \in Mine(t) \/ Upcoming(t)'.fcnt \in lo + 1 .. tx'
           /\ (Usable(t) => Block(t) \cap Held(t) = {})'
    BY <1>1, <1>2
  <1> QED
    BY <1>3, Claims

\* The numbers of a reservation.
Nums(r) == IF r.valid THEN r.next .. r.last ELSE {}

LEMMA TakeNums ==
  ASSUME NEW r \in Reservation, NEW e \in Nat, GoodBlock(r)
  PROVE  /\ \A n \in Nums(AfterTake(r, e)) : n \in Nums(r)
         /\ Taken(r, e) # 0 => /\ r.valid /\ r.epoch = e /\ Taken(r, e) \in Nums(r)
                               /\ Taken(r, e) \notin Nums(AfterTake(r, e))
         /\ AfterTake(r, e).epoch = r.epoch
         /\ Taken(r, e) \in Nat
  <1>1. r.next \in Nat /\ r.last \in Nat /\ r.epoch \in Nat /\ r.valid \in BOOLEAN
    BY DEF Reservation
  <1>2. CASE ~r.valid
    BY <1>2 DEF Nums, AfterTake, Taken
  <1>3. CASE r.valid /\ (r.epoch # e \/ r.next = r.last)
    BY <1>1, <1>3 DEF Nums, AfterTake, Taken, Invalidate, GoodBlock
  <1>4. CASE r.valid /\ ~(r.epoch # e \/ r.next = r.last)
    <2>1. /\ AfterTake(r, e).valid /\ AfterTake(r, e).next = r.next + 1 /\ AfterTake(r, e).last = r.last
          /\ AfterTake(r, e).epoch = r.epoch /\ Taken(r, e) = r.next
      BY <1>1, <1>4 DEF AfterTake, Taken, Reservation
    <2> QED
      BY <1>1, <1>4, <2>1 DEF Nums, GoodBlock
  <1> QED
    BY <1>1, <1>2, <1>3, <1>4

LEMMA BlockNums == \A s \in Streams : Block(s) = Nums(res[s])
  BY DEF Block, Nums

\* A frame sealed now is of the session that is up.
LEMMA SealedOurs ==
  ASSUME TypeOK, SessionInv, lpc # "installed", NEW n \in Nat, n # 0, NEW e \in BOOLEAN,
         IsSealed(Sealed(n, e))
  PROVE  /\ Ours(Sealed(n, e)) /\ Sealed(n, e).fcnt = n /\ live # NoKeys /\ n < FcntLimit
         /\ Sealed(n, e).epoch = epoch
  <1>1. /\ live # NoKeys /\ sid # 0 /\ n < FcntLimit
        /\ Sealed(n, e) = [sid |-> sid, key |-> live, fcnt |-> n, epoch |-> epoch]
    BY SealedType
  <1>2. sid \in 1 .. minted /\ pending = 0 /\ FcntLimit \in Nat
    BY <1>1, LimitAssumption DEF SessionInv, TypeOK, KeyType, LoopType
  <1> QED
    BY <1>1, <1>2 DEF Ours

\* A frame sealed with a counter value of the loop.
LEMMA FreshSend ==
  ASSUME TypeOK, SessionInv, FrameInv, lpc = "idle", ~reused, NEW e \in BOOLEAN,
         HandOver(Sealed(Allocated, e))
  PROVE  /\ ~reused' /\ handed' \subseteq Frame
         /\ \A g \in handed' : g \in handed \/ (Ours(g) /\ g.fcnt \in tx + 1 .. AfterAlloc)
  <1> DEFINE f == Sealed(Allocated, e)
  <1>1. tx \in Nat /\ FcntLimit \in Nat /\ FcntLimit > 2 /\ Allocated \in Nat /\ AfterAlloc \in Nat
    BY AllocType, LimitAssumption DEF TypeOK, LoopType
  <1>2. f \in Frame
    BY <1>1, SealedType
  <1>3. IsSealed(f) => Ours(f) /\ f.fcnt = tx + 1 /\ AfterAlloc = tx + 1
    <2> SUFFICES ASSUME IsSealed(f) PROVE Ours(f) /\ f.fcnt = tx + 1 /\ AfterAlloc = tx + 1
      OBVIOUS
    <2>1. Allocated # 0
      BY <1>1 DEF Allocated
    <2>2. Ours(f) /\ f.fcnt = Allocated /\ Allocated < FcntLimit
      BY <1>1, <2>1, SealedOurs
    <2>3. ~Spent
      BY <1>1, <2>2 DEF Allocated
    <2> QED
      BY <2>2, <2>3 DEF Allocated, AfterAlloc
  <1>4. handed' = (IF IsSealed(f) THEN handed \cup {f} ELSE handed)
        /\ (reused' = (reused \/ (IsSealed(f) /\ \E g \in handed : Keystream(g) = Keystream(f))))
    BY DEF HandOver
  <1>5. handed \subseteq Frame /\ \A g \in handed : g.fcnt \in Nat /\ g.sid \in Nat /\ SpentBy(g)
    BY DEF TypeOK, AirType, Frame, FrameInv
  <1> HIDE DEF f
  <1>6. ~reused'
    <2>1. ASSUME IsSealed(f), NEW g \in handed, Keystream(g) = Keystream(f) PROVE FALSE
      <3>1. g.fcnt = tx + 1 /\ g.sid = sid
        BY <1>3, <2>1 DEF Keystream, Ours
      <3>2. g.fcnt <= tx
        BY <1>5, <3>1 DEF SpentBy
      <3> QED
        BY <1>1, <3>1, <3>2
    <2> QED
      BY <1>4, <2>1
  <1> QED
    BY <1>1, <1>2, <1>3, <1>4, <1>5, <1>6

\* A frame built on the loop from reservation r.
LEMMA BuiltNums ==
  ASSUME TypeOK, SessionInv, lpc = "idle", NEW s \in Streams, NEW r \in Reservation, GoodBlock(r),
         NEW e \in BOOLEAN, IsSealed(BuiltOnLoop(s, r, e))
  PROVE  /\ Ours(BuiltOnLoop(s, r, e)) /\ live # NoKeys /\ r.epoch = epoch
         /\ BuiltOnLoop(s, r, e).fcnt \in Nums(r)
         /\ BuiltOnLoop(s, r, e).fcnt \notin Nums(AfterTake(r, epoch))
  <1>1. epoch \in Nat
    BY DEF TypeOK, KeyType
  <1>2. Taken(r, epoch) # 0 /\ BuiltOnLoop(s, r, e) = Sealed(Taken(r, epoch), e)
    BY PlainType DEF BuiltOnLoop
  <1>3. Taken(r, epoch) \in Nat
    BY <1>1, TakeNums
  <1>4. /\ Ours(BuiltOnLoop(s, r, e)) /\ BuiltOnLoop(s, r, e).fcnt = Taken(r, epoch) /\ live # NoKeys
    BY <1>2, <1>3, SealedOurs
  <1> QED
    BY <1>1, <1>2, <1>4, TakeNums

-----------------------------------------------------------------------------
(* Every action *)

OwnerInv == FrameInv /\ OwnInv /\ KeystreamUnique

LEMMA OwnerInit == Init => OwnerInv
  BY PlainType DEF Init, OwnerInv, KeystreamUnique, FrameInv, OwnInv, Upcoming, Mine, Usable

\* Login, register, the confirming uplink, giving up: the session changes.
LEMMA OwnerSession ==
  ASSUME TypeOK, SessionInv, BlockInv, StreamInv, OwnerInv
  PROVE  /\ SendLogin \/ DropKeyedState \/ RestartCounters \/ PublishLogin \/ HandleRegister => OwnerInv'
         /\ ConfirmSession => OwnerInv'
         /\ \A gate \in BOOLEAN : GiveUp(gate) => OwnerInv'
         /\ \A u \in uplinks : AcceptUplink(u) => OwnerInv'
         /\ Reboot => OwnerInv'
  <1> USE DEF OwnerInv, KeystreamUnique, loopVars, keyVars, airVars, nodeVars
  <1>0. /\ sid \in Nat /\ epoch \in Nat /\ minted \in Nat /\ pending \in Nat /\ tx \in Nat
        /\ \A f \in Frame : f.sid \in Nat /\ f.fcnt \in Nat
        /\ \A s \in Streams : res[s] \in Reservation /\ res[s].epoch \in Nat
    BY DEF TypeOK, LoopType, KeyType, StreamType, Frame, Reservation
  <1>1. ASSUME UNCHANGED timerVars, UNCHANGED handed, \A s \in Streams : res'[s].epoch = res[s].epoch
        PROVE  \A t \in Streams : Upcoming(t)' = Upcoming(t)
    BY <1>1 DEF timerVars, Upcoming, SealedInEpoch
  <1>2. \A s \in Streams : InvalidateAll[s].epoch = res[s].epoch
    BY DEF InvalidateAll, Invalidate
  <1>3. ASSUME BeginLogin, lpc = "idle", UNCHANGED <<tx, res, timerVars, airVars>> PROVE OwnerInv'
    <2>1. CASE pending # 0
      BY <1>3, <2>1, Still DEF BeginLogin
    <2>2. CASE pending = 0
      <3>1. /\ live' = NoKeys /\ pending' = minted + 1 /\ minted' = minted + 1 /\ sid' = sid
        BY <1>3, <2>2 DEF BeginLogin, ClearKeys
      <3>2. \A t \in Streams : ~Usable(t)' /\ Upcoming(t)' = Upcoming(t)
        BY <1>1, <1>3, <3>1 DEF Usable
      <3>3. \A f \in Frame : SpentBy(f) => /\ f.sid \in 1 .. minted' /\ f.sid # pending'
                                           /\ f.sid = sid' /\ lpc' # "setid" => f.fcnt <= tx'
        BY <1>0, <1>3, <3>1 DEF SpentBy
      <3> QED
        BY <1>3, <3>2, <3>3, Severed
    <2> QED
      BY <2>1, <2>2
  <1>4. CASE SendLogin
    BY <1>3, <1>4 DEF SendLogin, LoopIdle
  <1>5. CASE DropKeyedState
    <2>1. live' = NoKeys /\ UNCHANGED <<sid, minted, pending, tx, airVars, timerVars>> /\ res' = InvalidateAll
          /\ lpc # "setid"
      BY <1>5 DEF DropKeyedState, SessionInv, LoggingIn
    <2>2. \A t \in Streams : ~Usable(t)' /\ Upcoming(t)' = Upcoming(t)
      BY <1>1, <1>2, <2>1 DEF Usable
    <2> QED
      BY <2>1, <2>2, Severed DEF SpentBy
  <1>6. CASE RestartCounters
    <2>1. live' = NoKeys /\ UNCHANGED <<sid, minted, pending, airVars, timerVars>> /\ res' = InvalidateAll
          /\ lpc' = "setid"
      BY <1>6 DEF RestartCounters, SessionInv, LoggingIn
    <2>2. \A t \in Streams : ~Usable(t)' /\ Upcoming(t)' = Upcoming(t)
      BY <1>1, <1>2, <2>1 DEF Usable
    <2> QED
      BY <2>1, <2>2, Severed DEF SpentBy
  <1>7. CASE PublishLogin
    <2>1. live' = NoKeys /\ sid' = pending /\ UNCHANGED <<minted, pending, airVars, timerVars, res>>
      BY <1>7 DEF PublishLogin, SetSessionId, SessionInv, LoggingIn
    <2>2. \A t \in Streams : ~Usable(t)' /\ Upcoming(t)' = Upcoming(t)
      BY <1>1, <2>1 DEF Usable
    <2> QED
      BY <2>1, <2>2, Severed DEF SpentBy
  <1>8. CASE HandleRegister
    <2>1. /\ live' = NoKeys /\ pending' = 0 /\ lpc = "idle"
          /\ UNCHANGED <<sid, minted, tx, airVars, timerVars, res>>
      BY <1>8 DEF HandleRegister, ClearKeys, LoopIdle
    <2>2. \A t \in Streams : ~Usable(t)' /\ Upcoming(t)' = Upcoming(t)
      BY <1>1, <2>1 DEF Usable
    <2>3. \A f \in Frame : SpentBy(f) => /\ f.sid \in 1 .. minted' /\ f.sid # pending'
                                         /\ f.sid = sid' /\ lpc' # "setid" => f.fcnt <= tx'
      BY <1>0, <2>1 DEF SpentBy
    <2> QED
      BY <2>1, <2>2, <2>3, Severed
  <1>9. ASSUME ConfirmSession PROVE OwnerInv'
    <2>1. /\ pending' = 0 /\ lpc' = "idle" /\ lpc \in {"installed", "confirm"}
          /\ UNCHANGED <<sid, live, epoch, minted, tx, airVars, timerVars>>
          /\ lpc = "installed" => res' = InvalidateAll
          /\ lpc # "installed" => res' = res
      BY <1>9 DEF ConfirmSession
    <2>2. \A f \in Frame : SpentBy(f) => /\ f.sid \in 1 .. minted' /\ f.sid # pending'
                                         /\ f.sid = sid' /\ lpc' # "setid" => f.fcnt <= tx'
      BY <1>0, <2>1 DEF SpentBy
    <2>3. CASE lpc = "installed"
      <3>1. \A t \in Streams : ~Usable(t)' /\ Upcoming(t)' = Upcoming(t)
        BY <1>0, <1>1, <1>2, <2>1, <2>3 DEF Usable, BlockInv
      <3> QED
        BY <2>1, <2>2, <3>1, Severed
    <2>4. CASE lpc = "confirm" /\ live = NoKeys
      <3>1. \A t \in Streams : ~Usable(t)' /\ Upcoming(t)' = Upcoming(t)
        BY <1>1, <2>1, <2>4 DEF Usable
      <3> QED
        BY <2>1, <2>2, <3>1, Severed
    <2>5. CASE lpc = "confirm" /\ live # NoKeys
      <3>1. pending = 0
        BY <2>5 DEF SessionInv
      <3> QED
        BY <2>1, <2>5, <3>1, Still
    <2> QED
      BY <2>1, <2>3, <2>4, <2>5
  <1>10. ASSUME NEW gate \in BOOLEAN, GiveUp(gate) PROVE OwnerInv'
    <2>1. lpc = "idle" /\ UNCHANGED <<tx, res, timerVars, airVars>>
      BY <1>10 DEF GiveUp, LoopIdle
    <2>2. CASE gate
      BY <1>3, <1>10, <2>1, <2>2 DEF GiveUp
    <2>3. CASE ~gate
      BY <1>10, <2>1, <2>3, Still DEF GiveUp
    <2> QED
      BY <2>2, <2>3
  <1>11. ASSUME NEW u \in uplinks, AcceptUplink(u) PROVE OwnerInv'
    <2>1. lpc = "idle" /\ UNCHANGED <<sid, pending, minted, tx, res, timerVars, airVars>>
      BY <1>11 DEF AcceptUplink, CommitFcnt, Install, Acceptable, Admitted, Verified, LoopIdle
    <2>2. CASE NeedsCandidate(u)
      <3>1. epoch' = epoch + 1 /\ lpc' = "installed"
        BY <1>11, <2>2 DEF AcceptUplink, CommitFcnt, Install
      <3>2. \A t \in Streams : ~Usable(t)' /\ Upcoming(t)' = Upcoming(t)
        BY <1>0, <1>1, <2>1, <3>1 DEF Usable, BlockInv
      <3>3. \A f \in Frame : SpentBy(f) => /\ f.sid \in 1 .. minted' /\ f.sid # pending'
                                           /\ f.sid = sid' /\ lpc' # "setid" => f.fcnt <= tx'
        BY <2>1 DEF SpentBy
      <3> QED
        BY <2>1, <3>2, <3>3, Severed
    <2>3. CASE ~NeedsCandidate(u)
      <3>1. UNCHANGED <<live, epoch>> /\ lpc' = "confirm"
        BY <1>11, <2>3 DEF AcceptUplink, CommitFcnt, Install
      <3> QED
        BY <2>1, <3>1, Still
    <2> QED
      BY <2>2, <2>3
  <1>12. ASSUME Reboot PROVE OwnerInv'
    <2>1. /\ live' = NoKeys /\ sid' = 0 /\ pending' = 0 /\ UNCHANGED <<minted, handed, reused>>
          /\ \A t \in Streams : tpc'[t] = "idle" /\ ~timerOn'[t]
      BY <1>12 DEF Reboot
    <2>2. \A t \in Streams : ~Usable(t)' /\ Upcoming(t)' = Plain
      BY <2>1 DEF Usable, Upcoming
    <2>3. handed \subseteq Frame
      BY DEF TypeOK, AirType
    <2>4. FrameInv'
      BY <1>0, <2>1, <2>2, <2>3, PlainType DEF FrameInv, SpentBy, IsSealed
    <2>5. OwnInv'
      BY <2>2 DEF OwnInv, Mine
    <2> QED
      BY <2>1, <2>4, <2>5
  <1> QED
    BY <1>4, <1>5, <1>6, <1>7, <1>8, <1>9, <1>10, <1>11, <1>12

\* The loop sends and re-sends commands; the node and the send task.
LEMMA OwnerSend ==
  ASSUME TypeOK, SessionInv, OwnerInv
  PROVE  /\ SendFire \/ SendControl => OwnerInv'
         /\ ResendControl \/ ControlDone \/ NodeStep \/ UNCHANGED vars => OwnerInv'
         /\ \A f \in queue : SendCopy(f) => OwnerInv'
  <1> USE DEF OwnerInv, KeystreamUnique, loopVars, keyVars, airVars
  <1>1. ASSUME SendFire \/ SendControl PROVE OwnerInv'
    <2>1. /\ HandOver(Sealed(Allocated, confirmed)) /\ lpc = "idle" /\ tx' = AfterAlloc
          /\ UNCHANGED <<sid, live, epoch, pending, minted, lpc, res, timerVars>>
      BY <1>1 DEF SendFire, SendControl, LoopIdle
    <2>2. tx \in Nat /\ AfterAlloc \in Nat /\ tx <= AfterAlloc /\ confirmed \in BOOLEAN
      BY AllocType DEF TypeOK, LoopType, AfterAlloc
    <2>3. /\ ~reused' /\ handed' \subseteq Frame
          /\ \A g \in handed' : g \in handed \/ (Ours(g) /\ g.fcnt \in tx + 1 .. AfterAlloc)
      BY <2>1, <2>2, FreshSend
    <2>4. \A t \in Streams : /\ Upcoming(t)' = Upcoming(t) /\ Mine(t)' = Mine(t) /\ Usable(t)' = Usable(t)
                             /\ Block(t)' = Block(t) /\ Held(t)' = Held(t)
                             /\ Upcoming(t) \in Frame /\ (Usable(t) => Block(t) \cap Held(t) = {})
      BY <2>1, SameStream, UpcomingType DEF timerVars, OwnInv
    <2> QED
      BY <2>1, <2>2, <2>3, <2>4, Claims
  <1>2. ASSUME ResendControl \/ ControlDone \/ NodeStep \/ UNCHANGED vars PROVE OwnerInv'
    <2>1. UNCHANGED <<sid, live, epoch, pending, minted, lpc, tx, res, handed, reused, timerVars>>
      BY <1>2 DEF ResendControl, ControlDone, NodeStep, NodeLogin, NodeSend, vars
    <2> QED
      BY <2>1, Still
  <1>3. ASSUME NEW f \in queue, SendCopy(f) PROVE OwnerInv'
    <2>1. UNCHANGED <<sid, live, epoch, pending, minted, lpc, tx, res, handed, reused, timerVars>>
      BY <1>3 DEF SendCopy
    <2> QED
      BY <2>1, Still
  <1> QED
    BY <1>1, <1>2, <1>3

\* A step of one stream that takes nothing from the counter and sends nothing.
LEMMA Local ==
  ASSUME TypeOK, FrameInv, OwnInv, UNCHANGED <<sid, live, epoch, pending, minted, lpc, tx, handed>>,
         NEW s \in Streams,
         \A t \in Streams \ {s} :
           /\ timerOn'[t] = timerOn[t] /\ tpc'[t] = tpc[t] /\ tFcnt'[t] = tFcnt[t]
           /\ tFrame'[t] = tFrame[t] /\ buf'[t] = buf[t] /\ res'[t] = res[t],
         Upcoming(s)' \in Frame,
         \A n \in Mine(s)' : n \in Mine(s),
         IsSealed(Upcoming(s)') =>
           \/ Upcoming(s)' = Upcoming(s)
           \/ Ours(Upcoming(s)') /\ Upcoming(s)'.fcnt \notin Mine(s)' /\ Upcoming(s)'.fcnt \in Mine(s),
         (Usable(s) => Block(s) \cap Held(s) = {})'
  PROVE  FrameInv' /\ OwnInv'
  <1> DEFINE lo == tx
  <1>1. /\ lo \in Nat /\ tx <= lo /\ lo <= tx' /\ tx' \in Nat /\ handed' \subseteq Frame
        /\ \A g \in handed' : g \in handed \/ (Ours(g) /\ g.fcnt \in tx + 1 .. lo)
    BY DEF TypeOK, LoopType, AirType
  <1>2. \A n \in Mine(s)' : n \in Mine(s) \/ (n \in lo + 1 .. tx' /\ n < FcntLimit)
    OBVIOUS
  <1>3. IsSealed(Upcoming(s)') =>
           \/ Upcoming(s)' = Upcoming(s)
           \/ /\ Ours(Upcoming(s)') /\ Upcoming(s)'.fcnt \notin Mine(s)'
              /\ Upcoming(s)'.fcnt \in Mine(s) \/ Upcoming(s)'.fcnt \in lo + 1 .. tx'
    OBVIOUS
  <1> HIDE DEF lo
  <1> QED
    BY <1>1, <1>2, <1>3, OneStream

\* Streams are started, armed and stopped.
LEMMA OwnerStreams ==
  ASSUME ~RestartTests, TypeOK, SessionInv, BlockInv, StreamInv, OwnerInv
  PROVE  /\ \A s \in TestStreams, n \in BlockSizes : StartTest(s, n) => OwnerInv'
         /\ \A s \in TestStreams : ArmGrid(s) => OwnerInv'
         /\ \A s \in PingStreams, n \in BlockSizes : StartPing(s, n) => OwnerInv'
         /\ \A s \in Streams : BeginStop(s) \/ FinishStop(s) => OwnerInv'
  <1> USE DEF OwnerInv, KeystreamUnique, keyVars, airVars
  <1>0. /\ tx \in Nat /\ epoch \in Nat /\ confirmed \in BOOLEAN /\ AfterAlloc \in Nat /\ tx <= AfterAlloc
        /\ FcntLimit \in Nat /\ FcntLimit > 2 /\ handed \subseteq Frame
        /\ TestStreams \subseteq Streams /\ PingStreams \subseteq Streams /\ StreamType
        /\ \A s \in Streams : /\ res[s] \in Reservation /\ GoodBlock(res[s]) /\ Upcoming(s) \in Frame
                              /\ (Usable(s) => Block(s) \cap Held(s) = {})
    BY AllocType, LimitAssumption, UpcomingType
       DEF TypeOK, LoopType, KeyType, StreamType, AirType, AfterAlloc, Streams, BlockInv, GoodBlock, OwnInv
  \* between handlers, the callback of a stream whose timer is off is idle
  <1>1. \A s \in Streams : LoopIdle /\ ~timerOn[s] => tpc[s] = "idle"
    BY DEF LoopIdle, StreamInv
  <1>2. ASSUME NEW s \in TestStreams, NEW n \in BlockSizes, StartTest(s, n) PROVE OwnerInv'
    <2>1. /\ s \in Streams /\ lpc = "idle" /\ tpc[s] = "idle"
          /\ HandOver(Sealed(Allocated, confirmed)) /\ tx' = AfterReserve(AfterAlloc, n)
          /\ timerOn' = [timerOn EXCEPT ![s] = FALSE]
          /\ buf' = [buf EXCEPT ![s] = Sealed(Allocated, confirmed)]
          /\ res' = [res EXCEPT ![s] = Reserved(res[s], AfterAlloc, n)]
          /\ UNCHANGED <<sid, live, epoch, pending, minted, lpc, tpc, tFcnt, tFrame>>
      BY <1>0, <1>1, <1>2 DEF StartTest, LoopIdle, StreamInv
    <2>2. /\ ~reused' /\ handed' \subseteq Frame
          /\ \A g \in handed' : g \in handed \/ (Ours(g) /\ g.fcnt \in tx + 1 .. AfterAlloc)
      BY <1>0, <2>1, FreshSend
    <2>3. /\ tx' \in Nat /\ AfterAlloc <= tx'
          /\ \A m \in Nums(Reserved(res[s], AfterAlloc, n)) : m \in AfterAlloc + 1 .. tx' /\ m < FcntLimit
      <3>1. CASE AfterAlloc >= FcntLimit - 1
        BY <1>0, <2>1, <3>1, ReservedBlock, InvalidateBlock DEF Nums
      <3>2. CASE AfterAlloc < FcntLimit - 1
        BY <1>0, <2>1, <3>2, ReservedBlock DEF Nums
      <3> QED
        BY <1>0, <3>1, <3>2
    <2>4. /\ ~timerOn'[s] /\ tpc'[s] = "idle" /\ res'[s] = Reserved(res[s], AfterAlloc, n)
          /\ \A t \in Streams \ {s} :
               /\ timerOn'[t] = timerOn[t] /\ tpc'[t] = tpc[t] /\ tFcnt'[t] = tFcnt[t]
               /\ tFrame'[t] = tFrame[t] /\ buf'[t] = buf[t] /\ res'[t] = res[t]
      BY <1>0, <2>1 DEF StreamType
    <2>5. Upcoming(s)' = Plain /\ Held(s)' = {} /\ Block(s)' = Nums(Reserved(res[s], AfterAlloc, n))
      BY <2>4 DEF Upcoming, Held, Block, Nums
    <2>6. \A m \in Mine(s)' : m \in AfterAlloc + 1 .. tx' /\ m < FcntLimit
      BY <2>3, <2>5 DEF Mine
    <2> QED
      BY <1>0, <2>1, <2>2, <2>3, <2>4, <2>5, <2>6, PlainType, OneStream
  <1>3. ASSUME NEW s \in TestStreams, ArmGrid(s) PROVE OwnerInv'
    <2> DEFINE f == BuiltOnLoop(s, res[s], confirmed)
    <2>1. /\ s \in Streams /\ lpc = "idle" /\ tpc[s] = "idle"
          /\ timerOn' = [timerOn EXCEPT ![s] = TRUE] /\ buf' = [buf EXCEPT ![s] = f]
          /\ res' = [res EXCEPT ![s] = AfterTake(res[s], epoch)]
          /\ UNCHANGED <<sid, live, epoch, pending, minted, lpc, tpc, tFcnt, tFrame, tx, handed, reused>>
      BY <1>0, <1>1, <1>3 DEF ArmGrid, LoopIdle
    <2>2. /\ timerOn'[s] /\ tpc'[s] = "idle" /\ res'[s] = AfterTake(res[s], epoch) /\ buf'[s] = f
          /\ \A t \in Streams \ {s} :
               /\ timerOn'[t] = timerOn[t] /\ tpc'[t] = tpc[t] /\ tFcnt'[t] = tFcnt[t]
               /\ tFrame'[t] = tFrame[t] /\ buf'[t] = buf[t] /\ res'[t] = res[t]
      BY <1>0, <2>1 DEF StreamType
    <2>3. Upcoming(s)' = f /\ Held(s)' = {} /\ Block(s)' = Nums(AfterTake(res[s], epoch)) /\ Held(s) = {}
      BY <2>1, <2>2 DEF Upcoming, Held, Block, Nums
    <2>4. f \in Frame
      BY <1>0, <2>1, BuiltType
    <2>5. \A m \in Mine(s)' : m \in Mine(s)
      BY <1>0, <2>1, <2>2, <2>3, TakeNums, BlockNums DEF Mine, Usable
    <2>6. IsSealed(f) => Ours(f) /\ f.fcnt \in Mine(s) /\ f.fcnt \notin Mine(s)'
      BY <1>0, <2>1, <2>3, BuiltNums, BlockNums DEF Mine, Usable
    <2> HIDE DEF f
    <2>7. Usable(s)' => Block(s)' \cap Held(s)' = {}
      BY <2>3
    <2> QED
      BY <1>0, <2>1, <2>2, <2>3, <2>4, <2>5, <2>6, <2>7, Local
  <1>4. ASSUME NEW s \in PingStreams, NEW n \in BlockSizes, StartPing(s, n) PROVE OwnerInv'
    <2> DEFINE r == IF confirmed THEN Reserved(res[s], tx, n) ELSE Invalidate(res[s])
               f == BuiltOnLoop(s, r, TRUE)
    <2>1. /\ s \in Streams /\ lpc = "idle" /\ tpc[s] = "idle"
          /\ timerOn' = [timerOn EXCEPT ![s] = TRUE] /\ buf' = [buf EXCEPT ![s] = f]
          /\ res' = [res EXCEPT ![s] = AfterTake(r, epoch)]
          /\ tx' = (IF confirmed THEN AfterReserve(tx, n) ELSE tx)
          /\ UNCHANGED <<sid, live, epoch, pending, minted, lpc, tpc, tFcnt, tFrame, handed, reused>>
      BY <1>0, <1>1, <1>4 DEF StartPing, LoopIdle, StreamInv
    <2>2. /\ r \in Reservation /\ GoodBlock(r) /\ tx' \in Nat /\ tx <= tx'
          /\ \A m \in Nums(r) : m \in tx + 1 .. tx' /\ m < FcntLimit
      <3>1. CASE confirmed /\ tx >= FcntLimit - 1
        <4>1. r = Invalidate(res[s]) /\ tx' = tx
          BY <1>0, <2>1, <3>1, ReservedBlock
        <4>2. Invalidate(res[s]) \in Reservation /\ GoodBlock(Invalidate(res[s])) /\ Nums(Invalidate(res[s])) = {}
          BY <1>0, <2>1, InvalidateType, InvalidateBlock DEF Nums
        <4> QED
          BY <1>0, <4>1, <4>2
      <3>2. CASE confirmed /\ tx < FcntLimit - 1
        BY <1>0, <2>1, <3>2, ReservedType, ReservedBlock DEF Nums
      <3>3. CASE ~confirmed
        BY <1>0, <2>1, <3>3, InvalidateType, InvalidateBlock DEF Nums
      <3>4. tx >= FcntLimit - 1 \/ tx < FcntLimit - 1
        BY <1>0
      <3> HIDE DEF r
      <3> QED
        BY <3>1, <3>2, <3>3, <3>4
    <2> HIDE DEF r
    <2>3. /\ timerOn'[s] /\ tpc'[s] = "idle" /\ res'[s] = AfterTake(r, epoch) /\ buf'[s] = f
          /\ \A t \in Streams \ {s} :
               /\ timerOn'[t] = timerOn[t] /\ tpc'[t] = tpc[t] /\ tFcnt'[t] = tFcnt[t]
               /\ tFrame'[t] = tFrame[t] /\ buf'[t] = buf[t] /\ res'[t] = res[t]
      BY <1>0, <2>1 DEF StreamType
    <2>4. Upcoming(s)' = f /\ Held(s)' = {} /\ Block(s)' = Nums(AfterTake(r, epoch))
      BY <2>1, <2>3 DEF Upcoming, Held, Block, Nums
    <2>5. f \in Frame
      BY <1>0, <2>1, <2>2, BuiltType
    <2>6. \A m \in Mine(s)' : m \in tx + 1 .. tx' /\ m < FcntLimit
      BY <1>0, <2>2, <2>4, TakeNums DEF Mine
    <2>7. IsSealed(f) => Ours(f) /\ f.fcnt \in tx + 1 .. tx' /\ f.fcnt \notin Mine(s)'
      <3>1. IsSealed(f) => Ours(f) /\ f.fcnt \in Nums(r) /\ f.fcnt \notin Nums(AfterTake(r, epoch))
        BY <2>1, <2>2, BuiltNums
      <3> HIDE DEF f
      <3> QED
        BY <2>2, <2>4, <3>1 DEF Mine
    <2> HIDE DEF f
    <2> DEFINE lo == tx
    <2>8. /\ lo \in Nat /\ tx <= lo /\ lo <= tx' /\ tx' \in Nat /\ lpc # "setid" /\ handed' \subseteq Frame
          /\ \A g \in handed' : g \in handed \/ (Ours(g) /\ g.fcnt \in tx + 1 .. lo)
          /\ \A m \in Mine(s)' : m \in lo + 1 .. tx' /\ m < FcntLimit
          /\ IsSealed(f) => Ours(f) /\ f.fcnt \in lo + 1 .. tx' /\ f.fcnt \notin Mine(s)'
      BY <1>0, <2>1, <2>2, <2>6, <2>7
    <2> HIDE DEF lo
    <2> QED
      BY <2>1, <2>3, <2>4, <2>5, <2>8, OneStream
  <1>5. ASSUME NEW s \in Streams, BeginStop(s) PROVE OwnerInv'
    <2>1. /\ timerOn' = [timerOn EXCEPT ![s] = FALSE]
          /\ UNCHANGED <<sid, live, epoch, pending, minted, lpc, tpc, tFcnt, tFrame, buf, res, tx, handed, reused>>
      BY <1>5 DEF BeginStop
    <2>2. /\ ~timerOn'[s]
          /\ \A t \in Streams \ {s} : timerOn'[t] = timerOn[t]
      BY <1>0, <2>1 DEF StreamType
    <2>3. /\ Upcoming(s)' \in Frame /\ (IsSealed(Upcoming(s)') => Upcoming(s)' = Upcoming(s))
          /\ Mine(s)' = Mine(s) /\ Block(s)' = Block(s) /\ Held(s)' = Held(s) /\ Usable(s)' = Usable(s)
      BY <1>0, <2>1, <2>2, PlainType DEF Upcoming, Mine, Block, Held, Usable, StreamType
    <2> QED
      BY <1>0, <2>1, <2>2, <2>3, Local
  <1>6. ASSUME NEW s \in Streams, FinishStop(s) PROVE OwnerInv'
    <2>1. /\ lpc = "idle" /\ tpc[s] = "idle" /\ ~timerOn[s]
          /\ buf' = [buf EXCEPT ![s] = NoFrame]
          /\ UNCHANGED <<sid, live, epoch, pending, minted, lpc, tpc, timerOn, tFcnt, tFrame, res>>
      BY <1>6 DEF FinishStop, CallbackIdle, StreamInv
    <2>2. /\ tx' \in Nat /\ tx <= tx' /\ ~reused' /\ handed' \subseteq Frame
          /\ \A g \in handed' : g \in handed \/ (Ours(g) /\ g.fcnt \in tx + 1 .. tx')
      <3>1. CASE s \in TestStreams
        BY <1>0, <1>6, <2>1, <3>1, FreshSend DEF FinishStop
      <3>2. CASE s \notin TestStreams
        BY <1>0, <1>6, <3>2 DEF FinishStop
      <3> QED
        BY <3>1, <3>2
    <2>3. \A t \in Streams \ {s} : buf'[t] = buf[t]
      BY <1>0, <2>1 DEF StreamType
    <2>4. /\ Upcoming(s)' = Plain
          /\ Mine(s)' = Mine(s) /\ Block(s)' = Block(s) /\ Held(s)' = Held(s) /\ Usable(s)' = Usable(s)
      BY <2>1 DEF Upcoming, Mine, Block, Held, Usable
    <2> QED
      BY <1>0, <2>1, <2>2, <2>3, <2>4, PlainType, OneStream
  <1> QED
    BY <1>2, <1>3, <1>4, <1>5, <1>6

\* The callback of a stream.
LEMMA OwnerTimer ==
  ASSUME TypeOK, SessionInv, BlockInv, OwnerInv, NEW s \in Streams
  PROVE  TimerFire(s) \/ CallbackStep(s) => OwnerInv'
  <1> USE DEF OwnerInv, KeystreamUnique, loopVars, keyVars, airVars
  <1>0. /\ epoch \in Nat /\ confirmed \in BOOLEAN /\ StreamType /\ tEpoch[s] \in Nat /\ tFcnt[s] \in Nat
        /\ tEncrypt[s] \in BOOLEAN /\ tFrame[s] \in Frame /\ buf[s] \in Frame
        /\ res[s] \in Reservation /\ GoodBlock(res[s]) /\ Upcoming(s) \in Frame
        /\ (Usable(s) => Block(s) \cap Held(s) = {})
        /\ Plain \in Frame /\ ~IsSealed(Plain) /\ NoFrame \in Frame /\ ~IsSealed(NoFrame)
    BY UpcomingType, PlainType DEF TypeOK, LoopType, KeyType, StreamType, BlockInv, GoodBlock, OwnInv
  <1>1. ASSUME NEW f \in Frame, Leave(s, f), UNCHANGED timerOn
        PROVE  /\ tpc'[s] = "idle" /\ Held(s)' = {} /\ Upcoming(s)' = IF timerOn[s] THEN f ELSE Plain
               /\ \A t \in Streams \ {s} : /\ tpc'[t] = tpc[t] /\ tFcnt'[t] = tFcnt[t]
                                           /\ tFrame'[t] = tFrame[t] /\ buf'[t] = buf[t]
    BY <1>0, <1>1 DEF Leave, StreamType, Held, Upcoming
  <1>2. ASSUME TimerFire(s) PROVE OwnerInv'
    <2>1. /\ tpc[s] = "idle" /\ timerOn[s] /\ HandOver(buf[s]) /\ tpc' = [tpc EXCEPT ![s] = "build"]
          /\ UNCHANGED <<sid, live, epoch, pending, minted, lpc, tx, res, timerOn, tFcnt, tFrame, buf>>
      BY <1>2 DEF TimerFire
    <2>2. Upcoming(s) = buf[s] /\ Upcoming(s)' = Plain /\ Held(s) = {} /\ Held(s)' = {}
      BY <1>0, <2>1 DEF Upcoming, Held, StreamType
    <2>3. \A t \in Streams : /\ t # s => Upcoming(t)' = Upcoming(t)
                             /\ Usable(t)' = Usable(t) /\ Block(t)' = Block(t)
                             /\ t # s => Held(t)' = Held(t)
      BY <1>0, <2>1 DEF Upcoming, Usable, Block, Held, StreamType
    <2>4. \A t \in Streams : Mine(t)' = Mine(t) /\ Held(t)' = Held(t)
      BY <2>2, <2>3 DEF Mine
    <2> QED
      BY <1>0, <2>1, <2>2, <2>3, <2>4, Fires
  <1>3. ASSUME TimerReadEpoch(s) PROVE OwnerInv'
    <2>1. /\ tpc[s] = "build"
          /\ UNCHANGED <<sid, live, epoch, pending, minted, lpc, tx, res, timerOn, handed, reused>>
      BY <1>3 DEF TimerReadEpoch
    <2>2. Held(s) = {} /\ Block(s)' = Block(s) /\ Usable(s)' = Usable(s)
      BY <2>1 DEF Held, Block, Usable
    <2>3. CASE s \in TestStreams \/ (crypto[s] /\ confirmed)
      <3>1. tpc' = [tpc EXCEPT ![s] = "take"] /\ UNCHANGED <<tFcnt, tFrame, buf>>
        BY <1>3, <2>3 DEF TimerReadEpoch
      <3>2. Held(s)' = {} /\ Upcoming(s)' = Plain /\ \A t \in Streams \ {s} : tpc'[t] = tpc[t]
        BY <1>0, <3>1 DEF Held, Upcoming, StreamType
      <3>3. Mine(s)' = Mine(s)
        BY <2>2, <3>2 DEF Mine
      <3> QED
        BY <1>0, <2>1, <2>2, <3>1, <3>2, <3>3, Local
    <2>4. CASE ~(s \in TestStreams \/ (crypto[s] /\ confirmed))
      <3>1. Leave(s, Plain)
        BY <1>3, <2>4 DEF TimerReadEpoch
      <3>2. /\ Held(s)' = {} /\ Upcoming(s)' = Plain
            /\ \A t \in Streams \ {s} : /\ tpc'[t] = tpc[t] /\ tFcnt'[t] = tFcnt[t]
                                        /\ tFrame'[t] = tFrame[t] /\ buf'[t] = buf[t]
        BY <1>0, <1>1, <2>1, <3>1
      <3>3. Mine(s)' = Mine(s)
        BY <2>2, <3>2 DEF Mine
      <3> QED
        BY <1>0, <2>1, <2>2, <3>2, <3>3, Local
    <2> QED
      BY <2>3, <2>4
  <1>4. ASSUME TimerTake(s) PROVE OwnerInv'
    <2> DEFINE n == Taken(res[s], tEpoch[s])
    <2>1. /\ tpc[s] = "take" /\ res' = [res EXCEPT ![s] = AfterTake(res[s], tEpoch[s])]
          /\ UNCHANGED <<sid, live, epoch, pending, minted, lpc, tx, timerOn, handed, reused>>
      BY <1>4 DEF TimerTake
    <2>2. /\ Held(s) = {} /\ Block(s) = Nums(res[s]) /\ Block(s)' = Nums(AfterTake(res[s], tEpoch[s]))
          /\ Usable(s)' = Usable(s)
          /\ \A t \in Streams \ {s} : res'[t] = res[t]
      BY <1>0, <2>1, TakeNums DEF Held, Block, Nums, Usable, StreamType
    <2>3. \A m \in Nums(AfterTake(res[s], tEpoch[s])) : m \in Nums(res[s])
      BY <1>0, TakeNums
    <2>4. CASE n = 0
      <3>1. Leave(s, IF s \in PingStreams THEN Plain ELSE NoFrame)
        BY <1>4, <2>4 DEF TimerTake
      <3>2. /\ Held(s)' = {} /\ Upcoming(s)' \in {Plain, NoFrame}
            /\ \A t \in Streams \ {s} : /\ tpc'[t] = tpc[t] /\ tFcnt'[t] = tFcnt[t]
                                        /\ tFrame'[t] = tFrame[t] /\ buf'[t] = buf[t]
        BY <1>0, <1>1, <2>1, <3>1
      <3>3. \A m \in Mine(s)' : m \in Mine(s)
        BY <2>2, <2>3, <3>2 DEF Mine
      <3> QED
        BY <1>0, <2>1, <2>2, <3>2, <3>3, Local
    <2>5. CASE n # 0
      <3>1. /\ tFcnt' = [tFcnt EXCEPT ![s] = n] /\ UNCHANGED <<tFrame, buf>>
            /\ tpc' = [tpc EXCEPT ![s] = IF s \in PingStreams THEN "seal" ELSE "flag"]
        BY <1>4, <2>5 DEF TimerTake
      <3>2. /\ n \in Nums(res[s]) /\ n \notin Nums(AfterTake(res[s], tEpoch[s]))
        BY <1>0, <2>5, TakeNums
      <3> HIDE DEF n
      <3>3. /\ Held(s)' = {n} /\ Upcoming(s)' = Plain
            /\ \A t \in Streams \ {s} : tpc'[t] = tpc[t] /\ tFcnt'[t] = tFcnt[t]
        BY <1>0, <3>1 DEF Held, Upcoming, StreamType
      <3>4. \A m \in Mine(s)' : m \in Mine(s)
        BY <2>2, <2>3, <3>2, <3>3 DEF Mine
      <3>5. Block(s)' \cap Held(s)' = {}
        BY <2>2, <3>2, <3>3
      <3> QED
        BY <1>0, <2>1, <2>2, <3>1, <3>3, <3>4, <3>5, Local
    <2> QED
      BY <2>4, <2>5
  <1>5. ASSUME TimerReadConfirmed(s) PROVE OwnerInv'
    <2>1. /\ tpc[s] = "flag" /\ tpc' = [tpc EXCEPT ![s] = "seal"]
          /\ UNCHANGED <<sid, live, epoch, pending, minted, lpc, tx, timerOn, handed, reused, res, tFcnt, tFrame, buf>>
      BY <1>5 DEF TimerReadConfirmed
    <2>2. /\ Held(s)' = Held(s) /\ Block(s)' = Block(s) /\ Usable(s)' = Usable(s) /\ Upcoming(s)' = Plain
          /\ Mine(s)' = Mine(s) /\ \A t \in Streams \ {s} : tpc'[t] = tpc[t]
      BY <1>0, <2>1 DEF Held, Block, Usable, Upcoming, Mine, StreamType
    <2> QED
      BY <1>0, <2>1, <2>2, Local
  <1>6. ASSUME TimerSeal(s) PROVE OwnerInv'
    <2> DEFINE f == Sealed(tFcnt[s], tEncrypt[s])
    <2>1. /\ tpc[s] = "seal"
          /\ UNCHANGED <<sid, live, epoch, pending, minted, lpc, tx, timerOn, handed, reused, res>>
      BY <1>6 DEF TimerSeal
    <2>2. Held(s) = {tFcnt[s]} /\ Block(s)' = Block(s) /\ Usable(s)' = Usable(s)
      BY <2>1 DEF Held, Block, Usable
    <2>3. f \in Frame
      BY <1>0, SealedType
    <2>4. CASE IsSealed(f)
      <3>1. tFrame' = [tFrame EXCEPT ![s] = f] /\ tpc' = [tpc EXCEPT ![s] = "check"] /\ UNCHANGED <<tFcnt, buf>>
        BY <1>6, <2>4 DEF TimerSeal
      <3>2. live # NoKeys /\ f.epoch = epoch
        BY <1>0, <2>4, SealedType
      <3>3. Usable(s) => Ours(f) /\ f.fcnt = tFcnt[s]
        <4>1. Usable(s) => lpc # "installed"
          BY <1>0 DEF Usable, BlockInv, Reservation
        <4>2. Usable(s) => tFcnt[s] \in 1 .. tx
          BY <2>2 DEF OwnInv, Mine
        <4> QED
          BY <1>0, <2>4, <4>1, <4>2, SealedOurs
      <3> HIDE DEF f
      <3>4. /\ Held(s)' = {} /\ Upcoming(s)' \in {Plain, f} /\ (IsSealed(Upcoming(s)') => Usable(s) /\ Upcoming(s)' = f)
            /\ \A t \in Streams \ {s} : tpc'[t] = tpc[t] /\ tFrame'[t] = tFrame[t]
        BY <1>0, <2>1, <3>1, <3>2 DEF Held, Upcoming, StreamType, Usable, SealedInEpoch
      <3>5. /\ \A m \in Mine(s)' : m \in Mine(s)
            /\ Usable(s) => tFcnt[s] \in Mine(s) /\ tFcnt[s] \notin Mine(s)'
        BY <1>0, <2>2, <3>4 DEF Mine
      <3> QED
        BY <1>0, <2>1, <2>2, <2>3, <3>1, <3>3, <3>4, <3>5, Local
    <2>5. CASE ~IsSealed(f)
      <3>1. Leave(s, f)
        BY <1>6, <2>5 DEF TimerSeal
      <3> HIDE DEF f
      <3>2. /\ Held(s)' = {} /\ Upcoming(s)' \in {f, Plain}
            /\ \A t \in Streams \ {s} : /\ tpc'[t] = tpc[t] /\ tFcnt'[t] = tFcnt[t]
                                        /\ tFrame'[t] = tFrame[t] /\ buf'[t] = buf[t]
        BY <1>0, <1>1, <2>1, <2>3, <3>1
      <3>3. \A m \in Mine(s)' : m \in Mine(s)
        BY <2>2, <3>2 DEF Mine
      <3> QED
        BY <1>0, <2>1, <2>2, <2>3, <2>5, <3>2, <3>3, Local
    <2> QED
      BY <2>4, <2>5
  <1>7. ASSUME TimerCheck(s) PROVE OwnerInv'
    <2> DEFINE f == IF SealedInEpoch(tFrame[s], res[s]) THEN tFrame[s] ELSE NoFrame
    <2>1. /\ tpc[s] = "check" /\ Leave(s, f)
          /\ UNCHANGED <<sid, live, epoch, pending, minted, lpc, tx, timerOn, handed, reused, res>>
      BY <1>7 DEF TimerCheck
    <2>2. f \in Frame /\ Upcoming(s) = (IF SealedInEpoch(tFrame[s], res[s]) THEN tFrame[s] ELSE Plain)
      BY <1>0, <2>1 DEF Upcoming
    <2>3. IsSealed(f) => f = Upcoming(s)
      BY <1>0, <2>2
    <2> HIDE DEF f
    <2>4. /\ Held(s)' = {} /\ Upcoming(s)' \in {f, Plain}
          /\ \A t \in Streams \ {s} : /\ tpc'[t] = tpc[t] /\ tFcnt'[t] = tFcnt[t]
                                      /\ tFrame'[t] = tFrame[t] /\ buf'[t] = buf[t]
      BY <1>0, <1>1, <2>1, <2>2
    <2>5. Held(s) = {} /\ Block(s)' = Block(s) /\ Usable(s)' = Usable(s)
      BY <2>1 DEF Held, Block, Usable
    <2>6. Mine(s)' = Mine(s)
      BY <2>4, <2>5 DEF Mine
    <2> QED
      BY <1>0, <2>1, <2>2, <2>3, <2>4, <2>5, <2>6, Local
  <1> QED
    BY <1>2, <1>3, <1>4, <1>5, <1>6, <1>7 DEF CallbackStep

-----------------------------------------------------------------------------
(* The theorems *)

LEMMA OwnerStep ==
  ASSUME ~RestartTests
  PROVE  IInv /\ [Next]_vars => OwnerInv'
  <1> SUFFICES ASSUME IInv, [Next]_vars PROVE OwnerInv'
    OBVIOUS
  <1> USE DEF IInv, OwnerInv
  <1>1. CASE LoopStep
    BY <1>1, OwnerSession, OwnerSend DEF LoopStep
  <1>2. CASE StreamStep
    BY <1>2, OwnerStreams DEF StreamStep
  <1>3. CASE TimerStep
    BY <1>3, OwnerTimer DEF TimerStep
  <1>4. CASE NodeStep \/ (\E f \in queue : SendCopy(f)) \/ UNCHANGED vars
    BY <1>4, OwnerSend
  <1>5. CASE Reboot
    BY <1>5, OwnerSession
  <1> QED
    BY <1>1, <1>2, <1>3, <1>4, <1>5 DEF Next, Running

\* The inductive invariant: what the session, the streams and the frames obey
\* between any two steps.
THEOREM IInvHolds ==
  ASSUME ~RestartTests
  PROVE  Spec => []IInv
  <1>1. Init => IInv
    BY TypeInit, SessionInit, BlockInit, StreamInit, OwnerInit, EpochInit, AcceptedInit, CopyInit
       DEF IInv, OwnerInv
  <1>2. IInv /\ [Next]_vars => IInv'
    BY TypeStep, SessionStep, BlockStep, StreamStepInv, OwnerStep, EpochStep, AcceptedStep, CopyStep
       DEF IInv, OwnerInv
  <1> QED
    BY <1>1, <1>2, PTL DEF Spec

\* No two ciphertexts the hub hands to the radio share a CTR keystream, for any
\* number of streams, any block sizes and any width of the counter, across key
\* changes and reboots, if no test stream is started while it runs.
THEOREM KeystreamUniqueHolds ==
  ASSUME ~RestartTests
  PROVE  Spec => []KeystreamUnique
  <1>1. IInv => KeystreamUnique
    BY DEF IInv
  <1> QED
    BY <1>1, IInvHolds, PTL

\* Every ciphertext handed over spends a counter value inside the CTR space.
THEOREM FcntInSpaceHolds ==
  ASSUME ~RestartTests
  PROVE  Spec => []FcntInSpace
  <1>1. IInv => FcntInSpace
    BY DEF IInv, FrameInv, SpentBy, FcntInSpace
  <1> QED
    BY <1>1, IInvHolds, PTL

\* What reaches the radio is sound: FCNTs are spent once and inside the CTR space, and
\* ciphertext, tag, key and session id belong together.
THEOREM SealSoundHolds ==
  ASSUME ~RestartTests
  PROVE  Spec => []SealSound
  <1>1. KeystreamUnique /\ FcntInSpace /\ CopyMatchesSeal /\ KeysMatchSessionId => SealSound
    BY DEF SealSound
  <1> QED
    BY <1>1, KeystreamUniqueHolds, FcntInSpaceHolds, CopyMatchesSealHolds, KeysMatchSession, PTL

\* While a stream's callback runs only the callback writes the frame buffer.
THEOREM BufferOwnershipHolds ==
  ASSUME ~RestartTests
  PROVE  Spec => BufferOwnership
  <1> DEFINE Owned == \A s \in Streams : (tpc[s] # "idle" /\ buf'[s] # buf[s]) => tpc'[s] = "idle"
  <1>1. IInv /\ [Next]_vars => [Owned]_vars
    <2> SUFFICES ASSUME IInv, Next PROVE Owned
      OBVIOUS
    <2> USE DEF vars, loopVars, keyVars, timerVars, airVars, nodeVars
    <2>0. StreamType /\ TestStreams \subseteq Streams /\ PingStreams \subseteq Streams
          /\ \A s \in Streams : LoopIdle /\ ~timerOn[s] => tpc[s] = "idle"
      BY DEF IInv, TypeOK, Streams, StreamInv, LoopIdle
    <2>1. CASE LoopStep
      BY <2>1 DEF LoopStep, SendLogin, DropKeyedState, RestartCounters, PublishLogin, SetSessionId, HandleRegister,
           ConfirmSession, GiveUp, SendFire, SendControl, ResendControl, ControlDone, AcceptUplink, CommitFcnt, Install
    <2>2. ASSUME NEW s \in TestStreams, NEW n \in BlockSizes, StartTest(s, n) PROVE Owned
      <3>1. tpc[s] = "idle" /\ \A t \in Streams \ {s} : buf'[t] = buf[t]
        BY <2>0, <2>2 DEF StartTest, LoopIdle, IInv, StreamInv, StreamType
      <3> QED
        BY <3>1
    <2>3. ASSUME NEW s \in TestStreams, ArmGrid(s) PROVE Owned
      <3>1. tpc[s] = "idle" /\ \A t \in Streams \ {s} : buf'[t] = buf[t]
        BY <2>0, <2>3 DEF ArmGrid, StreamType
      <3> QED
        BY <3>1
    <2>4. ASSUME NEW s \in PingStreams, NEW n \in BlockSizes, StartPing(s, n) PROVE Owned
      <3>1. tpc[s] = "idle" /\ \A t \in Streams \ {s} : buf'[t] = buf[t]
        BY <2>0, <2>4 DEF StartPing, LoopIdle, IInv, StreamInv, StreamType
      <3> QED
        BY <3>1
    <2>5. ASSUME NEW s \in Streams, BeginStop(s) \/ FinishStop(s) PROVE Owned
      <3>1. (tpc[s] = "idle" \/ buf' = buf) /\ \A t \in Streams \ {s} : buf'[t] = buf[t]
        BY <2>0, <2>5 DEF BeginStop, FinishStop, CallbackIdle, StreamType
      <3> QED
        BY <3>1
    <2>6. ASSUME NEW s \in Streams, TimerFire(s) \/ CallbackStep(s) PROVE Owned
      <3>1. tpc'[s] = "idle" \/ buf' = buf
        BY <2>0, <2>6 DEF TimerFire, CallbackStep, TimerReadEpoch, TimerTake, TimerReadConfirmed, TimerSeal,
             TimerCheck, Leave, StreamType
      <3>2. \A t \in Streams \ {s} : buf'[t] = buf[t]
        BY <2>0, <2>6 DEF TimerFire, CallbackStep, TimerReadEpoch, TimerTake, TimerReadConfirmed, TimerSeal,
             TimerCheck, Leave, StreamType
      <3> QED
        BY <3>1, <3>2
    <2>7. CASE NodeStep \/ \E f \in queue : SendCopy(f)
      BY <2>7 DEF NodeStep, NodeLogin, NodeSend, SendCopy
    <2>8. CASE Reboot
      BY <2>8 DEF Reboot
    <2> HIDE DEF Owned
    <2> QED
      BY <2>1, <2>2, <2>3, <2>4, <2>5, <2>6, <2>7, <2>8 DEF Next, Running, StreamStep, TimerStep
  <1> QED
    BY <1>1, IInvHolds, PTL DEF Spec, BufferOwnership
=============================================================================
