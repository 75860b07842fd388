------------------------- MODULE AsyncHandler_proofs -------------------------
(***************************************************************************)
(* Proofs about AsyncHandler, for any number of records, workers and       *)
(* lifecycle calls, any queue and batch size and every drop mode; last,    *)
(* that it implements AsyncLog.                                            *)
(***************************************************************************)
EXTENDS AsyncRefinement, FiniteSetTheorems, TLAPS

USE DEF sendVars, gateVars, workVars, onceVars,
        lifeVars, fateVars, vars

-----------------------------------------------------------------------------
(* Type correctness.                                                       *)

(* What Receive, DrainBatch and DropOldest take off the queue.             *)
LEMMA HeadTail ==
    ASSUME queue \in Seq(Records), queue # <<>>
    PROVE  /\ Head(queue) \in Records
           /\ Tail(queue) \in Seq(Records)
    OBVIOUS

(* Settling a record keeps the types of the ledger.                        *)
LEMMA SettleTypes ==
    ASSUME FateTypes, NEW q \in Records, NEW f \in Fates, Settle(q, f)
    PROVE  FateTypes'
    BY DEF Settle, FateTypes

(* activeSends can count the active calls.                                 *)
LEMMA ActiveFinite == IsFiniteSet(ActiveCalls)
    BY FS_Subset, ConstantsAssumption DEF ActiveCalls

(* drainBatch's n starts at 1, which every batch size allows.              *)
LEMMA OneInBatch == 1 \in 1..BatchSize
    BY ConstantsAssumption

(* The initial state of newAsyncState is well typed.                       *)
LEMMA TypeInit == Init => TypeOK
<1> SUFFICES ASSUME Init PROVE TypeOK
    OBVIOUS
<1> USE ConstantsAssumption DEF Init
<1>1. SendTypes
    BY DEF SendTypes, CallStates
<1>2. GateTypes
    BY DEF GateTypes, GateStates
<1>3. WorkTypes
    BY OneInBatch DEF WorkTypes, WorkStates
<1>4. OnceTypes
    BY DEF OnceTypes, OnceStates, Nil
<1>5. LifeTypes
    BY DEF LifeTypes, LifeStates, Nil
<1>6. FateTypes
    BY DEF FateTypes, Fates
<1> QED
    BY <1>1, <1>2, <1>3, <1>4, <1>5, <1>6 DEF TypeOK

(* Every step of Handle, the workers, the gate and the lifecycle calls     *)
(* keeps the types; that endSend keeps activeSends from going below zero   *)
(* needs the count of the gate.                                            *)
LEMMA TypeStep == TypeOK /\ GateInv /\ WorkerInv /\ [Next]_vars => TypeOK'
<1> SUFFICES ASSUME TypeOK, GateInv, WorkerInv, [Next]_vars
             PROVE  TypeOK'
    OBVIOUS
<1> USE ConstantsAssumption DEF TypeOK
<1>1. ASSUME NEW r \in Records, BeginSend(r) PROVE TypeOK'
    <2>1. SendTypes'
        BY <1>1 DEF BeginSend, Settle, SendTypes, CallStates
    <2>2. FateTypes'
        BY <1>1 DEF BeginSend, Settle, FateTypes, Fates
    <2> QED
        BY <2>1, <2>2, <1>1 DEF BeginSend, GateTypes, WorkTypes, OnceTypes, LifeTypes
<1>2. ASSUME NEW r \in Records, CheckClosing(r) PROVE TypeOK'
    <2>1. SendTypes'
        BY <1>2 DEF CheckClosing, Settle, SendTypes, CallStates
    <2>2. FateTypes'
        BY <1>2 DEF CheckClosing, Settle, FateTypes, Fates
    <2> QED
        BY <2>1, <2>2, <1>2 DEF CheckClosing, GateTypes, WorkTypes, OnceTypes, LifeTypes
<1>3. ASSUME NEW r \in Records, Enqueue(r) PROVE TypeOK'
    <2>1. SendTypes'
        BY <1>3 DEF Enqueue, Settle, Sending, SendTypes, CallStates
    <2>2. FateTypes'
        BY <1>3 DEF Enqueue, Settle, Sending, FateTypes, Fates
    <2> QED
        BY <2>1, <2>2, <1>3 DEF Enqueue, GateTypes, WorkTypes, OnceTypes, LifeTypes
<1>4. ASSUME NEW r \in Records, GiveUp(r) PROVE TypeOK'
    <2>1. SendTypes'
        BY <1>4 DEF GiveUp, Settle, SendTypes, CallStates
    <2>2. FateTypes'
        BY <1>4 DEF GiveUp, Settle, FateTypes, Fates
    <2> QED
        BY <2>1, <2>2, <1>4 DEF GiveUp, GateTypes, WorkTypes, OnceTypes, LifeTypes
<1>5. ASSUME NEW r \in Records, QueueFull(r) PROVE TypeOK'
    <2>1. SendTypes'
        BY <1>5 DEF QueueFull, Settle, Sending, SendTypes, CallStates
    <2>2. FateTypes'
        BY <1>5 DEF QueueFull, Settle, Sending, FateTypes, Fates
    <2> QED
        BY <2>1, <2>2, <1>5 DEF QueueFull, GateTypes, WorkTypes, OnceTypes, LifeTypes
<1>6. ASSUME NEW r \in Records, DropOldest(r) PROVE TypeOK'
    <2>1. SendTypes'
        BY <1>6 DEF DropOldest, Settle, SendTypes, CallStates
    <2>2. FateTypes'
        <3>1. CASE queue # <<>>
            BY <3>1, HeadTail, SettleTypes, <1>6 DEF DropOldest, FateTypes, Fates, SendTypes
        <3>2. CASE ~(queue # <<>>)
            BY <3>2, <1>6 DEF DropOldest, FateTypes, Fates, SendTypes
        <3> QED
            BY <3>1, <3>2
    <2> QED
        BY <2>1, <2>2, <1>6 DEF DropOldest, GateTypes, WorkTypes, OnceTypes, LifeTypes
<1>7. ASSUME NEW r \in Records, EndSend(r) PROVE TypeOK'
    <2>1. SendTypes'
        <3>1. r \in ActiveCalls
            BY <1>7 DEF EndSend, Active, ActiveCalls
        <3>3. Cardinality(ActiveCalls) # 0 /\ Cardinality(ActiveCalls) \in Nat
            BY <3>1, ActiveFinite, FS_EmptySet, FS_CardinalityType
        <3>4. activeSends >= 1
            BY <3>3 DEF GateInv
        <3> QED
            BY <3>4, <1>7 DEF EndSend, SendTypes, CallStates
    <2>2. GateTypes'
        BY <1>7 DEF EndSend, GateTypes, GateStates
    <2> QED
        BY <2>1, <2>2, <1>7 DEF EndSend, WorkTypes, OnceTypes, LifeTypes, FateTypes
<1>8. ASSUME NEW w \in Workers, Receive(w) PROVE TypeOK'
    <2>1. SendTypes'
        BY <1>8 DEF Receive, SendTypes, CallStates
    <2>2. WorkTypes'
        BY <1>8, HeadTail, OneInBatch DEF Receive, SendTypes, WorkTypes, WorkStates
    <2> QED
        BY <2>1, <2>2, <1>8 DEF Receive, GateTypes, OnceTypes, LifeTypes, FateTypes
<1>9. ASSUME NEW w \in Workers, WorkerExit(w) PROVE TypeOK'
    <2>1. WorkTypes'
        BY <1>9 DEF WorkerExit, WorkTypes, WorkStates
    <2> QED
        BY <2>1, <1>9 DEF WorkerExit, SendTypes, GateTypes, OnceTypes, LifeTypes, FateTypes
<1>10. ASSUME NEW w \in Workers, ProcessItem(w) PROVE TypeOK'
    <2>1. WorkTypes'
        BY <1>10 DEF ProcessItem, Settle, WorkTypes, WorkStates
    <2>3. item[w] \in Records
        BY <1>10 DEF ProcessItem, WorkerInv, WorkTypes
    <2>2. FateTypes'
        BY <1>10, <2>3, SettleTypes DEF ProcessItem, FateTypes, Fates
    <2> QED
        BY <2>1, <2>2, <1>10 DEF ProcessItem, SendTypes, GateTypes, OnceTypes, LifeTypes
<1>11. ASSUME NEW w \in Workers, HandleItem(w) PROVE TypeOK'
    <2>1. WorkTypes'
        BY <1>11 DEF HandleItem, Settle, WorkTypes, WorkStates
    <2>3. item[w] \in Records
        BY <1>11 DEF HandleItem, WorkerInv, WorkTypes
    <2>2. FateTypes'
        <3>1. PICK f \in {"handled", "panicked"} : Settle(item[w], f)
            BY <1>11 DEF HandleItem
        <3> QED
            BY <3>1, <2>3, SettleTypes DEF Fates
    <2> QED
        BY <2>1, <2>2, <1>11 DEF HandleItem, SendTypes, GateTypes, OnceTypes, LifeTypes
<1>12. ASSUME NEW w \in Workers, DrainBatch(w) PROVE TypeOK'
    <2>1. SendTypes'
        <3>1. CASE batch[w] < BatchSize /\ queue # <<>>
            BY <3>1, HeadTail, <1>12 DEF DrainBatch, SendTypes
        <3>2. CASE ~(batch[w] < BatchSize /\ queue # <<>>)
            BY <3>2, <1>12 DEF DrainBatch, SendTypes
        <3> QED
            BY <3>1, <3>2
    <2>2. WorkTypes'
        <3>1. CASE batch[w] < BatchSize /\ queue # <<>>
            <4>1. batch[w] + 1 \in 1..BatchSize
                BY <3>1 DEF WorkTypes
            <4> QED
                BY <3>1, <4>1, HeadTail, <1>12 DEF DrainBatch, SendTypes, WorkTypes,
                   WorkStates
        <3>2. CASE ~(batch[w] < BatchSize /\ queue # <<>>)
            BY <3>2, <1>12 DEF DrainBatch, SendTypes, WorkTypes, WorkStates
        <3> QED
            BY <3>1, <3>2
    <2> QED
        BY <2>1, <2>2, <1>12 DEF DrainBatch, GateTypes, OnceTypes, LifeTypes, FateTypes
<1>13. ASSUME NEW r \in Records, NEW w \in Workers, Rendezvous(r, w) PROVE TypeOK'
    <2>1. SendTypes'
        BY <1>13 DEF Rendezvous, Sending, SendTypes, CallStates
    <2>2. WorkTypes'
        BY <1>13 DEF Rendezvous, Sending, WorkTypes, WorkStates
    <2> QED
        BY <2>1, <2>2, <1>13 DEF Rendezvous, GateTypes, OnceTypes, LifeTypes, FateTypes
<1>14. CASE WorkersDoneMonitor
    <2>1. WorkTypes'
        BY <1>14 DEF WorkersDoneMonitor, WorkTypes, WorkStates
    <2> QED
        BY <2>1, <1>14 DEF WorkersDoneMonitor, SendTypes, GateTypes, OnceTypes, LifeTypes, FateTypes
<1>15. CASE BeginClose
    <2>1. GateTypes'
        BY <1>15 DEF BeginClose, GateTypes, GateStates
    <2> QED
        BY <2>1, <1>15 DEF BeginClose, SendTypes, WorkTypes, OnceTypes, LifeTypes, FateTypes
<1>16. CASE EndClose
    <2>1. GateTypes'
        BY <1>16 DEF EndClose, GateTypes, GateStates
    <2> QED
        BY <2>1, <1>16 DEF EndClose, SendTypes, WorkTypes, OnceTypes, LifeTypes, FateTypes
<1>17. ASSUME NEW c \in Callers, Invoke(c) PROVE TypeOK'
    <2>1. LifeTypes'
        BY <1>17 DEF Invoke, Goto, LifeTypes, LifeStates, ErrorTags, Nil, AllOps
    <2> QED
        BY <2>1, <1>17 DEF Invoke, SendTypes, GateTypes, WorkTypes, OnceTypes, FateTypes
<1>18. ASSUME NEW c \in Callers, CloseOnce(c) PROVE TypeOK'
    <2>1. OnceTypes'
        BY <1>18 DEF CloseOnce, Goto, Return, OnceTypes, OnceStates, ErrorTags, Nil
    <2>2. LifeTypes'
        BY <1>18 DEF CloseOnce, Goto, Return, LifeTypes, OnceTypes, LifeStates, ErrorTags, Nil
    <2> QED
        BY <2>1, <2>2, <1>18 DEF CloseOnce, SendTypes, GateTypes, WorkTypes, FateTypes
<1>19. ASSUME NEW c \in Callers, StartShutdown(c) PROVE TypeOK'
    <2>1. GateTypes'
        BY <1>19 DEF StartShutdown, GateTypes, GateStates
    <2> QED
        BY <2>1, <1>19 DEF StartShutdown, SendTypes, WorkTypes, OnceTypes, LifeTypes, FateTypes
<1>20. ASSUME NEW c \in Callers, ShutdownStarted(c) PROVE TypeOK'
    <2>1. LifeTypes'
        BY <1>20 DEF ShutdownStarted, Goto, LifeTypes, LifeStates, ErrorTags, Nil, AllOps
    <2> QED
        BY <2>1, <1>20 DEF ShutdownStarted, SendTypes, GateTypes, WorkTypes, OnceTypes, FateTypes
<1>21. ASSUME NEW c \in Callers, FlushTimeout(c) PROVE TypeOK'
    <2>1. OnceTypes'
        BY <1>21 DEF FlushTimeout, Goto, Return, Finish, OnceTypes, OnceStates, ErrorTags, Nil
    <2>2. LifeTypes'
        BY <1>21 DEF FlushTimeout, Goto, Return, Finish, LifeTypes, LifeStates, ErrorTags, Nil, AllOps
    <2> QED
        BY <2>1, <2>2, <1>21 DEF FlushTimeout, SendTypes, GateTypes, WorkTypes, FateTypes
<1>22. ASSUME NEW c \in Callers, ShutdownReturns(c) PROVE TypeOK'
    <2>1. OnceTypes'
        BY <1>22 DEF ShutdownReturns, Goto, Return, Finish, OnceTypes, OnceStates, ErrorTags, Nil
    <2>2. LifeTypes'
        BY <1>22 DEF ShutdownReturns, Goto, Return, Finish, LifeTypes, OnceTypes, LifeStates, ErrorTags, Nil
    <2> QED
        BY <2>1, <2>2, <1>22 DEF ShutdownReturns, SendTypes, GateTypes, WorkTypes, FateTypes
<1>23. ASSUME NEW c \in Callers, StartAbort(c) PROVE TypeOK'
    <2>1. OnceTypes'
        BY <1>23 DEF StartAbort, Goto, OnceTypes, OnceStates, ErrorTags, Nil
    <2>2. LifeTypes'
        BY <1>23 DEF StartAbort, Goto, LifeTypes, LifeStates, ErrorTags, Nil, AllOps
    <2> QED
        BY <2>1, <2>2, <1>23 DEF StartAbort, SendTypes, GateTypes, WorkTypes, FateTypes
<1>24. ASSUME NEW c \in Callers, SpawnCoordinator(c) PROVE TypeOK'
    <2>1. OnceTypes'
        BY <1>24 DEF SpawnCoordinator, OnceTypes, OnceStates, ErrorTags, Nil
    <2>2. LifeTypes'
        BY <1>24 DEF SpawnCoordinator, LifeTypes, LifeStates, ErrorTags, Nil, AllOps
    <2> QED
        BY <2>1, <2>2, <1>24 DEF SpawnCoordinator, SendTypes, GateTypes, WorkTypes, FateTypes
<1>25. ASSUME NEW c \in Callers, AbortContext(c) PROVE TypeOK'
    <2>1. LifeTypes'
        BY <1>25 DEF AbortContext, Goto, Return, LifeTypes, OnceTypes, LifeStates, ErrorTags, Nil
    <2> QED
        BY <2>1, <1>25 DEF AbortContext, SendTypes, GateTypes, WorkTypes, OnceTypes, FateTypes
<1>26. ASSUME NEW p \in Callers \cup {Coordinator}, WaitWorkers(p) PROVE TypeOK'
    <2>1. LifeTypes'
        BY <1>26 DEF WaitWorkers, Goto, LifeTypes, LifeStates, ErrorTags, Nil, AllOps
    <2> QED
        BY <2>1, <1>26 DEF WaitWorkers, SendTypes, GateTypes, WorkTypes, OnceTypes, FateTypes
<1>27. ASSUME NEW p \in Callers \cup {Coordinator}, FinalizeClose(p) PROVE TypeOK'
    <2>1. OnceTypes'
        BY <1>27 DEF FinalizeClose, Goto, OnceTypes, OnceStates, ErrorTags, Nil
    <2>2. LifeTypes'
        BY <1>27 DEF FinalizeClose, Goto, LifeTypes, LifeStates, ErrorTags, Nil, AllOps
    <2> QED
        BY <2>1, <2>2, <1>27 DEF FinalizeClose, SendTypes, GateTypes, WorkTypes, FateTypes
<1>28. ASSUME NEW p \in Callers \cup {Coordinator}, CloserReturns(p) PROVE TypeOK'
    <2>1. OnceTypes'
        BY <1>28 DEF CloserReturns, Goto, OnceTypes, OnceStates, ErrorTags, Nil
    <2>2. LifeTypes'
        BY <1>28 DEF CloserReturns, Goto, LifeTypes, LifeStates, ErrorTags, Nil, AllOps
    <2> QED
        BY <2>1, <2>2, <1>28 DEF CloserReturns, SendTypes, GateTypes, WorkTypes, FateTypes
<1>29. CASE AbortDownstream
    <2>1. OnceTypes'
        BY <1>29 DEF AbortDownstream, Goto, OnceTypes, OnceStates, ErrorTags, Nil
    <2>2. LifeTypes'
        BY <1>29 DEF AbortDownstream, Goto, LifeTypes, LifeStates, ErrorTags, Nil, AllOps
    <2> QED
        BY <2>1, <2>2, <1>29 DEF AbortDownstream, SendTypes, GateTypes, WorkTypes, FateTypes
<1>30. CASE AbortDone
    <2>1. OnceTypes'
        BY <1>30 DEF AbortDone, Goto, OnceTypes, OnceStates, ErrorTags, Nil
    <2>2. LifeTypes'
        BY <1>30 DEF AbortDone, Goto, LifeTypes, LifeStates, ErrorTags, Nil, AllOps
    <2> QED
        BY <2>1, <2>2, <1>30 DEF AbortDone, SendTypes, GateTypes, WorkTypes, FateTypes
<1>31. CASE UNCHANGED vars
    BY <1>31 DEF SendTypes, GateTypes, WorkTypes, OnceTypes, LifeTypes,
       FateTypes
<1> QED
    BY <1>1, <1>2, <1>3, <1>4, <1>5, <1>6, <1>7, <1>8, <1>9, <1>10, <1>11,
       <1>12, <1>13, <1>14, <1>15, <1>16, <1>17, <1>18, <1>19, <1>20,
       <1>21, <1>22, <1>23, <1>24, <1>25, <1>26, <1>27, <1>28, <1>29,
       <1>30, <1>31 DEF Next, Handle, Worker, Caller, Finalizer, Terminated

-----------------------------------------------------------------------------
(* The gate.                                                               *)

(* beginSend, endSend, beginClose and endClose keep count, flags and gate  *)
(* position in step, and nothing else touches them.                        *)
LEMMA GateStep == TypeOK /\ GateInv /\ [Next]_vars => GateInv'
<1> SUFFICES ASSUME TypeOK, GateInv, [Next]_vars
             PROVE  GateInv'
    OBVIOUS
<1> USE ConstantsAssumption DEF TypeOK
<1>1. ASSUME NEW r \in Records, BeginSend(r) PROVE GateInv'
    <2>1. CASE closed
        <3>1. ActiveCalls' = ActiveCalls
            BY <2>1, <1>1 DEF BeginSend, Active, ActiveCalls, SendTypes
        <3> QED
            BY <2>1, <3>1, <1>1 DEF BeginSend, GateInv
    <2>2. CASE ~closed
        <3>1. ActiveCalls' = ActiveCalls \cup {r} /\ r \notin ActiveCalls
            BY <2>2, <1>1 DEF BeginSend, Active, ActiveCalls, SendTypes
        <3>2. Cardinality(ActiveCalls') = Cardinality(ActiveCalls) + 1
            BY <3>1, ActiveFinite, FS_AddElement
        <3> QED
            BY <2>2, <3>2, <1>1 DEF BeginSend, GateInv, GateTypes
    <2> QED
        BY <2>1, <2>2
<1>2. ASSUME NEW r \in Records, CheckClosing(r) PROVE GateInv'
    <2>1. ActiveCalls' = ActiveCalls
        BY <1>2 DEF CheckClosing, Settle, Active, ActiveCalls, SendTypes
    <2> QED
        BY <2>1, <1>2 DEF CheckClosing, GateInv
<1>3. ASSUME NEW r \in Records, Enqueue(r) PROVE GateInv'
    <2>1. ActiveCalls' = ActiveCalls
        BY <1>3 DEF Enqueue, Settle, Sending, Active, ActiveCalls, SendTypes
    <2> QED
        BY <2>1, <1>3 DEF Enqueue, GateInv
<1>4. ASSUME NEW r \in Records, GiveUp(r) PROVE GateInv'
    <2>1. ActiveCalls' = ActiveCalls
        BY <1>4 DEF GiveUp, Settle, Active, ActiveCalls, SendTypes
    <2> QED
        BY <2>1, <1>4 DEF GiveUp, GateInv
<1>5. ASSUME NEW r \in Records, QueueFull(r) PROVE GateInv'
    <2>1. ActiveCalls' = ActiveCalls
        BY <1>5 DEF QueueFull, Settle, Sending, Active, ActiveCalls, SendTypes
    <2> QED
        BY <2>1, <1>5 DEF QueueFull, GateInv
<1>6. ASSUME NEW r \in Records, DropOldest(r) PROVE GateInv'
    <2>1. ActiveCalls' = ActiveCalls
        BY <1>6 DEF DropOldest, Settle, Active, ActiveCalls, SendTypes
    <2> QED
        BY <2>1, <1>6 DEF DropOldest, GateInv
<1>7. ASSUME NEW r \in Records, EndSend(r) PROVE GateInv'
    <2>1. ActiveCalls' = ActiveCalls \ {r} /\ r \in ActiveCalls
        BY <1>7 DEF EndSend, Active, ActiveCalls, SendTypes
    <2>2. Cardinality(ActiveCalls') = Cardinality(ActiveCalls) - 1
        BY <2>1, ActiveFinite, FS_RemoveElement
    <2>3. Cardinality(ActiveCalls) # 0
        BY <2>1, ActiveFinite, FS_EmptySet
    <2> QED
        BY <2>2, <2>3, <1>7 DEF EndSend, GateInv, GateTypes
<1>8. ASSUME NEW w \in Workers, Receive(w) PROVE GateInv'
    BY <1>8 DEF Receive, GateInv, ActiveCalls, Active, GateTypes
<1>9. ASSUME NEW w \in Workers, WorkerExit(w) PROVE GateInv'
    BY <1>9 DEF WorkerExit, GateInv, ActiveCalls, Active, GateTypes
<1>10. ASSUME NEW w \in Workers, ProcessItem(w) PROVE GateInv'
    BY <1>10 DEF ProcessItem, Settle, GateInv, ActiveCalls, Active, GateTypes
<1>11. ASSUME NEW w \in Workers, HandleItem(w) PROVE GateInv'
    BY <1>11 DEF HandleItem, Settle, GateInv, ActiveCalls, Active, GateTypes
<1>12. ASSUME NEW w \in Workers, DrainBatch(w) PROVE GateInv'
    BY <1>12 DEF DrainBatch, GateInv, ActiveCalls, Active, GateTypes
<1>13. ASSUME NEW r \in Records, NEW w \in Workers, Rendezvous(r, w) PROVE GateInv'
    <2>1. ActiveCalls' = ActiveCalls
        BY <1>13 DEF Rendezvous, Sending, Active, ActiveCalls, SendTypes
    <2> QED
        BY <2>1, <1>13 DEF Rendezvous, GateInv
<1>14. CASE WorkersDoneMonitor
    BY <1>14 DEF WorkersDoneMonitor, GateInv, ActiveCalls, Active, GateTypes
<1>15. CASE BeginClose
    BY <1>15 DEF BeginClose, GateInv, ActiveCalls, Active, GateTypes, SendTypes
<1>16. CASE EndClose
    BY <1>16 DEF EndClose, GateInv, ActiveCalls, Active, GateTypes
<1>17. ASSUME NEW c \in Callers, Invoke(c) PROVE GateInv'
    BY <1>17 DEF Invoke, Goto, GateInv, ActiveCalls, Active, GateTypes
<1>18. ASSUME NEW c \in Callers, CloseOnce(c) PROVE GateInv'
    BY <1>18 DEF CloseOnce, Goto, Return, GateInv, ActiveCalls, Active, GateTypes
<1>19. ASSUME NEW c \in Callers, StartShutdown(c) PROVE GateInv'
    BY <1>19 DEF StartShutdown, GateInv, ActiveCalls, Active, GateTypes
<1>20. ASSUME NEW c \in Callers, ShutdownStarted(c) PROVE GateInv'
    BY <1>20 DEF ShutdownStarted, Goto, GateInv, ActiveCalls, Active, GateTypes
<1>21. ASSUME NEW c \in Callers, FlushTimeout(c) PROVE GateInv'
    BY <1>21 DEF FlushTimeout, Goto, Return, Finish, GateInv, ActiveCalls, Active, GateTypes
<1>22. ASSUME NEW c \in Callers, ShutdownReturns(c) PROVE GateInv'
    BY <1>22 DEF ShutdownReturns, Goto, Return, Finish, GateInv, ActiveCalls, Active, GateTypes
<1>23. ASSUME NEW c \in Callers, StartAbort(c) PROVE GateInv'
    BY <1>23 DEF StartAbort, Goto, GateInv, ActiveCalls, Active, GateTypes
<1>24. ASSUME NEW c \in Callers, SpawnCoordinator(c) PROVE GateInv'
    BY <1>24 DEF SpawnCoordinator, GateInv, ActiveCalls, Active, GateTypes
<1>25. ASSUME NEW c \in Callers, AbortContext(c) PROVE GateInv'
    BY <1>25 DEF AbortContext, Goto, Return, GateInv, ActiveCalls, Active, GateTypes
<1>26. ASSUME NEW p \in Callers \cup {Coordinator}, WaitWorkers(p) PROVE GateInv'
    BY <1>26 DEF WaitWorkers, Goto, GateInv, ActiveCalls, Active, GateTypes
<1>27. ASSUME NEW p \in Callers \cup {Coordinator}, FinalizeClose(p) PROVE GateInv'
    BY <1>27 DEF FinalizeClose, Goto, GateInv, ActiveCalls, Active, GateTypes
<1>28. ASSUME NEW p \in Callers \cup {Coordinator}, CloserReturns(p) PROVE GateInv'
    BY <1>28 DEF CloserReturns, Goto, GateInv, ActiveCalls, Active, GateTypes
<1>29. CASE AbortDownstream
    BY <1>29 DEF AbortDownstream, Goto, GateInv, ActiveCalls, Active, GateTypes
<1>30. CASE AbortDone
    BY <1>30 DEF AbortDone, Goto, GateInv, ActiveCalls, Active, GateTypes
<1>31. CASE UNCHANGED vars
    BY <1>31 DEF GateInv, ActiveCalls, Active
<1> QED
    BY <1>1, <1>2, <1>3, <1>4, <1>5, <1>6, <1>7, <1>8, <1>9, <1>10, <1>11,
       <1>12, <1>13, <1>14, <1>15, <1>16, <1>17, <1>18, <1>19, <1>20,
       <1>21, <1>22, <1>23, <1>24, <1>25, <1>26, <1>27, <1>28, <1>29,
       <1>30, <1>31 DEF Next, Handle, Worker, Caller, Finalizer, Terminated

(* When endClose has closed the queue, every call of Handle that the gate  *)
(* let in has returned.                                                    *)
LEMMA ClosedMeansIdle ==
    ASSUME TypeOK, GateInv, queueClosed
    PROVE  \A r \in Records : ~Active(r)
<1>1. Cardinality(ActiveCalls) = 0
    BY DEF GateInv
<1>2. ActiveCalls = {}
    BY <1>1, ActiveFinite, FS_EmptySet
<1> QED
    BY <1>2 DEF ActiveCalls

-----------------------------------------------------------------------------
(* The workers.                                                            *)

(* A worker exits only from a closed and empty queue, and a closed queue   *)
(* stays empty because the gate admits no further send.                    *)
LEMMA WorkerStep == TypeOK /\ GateInv /\ WorkerInv /\ [Next]_vars => WorkerInv'
<1> SUFFICES ASSUME TypeOK, GateInv, WorkerInv, [Next]_vars
             PROVE  WorkerInv'
    OBVIOUS
<1> USE ConstantsAssumption DEF TypeOK
<1>1. ASSUME NEW r \in Records, BeginSend(r) PROVE WorkerInv'
    BY <1>1 DEF BeginSend, WorkerInv
<1>2. ASSUME NEW r \in Records, CheckClosing(r) PROVE WorkerInv'
    BY <1>2 DEF CheckClosing, WorkerInv
<1>3. ASSUME NEW r \in Records, Enqueue(r) PROVE WorkerInv'
    <2>1. ~queueClosed
        BY <1>3, ClosedMeansIdle DEF Enqueue, Sending, Active
    <2> QED
        BY <2>1, <1>3 DEF Enqueue, WorkerInv
<1>4. ASSUME NEW r \in Records, GiveUp(r) PROVE WorkerInv'
    BY <1>4 DEF GiveUp, WorkerInv
<1>5. ASSUME NEW r \in Records, QueueFull(r) PROVE WorkerInv'
    BY <1>5 DEF QueueFull, WorkerInv
<1>6. ASSUME NEW r \in Records, DropOldest(r) PROVE WorkerInv'
    <2>1. ~queueClosed
        BY <1>6, ClosedMeansIdle DEF DropOldest, Active
    <2> QED
        BY <2>1, <1>6 DEF DropOldest, WorkerInv
<1>7. ASSUME NEW r \in Records, EndSend(r) PROVE WorkerInv'
    BY <1>7 DEF EndSend, WorkerInv
<1>8. ASSUME NEW w \in Workers, Receive(w) PROVE WorkerInv'
    <2>1. \A v \in Workers : wpc[v] # "exited"
        BY <1>8 DEF Receive, WorkerInv
    <2>2. Head(queue) # NoRecord
        BY <1>8, HeadTail DEF Receive, SendTypes
    <2> QED
        BY <2>1, <2>2, <1>8 DEF Receive, WorkerInv, WorkTypes
<1>9. ASSUME NEW w \in Workers, WorkerExit(w) PROVE WorkerInv'
    BY <1>9 DEF WorkerExit, WorkerInv, WorkTypes
<1>10. ASSUME NEW w \in Workers, ProcessItem(w) PROVE WorkerInv'
    BY <1>10 DEF ProcessItem, Settle, WorkerInv, WorkTypes
<1>11. ASSUME NEW w \in Workers, HandleItem(w) PROVE WorkerInv'
    BY <1>11 DEF HandleItem, Settle, WorkerInv, WorkTypes
<1>12. ASSUME NEW w \in Workers, DrainBatch(w) PROVE WorkerInv'
    <2>1. CASE batch[w] < BatchSize /\ queue # <<>>
        <3>1. \A v \in Workers : wpc[v] # "exited"
            BY <2>1 DEF WorkerInv
        <3>2. Head(queue) # NoRecord
            BY <2>1, HeadTail DEF SendTypes
        <3> QED
            BY <2>1, <3>1, <3>2, <1>12 DEF DrainBatch, WorkerInv, WorkTypes
    <2>2. CASE ~(batch[w] < BatchSize /\ queue # <<>>)
        BY <2>2, <1>12 DEF DrainBatch, WorkerInv, WorkTypes
    <2> QED
        BY <2>1, <2>2
<1>13. ASSUME NEW r \in Records, NEW w \in Workers, Rendezvous(r, w) PROVE WorkerInv'
    BY <1>13 DEF Rendezvous, Sending, WorkerInv, WorkTypes
<1>14. CASE WorkersDoneMonitor
    BY <1>14 DEF WorkersDoneMonitor, WorkerInv, WorkTypes
<1>15. CASE BeginClose
    BY <1>15 DEF BeginClose, WorkerInv
<1>16. CASE EndClose
    BY <1>16 DEF EndClose, WorkerInv
<1>17. ASSUME NEW c \in Callers, Invoke(c) PROVE WorkerInv'
    BY <1>17 DEF Invoke, WorkerInv
<1>18. ASSUME NEW c \in Callers, CloseOnce(c) PROVE WorkerInv'
    BY <1>18 DEF CloseOnce, WorkerInv
<1>19. ASSUME NEW c \in Callers, StartShutdown(c) PROVE WorkerInv'
    BY <1>19 DEF StartShutdown, WorkerInv
<1>20. ASSUME NEW c \in Callers, ShutdownStarted(c) PROVE WorkerInv'
    BY <1>20 DEF ShutdownStarted, WorkerInv
<1>21. ASSUME NEW c \in Callers, FlushTimeout(c) PROVE WorkerInv'
    BY <1>21 DEF FlushTimeout, WorkerInv
<1>22. ASSUME NEW c \in Callers, ShutdownReturns(c) PROVE WorkerInv'
    BY <1>22 DEF ShutdownReturns, WorkerInv
<1>23. ASSUME NEW c \in Callers, StartAbort(c) PROVE WorkerInv'
    BY <1>23 DEF StartAbort, WorkerInv
<1>24. ASSUME NEW c \in Callers, SpawnCoordinator(c) PROVE WorkerInv'
    BY <1>24 DEF SpawnCoordinator, WorkerInv
<1>25. ASSUME NEW c \in Callers, AbortContext(c) PROVE WorkerInv'
    BY <1>25 DEF AbortContext, WorkerInv
<1>26. ASSUME NEW p \in Callers \cup {Coordinator}, WaitWorkers(p) PROVE WorkerInv'
    BY <1>26 DEF WaitWorkers, WorkerInv
<1>27. ASSUME NEW p \in Callers \cup {Coordinator}, FinalizeClose(p) PROVE WorkerInv'
    BY <1>27 DEF FinalizeClose, WorkerInv
<1>28. ASSUME NEW p \in Callers \cup {Coordinator}, CloserReturns(p) PROVE WorkerInv'
    BY <1>28 DEF CloserReturns, WorkerInv
<1>29. CASE AbortDownstream
    BY <1>29 DEF AbortDownstream, WorkerInv
<1>30. CASE AbortDone
    BY <1>30 DEF AbortDone, WorkerInv
<1>31. CASE UNCHANGED vars
    BY <1>31 DEF WorkerInv
<1> QED
    BY <1>1, <1>2, <1>3, <1>4, <1>5, <1>6, <1>7, <1>8, <1>9, <1>10, <1>11,
       <1>12, <1>13, <1>14, <1>15, <1>16, <1>17, <1>18, <1>19, <1>20,
       <1>21, <1>22, <1>23, <1>24, <1>25, <1>26, <1>27, <1>28, <1>29,
       <1>30, <1>31 DEF Next, Handle, Worker, Caller, Finalizer, Terminated

-----------------------------------------------------------------------------
(* The ledger of fates.                                                    *)

(* One report gives a record one fate.                                     *)
LEMMA SettleFate ==
    ASSUME FateTypes, FateInv, NEW q \in Records, NEW f \in Fates \ {"none"},
           Settle(q, f)
    PROVE  FateInv'
    BY DEF Settle, FateTypes, FateInv

(* No step gives a record a fate without a report, or a report without a   *)
(* fate.                                                                   *)
LEMMA FateStep ==
    TypeOK /\ WorkerInv /\ FateInv /\ [Next]_vars => FateInv'
<1> SUFFICES ASSUME TypeOK, WorkerInv, FateInv, [Next]_vars
             PROVE  FateInv'
    OBVIOUS
<1> USE ConstantsAssumption DEF TypeOK
<1>1. ASSUME NEW r \in Records, BeginSend(r) PROVE FateInv'
    BY <1>1, SettleFate DEF BeginSend, FateInv, Fates
<1>2. ASSUME NEW r \in Records, CheckClosing(r) PROVE FateInv'
    BY <1>2, SettleFate DEF CheckClosing, FateInv, Fates
<1>3. ASSUME NEW r \in Records, Enqueue(r) PROVE FateInv'
    BY <1>3, SettleFate DEF Enqueue, FateInv, Fates
<1>4. ASSUME NEW r \in Records, GiveUp(r) PROVE FateInv'
    BY <1>4, SettleFate DEF GiveUp, FateInv, Fates
<1>5. ASSUME NEW r \in Records, QueueFull(r) PROVE FateInv'
    BY <1>5, SettleFate DEF QueueFull, FateInv, Fates
<1>6. ASSUME NEW r \in Records, DropOldest(r) PROVE FateInv'
    BY <1>6, SettleFate, HeadTail DEF DropOldest, FateInv, Fates, SendTypes
<1>7. ASSUME NEW r \in Records, EndSend(r) PROVE FateInv'
    BY <1>7 DEF EndSend, FateInv
<1>8. ASSUME NEW w \in Workers, Receive(w) PROVE FateInv'
    BY <1>8 DEF Receive, FateInv
<1>9. ASSUME NEW w \in Workers, WorkerExit(w) PROVE FateInv'
    BY <1>9 DEF WorkerExit, FateInv
<1>10. ASSUME NEW w \in Workers, ProcessItem(w) PROVE FateInv'
    <2>1. item[w] \in Records
        BY <1>10 DEF ProcessItem, WorkerInv, WorkTypes
    <2> QED
        BY <2>1, <1>10, SettleFate DEF ProcessItem, FateInv, Fates
<1>11. ASSUME NEW w \in Workers, HandleItem(w) PROVE FateInv'
    <2>1. item[w] \in Records
        BY <1>11 DEF HandleItem, WorkerInv, WorkTypes
    <2> QED
        BY <2>1, <1>11, SettleFate DEF HandleItem, FateInv, Fates
<1>12. ASSUME NEW w \in Workers, DrainBatch(w) PROVE FateInv'
    BY <1>12 DEF DrainBatch, FateInv
<1>13. ASSUME NEW r \in Records, NEW w \in Workers, Rendezvous(r, w) PROVE FateInv'
    BY <1>13 DEF Rendezvous, FateInv
<1>14. CASE WorkersDoneMonitor
    BY <1>14 DEF WorkersDoneMonitor, FateInv
<1>15. CASE BeginClose
    BY <1>15 DEF BeginClose, FateInv
<1>16. CASE EndClose
    BY <1>16 DEF EndClose, FateInv
<1>17. ASSUME NEW c \in Callers, Invoke(c) PROVE FateInv'
    BY <1>17 DEF Invoke, FateInv
<1>18. ASSUME NEW c \in Callers, CloseOnce(c) PROVE FateInv'
    BY <1>18 DEF CloseOnce, FateInv
<1>19. ASSUME NEW c \in Callers, StartShutdown(c) PROVE FateInv'
    BY <1>19 DEF StartShutdown, FateInv
<1>20. ASSUME NEW c \in Callers, ShutdownStarted(c) PROVE FateInv'
    BY <1>20 DEF ShutdownStarted, FateInv
<1>21. ASSUME NEW c \in Callers, FlushTimeout(c) PROVE FateInv'
    BY <1>21 DEF FlushTimeout, FateInv
<1>22. ASSUME NEW c \in Callers, ShutdownReturns(c) PROVE FateInv'
    BY <1>22 DEF ShutdownReturns, FateInv
<1>23. ASSUME NEW c \in Callers, StartAbort(c) PROVE FateInv'
    BY <1>23 DEF StartAbort, FateInv
<1>24. ASSUME NEW c \in Callers, SpawnCoordinator(c) PROVE FateInv'
    BY <1>24 DEF SpawnCoordinator, FateInv
<1>25. ASSUME NEW c \in Callers, AbortContext(c) PROVE FateInv'
    BY <1>25 DEF AbortContext, FateInv
<1>26. ASSUME NEW p \in Callers \cup {Coordinator}, WaitWorkers(p) PROVE FateInv'
    BY <1>26 DEF WaitWorkers, FateInv
<1>27. ASSUME NEW p \in Callers \cup {Coordinator}, FinalizeClose(p) PROVE FateInv'
    BY <1>27 DEF FinalizeClose, FateInv
<1>28. ASSUME NEW p \in Callers \cup {Coordinator}, CloserReturns(p) PROVE FateInv'
    BY <1>28 DEF CloserReturns, FateInv
<1>29. CASE AbortDownstream
    BY <1>29 DEF AbortDownstream, FateInv
<1>30. CASE AbortDone
    BY <1>30 DEF AbortDone, FateInv
<1>31. CASE UNCHANGED vars
    BY <1>31 DEF FateInv
<1> QED
    BY <1>1, <1>2, <1>3, <1>4, <1>5, <1>6, <1>7, <1>8, <1>9, <1>10, <1>11,
       <1>12, <1>13, <1>14, <1>15, <1>16, <1>17, <1>18, <1>19, <1>20,
       <1>21, <1>22, <1>23, <1>24, <1>25, <1>26, <1>27, <1>28, <1>29,
       <1>30, <1>31 DEF Next, Handle, Worker, Caller, Finalizer, Terminated

-----------------------------------------------------------------------------
(* The lifecycle calls.                                                    *)

(* Nobody passes waitWorkers before the workers are done, and an outcome   *)
(* that is justified stays so: once the workers are done, no worker is     *)
(* left to give a record to the abort.                                     *)
LEMMA LifeStep ==
    TypeOK /\ WorkerInv /\ LifeInv /\ [Next]_vars => LifeInv'
<1> SUFFICES ASSUME TypeOK, WorkerInv, LifeInv, [Next]_vars
             PROVE  LifeInv'
    OBVIOUS
<1> USE ConstantsAssumption DEF TypeOK
<1>1. ASSUME NEW r \in Records, BeginSend(r) PROVE LifeInv'
    BY <1>1 DEF BeginSend, Settle, LifeInv, Justified, NoAbortLoss, FateTypes
<1>2. ASSUME NEW r \in Records, CheckClosing(r) PROVE LifeInv'
    BY <1>2 DEF CheckClosing, Settle, LifeInv, Justified, NoAbortLoss, FateTypes
<1>3. ASSUME NEW r \in Records, Enqueue(r) PROVE LifeInv'
    BY <1>3 DEF Enqueue, Settle, Sending, LifeInv, Justified, NoAbortLoss, FateTypes
<1>4. ASSUME NEW r \in Records, GiveUp(r) PROVE LifeInv'
    BY <1>4 DEF GiveUp, Settle, LifeInv, Justified, NoAbortLoss, FateTypes
<1>5. ASSUME NEW r \in Records, QueueFull(r) PROVE LifeInv'
    BY <1>5 DEF QueueFull, Settle, Sending, LifeInv, Justified, NoAbortLoss, FateTypes
<1>6. ASSUME NEW r \in Records, DropOldest(r) PROVE LifeInv'
    BY <1>6 DEF DropOldest, Settle, LifeInv, Justified, NoAbortLoss, FateTypes
<1>7. ASSUME NEW r \in Records, EndSend(r) PROVE LifeInv'
    BY <1>7 DEF EndSend, LifeInv, Justified, NoAbortLoss
<1>8. ASSUME NEW w \in Workers, Receive(w) PROVE LifeInv'
    BY <1>8 DEF Receive, LifeInv, Justified, NoAbortLoss
<1>9. ASSUME NEW w \in Workers, WorkerExit(w) PROVE LifeInv'
    BY <1>9 DEF WorkerExit, LifeInv, Justified, NoAbortLoss
<1>10. ASSUME NEW w \in Workers, ProcessItem(w) PROVE LifeInv'
    <2>1. ~workersDone
        BY <1>10 DEF ProcessItem, WorkerInv
    <2> QED
        BY <2>1, <1>10 DEF ProcessItem, Settle, LifeInv, Justified, NoAbortLoss, FateTypes
<1>11. ASSUME NEW w \in Workers, HandleItem(w) PROVE LifeInv'
    BY <1>11 DEF HandleItem, Settle, LifeInv, Justified, NoAbortLoss, FateTypes
<1>12. ASSUME NEW w \in Workers, DrainBatch(w) PROVE LifeInv'
    BY <1>12 DEF DrainBatch, LifeInv, Justified, NoAbortLoss
<1>13. ASSUME NEW r \in Records, NEW w \in Workers, Rendezvous(r, w) PROVE LifeInv'
    BY <1>13 DEF Rendezvous, LifeInv, Justified, NoAbortLoss
<1>14. CASE WorkersDoneMonitor
    BY <1>14 DEF WorkersDoneMonitor, LifeInv, Justified, NoAbortLoss, WorkTypes
<1>15. CASE BeginClose
    BY <1>15 DEF BeginClose, LifeInv, Justified, NoAbortLoss
<1>16. CASE EndClose
    BY <1>16 DEF EndClose, LifeInv, Justified, NoAbortLoss
<1>17. ASSUME NEW c \in Callers, Invoke(c) PROVE LifeInv'
    BY <1>17 DEF Invoke, Goto, LifeInv, Justified, NoAbortLoss, LifeTypes, OnceTypes, Nil
<1>18. ASSUME NEW c \in Callers, CloseOnce(c) PROVE LifeInv'
    BY <1>18 DEF CloseOnce, Goto, Return, LifeInv, Justified, NoAbortLoss, LifeTypes, OnceTypes, Nil
<1>19. ASSUME NEW c \in Callers, StartShutdown(c) PROVE LifeInv'
    BY <1>19 DEF StartShutdown, LifeInv, Justified, NoAbortLoss, LifeTypes, OnceTypes, Nil
<1>20. ASSUME NEW c \in Callers, ShutdownStarted(c) PROVE LifeInv'
    BY <1>20 DEF ShutdownStarted, Goto, LifeInv, Justified, NoAbortLoss, LifeTypes, OnceTypes, Nil
<1>21. ASSUME NEW c \in Callers, FlushTimeout(c) PROVE LifeInv'
    BY <1>21 DEF FlushTimeout, Goto, Return, Finish, LifeInv, Justified, NoAbortLoss, LifeTypes, OnceTypes, Nil
<1>22. ASSUME NEW c \in Callers, ShutdownReturns(c) PROVE LifeInv'
    BY <1>22 DEF ShutdownReturns, Goto, Return, Finish, LifeInv, Justified, NoAbortLoss, LifeTypes, OnceTypes, Nil
<1>23. ASSUME NEW c \in Callers, StartAbort(c) PROVE LifeInv'
    BY <1>23 DEF StartAbort, Goto, LifeInv, Justified, NoAbortLoss, LifeTypes, OnceTypes, Nil
<1>24. ASSUME NEW c \in Callers, SpawnCoordinator(c) PROVE LifeInv'
    BY <1>24 DEF SpawnCoordinator, LifeInv, Justified, NoAbortLoss, LifeTypes, OnceTypes, Nil
<1>25. ASSUME NEW c \in Callers, AbortContext(c) PROVE LifeInv'
    BY <1>25 DEF AbortContext, Goto, Return, LifeInv, Justified, NoAbortLoss, LifeTypes, OnceTypes, Nil
<1>26. ASSUME NEW p \in Callers \cup {Coordinator}, WaitWorkers(p) PROVE LifeInv'
    BY <1>26 DEF WaitWorkers, Goto, LifeInv, Justified, NoAbortLoss, LifeTypes, OnceTypes, Nil
<1>27. ASSUME NEW p \in Callers \cup {Coordinator}, FinalizeClose(p) PROVE LifeInv'
    BY <1>27 DEF FinalizeClose, Goto, LifeInv, Justified, NoAbortLoss, LifeTypes, OnceTypes, Nil
<1>28. ASSUME NEW p \in Callers \cup {Coordinator}, CloserReturns(p) PROVE LifeInv'
    BY <1>28 DEF CloserReturns, Goto, LifeInv, Justified, NoAbortLoss, LifeTypes, OnceTypes, Nil
<1>29. CASE AbortDownstream
    BY <1>29 DEF AbortDownstream, Goto, LifeInv, Justified, NoAbortLoss, LifeTypes, OnceTypes, Nil
<1>30. CASE AbortDone
    BY <1>30 DEF AbortDone, Goto, LifeInv, Justified, NoAbortLoss, LifeTypes, OnceTypes, Nil
<1>31. CASE UNCHANGED vars
    BY <1>31 DEF LifeInv, Justified, NoAbortLoss
<1> QED
    BY <1>1, <1>2, <1>3, <1>4, <1>5, <1>6, <1>7, <1>8, <1>9, <1>10, <1>11,
       <1>12, <1>13, <1>14, <1>15, <1>16, <1>17, <1>18, <1>19, <1>20,
       <1>21, <1>22, <1>23, <1>24, <1>25, <1>26, <1>27, <1>28, <1>29,
       <1>30, <1>31 DEF Next, Handle, Worker, Caller, Finalizer, Terminated

-----------------------------------------------------------------------------
(* Conservation of records.                                                *)

(* A send adds one place in the queue.                                     *)
LEMMA AppendRecord ==
    ASSUME queue \in Seq(Records), QueueDistinct, NEW r \in Records,
           ~InQueue(r), queue' = Append(queue, r)
    PROVE  /\ QueueDistinct'
           /\ \A q \in Records : InQueue(q)' <=> InQueue(q) \/ q = r
<1>1. /\ Len(queue') = Len(queue) + 1
      /\ \A i \in 1..Len(queue) : queue'[i] = queue[i]
      /\ queue'[Len(queue) + 1] = r
    OBVIOUS
<1>2. Len(queue) \in Nat
    OBVIOUS
<1> QED
    BY <1>1, <1>2 DEF QueueDistinct, InQueue

(* A receive takes away the place of the oldest record, and only that.     *)
LEMMA RemoveHead ==
    ASSUME queue \in Seq(Records), queue # <<>>, QueueDistinct,
           queue' = Tail(queue)
    PROVE  /\ QueueDistinct'
           /\ InQueue(Head(queue))
           /\ \A q \in Records : InQueue(q)' <=> InQueue(q) /\ q # Head(queue)
<1>1. /\ Len(queue) \in Nat \ {0}
      /\ Len(queue') = Len(queue) - 1
      /\ \A i \in 1..Len(queue') : queue'[i] = queue[i + 1]
      /\ Head(queue) = queue[1]
    OBVIOUS
<1>2. QueueDistinct' /\ InQueue(Head(queue))
    BY <1>1 DEF QueueDistinct, InQueue
<1>3. ASSUME NEW q \in Records, InQueue(q)' PROVE InQueue(q) /\ q # Head(queue)
    BY <1>1, <1>3 DEF QueueDistinct, InQueue
<1>4. ASSUME NEW q \in Records, InQueue(q), q # Head(queue) PROVE InQueue(q)'
    <2>1. PICK i \in 1..Len(queue) : queue[i] = q
        BY <1>4 DEF InQueue
    <2>2. i - 1 \in 1..Len(queue') /\ queue'[i - 1] = q
        BY <1>1, <1>4, <2>1
    <2> QED
        BY <2>2 DEF InQueue
<1> QED
    BY <1>2, <1>3, <1>4

(* A worker that holds nothing takes a record that no worker holds.        *)
LEMMA TakeItem ==
    ASSUME item \in [Workers -> Records \cup {NoRecord}], HeldDistinct,
           NEW w \in Workers, NEW r \in Records, ~Held(r),
           item[w] = NoRecord, item' = [item EXCEPT ![w] = r]
    PROVE  /\ HeldDistinct'
           /\ \A q \in Records : Held(q)' <=> Held(q) \/ q = r
    BY ConstantsAssumption DEF HeldDistinct, Held

(* A worker is finished with the record it holds.                          *)
LEMMA GiveItem ==
    ASSUME item \in [Workers -> Records \cup {NoRecord}], HeldDistinct,
           NEW w \in Workers, item[w] \in Records,
           item' = [item EXCEPT ![w] = NoRecord]
    PROVE  /\ HeldDistinct'
           /\ \A q \in Records : Held(q)' <=> Held(q) /\ q # item[w]
    BY ConstantsAssumption DEF HeldDistinct, Held

(* A step that leaves the calls, the queue, the workers' hands and the     *)
(* reports alone moves no record.                                          *)
LEMMA NothingMoves ==
    ASSUME Conservation, UNCHANGED <<call, queue, item, reports>>
    PROVE  Conservation'
    BY DEF Conservation, QueueDistinct, HeldDistinct, OnePlace, InHand,
       InQueue, Held

(* Every step moves a record from one place to one other, or leaves it     *)
(* where it is.                                                            *)
LEMMA ConservationStep ==
    TypeOK /\ GateInv /\ WorkerInv /\ Conservation /\ [Next]_vars
        => Conservation'
<1> SUFFICES ASSUME TypeOK, GateInv, WorkerInv, Conservation, [Next]_vars
             PROVE  Conservation'
    OBVIOUS
<1> USE ConstantsAssumption DEF TypeOK
<1>1. ASSUME NEW r \in Records, BeginSend(r) PROVE Conservation'
    <2>1. /\ QueueDistinct' /\ HeldDistinct'
          /\ \A q \in Records : (InQueue(q)' <=> InQueue(q)) /\ (Held(q)' <=> Held(q))
        BY <1>1 DEF BeginSend, Conservation, QueueDistinct, HeldDistinct, InQueue,
           Held
    <2>2. ASSUME NEW q \in Records PROVE OnePlace(q)'
        <3>1. CASE closed
            BY <2>1, <3>1, <1>1 DEF BeginSend, Settle, Conservation, OnePlace,
               InHand, SendTypes, FateTypes
        <3>2. CASE ~closed
            BY <2>1, <3>2, <1>1 DEF BeginSend, Conservation, OnePlace, InHand,
               SendTypes
        <3> QED
            BY <3>1, <3>2
    <2> QED
        BY <2>1, <2>2 DEF Conservation
<1>2. ASSUME NEW r \in Records, CheckClosing(r) PROVE Conservation'
    BY <1>2 DEF CheckClosing, Settle, Conservation, QueueDistinct, HeldDistinct, OnePlace,
       InHand, InQueue, Held, SendTypes, FateTypes
<1>3. ASSUME NEW r \in Records, Enqueue(r) PROVE Conservation'
    <2>1. ~queueClosed
        BY <1>3, ClosedMeansIdle DEF Enqueue, Sending, Active
    <2>2. ~InQueue(r) /\ ~Held(r) /\ reports[r] = 0
        BY <1>3 DEF Enqueue, Sending, Conservation, OnePlace, InHand
    <2>3. /\ QueueDistinct'
          /\ \A q \in Records : InQueue(q)' <=> InQueue(q) \/ q = r
        BY <2>1, <2>2, <1>3, AppendRecord DEF Enqueue, Conservation, SendTypes
    <2>4. HeldDistinct' /\ \A q \in Records : Held(q)' <=> Held(q)
        BY <1>3 DEF Enqueue, Conservation, HeldDistinct, Held
    <2>5. ASSUME NEW q \in Records PROVE OnePlace(q)'
        BY <2>1, <2>2, <2>3, <2>4, <1>3
        DEF Enqueue, Sending, Conservation, OnePlace, InHand, SendTypes
    <2> QED
        BY <2>3, <2>4, <2>5 DEF Conservation
<1>4. ASSUME NEW r \in Records, GiveUp(r) PROVE Conservation'
    BY <1>4 DEF GiveUp, Settle, Conservation, QueueDistinct, HeldDistinct, OnePlace,
       InHand, InQueue, Held, SendTypes, FateTypes
<1>5. ASSUME NEW r \in Records, QueueFull(r) PROVE Conservation'
    BY <1>5 DEF QueueFull, Settle, Sending, Conservation, QueueDistinct, HeldDistinct, OnePlace,
       InHand, InQueue, Held, SendTypes, FateTypes
<1>6. ASSUME NEW r \in Records, DropOldest(r) PROVE Conservation'
    <2>1. CASE queue = <<>>
        BY <2>1, <1>6 DEF DropOldest, Conservation, QueueDistinct, HeldDistinct,
           OnePlace, InHand, InQueue, Held, SendTypes
    <2>2. CASE queue # <<>>
        <3> DEFINE h == Head(queue)
        <3>1. /\ QueueDistinct'
              /\ InQueue(h)
              /\ \A q \in Records : InQueue(q)' <=> InQueue(q) /\ q # h
            BY <2>2, <1>6, RemoveHead DEF DropOldest, Conservation, SendTypes
        <3>2. h \in Records
            BY <2>2, HeadTail DEF SendTypes
        <3>3. HeldDistinct' /\ \A q \in Records : Held(q)' <=> Held(q)
            BY <1>6 DEF DropOldest, Conservation, HeldDistinct, Held
        <3>4. /\ call[h] # "idle" /\ ~InHand(h)
              /\ ~Held(h) /\ reports[h] = 0
            BY <3>1, <3>2 DEF Conservation, OnePlace
        <3>5. ASSUME NEW q \in Records PROVE OnePlace(q)'
            <4>1. reports'[q] = IF q = h THEN 1 ELSE reports[q]
                BY <2>2, <3>2, <3>4, <1>6 DEF DropOldest, Settle, FateTypes
            <4>2. OnePlace(q)
                BY DEF Conservation
            <4>3. /\ (call[q] = "idle")' <=> call[q] = "idle"
                  /\ InHand(q)' <=> InHand(q)
                BY <1>6 DEF DropOldest, InHand, SendTypes
            <4> QED
                BY <3>1, <3>2, <3>3, <3>4, <4>1, <4>2, <4>3 DEF OnePlace
        <3> QED
            BY <3>1, <3>3, <3>5 DEF Conservation
    <2> QED
        BY <2>1, <2>2
<1>7. ASSUME NEW r \in Records, EndSend(r) PROVE Conservation'
    BY <1>7 DEF EndSend, Conservation, QueueDistinct, HeldDistinct, OnePlace,
       InHand, InQueue, Held, SendTypes, FateTypes
<1>8. ASSUME NEW w \in Workers, Receive(w) PROVE Conservation'
    <2>1. /\ QueueDistinct'
          /\ InQueue(Head(queue))
          /\ \A q \in Records : InQueue(q)' <=> InQueue(q) /\ q # Head(queue)
        BY <1>8, RemoveHead DEF Receive, Conservation, SendTypes
    <2>2. Head(queue) \in Records
        BY <1>8, HeadTail DEF Receive, SendTypes
    <2>3. ~Held(Head(queue)) /\ item[w] = NoRecord
        BY <2>1, <2>2, <1>8 DEF Receive, Conservation, OnePlace, WorkerInv
    <2>4. item' = [item EXCEPT ![w] = Head(queue)]
        BY <1>8 DEF Receive
    <2>5. /\ HeldDistinct'
          /\ \A q \in Records : Held(q)' <=> Held(q) \/ q = Head(queue)
        BY <2>2, <2>3, <2>4, TakeItem DEF Conservation, WorkTypes
    <2>6. ASSUME NEW q \in Records PROVE OnePlace(q)'
        BY <2>1, <2>2, <2>3, <2>5, <1>8 DEF Receive, Conservation, OnePlace, InHand
    <2> QED
        BY <2>1, <2>5, <2>6 DEF Conservation
<1>9. ASSUME NEW w \in Workers, WorkerExit(w) PROVE Conservation'
    BY <1>9, NothingMoves DEF WorkerExit
<1>10. ASSUME NEW w \in Workers, ProcessItem(w) PROVE Conservation'
    <2>1. CASE ~aborted
        BY <2>1, <1>10, NothingMoves DEF ProcessItem
    <2>2. CASE aborted
        <3>1. PICK f \in Fates : Settle(item[w], f)
            BY <1>10, <2>2 DEF ProcessItem, Fates
        <3>2. item[w] \in Records
            BY <1>10 DEF ProcessItem, WorkerInv, WorkTypes
        <3>3. item' = [item EXCEPT ![w] = NoRecord]
            BY <1>10, <2>2 DEF ProcessItem
        <3>4. /\ HeldDistinct'
              /\ \A q \in Records : Held(q)' <=> Held(q) /\ q # item[w]
            BY <3>2, <3>3, GiveItem DEF Conservation, WorkTypes
        <3>5. QueueDistinct' /\ \A q \in Records : InQueue(q)' <=> InQueue(q)
            BY <1>10 DEF ProcessItem, Conservation, QueueDistinct, InQueue
        <3>6. Held(item[w]) /\ reports[item[w]] = 0
            BY <3>2 DEF Held, Conservation, OnePlace
        <3>7. ASSUME NEW q \in Records PROVE OnePlace(q)'
            <4>1. reports'[q] = IF q = item[w] THEN 1 ELSE reports[q]
                BY <3>1, <3>2, <3>6 DEF Settle, FateTypes
            <4>2. OnePlace(q) /\ OnePlace(item[w])
                BY <3>2 DEF Conservation
            <4>3. call' = call
                BY <1>10 DEF ProcessItem
            <4> QED
                BY <3>4, <3>5, <3>6, <4>1, <4>2, <4>3 DEF OnePlace, InHand
        <3> QED
            BY <3>4, <3>5, <3>7 DEF Conservation
    <2> QED
        BY <2>1, <2>2
<1>11. ASSUME NEW w \in Workers, HandleItem(w) PROVE Conservation'
    <2>1. PICK f \in Fates : Settle(item[w], f)
        BY <1>11 DEF HandleItem, Fates
    <2>2. item[w] \in Records
        BY <1>11 DEF HandleItem, WorkerInv, WorkTypes
    <2>3. item' = [item EXCEPT ![w] = NoRecord]
        BY <1>11 DEF HandleItem
    <2>4. /\ HeldDistinct'
          /\ \A q \in Records : Held(q)' <=> Held(q) /\ q # item[w]
        BY <2>2, <2>3, GiveItem DEF Conservation, WorkTypes
    <2>5. QueueDistinct' /\ \A q \in Records : InQueue(q)' <=> InQueue(q)
        BY <1>11 DEF HandleItem, Conservation, QueueDistinct, InQueue
    <2>6. Held(item[w]) /\ reports[item[w]] = 0
        BY <2>2 DEF Held, Conservation, OnePlace
    <2>7. ASSUME NEW q \in Records PROVE OnePlace(q)'
        <3>1. reports'[q] = IF q = item[w] THEN 1 ELSE reports[q]
            BY <2>1, <2>2, <2>6 DEF Settle, FateTypes
        <3>2. OnePlace(q) /\ OnePlace(item[w])
            BY <2>2 DEF Conservation
        <3>3. call' = call
            BY <1>11 DEF HandleItem
        <3> QED
            BY <2>4, <2>5, <2>6, <3>1, <3>2, <3>3 DEF OnePlace, InHand
    <2> QED
        BY <2>4, <2>5, <2>7 DEF Conservation
<1>12. ASSUME NEW w \in Workers, DrainBatch(w) PROVE Conservation'
    <2>1. CASE batch[w] < BatchSize /\ queue # <<>>
        <3>1. /\ QueueDistinct'
              /\ InQueue(Head(queue))
              /\ \A q \in Records : InQueue(q)' <=> InQueue(q) /\ q # Head(queue)
            BY <2>1, <1>12, RemoveHead DEF DrainBatch, Conservation, SendTypes
        <3>2. Head(queue) \in Records
            BY <2>1, <1>12, HeadTail DEF DrainBatch, SendTypes
        <3>3. ~Held(Head(queue)) /\ item[w] = NoRecord
            BY <3>1, <3>2, <1>12 DEF DrainBatch, Conservation, OnePlace, WorkerInv
        <3>4. item' = [item EXCEPT ![w] = Head(queue)]
            BY <2>1, <1>12 DEF DrainBatch
        <3>5. /\ HeldDistinct'
              /\ \A q \in Records : Held(q)' <=> Held(q) \/ q = Head(queue)
            BY <3>2, <3>3, <3>4, TakeItem DEF Conservation, WorkTypes
        <3>6. ASSUME NEW q \in Records PROVE OnePlace(q)'
            BY <3>1, <3>2, <3>3, <3>5, <1>12 DEF DrainBatch, Conservation, OnePlace, InHand
        <3> QED
            BY <3>1, <3>5, <3>6 DEF Conservation
    <2>2. CASE ~(batch[w] < BatchSize /\ queue # <<>>)
        BY <2>2, <1>12, NothingMoves DEF DrainBatch
    <2> QED
        BY <2>1, <2>2
<1>13. ASSUME NEW r \in Records, NEW w \in Workers, Rendezvous(r, w) PROVE Conservation'
    <2>1. ~InQueue(r) /\ ~Held(r) /\ reports[r] = 0
        BY <1>13 DEF Rendezvous, Sending, Conservation, OnePlace, InHand
    <2>2. item[w] = NoRecord /\ item' = [item EXCEPT ![w] = r]
        BY <1>13 DEF Rendezvous, WorkerInv
    <2>3. /\ HeldDistinct'
          /\ \A q \in Records : Held(q)' <=> Held(q) \/ q = r
        BY <2>1, <2>2, TakeItem DEF Conservation, WorkTypes
    <2>4. QueueDistinct' /\ \A q \in Records : InQueue(q)' <=> InQueue(q)
        BY <1>13 DEF Rendezvous, Conservation, QueueDistinct, InQueue
    <2>5. ASSUME NEW q \in Records PROVE OnePlace(q)'
        BY <2>1, <2>3, <2>4, <1>13
        DEF Rendezvous, Sending, Conservation, OnePlace, InHand, SendTypes
    <2> QED
        BY <2>3, <2>4, <2>5 DEF Conservation
<1>14. CASE WorkersDoneMonitor
    BY <1>14, NothingMoves DEF WorkersDoneMonitor
<1>15. CASE BeginClose
    BY <1>15, NothingMoves DEF BeginClose
<1>16. CASE EndClose
    BY <1>16, NothingMoves DEF EndClose
<1>17. ASSUME NEW c \in Callers, Invoke(c) PROVE Conservation'
    BY <1>17, NothingMoves DEF Invoke
<1>18. ASSUME NEW c \in Callers, CloseOnce(c) PROVE Conservation'
    BY <1>18, NothingMoves DEF CloseOnce
<1>19. ASSUME NEW c \in Callers, StartShutdown(c) PROVE Conservation'
    BY <1>19, NothingMoves DEF StartShutdown
<1>20. ASSUME NEW c \in Callers, ShutdownStarted(c) PROVE Conservation'
    BY <1>20, NothingMoves DEF ShutdownStarted
<1>21. ASSUME NEW c \in Callers, FlushTimeout(c) PROVE Conservation'
    BY <1>21, NothingMoves DEF FlushTimeout
<1>22. ASSUME NEW c \in Callers, ShutdownReturns(c) PROVE Conservation'
    BY <1>22, NothingMoves DEF ShutdownReturns
<1>23. ASSUME NEW c \in Callers, StartAbort(c) PROVE Conservation'
    BY <1>23, NothingMoves DEF StartAbort
<1>24. ASSUME NEW c \in Callers, SpawnCoordinator(c) PROVE Conservation'
    BY <1>24, NothingMoves DEF SpawnCoordinator
<1>25. ASSUME NEW c \in Callers, AbortContext(c) PROVE Conservation'
    BY <1>25, NothingMoves DEF AbortContext
<1>26. ASSUME NEW p \in Callers \cup {Coordinator}, WaitWorkers(p) PROVE Conservation'
    BY <1>26, NothingMoves DEF WaitWorkers
<1>27. ASSUME NEW p \in Callers \cup {Coordinator}, FinalizeClose(p) PROVE Conservation'
    BY <1>27, NothingMoves DEF FinalizeClose
<1>28. ASSUME NEW p \in Callers \cup {Coordinator}, CloserReturns(p) PROVE Conservation'
    BY <1>28, NothingMoves DEF CloserReturns
<1>29. CASE AbortDownstream
    BY <1>29, NothingMoves DEF AbortDownstream
<1>30. CASE AbortDone
    BY <1>30, NothingMoves DEF AbortDone
<1>31. CASE UNCHANGED vars
    BY <1>31, NothingMoves
<1> QED
    BY <1>1, <1>2, <1>3, <1>4, <1>5, <1>6, <1>7, <1>8, <1>9, <1>10, <1>11,
       <1>12, <1>13, <1>14, <1>15, <1>16, <1>17, <1>18, <1>19, <1>20,
       <1>21, <1>22, <1>23, <1>24, <1>25, <1>26, <1>27, <1>28, <1>29,
       <1>30, <1>31 DEF Next, Handle, Worker, Caller, Finalizer, Terminated

-----------------------------------------------------------------------------
(* The theorems.                                                           *)

(* The inductive invariant holds initially.                                *)
LEMMA IInvInit == Init => IInv
<1> SUFFICES ASSUME Init PROVE IInv
    OBVIOUS
<1>1. TypeOK
    BY TypeInit
<1>2. GateInv
    <2>1. ActiveCalls = {}
        BY DEF Init, ActiveCalls, Active
    <2>2. Cardinality(ActiveCalls) = 0
        BY <2>1, FS_EmptySet
    <2> QED
        BY <2>2 DEF Init, GateInv
<1>3. WorkerInv
    BY DEF Init, WorkerInv
<1>4. LifeInv
    BY ConstantsAssumption DEF Init, LifeInv, NoAbortLoss
<1>5. FateInv
    BY DEF Init, FateInv
<1>6. Conservation
    BY ConstantsAssumption DEF Init, Conservation, QueueDistinct, HeldDistinct,
       OnePlace, InQueue, Held
<1> QED
    BY <1>1, <1>2, <1>3, <1>4, <1>5, <1>6 DEF IInv

(* Every step of the wrapper preserves the inductive invariant.            *)
LEMMA IInvStep == IInv /\ [Next]_vars => IInv'
    BY TypeStep, GateStep, WorkerStep, LifeStep, FateStep, ConservationStep
    DEF IInv

(* The states that Handle, the workers, Close, Shutdown and AbortContext   *)
(* reach together all satisfy the inductive invariant.                     *)
THEOREM Invariance == Spec => []IInv
    BY IInvInit, IInvStep, PTL DEF Spec

(* Type correctness: in every reachable state, and in particular whatever  *)
(* the interleaving of endSend with beginClose, activeSends is a natural.  *)
THEOREM TypeCorrect == Spec => []TypeOK
<1>1. IInv => TypeOK
    BY DEF IInv
<1> QED
    BY <1>1, Invariance, PTL

(* No call of Handle can send on the queue that endClose has closed.       *)
THEOREM GateIsSafe == Spec => []NoSendOnClosedQueue
<1>1. IInv => NoSendOnClosedQueue
    BY ClosedMeansIdle DEF IInv, NoSendOnClosedQueue
<1> QED
    BY <1>1, Invariance, PTL

(* Every record handed to Handle is in exactly one place, or has been      *)
(* delivered or reported as dropped exactly once.                          *)
THEOREM RecordsConserved == Spec => []Conservation
<1>1. IInv => Conservation
    BY DEF IInv
<1> QED
    BY <1>1, Invariance, PTL

(* The inner handler is closed after the last of its Handle calls.         *)
THEOREM CloserIsLast == Spec => []CloserRunsLast
<1>1. ASSUME IInv, finalizeOnce # "new"
      PROVE  /\ queue = <<>>
             /\ \A w \in Workers : wpc[w] = "exited"
             /\ \A r \in Records : ~Active(r)
    <2>1. queueClosed /\ \A w \in Workers : wpc[w] = "exited"
        BY <1>1 DEF IInv, LifeInv, WorkerInv
    <2>2. queue = <<>>
        BY <1>1, <2>1, ConstantsAssumption DEF IInv, WorkerInv
    <2> QED
        BY <1>1, <2>1, <2>2, ClosedMeansIdle DEF IInv
<1>2. IInv => CloserRunsLast
    BY <1>1 DEF CloserRunsLast
<1> QED
    BY <1>2, Invariance, PTL

(* A lifecycle call that returns without having run out of time has seen   *)
(* the inner handler closed and every record taken in settled.             *)
THEOREM ReturnIsDrained == Spec => []ReturnMeansDrained
<1>1. ASSUME IInv, finalizeOnce = "done", NEW r \in Records, call[r] # "idle"
      PROVE  fate[r] # "none"
    <2>1. queueClosed /\ \A w \in Workers : wpc[w] = "exited"
        BY <1>1 DEF IInv, LifeInv, WorkerInv
    <2>2. ~InQueue(r)
        BY <1>1, <2>1, ConstantsAssumption DEF IInv, WorkerInv, InQueue
    <2>3. ~Held(r)
        BY <1>1, <2>1, ConstantsAssumption DEF IInv, WorkerInv, Held
    <2>4. ~Active(r)
        BY <1>1, <2>1, ClosedMeansIdle DEF IInv
    <2>5. ~InHand(r)
        BY <2>4 DEF Active, InHand
    <2>6. reports[r] = 1
        BY <1>1, <2>2, <2>3, <2>5 DEF IInv, Conservation, OnePlace
    <2> QED
        BY <1>1, <2>6 DEF IInv, FateInv
<1>2. IInv => ReturnMeansDrained
    BY <1>1 DEF ReturnMeansDrained, IInv, LifeInv, Justified
<1> QED
    BY <1>2, Invariance, PTL

(* A lifecycle call that returns nil has lost no record to an abort.       *)
THEOREM NilIsLossless == Spec => []NilMeansNoAbortDrop
<1>1. IInv => NilMeansNoAbortDrop
    BY DEF NilMeansNoAbortDrop, IInv, LifeInv, Justified, NoAbortLoss
<1> QED
    BY <1>1, Invariance, PTL

-----------------------------------------------------------------------------
(* Refinement.  AsyncHandler implements AsyncLog: the initial states map   *)
(* to initial states, and under IInv every step maps to a step of AsyncLog *)
(* or to a stutter.  BeginSend accepts or refuses a record, the steps that *)
(* settle one deliver or drop it, StartShutdown closes, FinalizeClose      *)
(* closes the inner handler, and all other steps are invisible.            *)

Status == [r \in Records |-> StatusOf(r)]

(* What AsyncLog sees of a record depends on whether Handle was called for *)
(* it and on its fate.                                                     *)
LEMMA Invisible ==
    ASSUME \A r \in Records : call'[r] = "idle" <=> call[r] = "idle",
           UNCHANGED <<fate, closed, finalizeOnce>>
    PROVE  UNCHANGED Log!logVars
<1>1. \A r \in Records : StatusOf(r)' = StatusOf(r)
    BY DEF StatusOf
<1>2. Phase' = Phase
    BY DEF Phase
<1> QED
    BY <1>1, <1>2 DEF Log!logVars

(* Before the inner handler's Close, the wrapper is not closed to AsyncLog.*)
LEMMA NotClosed ==
    ASSUME TypeOK, finalizeOnce = "new"
    PROVE  Phase # "closed"
    BY DEF Phase

(* Settling a pending record delivers or drops it.                         *)
LEMMA SettlePending ==
    ASSUME TypeOK, finalizeOnce = "new", NEW q \in Records,
           NEW f \in Fates \ {"none"},
           fate[q] = "none", call[q] # "idle", Settle(q, f),
           \A r \in Records : call'[r] = "idle" <=> call[r] = "idle",
           UNCHANGED <<closed, finalizeOnce>>
    PROVE  Log!Next
<1>1. StatusOf(q) = "accepted"
    BY DEF StatusOf
<1>2. \A r \in Records \ {q} : StatusOf(r)' = StatusOf(r)
    BY DEF StatusOf, Settle, TypeOK, FateTypes
<1>3. StatusOf(q)' = IF f = "handled" THEN "handled" ELSE "dropped"
    BY DEF StatusOf, Settle, TypeOK, FateTypes
<1>4. Phase' = Phase /\ Phase # "closed"
    BY NotClosed DEF Phase
<1>5. CASE f = "handled"
    <2>1. Status' = [Status EXCEPT ![q] = "handled"]
        BY <1>2, <1>3, <1>5 DEF Status
    <2> QED
        BY <1>1, <1>4, <2>1 DEF Status, Log!Next, Log!Deliver, Log!Become
<1>6. CASE f # "handled"
    <2>1. Status' = [Status EXCEPT ![q] = "dropped"]
        BY <1>2, <1>3, <1>6 DEF Status
    <2> QED
        BY <1>1, <1>4, <2>1 DEF Status, Log!Next, Log!Drop, Log!Become
<1> QED
    BY <1>5, <1>6

(* A record in the hands of its call of Handle is pending, and so is the   *)
(* wrapper's inner handler.                                                *)
LEMMA HandPending ==
    ASSUME IInv, NEW r \in Records, InHand(r)
    PROVE  fate[r] = "none" /\ call[r] # "idle" /\ finalizeOnce = "new"
<1>1. fate[r] = "none"
    BY DEF IInv, Conservation, OnePlace, FateInv
<1>2. Active(r) /\ call[r] # "idle"
    BY DEF InHand, Active
<1>3. finalizeOnce # "new" => queueClosed
    BY DEF IInv, LifeInv, WorkerInv
<1> QED
    BY <1>1, <1>2, <1>3, ClosedMeansIdle DEF IInv

(* The oldest record in the queue is pending.                              *)
LEMMA HeadPending ==
    ASSUME IInv, queue # <<>>
    PROVE  /\ Head(queue) \in Records
           /\ fate[Head(queue)] = "none"
           /\ call[Head(queue)] # "idle"
<1>1. queue \in Seq(Records)
    BY DEF IInv, TypeOK, SendTypes
<1>2. Head(queue) \in Records
    BY <1>1, HeadTail
<1>3. InQueue(Head(queue))
    BY <1>1, SMT DEF InQueue
<1> QED
    BY <1>2, <1>3 DEF IInv, Conservation, OnePlace, FateInv

(* The record a worker works on is pending.                                *)
LEMMA ItemPending ==
    ASSUME IInv, NEW w \in Workers, wpc[w] \in {"got", "handle"}
    PROVE  /\ item[w] \in Records
           /\ fate[item[w]] = "none"
           /\ call[item[w]] # "idle"
           /\ finalizeOnce = "new"
<1>1. item[w] \in Records
    BY DEF IInv, TypeOK, WorkTypes, WorkerInv
<1>2. Held(item[w])
    BY DEF Held
<1>3. finalizeOnce = "new"
    BY DEF IInv, LifeInv, WorkerInv
<1> QED
    BY <1>1, <1>2, <1>3 DEF IInv, Conservation, OnePlace, FateInv

(* The initial state of newAsyncState is an initial state of AsyncLog.     *)
LEMMA LogInit == Init => Log!Init
<1> SUFFICES ASSUME Init PROVE Log!Init
    OBVIOUS
<1>1. \A r \in Records : StatusOf(r) = "new"
    BY DEF Init, StatusOf
<1>2. Phase = "open"
    BY DEF Init, Phase
<1> QED
    BY <1>1, <1>2 DEF Log!Init

(* BeginSend takes a record in, or refuses it once closing has begun.      *)
LEMMA LogBeginSend ==
    ASSUME IInv, NEW r \in Records, BeginSend(r)
    PROVE  Log!Next
<1>1. call[r] = "idle" /\ fate[r] = "none"
    BY DEF BeginSend, IInv, Conservation, OnePlace, FateInv
<1>2. StatusOf(r) = "new"
    BY <1>1 DEF StatusOf
<1>3. \A q \in Records \ {r} : StatusOf(q)' = StatusOf(q)
    BY DEF StatusOf, BeginSend, Settle, IInv, TypeOK, FateTypes, SendTypes,
       fateVars
<1>4. Phase' = Phase
    BY DEF Phase, BeginSend, onceVars, gateVars
<1>5. CASE closed
    <2>1. StatusOf(r)' = "dropped"
        BY <1>5 DEF StatusOf, BeginSend, Settle, IInv, TypeOK, FateTypes
    <2>2. Status' = [Status EXCEPT ![r] = "dropped"]
        BY <1>3, <2>1 DEF Status
    <2>3. Phase # "open"
        BY <1>5 DEF Phase
    <2> QED
        BY <1>2, <1>4, <2>2, <2>3 DEF Status, Log!Next, Log!Refuse, Log!Become
<1>6. CASE ~closed
    <2>1. StatusOf(r)' = "accepted"
        BY <1>1, <1>6 DEF StatusOf, BeginSend, IInv, TypeOK, SendTypes, fateVars
    <2>2. Status' = [Status EXCEPT ![r] = "accepted"]
        BY <1>3, <2>1 DEF Status
    <2>3. finalizeOnce = "new"
        BY <1>6 DEF IInv, GateInv, LifeInv, WorkerInv
    <2>4. Phase = "open"
        BY <1>6, <2>3 DEF Phase
    <2> QED
        BY <1>2, <1>4, <2>2, <2>4 DEF Status, Log!Next, Log!Accept, Log!Become
<1> QED
    BY <1>5, <1>6 DEF BeginSend

(* StartShutdown begins the closing.                                       *)
LEMMA LogStartShutdown ==
    ASSUME IInv, NEW c \in Callers, StartShutdown(c)
    PROVE  Log!Next
<1>1. gate = "new" /\ ~closed /\ ~queueClosed
    BY DEF StartShutdown, IInv, GateInv
<1>2. finalizeOnce = "new" /\ finalizeOnce' = "new"
    BY <1>1 DEF StartShutdown, IInv, LifeInv, WorkerInv, onceVars
<1>3. Phase = "open" /\ Phase' = "closing"
    BY <1>1, <1>2 DEF Phase, StartShutdown
<1>4. \A r \in Records : StatusOf(r)' = StatusOf(r)
    BY DEF StatusOf, StartShutdown, sendVars, fateVars
<1> QED
    BY <1>3, <1>4 DEF Log!Next, Log!Close

(* FinalizeClose closes the inner handler when nothing is pending.         *)
LEMMA LogFinalizeClose ==
    ASSUME IInv, NEW p \in Callers \cup {Coordinator}, FinalizeClose(p)
    PROVE  Log!Next
<1>1. workersDone /\ finalizeOnce = "new"
    BY DEF FinalizeClose, IInv, LifeInv
<1>2. queueClosed /\ \A w \in Workers : wpc[w] = "exited"
    BY <1>1 DEF IInv, WorkerInv
<1>3. queue = <<>>
    BY <1>2, ConstantsAssumption DEF IInv, WorkerInv
<1>4. ASSUME NEW r \in Records
      PROVE  StatusOf(r) # "accepted"
    <2>1. ~InQueue(r)
        BY <1>3 DEF InQueue
    <2>2. ~Held(r)
        BY <1>2, ConstantsAssumption DEF IInv, WorkerInv, Held
    <2>3. ~InHand(r)
        BY <1>2, ClosedMeansIdle DEF IInv, InHand, Active
    <2>4. call[r] # "idle" => fate[r] # "none"
        BY <2>1, <2>2, <2>3 DEF IInv, Conservation, OnePlace, FateInv
    <2> QED
        BY <2>4 DEF StatusOf
<1>5. closed
    BY <1>2 DEF IInv, GateInv
<1>6. Phase = "closing" /\ Phase' = "closed"
    BY <1>1, <1>5 DEF Phase, FinalizeClose
<1>7. \A r \in Records : StatusOf(r)' = StatusOf(r)
    BY DEF StatusOf, FinalizeClose, sendVars, fateVars
<1> QED
    BY <1>4, <1>6, <1>7 DEF Log!Next, Log!CloseInner

(* Every step of the wrapper is a step of AsyncLog or a stutter.           *)
LEMMA LogStep == IInv /\ [Next]_vars => [Log!Next]_Log!logVars
<1> SUFFICES ASSUME IInv, [Next]_vars
             PROVE  Log!Next \/ UNCHANGED Log!logVars
    OBVIOUS
<1> DEFINE Shown == Log!Next \/ UNCHANGED Log!logVars
<1>0. TypeOK /\ call \in [Records -> CallStates]
    BY DEF IInv, TypeOK, SendTypes
<1> USE DEF onceVars, gateVars, sendVars, fateVars
<1>1. ASSUME NEW r \in Records, BeginSend(r) PROVE Shown
    BY <1>1, LogBeginSend
<1>2. ASSUME NEW r \in Records, CheckClosing(r) PROVE Shown
    <2>1. /\ \A q \in Records : call'[q] = "idle" <=> call[q] = "idle"
          /\ UNCHANGED <<closed, finalizeOnce>>
          /\ InHand(r)
        BY <1>0, <1>2 DEF CheckClosing, InHand
    <2>2. CASE closingCh
        BY <1>0, <1>2, <2>1, <2>2, HandPending, SettlePending
        DEF CheckClosing, Fates
    <2>3. CASE ~closingCh
        BY <1>2, <2>1, <2>3, Invisible DEF CheckClosing
    <2> QED
        BY <2>2, <2>3
<1>3. ASSUME NEW r \in Records, Enqueue(r) PROVE Shown
    <2>1. /\ \A q \in Records : call'[q] = "idle" <=> call[q] = "idle"
          /\ UNCHANGED <<closed, finalizeOnce>>
          /\ Active(r)
        BY <1>0, <1>3 DEF Enqueue, Sending, Active
    <2>2. ~queueClosed
        BY <2>1, ClosedMeansIdle DEF IInv
    <2> QED
        BY <1>3, <2>1, <2>2, Invisible DEF Enqueue
<1>4. ASSUME NEW r \in Records, GiveUp(r) PROVE Shown
    <2>1. /\ \A q \in Records : call'[q] = "idle" <=> call[q] = "idle"
          /\ UNCHANGED <<closed, finalizeOnce>>
          /\ InHand(r)
        BY <1>0, <1>4 DEF GiveUp, InHand
    <2> QED
        BY <1>0, <1>4, <2>1, HandPending, SettlePending DEF GiveUp, Fates
<1>5. ASSUME NEW r \in Records, QueueFull(r) PROVE Shown
    <2>1. /\ \A q \in Records : call'[q] = "idle" <=> call[q] = "idle"
          /\ UNCHANGED <<closed, finalizeOnce>>
          /\ InHand(r)
        BY <1>0, <1>5 DEF QueueFull, Sending, InHand
    <2>2. CASE DropMode = "drop_oldest" /\ call[r] = "send"
        BY <1>5, <2>1, <2>2, Invisible DEF QueueFull
    <2>3. CASE ~(DropMode = "drop_oldest" /\ call[r] = "send")
        BY <1>0, <1>5, <2>1, <2>3, HandPending, SettlePending
        DEF QueueFull, Fates
    <2> QED
        BY <2>2, <2>3
<1>6. ASSUME NEW r \in Records, DropOldest(r) PROVE Shown
    <2>1. /\ \A q \in Records : call'[q] = "idle" <=> call[q] = "idle"
          /\ UNCHANGED <<closed, finalizeOnce>>
          /\ InHand(r)
        BY <1>0, <1>6 DEF DropOldest, InHand
    <2>2. CASE queue = <<>>
        BY <1>6, <2>1, <2>2, Invisible DEF DropOldest
    <2>3. CASE queue # <<>>
        BY <1>0, <1>6, <2>1, <2>3, HandPending, HeadPending, SettlePending
        DEF DropOldest, Fates
    <2> QED
        BY <2>2, <2>3
<1>7. ASSUME NEW r \in Records, EndSend(r) PROVE Shown
    BY <1>0, <1>7, Invisible DEF EndSend
<1>8. ASSUME NEW w \in Workers, Receive(w) PROVE Shown
    BY <1>8, Invisible DEF Receive
<1>9. ASSUME NEW w \in Workers, WorkerExit(w) PROVE Shown
    BY <1>9, Invisible DEF WorkerExit
<1>10. ASSUME NEW w \in Workers, ProcessItem(w) PROVE Shown
    <2>1. UNCHANGED <<call, closed, finalizeOnce>> /\ wpc[w] = "got"
        BY <1>10 DEF ProcessItem
    <2>2. CASE aborted
        BY <1>0, <1>10, <2>1, <2>2, ItemPending, SettlePending
        DEF ProcessItem, Fates
    <2>3. CASE ~aborted
        BY <1>10, <2>1, <2>3, Invisible DEF ProcessItem
    <2> QED
        BY <2>2, <2>3
<1>11. ASSUME NEW w \in Workers, HandleItem(w) PROVE Shown
    <2>1. UNCHANGED <<call, closed, finalizeOnce>> /\ wpc[w] = "handle"
        BY <1>11 DEF HandleItem
    <2>2. PICK f \in {"handled", "panicked"} : Settle(item[w], f)
        BY <1>11 DEF HandleItem
    <2> QED
        BY <1>0, <2>1, <2>2, ItemPending, SettlePending DEF Fates
<1>12. ASSUME NEW w \in Workers, DrainBatch(w) PROVE Shown
    BY <1>12, Invisible DEF DrainBatch
<1>13. ASSUME NEW r \in Records, NEW w \in Workers, Rendezvous(r, w)
       PROVE  Shown
    BY <1>0, <1>13, Invisible DEF Rendezvous, Sending
<1>14. CASE WorkersDoneMonitor
    BY <1>14, Invisible DEF WorkersDoneMonitor
<1>15. CASE BeginClose
    BY <1>15, Invisible DEF BeginClose
<1>16. CASE EndClose
    BY <1>16, Invisible DEF EndClose
<1>17. ASSUME NEW c \in Callers, Invoke(c) PROVE Shown
    BY <1>17, Invisible DEF Invoke
<1>18. ASSUME NEW c \in Callers, CloseOnce(c) PROVE Shown
    BY <1>18, Invisible DEF CloseOnce
<1>19. ASSUME NEW c \in Callers, StartShutdown(c) PROVE Shown
    BY <1>19, LogStartShutdown
<1>20. ASSUME NEW c \in Callers, ShutdownStarted(c) PROVE Shown
    BY <1>20, Invisible DEF ShutdownStarted
<1>21. ASSUME NEW c \in Callers, FlushTimeout(c) PROVE Shown
    BY <1>21, Invisible DEF FlushTimeout
<1>22. ASSUME NEW c \in Callers, ShutdownReturns(c) PROVE Shown
    BY <1>22, Invisible DEF ShutdownReturns
<1>23. ASSUME NEW c \in Callers, StartAbort(c) PROVE Shown
    BY <1>23, Invisible DEF StartAbort
<1>24. ASSUME NEW c \in Callers, SpawnCoordinator(c) PROVE Shown
    BY <1>24, Invisible DEF SpawnCoordinator
<1>25. ASSUME NEW c \in Callers, AbortContext(c) PROVE Shown
    BY <1>25, Invisible DEF AbortContext
<1>26. ASSUME NEW p \in Callers \cup {Coordinator}, WaitWorkers(p) PROVE Shown
    BY <1>26, Invisible DEF WaitWorkers
<1>27. ASSUME NEW p \in Callers \cup {Coordinator}, FinalizeClose(p) PROVE Shown
    BY <1>27, LogFinalizeClose
<1>28. ASSUME NEW p \in Callers \cup {Coordinator}, CloserReturns(p) PROVE Shown
    <2>1. finalizeOnce # "new" /\ finalizeOnce' # "new"
        BY <1>28 DEF CloserReturns, IInv, LifeInv
    <2>2. Phase' = Phase
        BY <2>1 DEF Phase
    <2>3. \A r \in Records : StatusOf(r)' = StatusOf(r)
        BY <1>28 DEF CloserReturns, StatusOf
    <2> QED
        BY <2>2, <2>3 DEF Log!logVars
<1>29. CASE AbortDownstream
    BY <1>29, Invisible DEF AbortDownstream
<1>30. CASE AbortDone
    BY <1>30, Invisible DEF AbortDone
<1>31. CASE UNCHANGED vars
    BY <1>31, Invisible DEF vars
<1> QED
    BY <1>1, <1>2, <1>3, <1>4, <1>5, <1>6, <1>7, <1>8, <1>9, <1>10, <1>11,
       <1>12, <1>13, <1>14, <1>15, <1>16, <1>17, <1>18, <1>19, <1>20,
       <1>21, <1>22, <1>23, <1>24, <1>25, <1>26, <1>27, <1>28, <1>29,
       <1>30, <1>31 DEF Next, Handle, Worker, Caller, Finalizer, Terminated

(* Handle, the workers and the lifecycle calls keep the wrapper's promise, *)
(* whatever the number of records, workers and callers, the queue size and *)
(* the drop mode.                                                          *)
THEOREM Refinement == Spec => LogSafety
    BY LogInit, LogStep, Invariance, PTL DEF Spec, LogSafety, Log!Spec
=============================================================================
