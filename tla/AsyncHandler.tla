---------------------------- MODULE AsyncHandler ----------------------------
(***************************************************************************)
(* The asynchronous wrapper of slogcpasync/handler.go: callers of Handle   *)
(* push records into a bounded channel, worker goroutines drain it into    *)
(* the inner handler, and Close, Shutdown and AbortContext stop it.        *)
(*                                                                         *)
(* A record stands for one call of Handle, so `call[r]` is the program     *)
(* counter of that call.  Steps are as large as the code makes them        *)
(* atomic: one gateMu section, one channel operation, one atomic load or   *)
(* one sync.Once transition.                                               *)
(***************************************************************************)
EXTENDS Integers, Sequences, FiniteSets

CONSTANTS
    Records,         \* the records logged, one call of Handle each
    Workers,         \* the worker goroutines
    Callers,         \* one call of Close, Shutdown or AbortContext each
    Coordinator,     \* the background goroutine that startAbort spawns
    NoRecord,        \* what a worker holds when it holds nothing
    Ops,             \* the lifecycle calls the callers choose from
    DropMode,        \* cfg.DropMode
    QueueSize,       \* cfg.QueueSize; 0 is an unbuffered channel
    BatchSize,       \* cfg.BatchSize
    HasFlushTimeout  \* whether cfg.FlushTimeout > 0, which bounds Close

DropModes == {"block", "drop_newest", "drop_oldest"}

AllOps == {"Close", "Shutdown", "ShutdownCtx", "Abort", "AbortCtx"}

ASSUME ConstantsAssumption ==
    /\ IsFiniteSet(Records)
    /\ Workers # {}
    /\ NoRecord \notin Records
    /\ Coordinator \notin Callers
    /\ Ops \subseteq AllOps
    /\ DropMode \in DropModes
    /\ QueueSize \in Nat
    /\ BatchSize \in Nat \ {0}
    /\ HasFlushTimeout \in BOOLEAN

VARIABLES
    call,          \* where each call of Handle is
    queue,         \* s.queue, oldest record first
    activeSends,   \* s.activeSends
    closed,        \* s.closed
    closingCh,     \* whether s.closingCh is closed
    queueClosed,   \* whether s.queue is closed
    gate,          \* where the body of shutdownOnce is
    wpc,           \* where each worker is
    item,          \* the record each worker holds
    batch,         \* n of drainBatch
    workersDone,   \* whether s.workersDone is closed
    aborted,       \* s.aborted
    closeOnce,     \* s.closeOnce
    closeErr,      \* s.closeErr
    finalizeOnce,  \* s.finalizeOnce
    finalizeErr,   \* s.finalizeErr
    abortOnce,     \* s.abortStartOnce
    abortErr,      \* s.abortErr
    abortResult,   \* s.abortResult
    lpc,           \* where each lifecycle call and the coordinator is
    op,            \* which lifecycle call each caller makes
    ret,           \* the error each lifecycle call returned
    fate,          \* how each record ended
    reports        \* how many times each record's end was reported

sendVars  == <<call, queue, activeSends>>
gateVars  == <<closed, closingCh, queueClosed, gate>>
workVars  == <<wpc, item, batch, workersDone>>
onceVars  == <<aborted, closeOnce, closeErr, finalizeOnce, finalizeErr,
               abortOnce, abortErr, abortResult>>
lifeVars  == <<lpc, op, ret>>
fateVars  == <<fate, reports>>
vars      == <<sendVars, gateVars, workVars, onceVars, lifeVars, fateVars>>

-----------------------------------------------------------------------------
CallStates == {"idle", "check", "send", "evict", "recheck", "resend",
               "end", "done"}
GateStates == {"new", "flagged", "parked", "woken", "drained", "done"}
WorkStates == {"recv", "got", "handle", "drain", "exited"}
OnceStates == {"new", "running", "done"}
LifeStates == {"idle", "closeOnce", "start", "wait", "finalize", "closer",
               "abortOnce", "abortStart", "abortWait", "downstream",
               "returned"}
Fates      == {"none", "handled", "panicked", "refused", "closing", "full",
               "evicted", "aborted", "recovered"}

(* An error value is the set of the errors joined in it; nil is the empty  *)
(* set.                                                                    *)
ErrorTags == {"ErrFlushTimeout", "ErrAborted", "ctx", "closer", "aborter"}
Nil == {}

(* Calls that beginSend let in and whose endSend has not run.              *)
Active(r) == call[r] \notin {"idle", "done"}
ActiveCalls == {r \in Records : Active(r)}

(* Calls in their select on the queue, which may send.                     *)
Sending(r) == call[r] \in {"send", "resend"}

Init ==
    /\ call = [r \in Records |-> "idle"]
    /\ queue = <<>>
    /\ activeSends = 0
    /\ closed = FALSE
    /\ closingCh = FALSE
    /\ queueClosed = FALSE
    /\ gate = "new"
    /\ wpc = [w \in Workers |-> "recv"]
    /\ item = [w \in Workers |-> NoRecord]
    /\ batch = [w \in Workers |-> 1]
    /\ workersDone = FALSE
    /\ aborted = FALSE
    /\ closeOnce = "new"
    /\ closeErr = Nil
    /\ finalizeOnce = "new"
    /\ finalizeErr = Nil
    /\ abortOnce = "new"
    /\ abortErr = Nil
    /\ abortResult = Nil
    /\ lpc = [p \in Callers \cup {Coordinator} |-> "idle"]
    /\ op = [c \in Callers |-> "none"]
    /\ ret = [c \in Callers |-> Nil]
    /\ fate = [r \in Records |-> "none"]
    /\ reports = [r \in Records |-> 0]

(* Handle is finished with r: it was handled, or its drop was reported.    *)
Settle(r, f) ==
    /\ fate' = [fate EXCEPT ![r] = f]
    /\ reports' = [reports EXCEPT ![r] = @ + 1]

-----------------------------------------------------------------------------
(* Handle and the enqueue functions it calls.                              *)

(* Mutant of BeginSend: the call is not counted as an active send.         *)
BeginSendUncounted(r) ==
    /\ call[r] = "idle"
    /\ \/ /\ closed
          /\ Settle(r, "refused")
          /\ call' = [call EXCEPT ![r] = "done"]
       \/ /\ ~closed
          /\ call' = [call EXCEPT ![r] = "check"]
          /\ UNCHANGED fateVars
    /\ UNCHANGED <<queue, activeSends, gateVars, workVars, onceVars, lifeVars>>

(* Mutant of BeginSend: the gate looks at closingCh in place of closed.    *)
BeginSendLateGate(r) ==
    /\ call[r] = "idle"
    /\ \/ /\ closingCh
          /\ Settle(r, "refused")
          /\ call' = [call EXCEPT ![r] = "done"]
          /\ UNCHANGED activeSends
       \/ /\ ~closingCh
          /\ activeSends' = activeSends + 1
          /\ call' = [call EXCEPT ![r] = "check"]
          /\ UNCHANGED fateVars
    /\ UNCHANGED <<queue, gateVars, workVars, onceVars, lifeVars>>

(* beginSend, one gateMu section: a closed handler refuses the record and  *)
(* Handle reports it as dropped; otherwise the call becomes an active send.*)
BeginSend(r) ==
    /\ call[r] = "idle"
    /\ \/ /\ closed
          /\ Settle(r, "refused")
          /\ call' = [call EXCEPT ![r] = "done"]
          /\ UNCHANGED activeSends
       \/ /\ ~closed
          /\ activeSends' = activeSends + 1
          /\ call' = [call EXCEPT ![r] = "check"]
          /\ UNCHANGED fateVars
    /\ UNCHANGED <<queue, gateVars, workVars, onceVars, lifeVars>>

(* The non-blocking look at closingCh that opens every enqueue function.   *)
CheckClosing(r) ==
    /\ call[r] \in {"check", "recheck"}
    /\ \/ /\ closingCh
          /\ Settle(r, "closing")
          /\ call' = [call EXCEPT ![r] = "end"]
       \/ /\ ~closingCh
          /\ call' = [call EXCEPT ![r] = IF @ = "check" THEN "send"
                                                        ELSE "resend"]
          /\ UNCHANGED fateVars
    /\ UNCHANGED <<queue, activeSends, gateVars, workVars, onceVars, lifeVars>>

(* The send case of the select.  A send on a closed channel panics, and    *)
(* the recover of enqueue reports the record as dropped.                   *)
Enqueue(r) ==
    /\ Sending(r)
    /\ IF queueClosed
       THEN /\ Settle(r, "recovered")
            /\ UNCHANGED queue
       ELSE /\ Len(queue) < QueueSize
            /\ queue' = Append(queue, r)
            /\ UNCHANGED fateVars
    /\ call' = [call EXCEPT ![r] = "end"]
    /\ UNCHANGED <<activeSends, gateVars, workVars, onceVars, lifeVars>>

(* Mutant of GiveUp: a blocked sender does not select on closingCh.        *)
GiveUpNever(r) == FALSE

(* The closingCh case of enqueueBlock's select.                            *)
GiveUp(r) ==
    /\ DropMode = "block"
    /\ call[r] = "send"
    /\ closingCh
    /\ Settle(r, "closing")
    /\ call' = [call EXCEPT ![r] = "end"]
    /\ UNCHANGED <<queue, activeSends, gateVars, workVars, onceVars, lifeVars>>

(* The default case of a non-blocking send.  Without a buffer it is taken  *)
(* whenever no worker is parked in its receive, which wpc does not tell.   *)
QueueFull(r) ==
    /\ DropMode # "block"
    /\ Sending(r)
    /\ ~queueClosed
    /\ Len(queue) >= QueueSize
    /\ IF DropMode = "drop_oldest" /\ call[r] = "send"
       THEN /\ call' = [call EXCEPT ![r] = "evict"]
            /\ UNCHANGED fateVars
       ELSE /\ call' = [call EXCEPT ![r] = "end"]
            /\ Settle(r, "full")
    /\ UNCHANGED <<queue, activeSends, gateVars, workVars, onceVars, lifeVars>>

(* dropOldest: take one record off the queue, if there is one, and report  *)
(* it.  The retry of the send is a step of its own.                        *)
DropOldest(r) ==
    /\ call[r] = "evict"
    /\ IF queue = <<>>
       THEN UNCHANGED <<queue, fateVars>>
       ELSE /\ Settle(Head(queue), "evicted")
            /\ queue' = Tail(queue)
    /\ call' = [call EXCEPT ![r] = "recheck"]
    /\ UNCHANGED <<activeSends, gateVars, workVars, onceVars, lifeVars>>

(* endSend: the last active send wakes the closer parked on gateCond.      *)
EndSend(r) ==
    /\ call[r] = "end"
    /\ call' = [call EXCEPT ![r] = "done"]
    /\ activeSends' = activeSends - 1
    /\ gate' = IF activeSends = 1 /\ gate = "parked" THEN "woken" ELSE gate
    /\ UNCHANGED <<queue, closed, closingCh, queueClosed, workVars, onceVars,
                   lifeVars, fateVars>>

-----------------------------------------------------------------------------
(* The worker goroutines and the monitor that waits for them.              *)

(* The receive of the worker's range loop.                                 *)
Receive(w) ==
    /\ wpc[w] = "recv"
    /\ queue # <<>>
    /\ item' = [item EXCEPT ![w] = Head(queue)]
    /\ queue' = Tail(queue)
    /\ wpc' = [wpc EXCEPT ![w] = "got"]
    /\ batch' = [batch EXCEPT ![w] = 1]
    /\ UNCHANGED <<call, activeSends, workersDone, gateVars, onceVars,
                   lifeVars, fateVars>>

(* The range loop ends when the channel is closed and empty.               *)
WorkerExit(w) ==
    /\ wpc[w] = "recv"
    /\ queue = <<>>
    /\ queueClosed
    /\ wpc' = [wpc EXCEPT ![w] = "exited"]
    /\ UNCHANGED <<sendVars, item, batch, workersDone, gateVars, onceVars,
                   lifeVars, fateVars>>

(* An unbuffered channel hands a record over when one side is parked: a    *)
(* worker in its range loop, or a blocking sender met by drainBatch.       *)
Rendezvous(r, w) ==
    /\ QueueSize = 0
    /\ ~queueClosed
    /\ Sending(r)
    /\ \/ wpc[w] = "recv"
       \/ wpc[w] = "drain" /\ batch[w] < BatchSize /\ DropMode = "block"
    /\ call' = [call EXCEPT ![r] = "end"]
    /\ item' = [item EXCEPT ![w] = r]
    /\ batch' = [batch EXCEPT ![w] = IF wpc[w] = "recv" THEN 1 ELSE @ + 1]
    /\ wpc' = [wpc EXCEPT ![w] = "got"]
    /\ UNCHANGED <<queue, activeSends, workersDone, gateVars, onceVars,
                   lifeVars, fateVars>>

(* processItem: the abort flag is read once, before the inner handler runs.*)
ProcessItem(w) ==
    /\ wpc[w] = "got"
    /\ \/ /\ aborted
          /\ Settle(item[w], "aborted")
          /\ item' = [item EXCEPT ![w] = NoRecord]
          /\ wpc' = [wpc EXCEPT ![w] = "drain"]
       \/ /\ ~aborted
          /\ wpc' = [wpc EXCEPT ![w] = "handle"]
          /\ UNCHANGED <<item, fateVars>>
    /\ UNCHANGED <<sendVars, batch, workersDone, gateVars, onceVars, lifeVars>>

(* Mutant of HandleItem: a recovered panic is not reported.                *)
HandleItemSilentPanic(w) ==
    /\ wpc[w] = "handle"
    /\ \/ Settle(item[w], "handled")
       \/ UNCHANGED fateVars
    /\ item' = [item EXCEPT ![w] = NoRecord]
    /\ wpc' = [wpc EXCEPT ![w] = "drain"]
    /\ UNCHANGED <<sendVars, batch, workersDone, gateVars, onceVars, lifeVars>>

(* handleItem: the inner handler returns (its error is only logged), or it *)
(* panics and the record is reported as dropped.                           *)
HandleItem(w) ==
    /\ wpc[w] = "handle"
    /\ \E f \in {"handled", "panicked"} : Settle(item[w], f)
    /\ item' = [item EXCEPT ![w] = NoRecord]
    /\ wpc' = [wpc EXCEPT ![w] = "drain"]
    /\ UNCHANGED <<sendVars, batch, workersDone, gateVars, onceVars, lifeVars>>

(* drainBatch: up to BatchSize - 1 further records without blocking, then  *)
(* back to the range loop.                                                 *)
DrainBatch(w) ==
    /\ wpc[w] = "drain"
    /\ IF batch[w] < BatchSize /\ queue # <<>>
       THEN /\ item' = [item EXCEPT ![w] = Head(queue)]
            /\ queue' = Tail(queue)
            /\ batch' = [batch EXCEPT ![w] = @ + 1]
            /\ wpc' = [wpc EXCEPT ![w] = "got"]
       ELSE /\ wpc' = [wpc EXCEPT ![w] = "recv"]
            /\ UNCHANGED <<item, queue, batch>>
    /\ UNCHANGED <<call, activeSends, workersDone, gateVars, onceVars,
                   lifeVars, fateVars>>

(* Mutant of WorkersDoneMonitor: it waits for one worker only.             *)
WorkersDoneMonitorOne ==
    /\ ~workersDone
    /\ \E w \in Workers : wpc[w] = "exited"
    /\ workersDone' = TRUE
    /\ UNCHANGED <<sendVars, wpc, item, batch, gateVars, onceVars, lifeVars,
                   fateVars>>

(* The goroutine of startWorkersDoneMonitor.                               *)
WorkersDoneMonitor ==
    /\ ~workersDone
    /\ \A w \in Workers : wpc[w] = "exited"
    /\ workersDone' = TRUE
    /\ UNCHANGED <<sendVars, wpc, item, batch, gateVars, onceVars, lifeVars,
                   fateVars>>

-----------------------------------------------------------------------------
(* startShutdown: the body of shutdownOnce.  The first caller runs it, and *)
(* every other caller waits in Do until gate is "done".                    *)

StartShutdown(c) ==
    /\ lpc[c] \in {"start", "abortStart"}
    /\ gate = "new"
    /\ closed' = TRUE
    /\ gate' = "flagged"
    /\ UNCHANGED <<sendVars, closingCh, queueClosed, workVars, onceVars,
                   lifeVars, fateVars>>

(* Mutant of BeginClose: active sends are not waited for.                  *)
BeginCloseNoWait ==
    /\ gate \in {"flagged", "woken"}
    /\ closingCh' = TRUE
    /\ gate' = "drained"
    /\ UNCHANGED <<sendVars, closed, queueClosed, workVars, onceVars, lifeVars,
                   fateVars>>

(* beginClose, a gateMu section that ends in gateCond.Wait while sends are *)
(* active; after a wake-up the test runs again.                            *)
BeginClose ==
    /\ gate \in {"flagged", "woken"}
    /\ closingCh' = TRUE
    /\ gate' = IF activeSends > 0 THEN "parked" ELSE "drained"
    /\ UNCHANGED <<sendVars, closed, queueClosed, workVars, onceVars, lifeVars,
                   fateVars>>

(* endClose.                                                               *)
EndClose ==
    /\ gate = "drained"
    /\ queueClosed' = TRUE
    /\ gate' = "done"
    /\ UNCHANGED <<sendVars, closed, closingCh, workVars, onceVars, lifeVars,
                   fateVars>>

-----------------------------------------------------------------------------
(* Close, Shutdown and AbortContext.                                       *)

(* Whether the caller's context may expire.                                *)
Bounded(c) ==
    \/ op[c] \in {"ShutdownCtx", "AbortCtx"}
    \/ op[c] = "Close" /\ HasFlushTimeout

Goto(p, l) == lpc' = [lpc EXCEPT ![p] = l]

(* The call returns errs; inside closeOnce, Close keeps it as closeErr.    *)
Return(c, errs) ==
    /\ Goto(c, "returned")
    /\ ret' = [ret EXCEPT ![c] = errs]

Finish(c, errs) ==
    /\ Return(c, errs)
    /\ closeErr' = IF op[c] = "Close" THEN errs ELSE closeErr
    /\ closeOnce' = IF op[c] = "Close" THEN "done" ELSE closeOnce

Invoke(c) ==
    /\ lpc[c] = "idle"
    /\ \E o \in Ops :
        /\ op' = [op EXCEPT ![c] = o]
        /\ Goto(c, CASE o = "Close" -> "closeOnce"
                     [] o \in {"Shutdown", "ShutdownCtx"} -> "start"
                     [] OTHER -> "abortOnce")
    /\ UNCHANGED <<sendVars, gateVars, workVars, onceVars, ret, fateVars>>

(* closeOnce.Do: the first Close runs Shutdown, the others wait for it and *)
(* return the error it left.                                               *)
CloseOnce(c) ==
    /\ lpc[c] = "closeOnce"
    /\ \/ /\ closeOnce = "new"
          /\ closeOnce' = "running"
          /\ Goto(c, "start")
          /\ UNCHANGED ret
       \/ /\ closeOnce = "done"
          /\ Return(c, closeErr)
          /\ UNCHANGED closeOnce
    /\ UNCHANGED <<sendVars, gateVars, workVars, op, aborted, closeErr,
                   finalizeOnce, finalizeErr, abortOnce, abortErr, abortResult,
                   fateVars>>

ShutdownStarted(c) ==
    /\ lpc[c] = "start"
    /\ gate = "done"
    /\ Goto(c, "wait")
    /\ UNCHANGED <<sendVars, gateVars, workVars, onceVars, op, ret, fateVars>>

(* waitWorkers: the caller, or the coordinator, sees workersDone closed.   *)
WaitWorkers(p) ==
    /\ lpc[p] = "wait"
    /\ workersDone
    /\ Goto(p, "finalize")
    /\ UNCHANGED <<sendVars, gateVars, workVars, onceVars, op, ret, fateVars>>

(* Mutant of FlushTimeout: an expired context is reported as success.      *)
FlushTimeoutSwallowed(c) ==
    /\ lpc[c] = "wait"
    /\ Bounded(c)
    /\ Finish(c, Nil)
    /\ UNCHANGED <<sendVars, gateVars, workVars, op, aborted, finalizeOnce,
                   finalizeErr, abortOnce, abortErr, abortResult, fateVars>>

(* The ctx.Done case of waitWorkers' select, which Go may choose even when *)
(* workersDone is ready too.                                               *)
FlushTimeout(c) ==
    /\ lpc[c] = "wait"
    /\ Bounded(c)
    /\ Finish(c, {"ErrFlushTimeout", "ctx"})
    /\ UNCHANGED <<sendVars, gateVars, workVars, op, aborted, finalizeOnce,
                   finalizeErr, abortOnce, abortErr, abortResult, fateVars>>

(* finalizeOnce.Do: the first process in calls the inner handler's Close.  *)
FinalizeClose(p) ==
    /\ lpc[p] = "finalize"
    /\ finalizeOnce = "new"
    /\ finalizeOnce' = "running"
    /\ Goto(p, "closer")
    /\ UNCHANGED <<sendVars, gateVars, workVars, op, ret, aborted, closeOnce,
                   closeErr, finalizeErr, abortOnce, abortErr, abortResult,
                   fateVars>>

CloserReturns(p) ==
    /\ lpc[p] = "closer"
    /\ finalizeOnce' = "done"
    /\ finalizeErr' \in {Nil, {"closer"}}
    /\ Goto(p, "finalize")
    /\ UNCHANGED <<sendVars, gateVars, workVars, op, ret, aborted, closeOnce,
                   closeErr, abortOnce, abortErr, abortResult, fateVars>>

(* Mutant of ShutdownReturns: the abort flag is not looked at.             *)
ShutdownReturnsBlind(c) ==
    /\ lpc[c] = "finalize"
    /\ finalizeOnce = "done"
    /\ Finish(c, finalizeErr)
    /\ UNCHANGED <<sendVars, gateVars, workVars, op, aborted, finalizeOnce,
                   finalizeErr, abortOnce, abortErr, abortResult, fateVars>>

(* The tail of Shutdown.                                                   *)
ShutdownReturns(c) ==
    /\ lpc[c] = "finalize"
    /\ finalizeOnce = "done"
    /\ Finish(c, finalizeErr \cup IF aborted THEN {"ErrAborted"} ELSE Nil)
    /\ UNCHANGED <<sendVars, gateVars, workVars, op, aborted, finalizeOnce,
                   finalizeErr, abortOnce, abortErr, abortResult, fateVars>>

(* startAbort, abortStartOnce.Do: the first caller sets aborted, runs      *)
(* startShutdown and spawns the coordinator; the others wait for that.     *)
StartAbort(c) ==
    /\ lpc[c] = "abortOnce"
    /\ \/ /\ abortOnce = "new"
          /\ abortOnce' = "running"
          /\ aborted' = TRUE
          /\ Goto(c, "abortStart")
       \/ /\ abortOnce = "done"
          /\ Goto(c, "abortWait")
          /\ UNCHANGED <<abortOnce, aborted>>
    /\ UNCHANGED <<sendVars, gateVars, workVars, op, ret, closeOnce, closeErr,
                   finalizeOnce, finalizeErr, abortErr, abortResult, fateVars>>

(* Mutant of SpawnCoordinator: an abort during shutdown has none.          *)
SpawnCoordinatorUnlessClosing(c) ==
    /\ lpc[c] = "abortStart"
    /\ gate = "done"
    /\ abortOnce' = "done"
    /\ lpc' = [lpc EXCEPT ![c] = "abortWait",
                          ![Coordinator] = IF closeOnce = "new"
                                           THEN "downstream" ELSE "idle"]
    /\ UNCHANGED <<sendVars, gateVars, workVars, op, ret, aborted, closeOnce,
                   closeErr, finalizeOnce, finalizeErr, abortErr, abortResult,
                   fateVars>>

SpawnCoordinator(c) ==
    /\ lpc[c] = "abortStart"
    /\ gate = "done"
    /\ abortOnce' = "done"
    /\ lpc' = [lpc EXCEPT ![c] = "abortWait", ![Coordinator] = "downstream"]
    /\ UNCHANGED <<sendVars, gateVars, workVars, op, ret, aborted, closeOnce,
                   closeErr, finalizeOnce, finalizeErr, abortErr, abortResult,
                   fateVars>>

(* The select of AbortContext: the coordinator's result, or ctx expires.   *)
AbortContext(c) ==
    /\ lpc[c] = "abortWait"
    /\ \/ lpc[Coordinator] = "returned" /\ Return(c, abortResult)
       \/ Bounded(c) /\ Return(c, {"ErrAborted", "ctx"})
    /\ UNCHANGED <<sendVars, gateVars, workVars, onceVars, op, fateVars>>

(* abortDownstream: the inner handler's abort hook, run once.              *)
AbortDownstream ==
    /\ lpc[Coordinator] = "downstream"
    /\ abortErr' \in {Nil, {"aborter"}}
    /\ Goto(Coordinator, "wait")
    /\ UNCHANGED <<sendVars, gateVars, workVars, op, ret, aborted, closeOnce,
                   closeErr, finalizeOnce, finalizeErr, abortOnce, abortResult,
                   fateVars>>

(* The coordinator stores the joined result and closes abortDone.          *)
AbortDone ==
    /\ lpc[Coordinator] = "finalize"
    /\ finalizeOnce = "done"
    /\ abortResult' = {"ErrAborted"} \cup abortErr \cup finalizeErr
    /\ Goto(Coordinator, "returned")
    /\ UNCHANGED <<sendVars, gateVars, workVars, op, ret, aborted, closeOnce,
                   closeErr, finalizeOnce, finalizeErr, abortOnce, abortErr,
                   fateVars>>

-----------------------------------------------------------------------------
Handle(r) ==
    \/ BeginSend(r)
    \/ CheckClosing(r)
    \/ Enqueue(r)
    \/ GiveUp(r)
    \/ QueueFull(r)
    \/ DropOldest(r)
    \/ EndSend(r)

Worker(w) ==
    \/ Receive(w)
    \/ WorkerExit(w)
    \/ ProcessItem(w)
    \/ HandleItem(w)
    \/ DrainBatch(w)

Caller(c) ==
    \/ CloseOnce(c)
    \/ StartShutdown(c)
    \/ ShutdownStarted(c)
    \/ FlushTimeout(c)
    \/ ShutdownReturns(c)
    \/ StartAbort(c)
    \/ SpawnCoordinator(c)
    \/ AbortContext(c)

Finalizer(p) ==
    \/ WaitWorkers(p)
    \/ FinalizeClose(p)
    \/ CloserReturns(p)

(* Every call has returned and every worker has exited: nothing is left to *)
(* do.  Any other state without a successor is a deadlock.                 *)
Terminated ==
    /\ \A r \in Records : call[r] = "done"
    /\ \A c \in Callers : lpc[c] = "returned"
    /\ lpc[Coordinator] \in {"idle", "returned"}
    /\ workersDone
    /\ UNCHANGED vars

Next ==
    \/ \E r \in Records : Handle(r)
    \/ \E w \in Workers : Worker(w)
    \/ \E r \in Records, w \in Workers : Rendezvous(r, w)
    \/ WorkersDoneMonitor
    \/ BeginClose
    \/ EndClose
    \/ \E c \in Callers : Invoke(c)
    \/ \E c \in Callers : Caller(c)
    \/ \E p \in Callers \cup {Coordinator} : Finalizer(p)
    \/ AbortDownstream
    \/ AbortDone
    \/ Terminated

Spec == Init /\ [][Next]_vars

-----------------------------------------------------------------------------
(* Fairness.  A runnable goroutine runs, a deadline expires, and the hooks *)
(* of the inner handler's Close and Abort return; a program need not log   *)
(* or stop anything, so BeginSend and Invoke are not fair.                 *)
Fairness ==
    /\ \A r \in Records :
        /\ WF_vars(CheckClosing(r))
        /\ WF_vars(Enqueue(r) \/ GiveUp(r) \/ QueueFull(r)
                     \/ \E w \in Workers : Rendezvous(r, w))
        /\ WF_vars(DropOldest(r))
        /\ WF_vars(EndSend(r))
    /\ \A w \in Workers :
        WF_vars(Receive(w) \/ WorkerExit(w) \/ ProcessItem(w) \/ DrainBatch(w))
    /\ WF_vars(WorkersDoneMonitor)
    /\ WF_vars(BeginClose \/ EndClose)
    /\ \A c \in Callers :
        WF_vars(Finalizer(c) \/ Caller(c))
    /\ WF_vars(Finalizer(Coordinator) \/ AbortDownstream \/ AbortDone)

(* The inner handler may hang: nothing says its Handle returns.            *)
FairSpec == Spec /\ Fairness

(* The inner handler's Handle returns or panics.                           *)
LiveSpec == FairSpec /\ \A w \in Workers : WF_vars(HandleItem(w))

-----------------------------------------------------------------------------
(* Properties.                                                             *)

SendTypes ==
    /\ call \in [Records -> CallStates]
    /\ queue \in Seq(Records)
    /\ activeSends \in Nat

GateTypes ==
    /\ closed \in BOOLEAN
    /\ closingCh \in BOOLEAN
    /\ queueClosed \in BOOLEAN
    /\ gate \in GateStates

WorkTypes ==
    /\ wpc \in [Workers -> WorkStates]
    /\ item \in [Workers -> Records \cup {NoRecord}]
    /\ batch \in [Workers -> 1..BatchSize]
    /\ workersDone \in BOOLEAN

OnceTypes ==
    /\ aborted \in BOOLEAN
    /\ {closeOnce, finalizeOnce, abortOnce} \subseteq OnceStates
    /\ {closeErr, finalizeErr, abortErr, abortResult} \subseteq SUBSET ErrorTags

LifeTypes ==
    /\ lpc \in [Callers \cup {Coordinator} -> LifeStates]
    /\ op \in [Callers -> AllOps \cup {"none"}]
    /\ ret \in [Callers -> SUBSET ErrorTags]

FateTypes ==
    /\ fate \in [Records -> Fates]
    /\ reports \in [Records -> Nat]

(* Every variable has the type its Go counterpart has: the counter of      *)
(* active sends does not go below zero, drainBatch's n stays within the    *)
(* batch.                                                                  *)
TypeOK ==
    SendTypes /\ GateTypes /\ WorkTypes /\ OnceTypes /\ LifeTypes /\ FateTypes

(* No call of Handle is in a select on the queue once endClose has closed  *)
(* it: the gate of beginSend and beginClose makes the send on a closed     *)
(* channel, and the recover of enqueue that catches it, unreachable.       *)
NoSendOnClosedQueue == queueClosed => \A r \in Records : ~Active(r)

InHand(r)  == call[r] \in {"check", "send", "evict", "recheck", "resend"}
InQueue(r) == \E i \in 1..Len(queue) : queue[i] = r
Held(r)    == \E w \in Workers : item[w] = r

QueueDistinct == \A i, j \in 1..Len(queue) : queue[i] = queue[j] => i = j

HeldDistinct ==
    \A v, w \in Workers : item[v] = item[w] /\ item[v] # NoRecord => v = w

OnePlace(r) ==
    IF call[r] = "idle" \/ InHand(r)
    THEN ~InQueue(r) /\ ~Held(r) /\ reports[r] = 0
    ELSE \/ InQueue(r) /\ ~Held(r) /\ reports[r] = 0
         \/ ~InQueue(r) /\ Held(r) /\ reports[r] = 0
         \/ ~InQueue(r) /\ ~Held(r) /\ reports[r] = 1

(* No record is lost, duplicated or reported twice on its way through      *)
(* enqueue, dropOldest, the queue, processItem and shutdown: it is with    *)
(* its call of Handle, in the queue once, with one worker, or settled with *)
(* exactly one report, and in one of these places only.                    *)
Conservation ==
    QueueDistinct /\ HeldDistinct /\ \A r \in Records : OnePlace(r)

(* finalizeClose calls the inner handler's Close only when no call of its  *)
(* Handle is running or can still start: all workers have exited, the      *)
(* queue is empty and no sender is active.                                 *)
CloserRunsLast ==
    finalizeOnce # "new" =>
        /\ queue = <<>>
        /\ \A w \in Workers : wpc[w] = "exited"
        /\ \A r \in Records : ~Active(r)

(* A Close or Shutdown that returns without ErrFlushTimeout, and an abort  *)
(* that returns before its context expires, have seen the inner handler    *)
(* closed and every record that any call of Handle took in settled.        *)
ReturnMeansDrained ==
    \A c \in Callers :
        lpc[c] = "returned" /\ "ctx" \notin ret[c] =>
            /\ finalizeOnce = "done"
            /\ \A r \in Records : call[r] # "idle" => fate[r] # "none"

(* A Close or Shutdown that returns nil has lost no record to an abort,    *)
(* even when AbortContext races with it: the flag is read after the        *)
(* workers have exited.                                                    *)
NilMeansNoAbortDrop ==
    (\E c \in Callers : lpc[c] = "returned" /\ ret[c] = Nil) =>
        \A r \in Records : fate[r] # "aborted"

(* Once shutdown has begun, every call of Handle returns and the queue is  *)
(* closed, even when the inner handler hangs and the queue is full.        *)
SendersReleased ==
    closed ~> (queueClosed /\ \A r \in Records : ~Active(r))

(* A Close with a flush timeout, and a Shutdown or AbortContext with a     *)
(* deadline, return even when the inner handler hangs.                     *)
BoundedCallsReturn ==
    \A c \in Callers : Bounded(c) ~> lpc[c] = "returned"

(* An inner handler that hangs holds up neither the calls of Handle nor    *)
(* the lifecycle calls that have a deadline.                               *)
NobodyHangs == SendersReleased /\ BoundedCallsReturn

(* When the inner handler's calls return, every lifecycle call returns and *)
(* every record that was taken in is settled; an abort, once begun, runs   *)
(* to its end whether or not its callers wait for it, and closes the inner *)
(* handler.                                                                *)
EverythingSettles ==
    /\ \A c \in Callers : op[c] # "none" ~> lpc[c] = "returned"
    /\ \A r \in Records : call[r] # "idle" ~> fate[r] # "none"
    /\ aborted ~> lpc[Coordinator] = "returned" /\ finalizeOnce = "done"

-----------------------------------------------------------------------------
(* The inductive invariant from which AsyncHandler_proofs derives the      *)
(* safety properties above.                                                *)

(* The gate: activeSends counts the active calls, closed is up for as long *)
(* as shutdownOnce has been entered, and from "drained" on no call is      *)
(* active.                                                                 *)
GateInv ==
    /\ activeSends = Cardinality(ActiveCalls)
    /\ closed <=> gate # "new"
    /\ queueClosed <=> gate = "done"
    /\ gate \in {"drained", "done"} => activeSends = 0

(* The workers: one holds a record exactly while it works on it, and exits *)
(* only from a closed and empty queue.                                     *)
WorkerInv ==
    /\ \A w \in Workers :
        /\ item[w] # NoRecord <=> wpc[w] \in {"got", "handle"}
        /\ wpc[w] = "exited" => queueClosed /\ queue = <<>>
    /\ workersDone => queueClosed /\ \A w \in Workers : wpc[w] = "exited"

NoAbortLoss == \A r \in Records : fate[r] # "aborted"

(* The outcome errs may be handed to a caller.                             *)
Justified(errs) ==
    /\ "ctx" \notin errs => finalizeOnce = "done"
    /\ errs = Nil => workersDone /\ NoAbortLoss

(* The lifecycle calls: nobody is past waitWorkers before the workers are, *)
(* nor in the inner handler's Close outside finalizeOnce, and every result *)
(* that was or will be returned is justified.                              *)
LifeInv ==
    /\ \A p \in Callers \cup {Coordinator} :
        /\ lpc[p] \in {"finalize", "closer"} => workersDone
        /\ lpc[p] = "closer" => finalizeOnce # "new"
    /\ finalizeOnce # "new" => workersDone
    /\ ~aborted => NoAbortLoss
    /\ closeOnce = "done" => Justified(closeErr)
    /\ lpc[Coordinator] = "returned" =>
        Justified(abortResult) /\ "ErrAborted" \in abortResult
    /\ \A c \in Callers : lpc[c] = "returned" => Justified(ret[c])

(* A record has been reported exactly when it has a fate.                  *)
FateInv == \A r \in Records : reports[r] = 0 <=> fate[r] = "none"

(* Every part of the shutdown protocol's state agrees with every other:    *)
(* the conjunction is preserved by each step of Handle, the workers, the   *)
(* gate and the lifecycle calls.                                           *)
IInv ==
    TypeOK /\ GateInv /\ WorkerInv /\ LifeInv /\ FateInv /\ Conservation
=============================================================================
