-------------------------- MODULE HandlerLifecycle --------------------------
(***************************************************************************)
(* slogcp.Handler with a file target: Close, Shutdown, Abort and           *)
(* ReopenLogFile of handler.go over the SwitchableWriter of                *)
(* switchable_writer.go, while records are being written.                  *)
(*                                                                         *)
(* The asynchronous wrapper between the callers of the handler and the     *)
(* file appears through the promise it keeps, AsyncLog, which AsyncHandler *)
(* is shown to implement.                                                  *)
(***************************************************************************)
EXTENDS Integers, FiniteSets

CONSTANTS
    Records,         \* the records logged
    Callers,         \* one call of Close, Shutdown, Abort or Reopen each
    None,            \* no holder of a mutex, no file
    Discard,         \* io.Discard
    MaxFiles,        \* bound: how many file handles are ever opened
    Ops              \* the calls the callers choose from

Files == 1..MaxFiles
AllOps == {"Close", "Shutdown", "ShutdownCtx", "Abort", "AbortCtx", "Reopen"}

ASSUME LifecycleAssumption ==
    /\ MaxFiles \in Nat \ {0}
    /\ None \notin Callers \cup Records \cup Files
    /\ Discard \notin Files \cup {None}
    /\ Ops \subseteq AllOps

VARIABLES
    cfg,        \* how the handler was configured
    status,     \* what the async wrapper has done with each record
    phase,      \* how far the async wrapper is with closing
    aborted,    \* whether the async wrapper was aborted
    asyncClose, \* the async wrapper's closeOnce and closeErr
    fd,         \* the state of each file handle
    w,          \* sw.w: the file or io.Discard
    swMu,       \* sw.mu: the record being written, or None
    target,     \* currentWriter of the Write in progress
    owned,      \* h.ownedFile
    swSet,      \* h.switchableWriter # nil
    mu,         \* h.mu
    closeOnce,  \* h.closeOnce
    closeErr,   \* h.closeErr
    pc,         \* where each caller is
    op,         \* which call it makes
    ret,        \* the errors joined in its result
    sink        \* where each record was written

(* Whether buildPipeline put the async wrapper in, whether its             *)
(* FlushTimeout is positive, and CloseTimeoutAutoAbort or else             *)
(* CloseTimeoutReturn.                                                     *)
Async           == cfg.async
HasFlushTimeout == cfg.hasFlushTimeout
AutoAbort       == cfg.autoAbort
Configs == [async : BOOLEAN, hasFlushTimeout : BOOLEAN, autoAbort : BOOLEAN]

asyncVars == <<status, phase, aborted, asyncClose>>
fileVars  == <<fd, w, owned, swSet, mu, closeOnce, closeErr>>
callVars  == <<pc, op, ret>>
writeVars == <<swMu, target, sink>>
vars      == <<cfg, asyncVars, fileVars, callVars, writeVars>>

(* The promise of slogcpasync.Handler.                                     *)
Log == INSTANCE AsyncLog

Nil == {}

(* prepareFileWriter: the first file is open behind the SwitchableWriter.  *)
Init ==
    /\ cfg \in Configs
    /\ Log!Init
    /\ aborted = FALSE
    /\ asyncClose = "new"
    /\ fd = [f \in Files |-> IF f = 1 THEN "open" ELSE "none"]
    /\ w = 1
    /\ owned = 1
    /\ swSet = TRUE
    /\ mu = None
    /\ closeOnce = "new"
    /\ closeErr = Nil
    /\ pc = [c \in Callers |-> "idle"]
    /\ op = [c \in Callers |-> "none"]
    /\ ret = [c \in Callers |-> Nil]
    /\ swMu = None
    /\ target = Discard
    /\ sink = [r \in Records |-> "none"]

-----------------------------------------------------------------------------
(* Records on their way to the file.                                       *)

(* Handle: through the wrapper's gate, or straight on in the caller's      *)
(* goroutine when there is no wrapper.                                     *)
Handle(r) ==
    /\ IF Async
       THEN Log!Accept(r) \/ Log!Refuse(r)
       ELSE Log!Become(r, "new", "accepted") /\ UNCHANGED phase
    /\ UNCHANGED <<cfg, aborted, asyncClose, fileVars, callVars, writeVars>>

(* The wrapper drops a record that no worker has begun to write: its queue *)
(* overflows, it is closing, or it was aborted.                            *)
AsyncDrop(r) ==
    /\ Async
    /\ swMu # r
    /\ Log!Drop(r)
    /\ UNCHANGED <<cfg, aborted, asyncClose, fileVars, callVars, writeVars>>

(* SwitchableWriter.Write takes sw.mu and picks the current writer ...     *)
BeginWrite(r) ==
    /\ status[r] = "accepted"
    /\ swMu = None
    /\ swMu' = r
    /\ target' = w
    /\ UNCHANGED <<cfg, asyncVars, fileVars, callVars, sink>>

(* ... and writes to it before it lets go of sw.mu.  Writing to a closed   *)
(* file fails, io.Discard accepts everything.                              *)
EndWrite(r) ==
    /\ swMu = r
    /\ swMu' = None
    /\ target' = Discard
    /\ sink' = [sink EXCEPT ![r] =
                   IF target = Discard THEN "discard"
                   ELSE IF fd[target] = "open" THEN "file" ELSE "error"]
    /\ Log!Become(r, "accepted", "handled")
    /\ UNCHANGED <<cfg, phase, aborted, asyncClose, fileVars, callVars>>

(* The wrapper has drained its queue and its workers have exited.          *)
AsyncDrained ==
    /\ Async
    /\ Log!CloseInner
    /\ UNCHANGED <<cfg, aborted, asyncClose, fileVars, callVars, writeVars>>

-----------------------------------------------------------------------------
Goto(c, l) == pc' = [pc EXCEPT ![c] = l]

(* errors.Join with what the call has collected so far.                    *)
AddErr(c, errs) == ret' = [ret EXCEPT ![c] = @ \cup errs]

(* What the wrapper returns once it has drained.                           *)
AbortErr(b) == IF b THEN {"ErrAborted"} ELSE Nil

Bounded(c) ==
    \/ op[c] \in {"ShutdownCtx", "AbortCtx"}
    \/ op[c] = "Close" /\ HasFlushTimeout

IsAbort(c) == op[c] \in {"Abort", "AbortCtx"}

Invoke(c) ==
    /\ pc[c] = "idle"
    /\ \E o \in Ops :
        /\ op' = [op EXCEPT ![c] = o]
        /\ Goto(c, CASE o = "Reopen" -> "reopen"
                     [] o # "Reopen" /\ Async -> "async"
                     [] OTHER -> "resources")
    /\ UNCHANGED <<cfg, asyncVars, fileVars, ret, writeVars>>

(* The wrapper stops taking records in.                                    *)
BeginClosing == phase' = IF phase = "open" THEN "closing" ELSE phase

(* closeAsyncHandler, shutdownAsyncHandler and abortAsyncHandler enter the *)
(* wrapper; its Close runs once and later calls get the error it left.     *)
EnterAsync(c) ==
    /\ pc[c] = "async"
    /\ \/ /\ op[c] # "Close"
          /\ BeginClosing
          /\ aborted' = (aborted \/ IsAbort(c))
          /\ Goto(c, IF IsAbort(c) THEN "abort" ELSE "wait")
          /\ UNCHANGED <<asyncClose, ret>>
       \/ /\ op[c] = "Close"
          /\ asyncClose = "new"
          /\ asyncClose' = "running"
          /\ BeginClosing
          /\ Goto(c, "wait")
          /\ UNCHANGED <<aborted, ret>>
       \/ /\ op[c] = "Close"
          /\ asyncClose = "timeout"
          /\ Goto(c, "timedOut")
          /\ UNCHANGED <<phase, aborted, asyncClose, ret>>
       \/ /\ op[c] = "Close"
          /\ asyncClose \in {"nil", "aborted"}
          /\ AddErr(c, AbortErr(asyncClose = "aborted"))
          /\ Goto(c, "resources")
          /\ UNCHANGED <<phase, aborted, asyncClose>>
    /\ UNCHANGED <<cfg, status, fileVars, op, writeVars>>

KeepCloseErr(c, e) == asyncClose' = IF op[c] = "Close" THEN e ELSE asyncClose

(* Mutant of Drained: Shutdown does not look at the abort.                 *)
DrainedBlind(c) ==
    /\ pc[c] = "wait"
    /\ phase = "closed"
    /\ Goto(c, "resources")
    /\ KeepCloseErr(c, "nil")
    /\ UNCHANGED <<cfg, status, phase, aborted, fileVars, op, ret, writeVars>>

(* The wrapper reports that it drained.  After an abort it says so in the  *)
(* error, at which Shutdown returns and Close goes on.                     *)
Drained(c) ==
    /\ pc[c] = "wait"
    /\ phase = "closed"
    /\ AddErr(c, AbortErr(aborted))
    /\ Goto(c, IF aborted /\ op[c] # "Close" THEN "returned" ELSE "resources")
    /\ KeepCloseErr(c, IF aborted THEN "aborted" ELSE "nil")
    /\ UNCHANGED <<cfg, status, phase, aborted, fileVars, op, writeVars>>

(* The wrapper reports ErrFlushTimeout.                                    *)
FlushTimeout(c) ==
    /\ pc[c] = "wait"
    /\ Bounded(c)
    /\ Goto(c, "timedOut")
    /\ KeepCloseErr(c, "timeout")
    /\ UNCHANGED <<cfg, status, phase, aborted, fileVars, op, ret, writeVars>>

(* Mutant of OnTimeout: a timed-out Close tears down in either policy.     *)
OnTimeoutTeardown(c) ==
    /\ pc[c] = "timedOut"
    /\ AddErr(c, {"ErrFlushTimeout"})
    /\ Goto(c, IF op[c] = "Close" THEN "resources" ELSE "returned")
    /\ UNCHANGED <<cfg, asyncVars, fileVars, op, writeVars>>

(* Shutdown returns ErrFlushTimeout; Close escalates to Abort under        *)
(* CloseTimeoutAutoAbort and returns too under CloseTimeoutReturn.         *)
OnTimeout(c) ==
    /\ pc[c] = "timedOut"
    /\ AddErr(c, {"ErrFlushTimeout"})
    /\ IF op[c] = "Close" /\ AutoAbort
       THEN aborted' = TRUE /\ Goto(c, "abort")
       ELSE Goto(c, "returned") /\ UNCHANGED aborted
    /\ UNCHANGED <<cfg, status, phase, asyncClose, fileVars, op, writeVars>>

(* Mutant of AbortReturns: an expired context leaves the file alone.       *)
AbortReturnsEarly(c) ==
    /\ pc[c] = "abort"
    /\ \/ /\ phase = "closed"
          /\ AddErr(c, {"ErrAborted"})
          /\ Goto(c, "resources")
       \/ /\ op[c] = "AbortCtx"
          /\ AddErr(c, {"ErrAborted", "ctx"})
          /\ Goto(c, "returned")
    /\ UNCHANGED <<cfg, asyncVars, fileVars, op, writeVars>>

(* AbortContext returns when the wrapper is through, or when ctx expires.  *)
AbortReturns(c) ==
    /\ pc[c] = "abort"
    /\ \/ phase = "closed" /\ AddErr(c, {"ErrAborted"})
       \/ op[c] = "AbortCtx" /\ AddErr(c, {"ErrAborted", "ctx"})
    /\ Goto(c, "resources")
    /\ UNCHANGED <<cfg, asyncVars, fileVars, op, writeVars>>

-----------------------------------------------------------------------------
(* closeResourcesOnce: the first caller tears the file down.               *)
CloseResourcesOnce(c) ==
    /\ pc[c] = "resources"
    /\ \/ /\ closeOnce = "done"
          /\ AddErr(c, closeErr)
          /\ Goto(c, "returned")
          /\ UNCHANGED <<closeOnce, mu>>
       \/ /\ closeOnce = "new"
          /\ mu = None
          /\ closeOnce' = "running"
          /\ mu' = c
          /\ Goto(c, "swap")
          /\ UNCHANGED ret
    /\ UNCHANGED <<cfg, asyncVars, fd, w, owned, swSet, closeErr, op,
                   writeVars>>

(* SwitchableWriter.Close puts io.Discard in place under sw.mu ...         *)
SwapWriter(c) ==
    /\ pc[c] = "swap"
    /\ swMu = None
    /\ w' = Discard
    /\ Goto(c, "closeFile")
    /\ UNCHANGED <<cfg, asyncVars, fd, owned, swSet, mu, closeOnce, closeErr,
                   op, ret, writeVars>>

(* ... and closes what it took out, the owned file.  If that fails the     *)
(* handler closes the file once more, in vain.  cfg.ClosableWriter is the  *)
(* same SwitchableWriter, which has nothing left to close.                 *)
CloseFile(c) ==
    /\ pc[c] = "closeFile"
    /\ fd' = [fd EXCEPT ![owned] = "closed"]
    /\ closeErr' \in {Nil, {"close"}}
    /\ AddErr(c, closeErr')
    /\ owned' = None
    /\ swSet' = FALSE
    /\ mu' = None
    /\ closeOnce' = "done"
    /\ Goto(c, "returned")
    /\ UNCHANGED <<cfg, asyncVars, w, op, writeVars>>

-----------------------------------------------------------------------------
(* ReopenLogFile, all of it under h.mu: nothing without a SwitchableWriter;*)
(* otherwise open a new file, which may fail ...                           *)
OpenFile(c) ==
    /\ pc[c] = "reopen"
    /\ mu = None
    /\ \/ /\ swSet
          /\ \E f \in Files :
                /\ fd[f] = "none"
                /\ \A g \in 1..(f - 1) : fd[g] # "none"
                /\ fd' = [fd EXCEPT ![f] = "open"]
          /\ mu' = c
          /\ Goto(c, "setWriter")
          /\ UNCHANGED ret
       \/ /\ swSet
          /\ AddErr(c, {"open"})
          /\ Goto(c, "returned")
          /\ UNCHANGED <<fd, mu>>
       \/ /\ ~swSet
          /\ Goto(c, "returned")
          /\ UNCHANGED <<fd, mu, ret>>
    /\ UNCHANGED <<cfg, asyncVars, w, owned, swSet, closeOnce, closeErr, op,
                   writeVars>>

(* The file that OpenFile opened last.                                     *)
Newest == CHOOSE f \in Files :
              fd[f] # "none" /\ \A g \in (f + 1)..MaxFiles : fd[g] = "none"

(* Mutant of SetWriter: the writer is replaced without sw.mu.              *)
SetWriterUnlocked(c) ==
    /\ pc[c] = "setWriter"
    /\ w' = Newest
    /\ Goto(c, "closeOld")
    /\ UNCHANGED <<cfg, asyncVars, fd, owned, swSet, mu, closeOnce, closeErr,
                   op, ret, writeVars>>

(* ... SetWriter, under sw.mu ...                                          *)
SetWriter(c) ==
    /\ pc[c] = "setWriter"
    /\ swMu = None
    /\ w' = Newest
    /\ Goto(c, "closeOld")
    /\ UNCHANGED <<cfg, asyncVars, fd, owned, swSet, mu, closeOnce, closeErr,
                   op, ret, writeVars>>

(* Mutant of CloseOld: the file that was open before is forgotten.         *)
CloseOldForgotten(c) ==
    /\ pc[c] = "closeOld"
    /\ owned' = w
    /\ mu' = None
    /\ Goto(c, "returned")
    /\ UNCHANGED <<cfg, asyncVars, fd, w, swSet, closeOnce, closeErr, op, ret,
                   writeVars>>

(* ... and close the file that was open before.  h.ownedFile is read only  *)
(* under h.mu, so its assignment is part of this step.                     *)
CloseOld(c) ==
    /\ pc[c] = "closeOld"
    /\ fd' = [fd EXCEPT ![owned] = "closed"]
    /\ owned' = w
    /\ mu' = None
    /\ Goto(c, "returned")
    /\ UNCHANGED <<cfg, asyncVars, w, swSet, closeOnce, closeErr, op, ret,
                   writeVars>>

-----------------------------------------------------------------------------
Record(r) ==
    \/ Handle(r)
    \/ AsyncDrop(r)
    \/ BeginWrite(r)
    \/ EndWrite(r)

Call(c) ==
    \/ EnterAsync(c)
    \/ Drained(c)
    \/ FlushTimeout(c)
    \/ OnTimeout(c)
    \/ AbortReturns(c)
    \/ CloseResourcesOnce(c)
    \/ SwapWriter(c)
    \/ CloseFile(c)
    \/ OpenFile(c)
    \/ SetWriter(c)
    \/ CloseOld(c)

(* All calls have returned and no record is pending.                       *)
Terminated ==
    /\ \A c \in Callers : pc[c] = "returned"
    /\ \A r \in Records : status[r] \in {"handled", "dropped"}
    /\ UNCHANGED vars

Next ==
    \/ \E r \in Records : Record(r)
    \/ \E c \in Callers : Invoke(c) \/ Call(c)
    \/ AsyncDrained
    \/ Terminated

Spec == Init /\ [][Next]_vars

(* Callers and workers keep running and writes to the file return; nobody  *)
(* has to log or to call.                                                  *)
Fairness ==
    /\ \A c \in Callers : WF_vars(Call(c))
    /\ \A r \in Records : WF_vars(BeginWrite(r) \/ EndWrite(r))
    /\ WF_vars(AsyncDrained)

FairSpec == Spec /\ Fairness

-----------------------------------------------------------------------------
(* While Write holds sw.mu, the file it writes to is open: neither         *)
(* ReopenLogFile nor Close closes a file under a write.                    *)
NoWriteToClosedFile ==
    swMu # None /\ target # Discard => fd[target] = "open"

(* When nobody is inside h.mu, at most the file the handler owns is open:  *)
(* rotation leaks no file handle, and none stays open after the handler's  *)
(* resources are closed, however ReopenLogFile races with Close.           *)
NoLeakedFile ==
    mu = None =>
        \A f \in Files : fd[f] = "open" => f = owned /\ closeOnce # "done"

(* A record that the async wrapper took in reaches the file or is dropped  *)
(* by the wrapper; that it is written to io.Discard without anyone being   *)
(* told happens only after an Abort whose context expired.  In particular  *)
(* a Close or Shutdown that timed out does not close the file under the    *)
(* workers.                                                                *)
SilentLossOnlyByExpiredAbort ==
    Async /\ (\E r \in Records : sink[r] = "discard") =>
        \E c \in Callers : op[c] = "AbortCtx" /\ "ctx" \in ret[c]

(* A Shutdown that returns nil has closed the file, and behind the wrapper *)
(* every record that was taken in has reached a file or was reported as    *)
(* dropped: none is pending, and none went to io.Discard or to a closed    *)
(* file, which Write accepts or refuses with nobody there to be told.      *)
(* Without the wrapper a record may be logged while Shutdown runs, and     *)
(* after it, and then goes to io.Discard.                                  *)
ShutdownNilMeansWritten ==
    \A c \in Callers :
        /\ op[c] \in {"Shutdown", "ShutdownCtx"}
        /\ pc[c] = "returned"
        /\ ret[c] = Nil
        => /\ \A f \in Files : fd[f] # "open"
           /\ Async => \A r \in Records :
                 status[r] \in {"new", "dropped"} \/ sink[r] = "file"

(* Under CloseTimeoutAutoAbort every Close comes to an end with the file   *)
(* closed, also when the flush timeout expires first.                      *)
CloseReleasesFile ==
    AutoAbort =>
        \A c \in Callers :
            op[c] = "Close" ~>
                pc[c] = "returned" /\ \A f \in Files : fd[f] # "open"

(* Whatever Close and Shutdown left open after a timeout, an Abort closes. *)
AbortReleasesFile ==
    \A c \in Callers :
        IsAbort(c) ~> pc[c] = "returned" /\ \A f \in Files : fd[f] # "open"

(* Nothing is lost in silence: not by a Shutdown that returns nil, and of  *)
(* the others only by an Abort that ran out of time.                       *)
NothingLostInSilence == SilentLossOnlyByExpiredAbort /\ ShutdownNilMeansWritten

(* The file is closed in the end by every Abort, and by every Close under  *)
(* CloseTimeoutAutoAbort.                                                  *)
FileIsReleased == CloseReleasesFile /\ AbortReleasesFile
=============================================================================
