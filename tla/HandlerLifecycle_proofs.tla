---------------------- MODULE HandlerLifecycle_proofs ----------------------
(***************************************************************************)
(* Proofs about HandlerLifecycle, for any number of records, calls and     *)
(* files and every configuration: no file is closed under a write or       *)
(* leaked, and no record is lost in silence.                               *)
(***************************************************************************)
EXTENDS HandlerLifecycle, TLAPS

USE DEF asyncVars, fileVars, callVars, writeVars, vars

Places == {"idle", "reopen", "async", "wait", "timedOut", "abort", "resources",
           "swap", "closeFile", "setWriter", "closeOld", "returned"}
Errors == {"ErrAborted", "ErrFlushTimeout", "ctx", "close", "open"}

(* Inside h.mu, and inside closeOnce.                                      *)
InMu(c)   == pc[c] \in {"swap", "closeFile", "setWriter", "closeOld"}
InOnce(c) == pc[c] \in {"swap", "closeFile"}

(* An Abort whose context expired while the wrapper was still at work.     *)
Expired(c) == op[c] = "AbortCtx" /\ "ctx" \in ret[c]

(* The types of the variables that the handler and its callers use.        *)
CallTypes ==
    /\ cfg \in Configs
    /\ pc \in [Callers -> Places]
    /\ op \in [Callers -> AllOps \cup {"none"}]
    /\ ret \in [Callers -> SUBSET Errors]
    /\ mu \in Callers \cup {None}
    /\ closeOnce \in {"new", "running", "done"}
    /\ closeErr \in SUBSET Errors
    /\ asyncClose \in {"new", "running", "nil", "aborted", "timeout"}

(* The types of the variables that stand for records and files.            *)
FileTypes ==
    /\ fd \in [Files -> {"none", "open", "closed"}]
    /\ w \in Files \cup {Discard}
    /\ owned \in Files \cup {None}
    /\ swSet \in BOOLEAN
    /\ swMu \in Records \cup {None}
    /\ target \in Files \cup {Discard}
    /\ status \in [Records -> {"new", "accepted", "handled", "dropped"}]
    /\ phase \in {"open", "closing", "closed"}
    /\ aborted \in BOOLEAN
    /\ sink \in [Records -> {"none", "discard", "file", "error"}]

(* h.mu has one holder, and closeOnce runs under it; it is done when the   *)
(* SwitchableWriter is gone.                                               *)
LockInv ==
    /\ \A c \in Callers : InMu(c) <=> mu = c
    /\ \A c \in Callers : InOnce(c) => closeOnce = "running"
    /\ closeOnce = "running" => \E c \in Callers : InOnce(c)
    /\ swSet <=> closeOnce # "done"

(* The files opened so far are the first ones.                             *)
NumberInv ==
    \A f \in Files : \A g \in Files : (f < g /\ fd[f] = "none") => fd[g] = "none"

(* Only F are open.                                                        *)
OnlyOpen(F) == \A f \in Files : fd[f] = "open" <=> f \in F

(* Which files are open, by where the holder of h.mu is: one as a rule,    *)
(* two in the middle of ReopenLogFile.                                     *)
FileInv ==
    /\ ~swSet => w = Discard /\ OnlyOpen({})
    /\ swSet => owned \in Files
    /\ (swSet /\ mu = None) => w = owned /\ OnlyOpen({owned})
    /\ \A c \in Callers :
        /\ pc[c] = "swap" => w = owned /\ OnlyOpen({owned})
        /\ pc[c] = "closeFile" => w = Discard /\ OnlyOpen({owned})
        /\ pc[c] = "setWriter" =>
              /\ w = owned
              /\ \E n \in Files : /\ n # owned /\ OnlyOpen({owned, n})
                                  /\ \A g \in (n + 1)..MaxFiles : fd[g] = "none"
        /\ pc[c] = "closeOld" =>
              w \in Files /\ w # owned /\ OnlyOpen({owned, w})

(* A Write in progress writes to the current writer, which is not replaced *)
(* meanwhile, a record that the wrapper took in.                           *)
WriteInv ==
    /\ swMu # None => target = w /\ status[swMu] = "accepted"
    /\ swMu = None => target = Discard

(* The wrapper is through when a call goes on to the file, but for an      *)
(* Abort that ran out of time; and nothing is pending when it is through.  *)
DrainInv ==
    /\ \A c \in Callers : pc[c] = "idle" => op[c] = "none"
    /\ Async =>
        /\ phase = "closed" => \A r \in Records : status[r] # "accepted"
        /\ asyncClose \in {"nil", "aborted"} => phase = "closed"
        /\ \A c \in Callers :
              (pc[c] = "resources" \/ InOnce(c)) => phase = "closed" \/ Expired(c)
        /\ closeOnce # "new" =>
              phase = "closed" \/ \E c \in Callers : Expired(c)

(* How far a Shutdown is that has met no error.                            *)
ShutdownInv ==
    \A c \in Callers : op[c] \in {"Shutdown", "ShutdownCtx"} =>
        /\ (Async /\ (pc[c] = "resources" \/ InOnce(c))) => phase = "closed"
        /\ (pc[c] = "returned" /\ ret[c] = Nil) =>
              closeOnce = "done" /\ (Async => phase = "closed")
        /\ pc[c] \notin {"reopen", "setWriter", "closeOld"}

(* No record went to io.Discard.                                           *)
NoneDiscarded == \A r \in Records : sink[r] # "discard"

(* Where the records that were written are, and that behind the wrapper    *)
(* none is discarded while a Shutdown has met no error: the wrapper would  *)
(* have told it of the Abort that must have come before.                   *)
SinkInv ==
    /\ \A r \in Records : status[r] = "handled" => sink[r] \in {"file", "discard"}
    /\ closeErr \subseteq {"close"}
    /\ Async => \A c \in Callers :
          /\ (pc[c] = "abort" \/ "ctx" \in ret[c]) => aborted
          /\ pc[c] = "abort" => op[c] \notin {"Shutdown", "ShutdownCtx"}
          /\ (/\ op[c] \in {"Shutdown", "ShutdownCtx"}
              /\ \/ pc[c] = "resources" \/ InOnce(c)
                 \/ pc[c] = "returned" /\ ret[c] = Nil)
             => phase = "closed" /\ NoneDiscarded

(* The inductive invariant.                                                *)
IInv == /\ CallTypes /\ FileTypes /\ LockInv /\ NumberInv /\ FileInv /\ WriteInv
        /\ DrainInv /\ ShutdownInv /\ SinkInv /\ SilentLossOnlyByExpiredAbort

-----------------------------------------------------------------------------
(* Types.                                                                  *)

(* errors.Join keeps the types of results.                                 *)
LEMMA JoinTypes ==
    ASSUME ret \in [Callers -> SUBSET Errors], NEW c \in Callers,
           NEW errs \in SUBSET Errors, AddErr(c, errs)
    PROVE  ret' \in [Callers -> SUBSET Errors]
    BY DEF AddErr

(* Calls keep the types of their state.                                    *)
LEMMA CallTypesStep == CallTypes /\ [Next]_vars => CallTypes'
<1> SUFFICES ASSUME CallTypes, [Next]_vars PROVE CallTypes'
    OBVIOUS
<1> USE LifecycleAssumption DEF CallTypes, Places, Errors, AllOps, Nil
<1>1. ASSUME NEW r \in Records, Handle(r) PROVE CallTypes'
    BY <1>1 DEF Handle, Log!Accept, Log!Refuse, Log!Become
<1>2. ASSUME NEW r \in Records, AsyncDrop(r) PROVE CallTypes'
    BY <1>2 DEF AsyncDrop, Log!Drop, Log!Become
<1>3. ASSUME NEW r \in Records, BeginWrite(r) PROVE CallTypes'
    BY <1>3 DEF BeginWrite
<1>4. ASSUME NEW r \in Records, EndWrite(r) PROVE CallTypes'
    BY <1>4 DEF EndWrite, Log!Become
<1>5. CASE AsyncDrained
    BY <1>5 DEF AsyncDrained, Log!CloseInner
<1>6. ASSUME NEW c \in Callers, Invoke(c) PROVE CallTypes'
    BY <1>6 DEF Invoke, Goto
<1>7. ASSUME NEW c \in Callers, EnterAsync(c) PROVE CallTypes'
    BY <1>7 DEF EnterAsync, BeginClosing, IsAbort, AddErr, AbortErr, Goto
<1>8. ASSUME NEW c \in Callers, Drained(c) PROVE CallTypes'
    BY <1>8 DEF Drained, AddErr, AbortErr, KeepCloseErr, Goto
<1>9. ASSUME NEW c \in Callers, FlushTimeout(c) PROVE CallTypes'
    BY <1>9 DEF FlushTimeout, KeepCloseErr, Goto
<1>10. ASSUME NEW c \in Callers, OnTimeout(c) PROVE CallTypes'
    BY <1>10 DEF OnTimeout, AddErr, Goto
<1>11. ASSUME NEW c \in Callers, AbortReturns(c) PROVE CallTypes'
    BY <1>11 DEF AbortReturns, AddErr, Goto
<1>12. ASSUME NEW c \in Callers, CloseResourcesOnce(c) PROVE CallTypes'
    <2>1. ret' \in [Callers -> SUBSET Errors]
        BY <1>12, JoinTypes DEF CloseResourcesOnce
    <2> QED
        BY <1>12, <2>1 DEF CloseResourcesOnce, Goto
<1>13. ASSUME NEW c \in Callers, SwapWriter(c) PROVE CallTypes'
    BY <1>13 DEF SwapWriter, Goto
<1>14. ASSUME NEW c \in Callers, CloseFile(c) PROVE CallTypes'
    BY <1>14 DEF CloseFile, AddErr, Goto
<1>15. ASSUME NEW c \in Callers, OpenFile(c) PROVE CallTypes'
    BY <1>15 DEF OpenFile, AddErr, Goto
<1>16. ASSUME NEW c \in Callers, SetWriter(c) PROVE CallTypes'
    BY <1>16 DEF SetWriter, Goto
<1>17. ASSUME NEW c \in Callers, CloseOld(c) PROVE CallTypes'
    BY <1>17 DEF CloseOld, Goto
<1>18. CASE UNCHANGED vars
    BY <1>18
<1> QED
    BY <1>1, <1>2, <1>3, <1>4, <1>5, <1>6, <1>7, <1>8, <1>9, <1>10, <1>11,
       <1>12, <1>13, <1>14, <1>15, <1>16, <1>17, <1>18
       DEF Next, Record, Call, Terminated

(* Newest is the last file that was opened.                                *)
LEMMA NewestIs ==
    ASSUME NEW n \in Files, fd[n] # "none",
           \A g \in (n + 1)..MaxFiles : fd[g] = "none"
    PROVE  Newest = n
<1> DEFINE Last(f) == fd[f] # "none" /\ \A g \in (f + 1)..MaxFiles : fd[g] = "none"
<1>1. Last(n)
    OBVIOUS
<1>2. \A m \in Files : Last(m) => m = n
    BY LifecycleAssumption DEF Files
<1>3. Newest \in Files /\ Last(Newest)
    BY <1>1 DEF Newest
<1> QED
    BY <1>2, <1>3

(* SetWriter installs the file that OpenFile opened.                       *)
LEMMA SetWriterFile ==
    ASSUME FileInv, NEW c \in Callers, SetWriter(c)
    PROVE  w' \in Files /\ w' # owned /\ OnlyOpen({owned, w'})
<1>1. PICK n \in Files : /\ n # owned /\ OnlyOpen({owned, n})
                         /\ \A g \in (n + 1)..MaxFiles : fd[g] = "none"
    BY DEF FileInv, SetWriter
<1>2. fd[n] # "none"
    BY <1>1 DEF OnlyOpen
<1>3. Newest = n
    BY <1>1, <1>2, NewestIs
<1> QED
    BY <1>1, <1>3 DEF SetWriter

(* Writes and rotations keep the types of records and files.               *)
LEMMA FileTypesStep == FileTypes /\ FileInv /\ [Next]_vars => FileTypes'
<1> SUFFICES ASSUME FileTypes, FileInv, [Next]_vars PROVE FileTypes'
    OBVIOUS
<1> USE LifecycleAssumption DEF FileTypes
<1>1. ASSUME NEW r \in Records, Handle(r) PROVE FileTypes'
    BY <1>1 DEF Handle, Log!Accept, Log!Refuse, Log!Become
<1>2. ASSUME NEW r \in Records, AsyncDrop(r) PROVE FileTypes'
    BY <1>2 DEF AsyncDrop, Log!Drop, Log!Become
<1>3. ASSUME NEW r \in Records, BeginWrite(r) PROVE FileTypes'
    BY <1>3 DEF BeginWrite
<1>4. ASSUME NEW r \in Records, EndWrite(r) PROVE FileTypes'
    BY <1>4 DEF EndWrite, Log!Become
<1>5. CASE AsyncDrained
    BY <1>5 DEF AsyncDrained, Log!CloseInner
<1>6. ASSUME NEW c \in Callers, Invoke(c) PROVE FileTypes'
    BY <1>6 DEF Invoke, Goto
<1>7. ASSUME NEW c \in Callers, EnterAsync(c) PROVE FileTypes'
    BY <1>7 DEF EnterAsync, BeginClosing, IsAbort, AddErr, AbortErr, Goto
<1>8. ASSUME NEW c \in Callers, Drained(c) PROVE FileTypes'
    BY <1>8 DEF Drained, AddErr, AbortErr, KeepCloseErr, Goto
<1>9. ASSUME NEW c \in Callers, FlushTimeout(c) PROVE FileTypes'
    BY <1>9 DEF FlushTimeout, KeepCloseErr, Goto
<1>10. ASSUME NEW c \in Callers, OnTimeout(c) PROVE FileTypes'
    BY <1>10 DEF OnTimeout, AddErr, Goto
<1>11. ASSUME NEW c \in Callers, AbortReturns(c) PROVE FileTypes'
    BY <1>11 DEF AbortReturns, AddErr, Goto
<1>12. ASSUME NEW c \in Callers, CloseResourcesOnce(c) PROVE FileTypes'
    BY <1>12 DEF CloseResourcesOnce, AddErr, Goto
<1>13. ASSUME NEW c \in Callers, SwapWriter(c) PROVE FileTypes'
    BY <1>13 DEF SwapWriter, Goto
<1>14. ASSUME NEW c \in Callers, CloseFile(c) PROVE FileTypes'
    BY <1>14 DEF CloseFile, AddErr, Goto
<1>15. ASSUME NEW c \in Callers, OpenFile(c) PROVE FileTypes'
    BY <1>15 DEF OpenFile, AddErr, Goto
<1>16. ASSUME NEW c \in Callers, SetWriter(c) PROVE FileTypes'
    <2>1. w' \in Files
        BY <1>16, SetWriterFile
    <2> QED
        BY <1>16, <2>1 DEF SetWriter
<1>17. ASSUME NEW c \in Callers, CloseOld(c) PROVE FileTypes'
    <2>1. w \in Files
        BY <1>17 DEF CloseOld, FileInv
    <2> QED
        BY <1>17, <2>1 DEF CloseOld
<1>18. CASE UNCHANGED vars
    BY <1>18
<1> QED
    BY <1>1, <1>2, <1>3, <1>4, <1>5, <1>6, <1>7, <1>8, <1>9, <1>10, <1>11,
       <1>12, <1>13, <1>14, <1>15, <1>16, <1>17, <1>18
       DEF Next, Record, Call, Terminated

-----------------------------------------------------------------------------
(* Files.                                                                  *)

(* h.mu has one holder, and closeOnce is run by it.                        *)
LEMMA LockStep == CallTypes /\ FileTypes /\ LockInv /\ [Next]_vars => LockInv'
<1> SUFFICES ASSUME CallTypes, FileTypes, LockInv, [Next]_vars PROVE LockInv'
    OBVIOUS
<1> USE LifecycleAssumption DEF CallTypes, FileTypes, LockInv, InMu, InOnce,
        Places
<1>1. ASSUME NEW r \in Records, Handle(r) PROVE LockInv'
    BY <1>1 DEF Handle, Log!Accept, Log!Refuse, Log!Become
<1>2. ASSUME NEW r \in Records, AsyncDrop(r) PROVE LockInv'
    BY <1>2 DEF AsyncDrop, Log!Drop, Log!Become
<1>3. ASSUME NEW r \in Records, BeginWrite(r) PROVE LockInv'
    BY <1>3 DEF BeginWrite
<1>4. ASSUME NEW r \in Records, EndWrite(r) PROVE LockInv'
    BY <1>4 DEF EndWrite, Log!Become
<1>5. CASE AsyncDrained
    BY <1>5 DEF AsyncDrained, Log!CloseInner
<1>6. ASSUME NEW c \in Callers, Invoke(c) PROVE LockInv'
    BY <1>6 DEF Invoke, Goto
<1>7. ASSUME NEW c \in Callers, EnterAsync(c) PROVE LockInv'
    BY <1>7 DEF EnterAsync, BeginClosing, IsAbort, AddErr, AbortErr, Goto
<1>8. ASSUME NEW c \in Callers, Drained(c) PROVE LockInv'
    BY <1>8 DEF Drained, AddErr, AbortErr, KeepCloseErr, Goto
<1>9. ASSUME NEW c \in Callers, FlushTimeout(c) PROVE LockInv'
    BY <1>9 DEF FlushTimeout, KeepCloseErr, Goto
<1>10. ASSUME NEW c \in Callers, OnTimeout(c) PROVE LockInv'
    BY <1>10 DEF OnTimeout, AddErr, Goto
<1>11. ASSUME NEW c \in Callers, AbortReturns(c) PROVE LockInv'
    BY <1>11 DEF AbortReturns, AddErr, Goto
<1>12. ASSUME NEW c \in Callers, CloseResourcesOnce(c) PROVE LockInv'
    BY <1>12 DEF CloseResourcesOnce, AddErr, Goto
<1>13. ASSUME NEW c \in Callers, SwapWriter(c) PROVE LockInv'
    BY <1>13 DEF SwapWriter, Goto
<1>14. ASSUME NEW c \in Callers, CloseFile(c) PROVE LockInv'
    BY <1>14 DEF CloseFile, AddErr, Goto
<1>15. ASSUME NEW c \in Callers, OpenFile(c) PROVE LockInv'
    BY <1>15 DEF OpenFile, AddErr, Goto
<1>16. ASSUME NEW c \in Callers, SetWriter(c) PROVE LockInv'
    BY <1>16 DEF SetWriter, Goto
<1>17. ASSUME NEW c \in Callers, CloseOld(c) PROVE LockInv'
    BY <1>17 DEF CloseOld, Goto
<1>18. CASE UNCHANGED vars
    BY <1>18
<1> QED
    BY <1>1, <1>2, <1>3, <1>4, <1>5, <1>6, <1>7, <1>8, <1>9, <1>10, <1>11,
       <1>12, <1>13, <1>14, <1>15, <1>16, <1>17, <1>18
       DEF Next, Record, Call, Terminated

(* Files are opened in their order.                                        *)
LEMMA NumberStep ==
    FileTypes /\ NumberInv /\ FileInv /\ LockInv /\ [Next]_vars
    => NumberInv'
<1> SUFFICES ASSUME FileTypes, NumberInv, FileInv, LockInv, [Next]_vars
             PROVE  NumberInv'
    OBVIOUS
<1> USE LifecycleAssumption DEF FileTypes, NumberInv
<1>1. ASSUME NEW r \in Records, Handle(r) PROVE NumberInv'
    BY <1>1 DEF Handle, Log!Accept, Log!Refuse, Log!Become
<1>2. ASSUME NEW r \in Records, AsyncDrop(r) PROVE NumberInv'
    BY <1>2 DEF AsyncDrop, Log!Drop, Log!Become
<1>3. ASSUME NEW r \in Records, BeginWrite(r) PROVE NumberInv'
    BY <1>3 DEF BeginWrite
<1>4. ASSUME NEW r \in Records, EndWrite(r) PROVE NumberInv'
    BY <1>4 DEF EndWrite, Log!Become
<1>5. CASE AsyncDrained
    BY <1>5 DEF AsyncDrained, Log!CloseInner
<1>6. ASSUME NEW c \in Callers, Invoke(c) PROVE NumberInv'
    BY <1>6 DEF Invoke, Goto
<1>7. ASSUME NEW c \in Callers, EnterAsync(c) PROVE NumberInv'
    BY <1>7 DEF EnterAsync, BeginClosing, IsAbort, AddErr, AbortErr, Goto
<1>8. ASSUME NEW c \in Callers, Drained(c) PROVE NumberInv'
    BY <1>8 DEF Drained, AddErr, AbortErr, KeepCloseErr, Goto
<1>9. ASSUME NEW c \in Callers, FlushTimeout(c) PROVE NumberInv'
    BY <1>9 DEF FlushTimeout, KeepCloseErr, Goto
<1>10. ASSUME NEW c \in Callers, OnTimeout(c) PROVE NumberInv'
    BY <1>10 DEF OnTimeout, AddErr, Goto
<1>11. ASSUME NEW c \in Callers, AbortReturns(c) PROVE NumberInv'
    BY <1>11 DEF AbortReturns, AddErr, Goto
<1>12. ASSUME NEW c \in Callers, CloseResourcesOnce(c) PROVE NumberInv'
    BY <1>12 DEF CloseResourcesOnce, AddErr, Goto
<1>13. ASSUME NEW c \in Callers, SwapWriter(c) PROVE NumberInv'
    BY <1>13 DEF SwapWriter, Goto
<1>14. ASSUME NEW c \in Callers, CloseFile(c) PROVE NumberInv'
    <2>1. owned \in Files /\ fd[owned] = "open"
        BY <1>14 DEF CloseFile, FileInv, OnlyOpen, LockInv, InOnce
    <2>2. fd' = [fd EXCEPT ![owned] = "closed"]
        BY <1>14 DEF CloseFile
    <2> QED
        BY <2>1, <2>2
<1>15. ASSUME NEW c \in Callers, OpenFile(c) PROVE NumberInv'
    <2>1. CASE UNCHANGED fd
        BY <2>1
    <2>2. ASSUME NEW f \in Files, fd[f] = "none",
                 \A g \in 1..(f - 1) : fd[g] # "none",
                 fd' = [fd EXCEPT ![f] = "open"]
          PROVE  NumberInv'
        BY <2>2 DEF Files
    <2> QED
        BY <1>15, <2>1, <2>2 DEF OpenFile
<1>16. ASSUME NEW c \in Callers, SetWriter(c) PROVE NumberInv'
    BY <1>16 DEF SetWriter, Goto
<1>17. ASSUME NEW c \in Callers, CloseOld(c) PROVE NumberInv'
    <2>1. owned \in Files /\ fd[owned] = "open"
        BY <1>17 DEF CloseOld, FileInv, OnlyOpen, LockInv, InMu
    <2>2. fd' = [fd EXCEPT ![owned] = "closed"]
        BY <1>17 DEF CloseOld
    <2> QED
        BY <2>1, <2>2
<1>18. CASE UNCHANGED vars
    BY <1>18
<1> QED
    BY <1>1, <1>2, <1>3, <1>4, <1>5, <1>6, <1>7, <1>8, <1>9, <1>10, <1>11,
       <1>12, <1>13, <1>14, <1>15, <1>16, <1>17, <1>18
       DEF Next, Record, Call, Terminated

(* One file is open, or two in the middle of a rotation, or none.          *)
LEMMA FileStep ==
    CallTypes /\ FileTypes /\ LockInv /\ NumberInv /\ FileInv /\ [Next]_vars
    => FileInv'
<1> SUFFICES ASSUME CallTypes, FileTypes, LockInv, NumberInv, FileInv, [Next]_vars
             PROVE  FileInv'
    OBVIOUS
<1> USE LifecycleAssumption DEF CallTypes, FileTypes, LockInv, FileInv, InMu,
        InOnce, OnlyOpen, Places
<1>1. ASSUME NEW r \in Records, Handle(r) PROVE FileInv'
    BY <1>1 DEF Handle, Log!Accept, Log!Refuse, Log!Become
<1>2. ASSUME NEW r \in Records, AsyncDrop(r) PROVE FileInv'
    BY <1>2 DEF AsyncDrop, Log!Drop, Log!Become
<1>3. ASSUME NEW r \in Records, BeginWrite(r) PROVE FileInv'
    BY <1>3 DEF BeginWrite
<1>4. ASSUME NEW r \in Records, EndWrite(r) PROVE FileInv'
    BY <1>4 DEF EndWrite, Log!Become
<1>5. CASE AsyncDrained
    BY <1>5 DEF AsyncDrained, Log!CloseInner
<1>6. ASSUME NEW c \in Callers, Invoke(c) PROVE FileInv'
    BY <1>6 DEF Invoke, Goto
<1>7. ASSUME NEW c \in Callers, EnterAsync(c) PROVE FileInv'
    BY <1>7 DEF EnterAsync, BeginClosing, IsAbort, AddErr, AbortErr, Goto
<1>8. ASSUME NEW c \in Callers, Drained(c) PROVE FileInv'
    BY <1>8 DEF Drained, AddErr, AbortErr, KeepCloseErr, Goto
<1>9. ASSUME NEW c \in Callers, FlushTimeout(c) PROVE FileInv'
    BY <1>9 DEF FlushTimeout, KeepCloseErr, Goto
<1>10. ASSUME NEW c \in Callers, OnTimeout(c) PROVE FileInv'
    BY <1>10 DEF OnTimeout, AddErr, Goto
<1>11. ASSUME NEW c \in Callers, AbortReturns(c) PROVE FileInv'
    BY <1>11 DEF AbortReturns, AddErr, Goto
<1>12. ASSUME NEW c \in Callers, CloseResourcesOnce(c) PROVE FileInv'
    BY <1>12 DEF CloseResourcesOnce, AddErr, Goto
<1>13. ASSUME NEW c \in Callers, SwapWriter(c) PROVE FileInv'
    BY <1>13 DEF SwapWriter, Goto
<1>14. ASSUME NEW c \in Callers, CloseFile(c) PROVE FileInv'
    BY <1>14 DEF CloseFile, AddErr, Goto
<1>15. ASSUME NEW c \in Callers, OpenFile(c) PROVE FileInv'
    <2>1. CASE UNCHANGED <<fd, mu>>
        BY <1>15, <2>1 DEF OpenFile, Goto
    <2>2. ASSUME swSet, NEW f \in Files, fd[f] = "none",
                 \A g \in 1..(f - 1) : fd[g] # "none",
                 fd' = [fd EXCEPT ![f] = "open"], mu' = c, Goto(c, "setWriter")
          PROVE  FileInv'
        <3>1. w = owned /\ owned \in Files /\ OnlyOpen({owned}) /\ f # owned
            BY <1>15, <2>2 DEF OpenFile
        <3>2. OnlyOpen({owned, f})'
            BY <1>15, <2>2, <3>1 DEF OpenFile
        <3>3. \A g \in (f + 1)..MaxFiles : fd'[g] = "none"
            BY <2>2 DEF NumberInv, Files
        <3>4. \A d \in Callers : pc'[d] = IF d = c THEN "setWriter" ELSE pc[d]
            BY <2>2 DEF Goto
        <3>5. \A d \in Callers : ~InMu(d)
            BY <1>15 DEF OpenFile
        <3> QED
            BY <1>15, <2>2, <3>1, <3>2, <3>3, <3>4, <3>5 DEF OpenFile
    <2> QED
        BY <1>15, <2>1, <2>2 DEF OpenFile
<1>16. ASSUME NEW c \in Callers, SetWriter(c) PROVE FileInv'
    <2>1. w' \in Files /\ w' # owned /\ OnlyOpen({owned, w'})
        BY <1>16, SetWriterFile
    <2> QED
        BY <1>16, <2>1 DEF SetWriter, Goto
<1>17. ASSUME NEW c \in Callers, CloseOld(c) PROVE FileInv'
    BY <1>17 DEF CloseOld, Goto
<1>18. CASE UNCHANGED vars
    BY <1>18
<1> QED
    BY <1>1, <1>2, <1>3, <1>4, <1>5, <1>6, <1>7, <1>8, <1>9, <1>10, <1>11,
       <1>12, <1>13, <1>14, <1>15, <1>16, <1>17, <1>18
       DEF Next, Record, Call, Terminated

-----------------------------------------------------------------------------
(* Records.                                                                *)

(* Nobody replaces the writer under a write.                               *)
LEMMA WriteStep == FileTypes /\ WriteInv /\ [Next]_vars => WriteInv'
<1> SUFFICES ASSUME FileTypes, WriteInv, [Next]_vars PROVE WriteInv'
    OBVIOUS
<1> USE LifecycleAssumption DEF FileTypes, WriteInv
<1>1. ASSUME NEW r \in Records, Handle(r) PROVE WriteInv'
    BY <1>1 DEF Handle, Log!Accept, Log!Refuse, Log!Become
<1>2. ASSUME NEW r \in Records, AsyncDrop(r) PROVE WriteInv'
    BY <1>2 DEF AsyncDrop, Log!Drop, Log!Become
<1>3. ASSUME NEW r \in Records, BeginWrite(r) PROVE WriteInv'
    BY <1>3 DEF BeginWrite
<1>4. ASSUME NEW r \in Records, EndWrite(r) PROVE WriteInv'
    BY <1>4 DEF EndWrite, Log!Become
<1>5. CASE AsyncDrained
    BY <1>5 DEF AsyncDrained, Log!CloseInner
<1>6. ASSUME NEW c \in Callers, Invoke(c) PROVE WriteInv'
    BY <1>6 DEF Invoke, Goto
<1>7. ASSUME NEW c \in Callers, EnterAsync(c) PROVE WriteInv'
    BY <1>7 DEF EnterAsync, BeginClosing, IsAbort, AddErr, AbortErr, Goto
<1>8. ASSUME NEW c \in Callers, Drained(c) PROVE WriteInv'
    BY <1>8 DEF Drained, AddErr, AbortErr, KeepCloseErr, Goto
<1>9. ASSUME NEW c \in Callers, FlushTimeout(c) PROVE WriteInv'
    BY <1>9 DEF FlushTimeout, KeepCloseErr, Goto
<1>10. ASSUME NEW c \in Callers, OnTimeout(c) PROVE WriteInv'
    BY <1>10 DEF OnTimeout, AddErr, Goto
<1>11. ASSUME NEW c \in Callers, AbortReturns(c) PROVE WriteInv'
    BY <1>11 DEF AbortReturns, AddErr, Goto
<1>12. ASSUME NEW c \in Callers, CloseResourcesOnce(c) PROVE WriteInv'
    BY <1>12 DEF CloseResourcesOnce, AddErr, Goto
<1>13. ASSUME NEW c \in Callers, SwapWriter(c) PROVE WriteInv'
    BY <1>13 DEF SwapWriter, Goto
<1>14. ASSUME NEW c \in Callers, CloseFile(c) PROVE WriteInv'
    BY <1>14 DEF CloseFile, AddErr, Goto
<1>15. ASSUME NEW c \in Callers, OpenFile(c) PROVE WriteInv'
    BY <1>15 DEF OpenFile, AddErr, Goto
<1>16. ASSUME NEW c \in Callers, SetWriter(c) PROVE WriteInv'
    BY <1>16 DEF SetWriter, Goto
<1>17. ASSUME NEW c \in Callers, CloseOld(c) PROVE WriteInv'
    BY <1>17 DEF CloseOld, Goto
<1>18. CASE UNCHANGED vars
    BY <1>18
<1> QED
    BY <1>1, <1>2, <1>3, <1>4, <1>5, <1>6, <1>7, <1>8, <1>9, <1>10, <1>11,
       <1>12, <1>13, <1>14, <1>15, <1>16, <1>17, <1>18
       DEF Next, Record, Call, Terminated

(* Nobody gets to the file before the wrapper is through, in time.         *)
LEMMA DrainStep ==
    CallTypes /\ FileTypes /\ DrainInv /\ [Next]_vars
    => DrainInv'
<1> SUFFICES ASSUME CallTypes, FileTypes, DrainInv, [Next]_vars PROVE DrainInv'
    OBVIOUS
<1> USE LifecycleAssumption DEF CallTypes, FileTypes, DrainInv, Async, InOnce,
        Expired, Places, Errors
<1>1. ASSUME NEW r \in Records, Handle(r) PROVE DrainInv'
    BY <1>1 DEF Handle, Log!Accept, Log!Refuse, Log!Become
<1>2. ASSUME NEW r \in Records, AsyncDrop(r) PROVE DrainInv'
    BY <1>2 DEF AsyncDrop, Log!Drop, Log!Become
<1>3. ASSUME NEW r \in Records, BeginWrite(r) PROVE DrainInv'
    BY <1>3 DEF BeginWrite
<1>4. ASSUME NEW r \in Records, EndWrite(r) PROVE DrainInv'
    BY <1>4 DEF EndWrite, Log!Become
<1>5. CASE AsyncDrained
    BY <1>5 DEF AsyncDrained, Log!CloseInner
<1>6. ASSUME NEW c \in Callers, Invoke(c) PROVE DrainInv'
    BY <1>6 DEF Invoke, Goto
<1>7. ASSUME NEW c \in Callers, EnterAsync(c) PROVE DrainInv'
    BY <1>7 DEF EnterAsync, BeginClosing, IsAbort, AddErr, AbortErr, Goto
<1>8. ASSUME NEW c \in Callers, Drained(c) PROVE DrainInv'
    BY <1>8 DEF Drained, AddErr, AbortErr, KeepCloseErr, Goto
<1>9. ASSUME NEW c \in Callers, FlushTimeout(c) PROVE DrainInv'
    BY <1>9 DEF FlushTimeout, KeepCloseErr, Goto
<1>10. ASSUME NEW c \in Callers, OnTimeout(c) PROVE DrainInv'
    BY <1>10 DEF OnTimeout, AddErr, Goto
<1>11. ASSUME NEW c \in Callers, AbortReturns(c) PROVE DrainInv'
    BY <1>11 DEF AbortReturns, AddErr, Goto
<1>12. ASSUME NEW c \in Callers, CloseResourcesOnce(c) PROVE DrainInv'
    BY <1>12 DEF CloseResourcesOnce, AddErr, Goto
<1>13. ASSUME NEW c \in Callers, SwapWriter(c) PROVE DrainInv'
    BY <1>13 DEF SwapWriter, Goto
<1>14. ASSUME NEW c \in Callers, CloseFile(c) PROVE DrainInv'
    BY <1>14 DEF CloseFile, AddErr, Goto
<1>15. ASSUME NEW c \in Callers, OpenFile(c) PROVE DrainInv'
    BY <1>15 DEF OpenFile, AddErr, Goto
<1>16. ASSUME NEW c \in Callers, SetWriter(c) PROVE DrainInv'
    BY <1>16 DEF SetWriter, Goto
<1>17. ASSUME NEW c \in Callers, CloseOld(c) PROVE DrainInv'
    BY <1>17 DEF CloseOld, Goto
<1>18. CASE UNCHANGED vars
    BY <1>18
<1> QED
    BY <1>1, <1>2, <1>3, <1>4, <1>5, <1>6, <1>7, <1>8, <1>9, <1>10, <1>11,
       <1>12, <1>13, <1>14, <1>15, <1>16, <1>17, <1>18
       DEF Next, Record, Call, Terminated

(* A Shutdown without an error has waited for the wrapper.                 *)
LEMMA ShutdownStep ==
    CallTypes /\ LockInv /\ DrainInv /\ ShutdownInv /\ [Next]_vars
    => ShutdownInv'
<1> SUFFICES ASSUME CallTypes, LockInv, DrainInv, ShutdownInv, [Next]_vars
             PROVE  ShutdownInv'
    OBVIOUS
<1> USE LifecycleAssumption DEF CallTypes, LockInv, DrainInv, ShutdownInv,
        Async, InMu, InOnce, Places, Nil
<1>1. ASSUME NEW r \in Records, Handle(r) PROVE ShutdownInv'
    BY <1>1 DEF Handle, Log!Accept, Log!Refuse, Log!Become
<1>2. ASSUME NEW r \in Records, AsyncDrop(r) PROVE ShutdownInv'
    BY <1>2 DEF AsyncDrop, Log!Drop, Log!Become
<1>3. ASSUME NEW r \in Records, BeginWrite(r) PROVE ShutdownInv'
    BY <1>3 DEF BeginWrite
<1>4. ASSUME NEW r \in Records, EndWrite(r) PROVE ShutdownInv'
    BY <1>4 DEF EndWrite, Log!Become
<1>5. CASE AsyncDrained
    BY <1>5 DEF AsyncDrained, Log!CloseInner
<1>6. ASSUME NEW c \in Callers, Invoke(c) PROVE ShutdownInv'
    BY <1>6 DEF Invoke, Goto
<1>7. ASSUME NEW c \in Callers, EnterAsync(c) PROVE ShutdownInv'
    BY <1>7 DEF EnterAsync, BeginClosing, IsAbort, AddErr, AbortErr, Goto
<1>8. ASSUME NEW c \in Callers, Drained(c) PROVE ShutdownInv'
    BY <1>8 DEF Drained, AddErr, AbortErr, KeepCloseErr, Goto
<1>9. ASSUME NEW c \in Callers, FlushTimeout(c) PROVE ShutdownInv'
    BY <1>9 DEF FlushTimeout, KeepCloseErr, Goto
<1>10. ASSUME NEW c \in Callers, OnTimeout(c) PROVE ShutdownInv'
    BY <1>10 DEF OnTimeout, AddErr, Goto
<1>11. ASSUME NEW c \in Callers, AbortReturns(c) PROVE ShutdownInv'
    BY <1>11 DEF AbortReturns, AddErr, Goto
<1>12. ASSUME NEW c \in Callers, CloseResourcesOnce(c) PROVE ShutdownInv'
    BY <1>12 DEF CloseResourcesOnce, AddErr, Goto
<1>13. ASSUME NEW c \in Callers, SwapWriter(c) PROVE ShutdownInv'
    BY <1>13 DEF SwapWriter, Goto
<1>14. ASSUME NEW c \in Callers, CloseFile(c) PROVE ShutdownInv'
    BY <1>14 DEF CloseFile, AddErr, Goto
<1>15. ASSUME NEW c \in Callers, OpenFile(c) PROVE ShutdownInv'
    BY <1>15 DEF OpenFile, AddErr, Goto
<1>16. ASSUME NEW c \in Callers, SetWriter(c) PROVE ShutdownInv'
    BY <1>16 DEF SetWriter, Goto
<1>17. ASSUME NEW c \in Callers, CloseOld(c) PROVE ShutdownInv'
    BY <1>17 DEF CloseOld, Goto
<1>18. CASE UNCHANGED vars
    BY <1>18
<1> QED
    BY <1>1, <1>2, <1>3, <1>4, <1>5, <1>6, <1>7, <1>8, <1>9, <1>10, <1>11,
       <1>12, <1>13, <1>14, <1>15, <1>16, <1>17, <1>18
       DEF Next, Record, Call, Terminated

(* A Write in progress writes to an open file or to io.Discard.            *)
LEMMA WrittenIsOpen ==
    ASSUME CallTypes, FileTypes, LockInv, FileInv, WriteInv
    PROVE  NoWriteToClosedFile
<1> SUFFICES ASSUME w \in Files PROVE fd[w] = "open"
    BY DEF FileTypes, WriteInv, NoWriteToClosedFile
<1>1. swSet
    BY LifecycleAssumption DEF FileInv
<1>2. CASE mu = None
    BY <1>1, <1>2 DEF FileInv, OnlyOpen
<1>3. CASE mu \in Callers
    <2>1. pc[mu] \in {"swap", "closeFile", "setWriter", "closeOld"}
        BY <1>3 DEF LockInv, InMu
    <2>2. pc[mu] # "closeFile"
        BY <1>3, LifecycleAssumption DEF FileInv
    <2> QED
        BY <1>3, <2>1, <2>2 DEF FileInv, OnlyOpen
<1> QED
    BY <1>2, <1>3 DEF CallTypes

(* A record is written to a file or to io.Discard, and to io.Discard only  *)
(* when no Shutdown has passed the wrapper without an error.               *)
LEMMA SinkStep ==
    CallTypes /\ FileTypes /\ LockInv /\ FileInv /\ WriteInv /\ DrainInv
    /\ ShutdownInv /\ SilentLossOnlyByExpiredAbort /\ SinkInv /\ [Next]_vars
    => SinkInv'
<1> SUFFICES ASSUME CallTypes, FileTypes, LockInv, FileInv, WriteInv, DrainInv,
                    ShutdownInv, SilentLossOnlyByExpiredAbort, SinkInv,
                    [Next]_vars
             PROVE  SinkInv'
    OBVIOUS
<1> USE LifecycleAssumption DEF CallTypes, FileTypes, SinkInv, NoneDiscarded,
        Async, InOnce, Places, Errors, Nil
<1>1. ASSUME NEW r \in Records, Handle(r) PROVE SinkInv'
    BY <1>1 DEF Handle, Log!Accept, Log!Refuse, Log!Become
<1>2. ASSUME NEW r \in Records, AsyncDrop(r) PROVE SinkInv'
    BY <1>2 DEF AsyncDrop, Log!Drop, Log!Become
<1>3. ASSUME NEW r \in Records, BeginWrite(r) PROVE SinkInv'
    BY <1>3 DEF BeginWrite
<1>4. ASSUME NEW r \in Records, EndWrite(r) PROVE SinkInv'
    <2>1. status[r] = "accepted"
        BY <1>4 DEF EndWrite, Log!Become
    <2>2. Async => phase # "closed"
        BY <2>1 DEF DrainInv
    <2>3. target # Discard => fd[target] = "open"
        BY <1>4, WrittenIsOpen DEF EndWrite, NoWriteToClosedFile
    <2>4. sink'[r] \in {"file", "discard"}
        BY <1>4, <2>3 DEF EndWrite
    <2> QED
        BY <1>4, <2>2, <2>4 DEF EndWrite, Log!Become
<1>5. CASE AsyncDrained
    BY <1>5 DEF AsyncDrained, Log!CloseInner
<1>6. ASSUME NEW c \in Callers, Invoke(c) PROVE SinkInv'
    BY <1>6 DEF Invoke, Goto
<1>7. ASSUME NEW c \in Callers, EnterAsync(c) PROVE SinkInv'
    <2>1. ASSUME NEW d \in Callers PROVE op'[d] = op[d]
        BY <1>7 DEF EnterAsync
    <2>2. (phase = "closed" => phase' = "closed") /\ (aborted => aborted')
        <3>1. aborted => aborted'
            BY <1>7 DEF EnterAsync, IsAbort
        <3>2. phase = "closed" => phase' = "closed"
            BY <1>7 DEF EnterAsync, BeginClosing
        <3> QED
            BY <3>1, <3>2
    <2>3. ASSUME NEW d \in Callers PROVE "ctx" \in ret'[d] => "ctx" \in ret[d]
        BY <1>7 DEF EnterAsync, AddErr, AbortErr
    <2>4. ASSUME NEW d \in Callers PROVE
                 \/ pc'[d] = pc[d]
                 \/ d = c /\ pc'[d] \in {"abort", "wait", "timedOut", "resources"}
        BY <1>7 DEF EnterAsync, Goto
    <2>5. pc'[c] = "abort" => aborted' /\ IsAbort(c)
        BY <1>7 DEF EnterAsync, IsAbort, Goto
    <2>6. pc'[c] = "resources" => op[c] = "Close"
        BY <1>7 DEF EnterAsync, IsAbort, Goto
    <2>7. ASSUME NEW d \in Callers, d # c PROVE ret'[d] = ret[d]
        BY <1>7, <2>7 DEF EnterAsync, AddErr
    <2>8. UNCHANGED <<sink, status, closeErr, cfg>>
        BY <1>7 DEF EnterAsync
    <2>9. pc[c] = "async"
        BY <1>7 DEF EnterAsync
    <2> QED
        BY <2>1, <2>2, <2>3, <2>4, <2>5, <2>6, <2>7, <2>8, <2>9 DEF IsAbort
<1>8. ASSUME NEW c \in Callers, Drained(c) PROVE SinkInv'
    <2>1. Async /\ ~aborted => NoneDiscarded
        BY DEF SilentLossOnlyByExpiredAbort
    <2> QED
        BY <1>8, <2>1 DEF Drained, AddErr, AbortErr, KeepCloseErr, Goto
<1>9. ASSUME NEW c \in Callers, FlushTimeout(c) PROVE SinkInv'
    BY <1>9 DEF FlushTimeout, KeepCloseErr, Goto
<1>10. ASSUME NEW c \in Callers, OnTimeout(c) PROVE SinkInv'
    BY <1>10 DEF OnTimeout, AddErr, Goto
<1>11. ASSUME NEW c \in Callers, AbortReturns(c) PROVE SinkInv'
    BY <1>11 DEF AbortReturns, AddErr, Goto
<1>12. ASSUME NEW c \in Callers, CloseResourcesOnce(c) PROVE SinkInv'
    BY <1>12 DEF CloseResourcesOnce, AddErr, Goto
<1>13. ASSUME NEW c \in Callers, SwapWriter(c) PROVE SinkInv'
    BY <1>13 DEF SwapWriter, Goto
<1>14. ASSUME NEW c \in Callers, CloseFile(c) PROVE SinkInv'
    BY <1>14 DEF CloseFile, AddErr, Goto
<1>15. ASSUME NEW c \in Callers, OpenFile(c) PROVE SinkInv'
    BY <1>15 DEF OpenFile, AddErr, Goto, ShutdownInv
<1>16. ASSUME NEW c \in Callers, SetWriter(c) PROVE SinkInv'
    BY <1>16 DEF SetWriter, Goto
<1>17. ASSUME NEW c \in Callers, CloseOld(c) PROVE SinkInv'
    BY <1>17 DEF CloseOld, Goto, ShutdownInv
<1>18. CASE UNCHANGED vars
    BY <1>18
<1> QED
    BY <1>1, <1>2, <1>3, <1>4, <1>5, <1>6, <1>7, <1>8, <1>9, <1>10, <1>11,
       <1>12, <1>13, <1>14, <1>15, <1>16, <1>17, <1>18
       DEF Next, Record, Call, Terminated

(* What goes to io.Discard goes there after an Abort that ran out of time. *)
LEMMA LossStep ==
    CallTypes /\ FileTypes /\ LockInv /\ FileInv /\ WriteInv /\ DrainInv /\ SilentLossOnlyByExpiredAbort /\ [Next]_vars
    => SilentLossOnlyByExpiredAbort'
<1> SUFFICES ASSUME CallTypes, FileTypes, LockInv, FileInv, WriteInv, DrainInv, SilentLossOnlyByExpiredAbort, [Next]_vars
             PROVE  SilentLossOnlyByExpiredAbort'
    OBVIOUS
<1> USE LifecycleAssumption DEF CallTypes, FileTypes, DrainInv, Async,
        SilentLossOnlyByExpiredAbort
<1>1. ASSUME NEW r \in Records, Handle(r) PROVE SilentLossOnlyByExpiredAbort'
    BY <1>1 DEF Handle, Log!Accept, Log!Refuse, Log!Become
<1>2. ASSUME NEW r \in Records, AsyncDrop(r) PROVE SilentLossOnlyByExpiredAbort'
    BY <1>2 DEF AsyncDrop, Log!Drop, Log!Become
<1>3. ASSUME NEW r \in Records, BeginWrite(r) PROVE SilentLossOnlyByExpiredAbort'
    BY <1>3 DEF BeginWrite
<1>4. ASSUME NEW r \in Records, EndWrite(r) PROVE SilentLossOnlyByExpiredAbort'
    <2> SUFFICES ASSUME Async, target = Discard
                 PROVE  \E c \in Callers : Expired(c)
        BY <1>4 DEF EndWrite, Expired
    <2>1. w = Discard /\ status[r] = "accepted"
        BY <1>4 DEF EndWrite, WriteInv
    <2>2. closeOnce # "new"
        BY <2>1 DEF FileInv, LockInv, InMu, InOnce
    <2> QED
        BY <2>1, <2>2
<1>5. CASE AsyncDrained
    BY <1>5 DEF AsyncDrained, Log!CloseInner
<1>6. ASSUME NEW c \in Callers, Invoke(c) PROVE SilentLossOnlyByExpiredAbort'
    BY <1>6 DEF Invoke, Goto
<1>7. ASSUME NEW c \in Callers, EnterAsync(c) PROVE SilentLossOnlyByExpiredAbort'
    BY <1>7 DEF EnterAsync, BeginClosing, IsAbort, AddErr, AbortErr, Goto
<1>8. ASSUME NEW c \in Callers, Drained(c) PROVE SilentLossOnlyByExpiredAbort'
    BY <1>8 DEF Drained, AddErr, AbortErr, KeepCloseErr, Goto
<1>9. ASSUME NEW c \in Callers, FlushTimeout(c) PROVE SilentLossOnlyByExpiredAbort'
    BY <1>9 DEF FlushTimeout, KeepCloseErr, Goto
<1>10. ASSUME NEW c \in Callers, OnTimeout(c) PROVE SilentLossOnlyByExpiredAbort'
    BY <1>10 DEF OnTimeout, AddErr, Goto
<1>11. ASSUME NEW c \in Callers, AbortReturns(c) PROVE SilentLossOnlyByExpiredAbort'
    BY <1>11 DEF AbortReturns, AddErr, Goto
<1>12. ASSUME NEW c \in Callers, CloseResourcesOnce(c) PROVE SilentLossOnlyByExpiredAbort'
    BY <1>12 DEF CloseResourcesOnce, AddErr, Goto
<1>13. ASSUME NEW c \in Callers, SwapWriter(c) PROVE SilentLossOnlyByExpiredAbort'
    BY <1>13 DEF SwapWriter, Goto
<1>14. ASSUME NEW c \in Callers, CloseFile(c) PROVE SilentLossOnlyByExpiredAbort'
    BY <1>14 DEF CloseFile, AddErr, Goto
<1>15. ASSUME NEW c \in Callers, OpenFile(c) PROVE SilentLossOnlyByExpiredAbort'
    BY <1>15 DEF OpenFile, AddErr, Goto
<1>16. ASSUME NEW c \in Callers, SetWriter(c) PROVE SilentLossOnlyByExpiredAbort'
    BY <1>16 DEF SetWriter, Goto
<1>17. ASSUME NEW c \in Callers, CloseOld(c) PROVE SilentLossOnlyByExpiredAbort'
    BY <1>17 DEF CloseOld, Goto
<1>18. CASE UNCHANGED vars
    BY <1>18
<1> QED
    BY <1>1, <1>2, <1>3, <1>4, <1>5, <1>6, <1>7, <1>8, <1>9, <1>10, <1>11,
       <1>12, <1>13, <1>14, <1>15, <1>16, <1>17, <1>18
       DEF Next, Record, Call, Terminated

-----------------------------------------------------------------------------
(* The invariant, and what follows from it.                                *)

(* A handler that was just built satisfies the invariant.                  *)
LEMMA InvInit == Init => IInv
<1> SUFFICES ASSUME Init PROVE IInv
    OBVIOUS
<1> USE LifecycleAssumption DEF Init, Log!Init, Nil
<1>1. 1 \in Files
    BY DEF Files
<1>2. CallTypes
    BY DEF CallTypes, Places, Errors, AllOps
<1>3. FileTypes
    BY <1>1 DEF FileTypes
<1>4. LockInv
    BY DEF LockInv, InMu, InOnce
<1>5. NumberInv
    BY DEF NumberInv, Files
<1>6. FileInv
    BY <1>1 DEF FileInv, OnlyOpen
<1>7. WriteInv /\ DrainInv
    BY DEF WriteInv, DrainInv, InOnce
<1>8. ShutdownInv /\ SinkInv /\ SilentLossOnlyByExpiredAbort
    BY DEF ShutdownInv, SinkInv, InOnce, SilentLossOnlyByExpiredAbort
<1> QED
    BY <1>2, <1>3, <1>4, <1>5, <1>6, <1>7, <1>8 DEF IInv

(* Every step keeps the invariant.                                         *)
LEMMA InvStep == IInv /\ [Next]_vars => IInv'
    BY CallTypesStep, FileTypesStep, LockStep, NumberStep, FileStep, WriteStep,
       DrainStep, ShutdownStep, SinkStep, LossStep DEF IInv

(* The inductive invariant holds of every handler.                         *)
THEOREM LifecycleInvariance == Spec => []IInv
    BY InvInit, InvStep, PTL DEF Spec

(* Neither ReopenLogFile nor Close, Shutdown or Abort closes a file that   *)
(* SwitchableWriter.Write is writing to.                                   *)
THEOREM FileOpenWhileWritten == Spec => []NoWriteToClosedFile
<1>1. IInv => NoWriteToClosedFile
    BY WrittenIsOpen DEF IInv
<1> QED
    BY <1>1, LifecycleInvariance, PTL

(* Whenever h.mu is free, no file is open but the one the handler owns,    *)
(* and none once its resources are closed, however calls race.             *)
THEOREM NoFileLeaked == Spec => []NoLeakedFile
<1>1. IInv => NoLeakedFile
    BY DEF IInv, LockInv, FileInv, OnlyOpen, NoLeakedFile
<1> QED
    BY <1>1, LifecycleInvariance, PTL

(* Behind the wrapper a record goes to io.Discard only after an Abort      *)
(* whose context expired; and when a Shutdown returns nil no file is open  *)
(* and every record that the wrapper took in is in a file or was reported  *)
(* as dropped.                                                             *)
THEOREM LossIsReported == Spec => []NothingLostInSilence
<1>1. IInv => NothingLostInSilence
    <2> SUFFICES ASSUME IInv PROVE ShutdownNilMeansWritten
        BY DEF IInv, NothingLostInSilence
    <2> SUFFICES ASSUME NEW c \in Callers, op[c] \in {"Shutdown", "ShutdownCtx"},
                        pc[c] = "returned", ret[c] = Nil
                 PROVE  /\ \A f \in Files : fd[f] # "open"
                        /\ Async => \A r \in Records :
                              status[r] \in {"new", "dropped"} \/ sink[r] = "file"
        BY DEF ShutdownNilMeansWritten
    <2>1. closeOnce = "done"
        BY DEF IInv, ShutdownInv
    <2>2. OnlyOpen({})
        BY <2>1 DEF IInv, LockInv, FileInv
    <2>3. ASSUME Async, NEW r \in Records, status[r] \notin {"new", "dropped"}
          PROVE  sink[r] = "file"
        <3>1. phase = "closed" /\ NoneDiscarded
            BY <2>3 DEF IInv, SinkInv
        <3>2. status[r] = "handled"
            BY <2>3, <3>1 DEF IInv, DrainInv, FileTypes
        <3> QED
            BY <3>1, <3>2 DEF IInv, SinkInv, NoneDiscarded
    <2> QED
        BY <2>2, <2>3 DEF OnlyOpen
<1> QED
    BY <1>1, LifecycleInvariance, PTL
=============================================================================
