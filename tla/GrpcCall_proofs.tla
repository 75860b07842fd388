-------------------------- MODULE GrpcCall_proofs --------------------------
(***************************************************************************)
(* Proofs about GrpcCall, for any number of messages in either direction   *)
(* and any codes: what the RequestInfos of the two ends and an entry that  *)
(* is logged meanwhile say is true of the call.                            *)
(***************************************************************************)
EXTENDS GrpcCall, TLAPS

USE DEF clientVars, netVars, serverVars, vars

ClientProcs == {"sender", "receiver"}

AtStore(p) == pc[p] \in {"status", "latency"}

ClientSending == IF pc["sender"] = "sending" THEN 1 ELSE 0
ServerSending == IF pc["handler"] = "sending" THEN 1 ELSE 0

(* Who can be where: a unary call has no receiver and no streaming calls,  *)
(* and nothing has happened before the client starts.                      *)
PlacesInv ==
    /\ pc["sender"] \in {"new", "idle", "sending", "invoked", "finish", "status",
                         "latency", "gone"}
    /\ pc["receiver"] \in {"new", "idle", "finish", "status", "latency", "gone"}
    /\ pc["handler"] \in {"new", "running", "sending", "status", "latency", "gone"}
    /\ pc["sender"] = "new" <=> pc["receiver"] = "new"
    /\ pc["sender"] = "new" => stream = "open" /\ ~broken /\ up = 0
                               /\ pc["handler"] = "new"
    /\ pc["sender"] \in {"idle", "sending", "finish"} => pc["receiver"] # "gone"
    /\ pc["sender"] \in {"invoked", "gone"} => pc["receiver"] = "gone"
    /\ pc["sender"] = "invoked" => kind = "unary"
    /\ kind = "unary" => /\ pc["receiver"] \in {"new", "gone"}
                         /\ pc["handler"] # "sending" /\ seen = Nil

(* How the stream ends: with a code of the client's own, or with that of   *)
(* the trailers, which the server sends when it is through.                *)
StreamInv ==
    /\ broken => stream \in LocalCodes
    /\ (stream # "open" /\ ~broken) => stream = trailer
    /\ trailer # "none" => pc["handler"] = "gone"

(* One goroutine of the client stores, once: sync.Once sees to it on a     *)
(* stream; a unary call and a stream that does not open have but one.      *)
OnceInv ==
    /\ ~(AtStore("sender") /\ AtStore("receiver"))
    /\ once = "new" \/ pc["receiver"] # "gone"
    /\ \A p \in ClientProcs : AtStore(p) =>
          /\ ~info["client"].final
          /\ once = IF pc["receiver"] = "gone" THEN "new" ELSE "running"
    /\ once = "running" => AtStore("sender") \/ AtStore("receiver")
    /\ once = "done" => info["client"].final
    /\ info["client"].final => /\ stream # "open"
                               /\ once = "done" \/ pc["sender"] = "gone"

(* What a goroutine is about to store, and what is stored by then.         *)
CodeInv ==
    /\ \A p \in ClientProcs : (AtStore(p) \/ pc[p] = "finish") =>
          stream # "open" /\ fcode[p] \in {stream, "Unknown"}
    /\ \A p \in Procs : pc[p] = "latency" => info[EndOf(p)].status = fcode[p]
    /\ (pc["sender"] = "finish" \/ (AtStore("sender") /\ kind # "unary"))
         => fcode["sender"] # "OK"
    /\ info["client"].status # "OK" =>
          \/ info["client"].final
          \/ pc["sender"] = "latency" \/ pc["receiver"] = "latency"
    /\ info["server"].status # "OK" =>
          info["server"].final \/ pc["handler"] = "latency"
    /\ ClientStatusIsReal
    /\ (ended /\ ServerStreams) =>
          AtStore("receiver") \/ pc["receiver"] = "finish" \/ info["client"].final

(* The server is final when it is through; its success is in the trailers, *)
(* and so is the error that its handler got from a broken stream.          *)
ServerInv ==
    /\ info["server"].final => pc["handler"] = "gone"
    /\ trailer = "OK" => info["server"].final /\ info["server"].status = "OK"
    /\ seen \notin {Nil, EOF} =>
          /\ broken
          /\ AtStore("handler") => fcode["handler"] = seen
          /\ info["server"].final => info["server"].status = seen

(* A message is counted by its sender first, and only a broken stream      *)
(* loses any: what one end has counted and the other has not is under way. *)
CountInv ==
    (sizes["client"] /\ sizes["server"]) =>
       /\ info["server"].reqCount + up + ClientSending <= info["client"].reqCount
       /\ info["client"].respCount + down + ServerSending <= info["server"].respCount
       /\ (~broken /\ kind # "unary") =>
             info["client"].respCount + down + ServerSending = info["server"].respCount

(* A unary call: one request, and a response if it is a success.           *)
UnaryInv ==
    kind = "unary" =>
       /\ sizes["client"] =>
             info["client"].reqCount = IF pc["sender"] = "new" THEN 0 ELSE 1
       /\ sizes["server"] =>
             info["server"].reqCount = IF pc["handler"] = "new" THEN 0 ELSE 1
       /\ pc["sender"] \in {"new", "invoked"} => info["client"].respCount = 0
       /\ (sizes["client"] /\ AtStore("sender") /\ fcode["sender"] = "OK")
            => info["client"].respCount = 1
       /\ (sizes["client"] /\ info["client"].final /\ info["client"].status = "OK")
            => info["client"].respCount = 1
       /\ pc["handler"] \in {"new", "running"} => info["server"].respCount = 0
       /\ (AtStore("handler") /\ fcode["handler"] = "OK") \/ trailer = "OK"
            => /\ sizes["server"] => info["server"].respCount = 1
               /\ pc["sender"] \in {"new", "invoked"} => down = 1

(* A stream of messages that ended well for the client was read to the     *)
(* last one.                                                               *)
EndInv ==
    kind # "unary" =>
       /\ ((AtStore("receiver") \/ pc["receiver"] = "finish") /\ fcode["receiver"] = "OK")
            => stream = "OK" /\ down = 0
       /\ (info["client"].final /\ info["client"].status = "OK")
            => stream = "OK" /\ down = 0

(* An entry in the making shows no failure that is not the call's; what    *)
(* was begun after the call shows what was stored then.                    *)
EntryInv ==
    entry # NoEntry =>
       /\ entry.end \in Ends
       /\ entry.status # "OK" => info[entry.end].status = entry.status
       /\ entry.late => /\ info[entry.end].final
                        /\ entry.status = info[entry.end].status
                        /\ entry.duration \in {"none", "final"}

(* The state of the call ...                                               *)
CallInv == PlacesInv /\ StreamInv /\ OnceInv /\ CodeInv /\ ServerInv

(* ... and with it everything that is to be proved: the inductive          *)
(* invariant.                                                              *)
IInv == TypeOK /\ CallInv /\ CountInv /\ UnaryInv /\ EndInv /\ EntryInv

-----------------------------------------------------------------------------
(* Type correctness.                                                       *)

(* What a RequestInfo may be given as a status.                            *)
LEMMA StatusesHold ==
    /\ Codes \subseteq Statuses /\ LocalCodes \subseteq Statuses
    /\ {"OK", "Internal", "Unknown"} \subseteq Statuses
    BY CallAssumption DEF Statuses

(* finalize's second store keeps the types of the two RequestInfos.        *)
LEMMA FinalTypes ==
    ASSUME NEW e \in Ends,
           info \in [Ends -> [status : Statuses, final : BOOLEAN, reqCount : Nat,
                             respCount : Nat]],
           info' = [info EXCEPT ![e].final = TRUE]
    PROVE  info' \in [Ends -> [status : Statuses, final : BOOLEAN, reqCount : Nat,
                              respCount : Nat]]
    OBVIOUS

(* The initial state of a call is well typed.                              *)
LEMMA TypeInit == Init => TypeOK
<1> SUFFICES ASSUME Init PROVE TypeOK
    OBVIOUS
<1>1. "OK" \in Statuses
    BY CallAssumption DEF Statuses
<1>2. sizes \in [Ends -> BOOLEAN]
    BY CallAssumption DEF Init, Ends
<1>3. /\ info \in [Ends -> [status : Statuses, final : BOOLEAN, reqCount : Nat,
                              respCount : Nat]]
      /\ fcode \in [Procs -> Statuses]
    BY <1>1 DEF Init, NewRequestInfo
<1>4. sends \in 0..MaxSends /\ replies \in 0..MaxReplies
    BY CallAssumption DEF Init
<1> QED
    BY <1>2, <1>3, <1>4 DEF Init, TypeOK, Nil

(* Every step keeps the types; a broken stream has a code to return.       *)
LEMMA TypeStep == TypeOK /\ StreamInv /\ [Next]_vars => TypeOK'
<1> SUFFICES ASSUME TypeOK, StreamInv, [Next]_vars PROVE TypeOK'
    OBVIOUS
<1> USE CallAssumption, StatusesHold DEF TypeOK, StreamInv, Kinds, Procs, Ends,
        ClientProcs, Nil, EOF
<1>1. CASE InvokeUnary
    BY <1>1 DEF InvokeUnary, RecordRequest
<1>2. CASE UnaryReturns
    BY <1>2 DEF UnaryReturns, RecordResponse, FinalizeWith, Goto
<1>3. CASE StartStream
    <2>1. CASE UNCHANGED <<stream, broken, fcode>>
        BY <1>3, <2>1 DEF StartStream
    <2>2. CASE stream' \in LocalCodes /\ broken' = TRUE
        <3>1. fcode' \in [Procs -> Statuses]
            BY <1>3, <2>2 DEF StartStream
        <3> QED
            BY <1>3, <2>2, <3>1 DEF StartStream
    <2> QED
        BY <1>3, <2>1, <2>2 DEF StartStream
<1>4. CASE SendMsg
    BY <1>4 DEF SendMsg, RecordRequest, ClientStreams, Goto
<1>5. CASE SendReturns
    <2>1. /\ up' \in Nat /\ stream' \in Statuses \cup {"open"}
        BY <1>5 DEF SendReturns
    <2>4. broken' \in BOOLEAN
        BY <1>5, Zenon DEF SendReturns
    <2>3. fcode' \in [Procs -> Statuses]
        <3>1. \/ UNCHANGED fcode
              \/ \E c \in Statuses : fcode' = [fcode EXCEPT !["sender"] = c]
            BY <1>5 DEF SendReturns, FinishWith, CodeOf
        <3> QED
            BY <3>1
    <2>2. pc' \in [Procs -> {"new", "idle", "sending", "invoked", "running", "finish",
                             "status", "latency", "gone"}]
        BY <1>5 DEF SendReturns, FinishWith, Goto
    <2> QED
        BY <1>5, <2>1, <2>2, <2>3, <2>4 DEF SendReturns
<1>6. CASE CloseSend
    <2>1. /\ broken' \in BOOLEAN /\ stream' \in Statuses \cup {"open"}
          /\ fcode' \in [Procs -> Statuses]
        BY <1>6 DEF CloseSend, FinishWith, Goto
    <2>2. pc' \in [Procs -> {"new", "idle", "sending", "invoked", "running", "finish",
                             "status", "latency", "gone"}]
        BY <1>6 DEF CloseSend, FinishWith, Goto
    <2> QED
        BY <1>6, <2>1, <2>2 DEF CloseSend
<1>7. CASE RecvMsg
    <2>1. CASE Received
        BY <1>7, <2>1 DEF RecvMsg, Received, RecordResponse, ServerStreams
    <2>2. CASE /\ stream # "open" /\ ended' = TRUE /\ FinishWith("receiver", stream)
               /\ UNCHANGED <<info, down>>
        BY <1>7, <2>2 DEF RecvMsg, FinishWith, Goto
    <2> QED
        BY <1>7, <2>1, <2>2 DEF RecvMsg
<1>8. ASSUME NEW p \in ClientProcs, Finish(p) PROVE TypeOK'
    BY <1>8 DEF Finish, Goto
<1>9. CASE ServeUnary
    BY <1>9 DEF ServeUnary, RecordRequest, Goto
<1>10. CASE UnaryHandlerReturns
    BY <1>10 DEF UnaryHandlerReturns, RecordResponse, FinalizeWith, Goto
<1>11. CASE ServeStream
    BY <1>11 DEF ServeStream, Goto
<1>12. CASE ServerRecv
    BY <1>12 DEF ServerRecv, RecordRequest, WrapStatusError, CodeOf
<1>13. CASE ServerSend
    BY <1>13 DEF ServerSend, RecordResponse, ServerStreams, Goto
<1>14. CASE ServerSendReturns
    BY <1>14 DEF ServerSendReturns, WrapStatusError, CodeOf, Goto
<1>15. CASE HandlerReturns
    BY <1>15 DEF HandlerReturns, FinalizeWith, WrapStatusError, CodeOf, Goto
<1>16. CASE HandlerPanics
    BY <1>16 DEF HandlerPanics, Goto
<1>17. ASSUME NEW p \in Procs, StoreStatus(p) PROVE TypeOK'
    BY <1>17 DEF StoreStatus, EndOf, Goto
<1>18. ASSUME NEW p \in Procs, StoreLatency(p) PROVE TypeOK'
    <2>1. info' \in [Ends -> [status : Statuses, final : BOOLEAN, reqCount : Nat,
                             respCount : Nat]]
        <3>1. EndOf(p) \in Ends
            BY DEF EndOf
        <3> QED
            BY <1>18, <3>1, FinalTypes DEF StoreLatency
    <2>2. trailer' \in Statuses \cup {"none"} /\ once' \in {"new", "running", "done"}
        BY <1>18 DEF StoreLatency
    <2>3. pc' \in [Procs -> {"new", "idle", "sending", "invoked", "running", "finish",
                             "status", "latency", "gone"}]
        BY <1>18 DEF StoreLatency, Goto
    <2> QED
        BY <1>18, <2>1, <2>2, <2>3 DEF StoreLatency
<1>19. CASE TrailersArrive
    BY <1>19 DEF TrailersArrive
<1>20. CASE Breaks
    BY <1>20 DEF Breaks
<1>21. CASE LogStatus
    BY <1>21 DEF LogStatus
<1>22. CASE LogRest
    BY <1>22 DEF LogRest
<1>23. CASE UNCHANGED vars
    BY <1>23
<1> QED
    BY <1>1, <1>2, <1>3, <1>4, <1>5, <1>6, <1>7, <1>8, <1>9, <1>10, <1>11,
       <1>12, <1>13, <1>14, <1>15, <1>16, <1>17, <1>18, <1>19, <1>20, <1>21,
       <1>22, <1>23
        DEF Next, Client, Server, Storing, Store, Terminated, ClientProcs

-----------------------------------------------------------------------------
(* The state of the call.                                                  *)

(* Nobody leaves the places the kind of the call has for it.               *)
LEMMA PlacesStep == TypeOK /\ PlacesInv /\ [Next]_vars => PlacesInv'
<1> SUFFICES ASSUME TypeOK, PlacesInv, [Next]_vars PROVE PlacesInv'
    OBVIOUS
<1> USE CallAssumption DEF TypeOK, Procs, Ends, ClientProcs, PlacesInv, Nil,
        EOF
<1>1. CASE InvokeUnary
    BY <1>1 DEF InvokeUnary, RecordRequest
<1>2. CASE UnaryReturns
    BY <1>2 DEF UnaryReturns, RecordResponse, FinalizeWith, Goto
<1>3. CASE StartStream
    BY <1>3 DEF StartStream
<1>4. CASE SendMsg
    BY <1>4 DEF SendMsg, RecordRequest, ClientStreams, Goto
<1>5. CASE SendReturns
    BY <1>5 DEF SendReturns, FinishWith, CodeOf, Goto
<1>6. CASE CloseSend
    BY <1>6 DEF CloseSend, FinishWith, Goto
<1>7. CASE RecvMsg
    BY <1>7 DEF RecvMsg, Received, RecordResponse, ServerStreams, FinishWith,
        Goto
<1>8. ASSUME NEW p \in ClientProcs, Finish(p) PROVE PlacesInv'
    BY <1>8 DEF Finish, Goto
<1>9. CASE ServeUnary
    BY <1>9 DEF ServeUnary, RecordRequest, Goto
<1>10. CASE UnaryHandlerReturns
    BY <1>10 DEF UnaryHandlerReturns, RecordResponse, FinalizeWith, Goto
<1>11. CASE ServeStream
    BY <1>11 DEF ServeStream, Goto
<1>12. CASE ServerRecv
    BY <1>12 DEF ServerRecv, RecordRequest, WrapStatusError, CodeOf
<1>13. CASE ServerSend
    BY <1>13 DEF ServerSend, RecordResponse, ServerStreams, Goto
<1>14. CASE ServerSendReturns
    BY <1>14 DEF ServerSendReturns, WrapStatusError, CodeOf, Goto
<1>15. CASE HandlerReturns
    BY <1>15 DEF HandlerReturns, FinalizeWith, WrapStatusError, CodeOf, Goto
<1>16. CASE HandlerPanics
    BY <1>16 DEF HandlerPanics, Goto
<1>17. ASSUME NEW p \in Procs, StoreStatus(p) PROVE PlacesInv'
    BY <1>17 DEF StoreStatus, EndOf, Goto
<1>18. ASSUME NEW p \in Procs, StoreLatency(p) PROVE PlacesInv'
    BY <1>18 DEF StoreLatency, EndOf, Goto
<1>19. CASE TrailersArrive
    BY <1>19 DEF TrailersArrive
<1>20. CASE Breaks
    BY <1>20 DEF Breaks
<1>21. CASE LogStatus
    BY <1>21 DEF LogStatus
<1>22. CASE LogRest
    BY <1>22 DEF LogRest
<1>23. CASE UNCHANGED vars
    BY <1>23
<1> QED
    BY <1>1, <1>2, <1>3, <1>4, <1>5, <1>6, <1>7, <1>8, <1>9, <1>10, <1>11,
       <1>12, <1>13, <1>14, <1>15, <1>16, <1>17, <1>18, <1>19, <1>20, <1>21,
       <1>22, <1>23
        DEF Next, Client, Server, Storing, Store, Terminated, ClientProcs

(* A stream that has ended keeps its code.                                 *)
LEMMA StreamStep == TypeOK /\ PlacesInv /\ StreamInv /\ [Next]_vars => StreamInv'
<1> SUFFICES ASSUME TypeOK, PlacesInv, StreamInv, [Next]_vars PROVE StreamInv'
    OBVIOUS
<1> USE CallAssumption DEF TypeOK, Procs, Ends, ClientProcs, PlacesInv,
        StreamInv, Statuses
<1>1. CASE InvokeUnary
    BY <1>1 DEF InvokeUnary, RecordRequest
<1>2. CASE UnaryReturns
    BY <1>2 DEF UnaryReturns, RecordResponse, FinalizeWith, Goto
<1>3. CASE StartStream
    BY <1>3 DEF StartStream
<1>4. CASE SendMsg
    BY <1>4 DEF SendMsg, RecordRequest, ClientStreams, Goto
<1>5. CASE SendReturns
    BY <1>5 DEF SendReturns, FinishWith, CodeOf, Goto
<1>6. CASE CloseSend
    BY <1>6 DEF CloseSend, FinishWith, Goto
<1>7. CASE RecvMsg
    BY <1>7 DEF RecvMsg, Received, RecordResponse, ServerStreams, FinishWith,
        Goto
<1>8. ASSUME NEW p \in ClientProcs, Finish(p) PROVE StreamInv'
    BY <1>8 DEF Finish, Goto
<1>9. CASE ServeUnary
    BY <1>9 DEF ServeUnary, RecordRequest, Goto
<1>10. CASE UnaryHandlerReturns
    BY <1>10 DEF UnaryHandlerReturns, RecordResponse, FinalizeWith, Goto
<1>11. CASE ServeStream
    BY <1>11 DEF ServeStream, Goto
<1>12. CASE ServerRecv
    BY <1>12 DEF ServerRecv, RecordRequest, WrapStatusError, CodeOf
<1>13. CASE ServerSend
    BY <1>13 DEF ServerSend, RecordResponse, ServerStreams, Goto
<1>14. CASE ServerSendReturns
    BY <1>14 DEF ServerSendReturns, WrapStatusError, CodeOf, Goto
<1>15. CASE HandlerReturns
    BY <1>15 DEF HandlerReturns, FinalizeWith, WrapStatusError, CodeOf, Goto
<1>16. CASE HandlerPanics
    BY <1>16 DEF HandlerPanics, Goto
<1>17. ASSUME NEW p \in Procs, StoreStatus(p) PROVE StreamInv'
    BY <1>17 DEF StoreStatus, EndOf, Goto
<1>18. ASSUME NEW p \in Procs, StoreLatency(p) PROVE StreamInv'
    BY <1>18 DEF StoreLatency, EndOf, Goto
<1>19. CASE TrailersArrive
    BY <1>19 DEF TrailersArrive
<1>20. CASE Breaks
    BY <1>20 DEF Breaks
<1>21. CASE LogStatus
    BY <1>21 DEF LogStatus
<1>22. CASE LogRest
    BY <1>22 DEF LogRest
<1>23. CASE UNCHANGED vars
    BY <1>23
<1> QED
    BY <1>1, <1>2, <1>3, <1>4, <1>5, <1>6, <1>7, <1>8, <1>9, <1>10, <1>11,
       <1>12, <1>13, <1>14, <1>15, <1>16, <1>17, <1>18, <1>19, <1>20, <1>21,
       <1>22, <1>23
        DEF Next, Client, Server, Storing, Store, Terminated, ClientProcs

(* The client's RequestInfo is stored into once.                           *)
LEMMA OnceStep == TypeOK /\ PlacesInv /\ OnceInv /\ CodeInv /\ [Next]_vars => OnceInv'
<1> SUFFICES ASSUME TypeOK, PlacesInv, OnceInv, CodeInv, [Next]_vars PROVE OnceInv'
    OBVIOUS
<1> USE CallAssumption DEF TypeOK, Procs, Ends, ClientProcs, PlacesInv,
        OnceInv, CodeInv, AtStore
<1>1. CASE InvokeUnary
    BY <1>1 DEF InvokeUnary, RecordRequest
<1>2. CASE UnaryReturns
    BY <1>2 DEF UnaryReturns, RecordResponse, FinalizeWith, Goto
<1>3. CASE StartStream
    BY <1>3 DEF StartStream
<1>4. CASE SendMsg
    BY <1>4 DEF SendMsg, RecordRequest, ClientStreams, Goto
<1>5. CASE SendReturns
    BY <1>5 DEF SendReturns, FinishWith, CodeOf, Goto
<1>6. CASE CloseSend
    BY <1>6 DEF CloseSend, FinishWith, Goto
<1>7. CASE RecvMsg
    BY <1>7 DEF RecvMsg, Received, RecordResponse, ServerStreams, FinishWith,
        Goto
<1>8. ASSUME NEW p \in ClientProcs, Finish(p) PROVE OnceInv'
    BY <1>8 DEF Finish, Goto
<1>9. CASE ServeUnary
    BY <1>9 DEF ServeUnary, RecordRequest, Goto
<1>10. CASE UnaryHandlerReturns
    BY <1>10 DEF UnaryHandlerReturns, RecordResponse, FinalizeWith, Goto
<1>11. CASE ServeStream
    BY <1>11 DEF ServeStream, Goto
<1>12. CASE ServerRecv
    BY <1>12 DEF ServerRecv, RecordRequest, WrapStatusError, CodeOf
<1>13. CASE ServerSend
    BY <1>13 DEF ServerSend, RecordResponse, ServerStreams, Goto
<1>14. CASE ServerSendReturns
    BY <1>14 DEF ServerSendReturns, WrapStatusError, CodeOf, Goto
<1>15. CASE HandlerReturns
    BY <1>15 DEF HandlerReturns, FinalizeWith, WrapStatusError, CodeOf, Goto
<1>16. CASE HandlerPanics
    BY <1>16 DEF HandlerPanics, Goto
<1>17. ASSUME NEW p \in Procs, StoreStatus(p) PROVE OnceInv'
    BY <1>17 DEF StoreStatus, EndOf, Goto
<1>18. ASSUME NEW p \in Procs, StoreLatency(p) PROVE OnceInv'
    BY <1>18 DEF StoreLatency, EndOf, Goto
<1>19. CASE TrailersArrive
    BY <1>19 DEF TrailersArrive
<1>20. CASE Breaks
    BY <1>20 DEF Breaks
<1>21. CASE LogStatus
    BY <1>21 DEF LogStatus
<1>22. CASE LogRest
    BY <1>22 DEF LogRest
<1>23. CASE UNCHANGED vars
    BY <1>23
<1> QED
    BY <1>1, <1>2, <1>3, <1>4, <1>5, <1>6, <1>7, <1>8, <1>9, <1>10, <1>11,
       <1>12, <1>13, <1>14, <1>15, <1>16, <1>17, <1>18, <1>19, <1>20, <1>21,
       <1>22, <1>23
        DEF Next, Client, Server, Storing, Store, Terminated, ClientProcs

(* What is stored is what the stream ended with.                           *)
LEMMA CodeStep == TypeOK /\ CallInv /\ [Next]_vars => CodeInv'
<1> SUFFICES ASSUME TypeOK, CallInv, [Next]_vars PROVE CodeInv'
    OBVIOUS
<1> USE CallAssumption DEF TypeOK, Procs, Ends, ClientProcs, CallInv,
        PlacesInv, StreamInv, OnceInv, CodeInv, ServerInv, AtStore,
        ClientStatusIsReal, ServerStreams, EndOf, Nil, EOF
<1>1. CASE InvokeUnary
    BY <1>1 DEF InvokeUnary, RecordRequest
<1>2. CASE UnaryReturns
    BY <1>2 DEF UnaryReturns, RecordResponse, FinalizeWith, Goto
<1>3. CASE StartStream
    BY <1>3 DEF StartStream
<1>4. CASE SendMsg
    BY <1>4 DEF SendMsg, RecordRequest, ClientStreams, Goto
<1>5. CASE SendReturns
    BY <1>5 DEF SendReturns, FinishWith, CodeOf, Goto
<1>6. CASE CloseSend
    BY <1>6 DEF CloseSend, FinishWith, Goto
<1>7. CASE RecvMsg
    BY <1>7 DEF RecvMsg, Received, RecordResponse, FinishWith, Goto
<1>8. ASSUME NEW p \in ClientProcs, Finish(p) PROVE CodeInv'
    BY <1>8 DEF Finish, Goto
<1>9. CASE ServeUnary
    BY <1>9 DEF ServeUnary, RecordRequest, Goto
<1>10. CASE UnaryHandlerReturns
    BY <1>10 DEF UnaryHandlerReturns, RecordResponse, FinalizeWith, Goto
<1>11. CASE ServeStream
    BY <1>11 DEF ServeStream, Goto
<1>12. CASE ServerRecv
    BY <1>12 DEF ServerRecv, RecordRequest, WrapStatusError, CodeOf
<1>13. CASE ServerSend
    BY <1>13 DEF ServerSend, RecordResponse, Goto
<1>14. CASE ServerSendReturns
    BY <1>14 DEF ServerSendReturns, WrapStatusError, CodeOf, Goto
<1>15. CASE HandlerReturns
    BY <1>15 DEF HandlerReturns, FinalizeWith, WrapStatusError, CodeOf, Goto
<1>16. CASE HandlerPanics
    BY <1>16 DEF HandlerPanics, Goto
<1>17. ASSUME NEW p \in Procs, StoreStatus(p) PROVE CodeInv'
    BY <1>17 DEF StoreStatus, Goto
<1>18. ASSUME NEW p \in Procs, StoreLatency(p) PROVE CodeInv'
    BY <1>18 DEF StoreLatency, Goto
<1>19. CASE TrailersArrive
    BY <1>19 DEF TrailersArrive
<1>20. CASE Breaks
    BY <1>20 DEF Breaks
<1>21. CASE LogStatus
    BY <1>21 DEF LogStatus
<1>22. CASE LogRest
    BY <1>22 DEF LogRest
<1>23. CASE UNCHANGED vars
    BY <1>23
<1> QED
    BY <1>1, <1>2, <1>3, <1>4, <1>5, <1>6, <1>7, <1>8, <1>9, <1>10, <1>11,
       <1>12, <1>13, <1>14, <1>15, <1>16, <1>17, <1>18, <1>19, <1>20, <1>21,
       <1>22, <1>23
        DEF Next, Client, Server, Storing, Store, Terminated, ClientProcs

(* The server's end keeps the code of its handler's error.                 *)
LEMMA ServerStep == TypeOK /\ CallInv /\ [Next]_vars => ServerInv'
<1> SUFFICES ASSUME TypeOK, CallInv, [Next]_vars PROVE ServerInv'
    OBVIOUS
<1> USE CallAssumption DEF TypeOK, Procs, Ends, ClientProcs, CallInv,
        PlacesInv, StreamInv, CodeInv, ServerInv, AtStore, EndOf, Nil, EOF
<1>1. CASE InvokeUnary
    BY <1>1 DEF InvokeUnary, RecordRequest
<1>2. CASE UnaryReturns
    BY <1>2 DEF UnaryReturns, RecordResponse, FinalizeWith, Goto
<1>3. CASE StartStream
    BY <1>3 DEF StartStream
<1>4. CASE SendMsg
    BY <1>4 DEF SendMsg, RecordRequest, ClientStreams, Goto
<1>5. CASE SendReturns
    BY <1>5 DEF SendReturns, FinishWith, CodeOf, Goto
<1>6. CASE CloseSend
    BY <1>6 DEF CloseSend, FinishWith, Goto
<1>7. CASE RecvMsg
    BY <1>7 DEF RecvMsg, Received, RecordResponse, ServerStreams, FinishWith,
        Goto
<1>8. ASSUME NEW p \in ClientProcs, Finish(p) PROVE ServerInv'
    BY <1>8 DEF Finish, Goto
<1>9. CASE ServeUnary
    BY <1>9 DEF ServeUnary, RecordRequest, Goto
<1>10. CASE UnaryHandlerReturns
    BY <1>10 DEF UnaryHandlerReturns, RecordResponse, FinalizeWith, Goto
<1>11. CASE ServeStream
    BY <1>11 DEF ServeStream, Goto
<1>12. CASE ServerRecv
    BY <1>12 DEF ServerRecv, RecordRequest, WrapStatusError, CodeOf
<1>13. CASE ServerSend
    BY <1>13 DEF ServerSend, RecordResponse, ServerStreams, Goto
<1>14. CASE ServerSendReturns
    BY <1>14 DEF ServerSendReturns, WrapStatusError, CodeOf, Goto
<1>15. CASE HandlerReturns
    BY <1>15 DEF HandlerReturns, FinalizeWith, WrapStatusError, CodeOf, Goto
<1>16. CASE HandlerPanics
    BY <1>16 DEF HandlerPanics, Goto
<1>17. ASSUME NEW p \in Procs, StoreStatus(p) PROVE ServerInv'
    BY <1>17 DEF StoreStatus, Goto
<1>18. ASSUME NEW p \in Procs, StoreLatency(p) PROVE ServerInv'
    BY <1>18 DEF StoreLatency, Goto
<1>19. CASE TrailersArrive
    BY <1>19 DEF TrailersArrive
<1>20. CASE Breaks
    BY <1>20 DEF Breaks
<1>21. CASE LogStatus
    BY <1>21 DEF LogStatus
<1>22. CASE LogRest
    BY <1>22 DEF LogRest
<1>23. CASE UNCHANGED vars
    BY <1>23
<1> QED
    BY <1>1, <1>2, <1>3, <1>4, <1>5, <1>6, <1>7, <1>8, <1>9, <1>10, <1>11,
       <1>12, <1>13, <1>14, <1>15, <1>16, <1>17, <1>18, <1>19, <1>20, <1>21,
       <1>22, <1>23
        DEF Next, Client, Server, Storing, Store, Terminated, ClientProcs

-----------------------------------------------------------------------------
(* Messages.                                                               *)

(* Request and response of a unary call are counted once on each end.      *)
LEMMA UnaryStep == TypeOK /\ CallInv /\ UnaryInv /\ [Next]_vars => UnaryInv'
<1> SUFFICES ASSUME TypeOK, CallInv, UnaryInv, [Next]_vars PROVE UnaryInv'
    OBVIOUS
<1> USE CallAssumption DEF TypeOK, Procs, Ends, ClientProcs, CallInv,
        PlacesInv, StreamInv, OnceInv, CodeInv, ServerInv, UnaryInv, AtStore,
        EndOf
<1>1. CASE InvokeUnary
    BY <1>1 DEF InvokeUnary, RecordRequest
<1>2. CASE UnaryReturns
    BY <1>2 DEF UnaryReturns, RecordResponse, FinalizeWith, Goto
<1>3. CASE StartStream
    BY <1>3 DEF StartStream
<1>4. CASE SendMsg
    BY <1>4 DEF SendMsg, RecordRequest, ClientStreams, Goto
<1>5. CASE SendReturns
    BY <1>5 DEF SendReturns, FinishWith, CodeOf, Goto
<1>6. CASE CloseSend
    BY <1>6 DEF CloseSend, FinishWith, Goto
<1>7. CASE RecvMsg
    BY <1>7 DEF RecvMsg, Received, RecordResponse, ServerStreams, FinishWith,
        Goto
<1>8. ASSUME NEW p \in ClientProcs, Finish(p) PROVE UnaryInv'
    BY <1>8 DEF Finish, Goto
<1>9. CASE ServeUnary
    BY <1>9 DEF ServeUnary, RecordRequest, Goto
<1>10. CASE UnaryHandlerReturns
    BY <1>10 DEF UnaryHandlerReturns, RecordResponse, FinalizeWith, Goto
<1>11. CASE ServeStream
    BY <1>11 DEF ServeStream, Goto
<1>12. CASE ServerRecv
    BY <1>12 DEF ServerRecv, RecordRequest, WrapStatusError, CodeOf
<1>13. CASE ServerSend
    BY <1>13 DEF ServerSend, RecordResponse, ServerStreams, Goto
<1>14. CASE ServerSendReturns
    BY <1>14 DEF ServerSendReturns, WrapStatusError, CodeOf, Goto
<1>15. CASE HandlerReturns
    BY <1>15 DEF HandlerReturns, FinalizeWith, WrapStatusError, CodeOf, Goto
<1>16. CASE HandlerPanics
    BY <1>16 DEF HandlerPanics, Goto
<1>17. ASSUME NEW p \in Procs, StoreStatus(p) PROVE UnaryInv'
    BY <1>17 DEF StoreStatus, Goto
<1>18. ASSUME NEW p \in Procs, StoreLatency(p) PROVE UnaryInv'
    BY <1>18 DEF StoreLatency, Goto
<1>19. CASE TrailersArrive
    BY <1>19 DEF TrailersArrive
<1>20. CASE Breaks
    BY <1>20 DEF Breaks
<1>21. CASE LogStatus
    BY <1>21 DEF LogStatus
<1>22. CASE LogRest
    BY <1>22 DEF LogRest
<1>23. CASE UNCHANGED vars
    BY <1>23
<1> QED
    BY <1>1, <1>2, <1>3, <1>4, <1>5, <1>6, <1>7, <1>8, <1>9, <1>10, <1>11,
       <1>12, <1>13, <1>14, <1>15, <1>16, <1>17, <1>18, <1>19, <1>20, <1>21,
       <1>22, <1>23
        DEF Next, Client, Server, Storing, Store, Terminated, ClientProcs

(* No message is counted by its receiver before its sender.                *)
LEMMA CountStep == TypeOK /\ CallInv /\ UnaryInv /\ CountInv /\ [Next]_vars => CountInv'
<1> SUFFICES ASSUME TypeOK, CallInv, UnaryInv, CountInv, [Next]_vars PROVE CountInv'
    OBVIOUS
<1> USE CallAssumption DEF TypeOK, Procs, Ends, ClientProcs, CallInv,
        PlacesInv, StreamInv, UnaryInv, CountInv, ClientSending, ServerSending,
        AtStore, EndOf
<1>1. CASE InvokeUnary
    BY <1>1 DEF InvokeUnary, RecordRequest
<1>2. CASE UnaryReturns
    BY <1>2 DEF UnaryReturns, RecordResponse, FinalizeWith, Goto
<1>3. CASE StartStream
    BY <1>3 DEF StartStream
<1>4. CASE SendMsg
    BY <1>4 DEF SendMsg, RecordRequest, ClientStreams, Goto
<1>5. CASE SendReturns
    BY <1>5 DEF SendReturns, FinishWith, CodeOf, Goto
<1>6. CASE CloseSend
    BY <1>6 DEF CloseSend, FinishWith, Goto
<1>7. CASE RecvMsg
    BY <1>7 DEF RecvMsg, Received, RecordResponse, ServerStreams, FinishWith,
        Goto
<1>8. ASSUME NEW p \in ClientProcs, Finish(p) PROVE CountInv'
    BY <1>8 DEF Finish, Goto
<1>9. CASE ServeUnary
    BY <1>9 DEF ServeUnary, RecordRequest, Goto
<1>10. CASE UnaryHandlerReturns
    BY <1>10 DEF UnaryHandlerReturns, RecordResponse, FinalizeWith, Goto
<1>11. CASE ServeStream
    BY <1>11 DEF ServeStream, Goto
<1>12. CASE ServerRecv
    BY <1>12 DEF ServerRecv, RecordRequest, WrapStatusError, CodeOf
<1>13. CASE ServerSend
    BY <1>13 DEF ServerSend, RecordResponse, ServerStreams, Goto
<1>14. CASE ServerSendReturns
    BY <1>14 DEF ServerSendReturns, WrapStatusError, CodeOf, Goto
<1>15. CASE HandlerReturns
    BY <1>15 DEF HandlerReturns, FinalizeWith, WrapStatusError, CodeOf, Goto
<1>16. CASE HandlerPanics
    BY <1>16 DEF HandlerPanics, Goto
<1>17. ASSUME NEW p \in Procs, StoreStatus(p) PROVE CountInv'
    BY <1>17 DEF StoreStatus, Goto
<1>18. ASSUME NEW p \in Procs, StoreLatency(p) PROVE CountInv'
    BY <1>18 DEF StoreLatency, Goto
<1>19. CASE TrailersArrive
    BY <1>19 DEF TrailersArrive
<1>20. CASE Breaks
    BY <1>20 DEF Breaks
<1>21. CASE LogStatus
    BY <1>21 DEF LogStatus
<1>22. CASE LogRest
    BY <1>22 DEF LogRest
<1>23. CASE UNCHANGED vars
    BY <1>23
<1> QED
    BY <1>1, <1>2, <1>3, <1>4, <1>5, <1>6, <1>7, <1>8, <1>9, <1>10, <1>11,
       <1>12, <1>13, <1>14, <1>15, <1>16, <1>17, <1>18, <1>19, <1>20, <1>21,
       <1>22, <1>23
        DEF Next, Client, Server, Storing, Store, Terminated, ClientProcs

(* After the last message of a success nothing is under way.               *)
LEMMA EndStep == TypeOK /\ CallInv /\ EndInv /\ [Next]_vars => EndInv'
<1> SUFFICES ASSUME TypeOK, CallInv, EndInv, [Next]_vars PROVE EndInv'
    OBVIOUS
<1> USE CallAssumption DEF TypeOK, Procs, Ends, ClientProcs, CallInv,
        PlacesInv, StreamInv, OnceInv, CodeInv, ServerInv, EndInv, AtStore,
        EndOf
<1>1. CASE InvokeUnary
    BY <1>1 DEF InvokeUnary, RecordRequest
<1>2. CASE UnaryReturns
    BY <1>2 DEF UnaryReturns, RecordResponse, FinalizeWith, Goto
<1>3. CASE StartStream
    BY <1>3 DEF StartStream
<1>4. CASE SendMsg
    BY <1>4 DEF SendMsg, RecordRequest, ClientStreams, Goto
<1>5. CASE SendReturns
    BY <1>5 DEF SendReturns, FinishWith, CodeOf, Goto
<1>6. CASE CloseSend
    BY <1>6 DEF CloseSend, FinishWith, Goto
<1>7. CASE RecvMsg
    BY <1>7 DEF RecvMsg, Received, RecordResponse, ServerStreams, FinishWith,
        Goto
<1>8. ASSUME NEW p \in ClientProcs, Finish(p) PROVE EndInv'
    BY <1>8 DEF Finish, Goto
<1>9. CASE ServeUnary
    BY <1>9 DEF ServeUnary, RecordRequest, Goto
<1>10. CASE UnaryHandlerReturns
    BY <1>10 DEF UnaryHandlerReturns, RecordResponse, FinalizeWith, Goto
<1>11. CASE ServeStream
    BY <1>11 DEF ServeStream, Goto
<1>12. CASE ServerRecv
    BY <1>12 DEF ServerRecv, RecordRequest, WrapStatusError, CodeOf
<1>13. CASE ServerSend
    BY <1>13 DEF ServerSend, RecordResponse, ServerStreams, Goto
<1>14. CASE ServerSendReturns
    BY <1>14 DEF ServerSendReturns, WrapStatusError, CodeOf, Goto
<1>15. CASE HandlerReturns
    BY <1>15 DEF HandlerReturns, FinalizeWith, WrapStatusError, CodeOf, Goto
<1>16. CASE HandlerPanics
    BY <1>16 DEF HandlerPanics, Goto
<1>17. ASSUME NEW p \in Procs, StoreStatus(p) PROVE EndInv'
    BY <1>17 DEF StoreStatus, Goto
<1>18. ASSUME NEW p \in Procs, StoreLatency(p) PROVE EndInv'
    BY <1>18 DEF StoreLatency, Goto
<1>19. CASE TrailersArrive
    BY <1>19 DEF TrailersArrive
<1>20. CASE Breaks
    BY <1>20 DEF Breaks
<1>21. CASE LogStatus
    BY <1>21 DEF LogStatus
<1>22. CASE LogRest
    BY <1>22 DEF LogRest
<1>23. CASE UNCHANGED vars
    BY <1>23
<1> QED
    BY <1>1, <1>2, <1>3, <1>4, <1>5, <1>6, <1>7, <1>8, <1>9, <1>10, <1>11,
       <1>12, <1>13, <1>14, <1>15, <1>16, <1>17, <1>18, <1>19, <1>20, <1>21,
       <1>22, <1>23
        DEF Next, Client, Server, Storing, Store, Terminated, ClientProcs

-----------------------------------------------------------------------------
(* Entries.                                                                *)

(* A status that an entry shows is not taken back.                         *)
LEMMA EntryStep == TypeOK /\ CallInv /\ EntryInv /\ [Next]_vars => EntryInv'
<1> SUFFICES ASSUME TypeOK, CallInv, EntryInv, [Next]_vars PROVE EntryInv'
    OBVIOUS
<1> USE CallAssumption DEF TypeOK, Procs, Ends, ClientProcs, CallInv,
        PlacesInv, OnceInv, CodeInv, ServerInv, EntryInv, NoEntry, AtStore,
        EndOf
<1>1. CASE InvokeUnary
    BY <1>1 DEF InvokeUnary, RecordRequest
<1>2. CASE UnaryReturns
    BY <1>2 DEF UnaryReturns, RecordResponse, FinalizeWith, Goto
<1>3. CASE StartStream
    BY <1>3 DEF StartStream
<1>4. CASE SendMsg
    BY <1>4 DEF SendMsg, RecordRequest, ClientStreams, Goto
<1>5. CASE SendReturns
    BY <1>5 DEF SendReturns, FinishWith, CodeOf, Goto
<1>6. CASE CloseSend
    BY <1>6 DEF CloseSend, FinishWith, Goto
<1>7. CASE RecvMsg
    BY <1>7 DEF RecvMsg, Received, RecordResponse, ServerStreams, FinishWith,
        Goto
<1>8. ASSUME NEW p \in ClientProcs, Finish(p) PROVE EntryInv'
    BY <1>8 DEF Finish, Goto
<1>9. CASE ServeUnary
    BY <1>9 DEF ServeUnary, RecordRequest, Goto
<1>10. CASE UnaryHandlerReturns
    BY <1>10 DEF UnaryHandlerReturns, RecordResponse, FinalizeWith, Goto
<1>11. CASE ServeStream
    BY <1>11 DEF ServeStream, Goto
<1>12. CASE ServerRecv
    BY <1>12 DEF ServerRecv, RecordRequest, WrapStatusError, CodeOf
<1>13. CASE ServerSend
    BY <1>13 DEF ServerSend, RecordResponse, ServerStreams, Goto
<1>14. CASE ServerSendReturns
    BY <1>14 DEF ServerSendReturns, WrapStatusError, CodeOf, Goto
<1>15. CASE HandlerReturns
    BY <1>15 DEF HandlerReturns, FinalizeWith, WrapStatusError, CodeOf, Goto
<1>16. CASE HandlerPanics
    BY <1>16 DEF HandlerPanics, Goto
<1>17. ASSUME NEW p \in Procs, StoreStatus(p) PROVE EntryInv'
    BY <1>17 DEF StoreStatus, Goto
<1>18. ASSUME NEW p \in Procs, StoreLatency(p) PROVE EntryInv'
    BY <1>18 DEF StoreLatency, Goto
<1>19. CASE TrailersArrive
    BY <1>19 DEF TrailersArrive
<1>20. CASE Breaks
    BY <1>20 DEF Breaks
<1>21. CASE LogStatus
    <2>1. PICK e \in Ends :
             entry' = [end |-> e, status |-> LogValue(e, "grpc.status_code"),
                       duration |-> "none", late |-> info[e].final]
        BY <1>21 DEF LogStatus
    <2>2. LogValue(e, "grpc.status_code") = info[e].status
        BY DEF LogValue
    <2>3. /\ entry'.end = e /\ entry'.status = info[e].status
          /\ entry'.duration = "none" /\ entry'.late = info[e].final
        BY <2>1, <2>2
    <2>4. info' = info
        BY <1>21 DEF LogStatus
    <2> QED
        BY <2>3, <2>4
<1>22. CASE LogRest
    <2>1. /\ entry # NoEntry /\ info' = info
          /\ entry' = [entry EXCEPT !.duration = LogValue(entry.end, "rpc.duration")]
        BY <1>22 DEF LogRest
    <2>2. /\ entry'.end = entry.end /\ entry'.status = entry.status
          /\ entry'.late = entry.late
        BY <2>1
    <2>3. entry.late => entry'.duration = "final"
        BY <2>1 DEF LogValue
    <2> QED
        BY <2>1, <2>2, <2>3
<1>23. CASE UNCHANGED vars
    BY <1>23
<1> QED
    BY <1>1, <1>2, <1>3, <1>4, <1>5, <1>6, <1>7, <1>8, <1>9, <1>10, <1>11,
       <1>12, <1>13, <1>14, <1>15, <1>16, <1>17, <1>18, <1>19, <1>20, <1>21,
       <1>22, <1>23
        DEF Next, Client, Server, Storing, Store, Terminated, ClientProcs

-----------------------------------------------------------------------------
(* The invariant, and what follows from it.                                *)

(* A call that has not begun satisfies the invariant.                      *)
LEMMA InvInit == Init => IInv
<1> SUFFICES ASSUME Init PROVE IInv
    OBVIOUS
<1>1. TypeOK
    BY TypeInit
<1> USE CallAssumption DEF Init, NewRequestInfo, Ends, Procs, ClientProcs, AtStore
<1>2. PlacesInv /\ StreamInv
    BY DEF PlacesInv, StreamInv
<1>3. OnceInv /\ CodeInv /\ ServerInv
    BY DEF OnceInv, CodeInv, ServerInv, ClientStatusIsReal, EndOf
<1>4. CountInv /\ UnaryInv /\ EndInv
    BY DEF CountInv, UnaryInv, EndInv, ClientSending, ServerSending
<1>5. EntryInv
    BY DEF EntryInv
<1> QED
    BY <1>1, <1>2, <1>3, <1>4, <1>5 DEF IInv, CallInv

(* Every step keeps the invariant.                                         *)
LEMMA InvStep == IInv /\ [Next]_vars => IInv'
    BY TypeStep, PlacesStep, StreamStep, OnceStep, CodeStep, ServerStep,
       UnaryStep, CountStep, EndStep, EntryStep DEF IInv, CallInv

(* The inductive invariant holds of every call.                            *)
THEOREM CallInvariance == Spec => []IInv
    BY InvInit, InvStep, PTL DEF Spec

(* Every variable of a call has its type, and the bounds on messages are   *)
(* kept.                                                                   *)
THEOREM CallTypes == Spec => []TypeOK
<1>1. IInv => TypeOK
    BY DEF IInv
<1> QED
    BY <1>1, CallInvariance, PTL

(* The client reports the code its stream ended with or Unknown, a success *)
(* only of a call the server served, and reports it when RecvMsg has shown *)
(* the end; the server reports the code of the error its stream gave it.   *)
THEOREM StatusCorrect == Spec => []StatusIsRight
<1>1. IInv => StatusIsRight
    <2> SUFFICES ASSUME IInv PROVE StatusIsRight
        OBVIOUS
    <2> USE CallAssumption DEF IInv, CallInv, TypeOK, CodeInv
    <2>1. ClientStatusIsReal
        OBVIOUS
    <2>2. OKMeansServed
        BY <2>1 DEF OKMeansServed, ClientStatusIsReal, OnceInv, StreamInv, ServerInv
    <2>3. HandlerErrorKeepsCode
        BY DEF HandlerErrorKeepsCode, ServerInv
    <2>4. RecvFinishes
        BY DEF RecvFinishes, AtStore
    <2> QED
        BY <2>1, <2>2, <2>3, <2>4 DEF StatusIsRight
<1> QED
    BY <1>1, CallInvariance, PTL

(* A message is counted by its sender first, and after a success both ends *)
(* have counted the same.                                                  *)
THEOREM CountsCorrect == Spec => []CountsAgree
<1>1. IInv => CountsAgree
    <2> SUFFICES ASSUME IInv PROVE CountsAgree
        OBVIOUS
    <2> USE CallAssumption DEF IInv, CallInv, TypeOK, Ends
    <2>1. SenderCountsFirst
        BY DEF SenderCountsFirst, CountInv, ClientSending, ServerSending
    <2>2. EndsAgree
        <3> SUFFICES ASSUME sizes["client"], sizes["server"], info["client"].final,
                            info["client"].status = "OK"
                     PROVE  /\ info["client"].respCount = info["server"].respCount
                            /\ kind = "unary" =>
                                  info["client"].reqCount = info["server"].reqCount
            BY DEF EndsAgree
        <3>1. stream = "OK" /\ ~broken /\ trailer = "OK" /\ pc["handler"] = "gone"
            BY DEF CodeInv, ClientStatusIsReal, StreamInv, OnceInv
        <3>2. CASE kind = "unary"
            BY <3>1, <3>2 DEF UnaryInv, PlacesInv
        <3>3. CASE kind # "unary"
            BY <3>1, <3>3 DEF EndInv, CountInv, ServerSending
        <3> QED
            BY <3>2, <3>3
    <2> QED
        BY <2>1, <2>2 DEF CountsAgree
<1> QED
    BY <1>1, CallInvariance, PTL

(* An entry logged during a call shows no failure that is not the call's,  *)
(* and one begun after it shows its status and its final duration.         *)
THEOREM EntryCorrect == Spec => []EntryIsRight
<1>1. IInv => EntryIsRight
    BY DEF IInv, EntryInv, EntryIsRight, EntryHolds, LateEntryIsFinal
<1> QED
    BY <1>1, CallInvariance, PTL

(* A finished RequestInfo keeps its status, whichever of SendMsg, RecvMsg  *)
(* and CloseSend fails later, and the server's counts stand as well.       *)
THEOREM FinishedForGood == Spec => FinishedOnce
<1> DEFINE Kept == \A e \in Ends : info[e].final =>
                      /\ info'[e].final /\ info'[e].status = info[e].status
                      /\ e = "server" => info'[e] = info[e]
<1>1. IInv /\ [Next]_vars => [Kept]_vars
    <2> SUFFICES ASSUME IInv, [Next]_vars PROVE Kept
        OBVIOUS
    <2> USE DEF IInv, CallInv, TypeOK, Ends, Procs
    <2>1. ASSUME NEW p \in Procs, StoreStatus(p) PROVE Kept
        BY <2>1 DEF StoreStatus, EndOf, OnceInv, ServerInv, ClientProcs, AtStore
    <2>2. ASSUME NEW p \in Procs, StoreLatency(p) PROVE Kept
        BY <2>2 DEF StoreLatency, EndOf, ServerInv
    <2>3. CASE InvokeUnary \/ SendMsg \/ ServeUnary \/ ServerRecv
        BY <2>3 DEF InvokeUnary, SendMsg, ServeUnary, ServerRecv, RecordRequest,
                    ServerInv
    <2>4. CASE UnaryReturns \/ RecvMsg \/ UnaryHandlerReturns \/ ServerSend
        BY <2>4 DEF UnaryReturns, RecvMsg, Received, UnaryHandlerReturns, ServerSend,
                    RecordResponse, ServerInv
    <2>5. CASE UNCHANGED info
        BY <2>5
    <2>6. ASSUME NEW p \in ClientProcs, Finish(p) PROVE UNCHANGED info
        BY <2>6 DEF Finish
    <2> QED
        BY <2>1, <2>2, <2>3, <2>4, <2>5, <2>6
           DEF Next, Client, Server, Storing, Store, Terminated, ClientProcs, StartStream,
               SendReturns, CloseSend, ServeStream, ServerSendReturns, HandlerReturns,
               HandlerPanics, TrailersArrive, Breaks, LogStatus, LogRest
<1> QED
    BY <1>1, CallInvariance, PTL DEF Spec, FinishedOnce
=============================================================================
