------------------------------ MODULE GrpcCall ------------------------------
(***************************************************************************)
(* One RPC between a client and a server that both use slogcpgrpc: the     *)
(* unary and stream interceptors, the stream wrappers, and the RequestInfo *)
(* that each end fills in while other goroutines log with it.              *)
(*                                                                         *)
(* On the client one goroutine sends and another receives, which gRPC      *)
(* allows; a unary call is made by the sender alone.  On the server the    *)
(* application's handler receives and sends.  Messages are counted; their  *)
(* sizes are added up at the same places and left out.  An error is Nil,   *)
(* EOF, or a code: the code of its status, or Unknown if it has none.      *)
(*                                                                         *)
(* gRPC is external: a stream ends for the client with the code of the     *)
(* server's trailers, behind all of its messages, or with a code of its    *)
(* own when the context or the connection ends; RecvMsg then returns that  *)
(* code, or EOF for OK; SendMsg returns EOF once the stream has ended; a   *)
(* stream with one response ends with the RecvMsg that returns it.         *)
(***************************************************************************)
EXTENDS Integers

CONSTANTS
    Codes,          \* codes a handler may return, with "OK"
    LocalCodes,     \* codes a broken stream ends with
    SizeConfigs,    \* the includeSizes of client and server
    MaxSends,       \* bound: messages the client sends on a stream
    MaxReplies      \* bound: messages the server sends on a stream

Nil == "nil"
EOF == "EOF"

ASSUME CallAssumption ==
    /\ "OK" \in Codes /\ "OK" \notin LocalCodes
    /\ (Codes \cup LocalCodes) \cap {"open", "none", "Unknown", Nil, EOF} = {}
    /\ SizeConfigs \subseteq [{"client", "server"} -> BOOLEAN]
    /\ MaxSends \in Nat \ {0} /\ MaxReplies \in Nat \ {0}

VARIABLES
    kind,       \* grpc.type of the RPC
    sizes,      \* cfg.includeSizes of each end
    info,       \* the RequestInfo of each end
    once,       \* clientStreamWrapper.once
    pc,         \* where sender, receiver and handler are
    fcode,      \* the code each of them finalizes with
    up, down,   \* messages under way to the server and to the client
    halfClosed, \* the client has called CloseSend
    trailer,    \* the code in the server's trailers, or "none"
    stream,     \* "open", or the code the client's stream ended with
    broken,     \* whether it ended without the server
    sends,      \* calls of the client's SendMsg
    replies,    \* calls of the server's SendMsg
    seen,       \* the last error of the handler's stream
    ended,      \* whether the client's RecvMsg has reached the end
    entry       \* a log entry in the making: its end and what it shows

clientVars == <<once, sends, ended>>
netVars    == <<up, down, halfClosed, trailer, stream, broken>>
serverVars == <<replies, seen>>
vars == <<kind, sizes, info, pc, fcode, entry, clientVars, netVars, serverVars>>

Kinds == {"unary", "client_stream", "server_stream", "bidi_stream"}
Procs == {"sender", "receiver", "handler"}
Ends  == {"client", "server"}

ClientStreams == kind \in {"client_stream", "bidi_stream"}
ServerStreams == kind \in {"server_stream", "bidi_stream"}
EndOf(p)      == IF p = "handler" THEN "server" ELSE "client"

(* newRequestInfo: no latency yet, and the status of a success.            *)
NewRequestInfo ==
    [status |-> "OK", final |-> FALSE, reqCount |-> 0, respCount |-> 0]

NoEntry == [end |-> "none"]

Init ==
    /\ kind \in Kinds
    /\ sizes \in SizeConfigs
    /\ info = [e \in Ends |-> NewRequestInfo]
    /\ pc = [p \in Procs |-> "new"] /\ fcode = [p \in Procs |-> "OK"]
    /\ once = "new" /\ sends = 0 /\ ended = FALSE
    /\ up = 0 /\ down = 0 /\ halfClosed = FALSE
    /\ trailer = "none" /\ stream = "open" /\ broken = FALSE
    /\ replies = 0 /\ seen = Nil
    /\ entry = NoEntry

Goto(p, l) == pc' = [pc EXCEPT ![p] = l]

(* recordRequest and recordResponse, called only by the configuration that *)
(* asks for sizes.                                                         *)
RecordRequest(e) ==
    IF ~sizes[e] THEN info ELSE [info EXCEPT ![e].reqCount = @ + 1]

RecordResponse(e) ==
    IF ~sizes[e] THEN info ELSE [info EXCEPT ![e].respCount = @ + 1]

(* status.Code.                                                            *)
CodeOf(err) == IF err = Nil THEN "OK" ELSE IF err = EOF THEN "Unknown" ELSE err

(* wrapStatusError: nil and io.EOF as they are, and around anything else a *)
(* wrapper whose GRPCStatus is that of the error.                          *)
WrapStatusError(err) == IF err \in {Nil, EOF} THEN err ELSE CodeOf(err)

-----------------------------------------------------------------------------
(* Log entries.                                                            *)

(* requestInfoValue.LogValue, read when the entry is made: the counters    *)
(* are left out.                                                           *)
LogValue(e, key) ==
    CASE key = "grpc.status_code" -> info[e].status
      [] key = "rpc.duration"     -> IF info[e].final THEN "final" ELSE "elapsed"

(* A goroutine of either end logs with the request's logger.  The status   *)
(* is read first, and the other statistics after it; "late" notes whether  *)
(* the RequestInfo was finished by then.                                   *)
LogStatus ==
    /\ entry = NoEntry
    /\ \E e \in Ends :
        /\ pc[IF e = "server" THEN "handler" ELSE "sender"] # "new"
        /\ entry' = [end |-> e, status |-> LogValue(e, "grpc.status_code"),
                     duration |-> "none", late |-> info[e].final]
    /\ UNCHANGED <<kind, sizes, info, pc, fcode, clientVars, netVars, serverVars>>

LogRest ==
    /\ entry # NoEntry /\ entry.duration = "none"
    /\ entry' = [entry EXCEPT !.duration = LogValue(entry.end, "rpc.duration")]
    /\ UNCHANGED <<kind, sizes, info, pc, fcode, clientVars, netVars, serverVars>>

-----------------------------------------------------------------------------
(* Finalizing, on either end.                                              *)

FinalizeWith(p, code) ==
    /\ fcode' = [fcode EXCEPT ![p] = code]
    /\ Goto(p, "status")

FinishWith(p, code) ==
    /\ fcode' = [fcode EXCEPT ![p] = code]
    /\ Goto(p, "finish")

(* Mutant of Finish: every caller finalizes.                               *)
FinishEachTime(p) ==
    /\ pc[p] = "finish"
    /\ once' = "running" /\ Goto(p, "status")
    /\ UNCHANGED <<kind, sizes, info, fcode, sends, ended, netVars, serverVars, entry>>

(* clientStreamWrapper.finish: sync.Once lets one caller finalize, and     *)
(* makes the other wait until it has.                                      *)
Finish(p) ==
    /\ pc[p] = "finish"
    /\ \/ once = "new" /\ once' = "running" /\ Goto(p, "status")
       \/ once = "done" /\ Goto(p, "idle") /\ UNCHANGED once
    /\ UNCHANGED <<kind, sizes, info, fcode, sends, ended, netVars, serverVars, entry>>

(* RequestInfo.finalize stores the status ...                              *)
StoreStatus(p) ==
    /\ pc[p] = "status"
    /\ info' = [info EXCEPT ![EndOf(p)].status = fcode[p]]
    /\ Goto(p, "latency")
    /\ UNCHANGED <<kind, sizes, fcode, clientVars, netVars, serverVars, entry>>

(* ... and then the latency.  The server's interceptor has then returned,  *)
(* and gRPC sends the response of a unary call and the trailers.           *)
StoreLatency(p) ==
    /\ pc[p] = "latency"
    /\ info' = [info EXCEPT ![EndOf(p)].final = TRUE]
    /\ once' = IF once = "running" /\ p # "handler" THEN "done" ELSE once
    /\ Goto(p, IF p = "handler" \/ pc["receiver"] = "gone" THEN "gone" ELSE "idle")
    /\ trailer' = IF p = "handler" THEN fcode[p] ELSE trailer
    /\ UNCHANGED <<kind, sizes, fcode, sends, ended, up, down, halfClosed, stream,
                   broken, serverVars, entry>>

(* Mutant of Store: the latency first, and then the status.                *)
StoreLatencyFirst(p) ==
    \/ /\ pc[p] = "status"
       /\ info' = [info EXCEPT ![EndOf(p)].final = TRUE]
       /\ Goto(p, "latency")
       /\ UNCHANGED <<kind, sizes, fcode, clientVars, netVars, serverVars, entry>>
    \/ /\ pc[p] = "latency"
       /\ info' = [info EXCEPT ![EndOf(p)].status = fcode[p]]
       /\ once' = IF once = "running" /\ p # "handler" THEN "done" ELSE once
       /\ Goto(p, IF p = "handler" \/ pc["receiver"] = "gone" THEN "gone" ELSE "idle")
       /\ trailer' = IF p = "handler" THEN fcode[p] ELSE trailer
       /\ UNCHANGED <<kind, sizes, fcode, sends, ended, up, down, halfClosed, stream,
                      broken, serverVars, entry>>

(* RequestInfo.finalize.                                                   *)
Store(p) == StoreStatus(p) \/ StoreLatency(p)

-----------------------------------------------------------------------------
(* The client.                                                             *)

(* UnaryClientInterceptor: the request is recorded and sent.               *)
InvokeUnary ==
    /\ kind = "unary" /\ pc["sender"] = "new"
    /\ info' = RecordRequest("client")
    /\ up' = 1
    /\ halfClosed' = TRUE
    /\ pc' = [pc EXCEPT !["sender"] = "invoked", !["receiver"] = "gone"]
    /\ UNCHANGED <<kind, sizes, fcode, clientVars, down, trailer, stream, broken,
                   serverVars, entry>>

(* The invoker returns; the response counts if there is no error.          *)
UnaryReturns ==
    /\ kind = "unary" /\ pc["sender"] = "invoked" /\ stream # "open"
    /\ info' = IF stream = "OK" THEN RecordResponse("client") ELSE info
    /\ down' = 0
    /\ FinalizeWith("sender", stream)
    /\ UNCHANGED <<kind, sizes, clientVars, up, halfClosed, trailer, stream, broken,
                   serverVars, entry>>

(* StreamClientInterceptor: the streamer opens the stream, or its error    *)
(* finalizes the RequestInfo.                                              *)
StartStream ==
    /\ kind # "unary" /\ pc["sender"] = "new"
    /\ \/ /\ pc' = [pc EXCEPT !["sender"] = "idle", !["receiver"] = "idle"]
          /\ UNCHANGED <<stream, broken, fcode>>
       \/ /\ stream' \in LocalCodes /\ broken' = TRUE
          /\ fcode' = [fcode EXCEPT !["sender"] = stream']
          /\ pc' = [pc EXCEPT !["sender"] = "status", !["receiver"] = "gone",
                              !["handler"] = "gone"]
    /\ UNCHANGED <<kind, sizes, info, clientVars, up, down, halfClosed, trailer,
                   serverVars, entry>>

(* clientStreamWrapper.SendMsg: the message is counted ...                 *)
SendMsg ==
    /\ pc["sender"] = "idle" /\ ~halfClosed
    /\ sends < IF ClientStreams THEN MaxSends ELSE 1
    /\ sends' = sends + 1
    /\ info' = RecordRequest("client")
    /\ Goto("sender", "sending")
    /\ UNCHANGED <<kind, sizes, fcode, once, ended, netVars, serverVars, entry>>

(* ... and handed to the stream, which takes it, returns EOF if it has     *)
(* ended, or fails on this side and ends.                                  *)
SendReturns ==
    /\ pc["sender"] = "sending"
    /\ \/ /\ stream = "open"
          /\ up' = up + 1
          /\ Goto("sender", "idle")
          /\ UNCHANGED <<fcode, stream, broken>>
       \/ /\ stream = "open"
          /\ stream' \in LocalCodes /\ broken' = TRUE
          /\ FinishWith("sender", stream')
          /\ UNCHANGED up
       \/ /\ stream # "open"
          /\ FinishWith("sender", CodeOf(EOF))
          /\ UNCHANGED <<up, stream, broken>>
    /\ UNCHANGED <<kind, sizes, info, clientVars, down, halfClosed, trailer,
                   serverVars, entry>>

(* clientStreamWrapper.CloseSend.                                          *)
CloseSend ==
    /\ pc["sender"] = "idle" /\ ~halfClosed
    /\ halfClosed' = TRUE
    /\ \/ UNCHANGED <<fcode, pc, stream, broken>>
       \/ /\ stream = "open"
          /\ stream' \in LocalCodes /\ broken' = TRUE
          /\ FinishWith("sender", stream')
    /\ UNCHANGED <<kind, sizes, info, clientVars, up, down, trailer, serverVars, entry>>

(* A message for the client's RecvMsg; the one response of a stream        *)
(* without ServerStreams is returned with the trailers.                    *)
Received ==
    /\ down > 0 /\ (ServerStreams \/ stream = "OK")
    /\ info' = RecordResponse("client")
    /\ down' = down - 1
    /\ ended' = ~ServerStreams
    /\ UNCHANGED <<pc, fcode>>

(* Mutant of RecvMsg: every end of the stream is a success.                *)
RecvMsgAlwaysOK ==
    /\ pc["receiver"] = "idle" /\ ~ended
    /\ \/ Received
       \/ /\ stream # "open" /\ (broken \/ down = 0)
          /\ ended' = TRUE
          /\ FinishWith("receiver", "OK")
          /\ UNCHANGED <<info, down>>
    /\ UNCHANGED <<kind, sizes, once, sends, up, halfClosed, trailer, stream, broken,
                   serverVars, entry>>

(* Mutant of RecvMsg: io.EOF does not finish the request.                 *)
RecvMsgEOFUnfinished ==
    /\ pc["receiver"] = "idle" /\ ~ended
    /\ \/ Received
       \/ /\ stream # "open"
          /\ down = 0 \/ (stream # "OK" /\ (broken \/ ~ServerStreams))
          /\ ended' = TRUE
          /\ IF stream = "OK" THEN UNCHANGED <<pc, fcode>>
             ELSE FinishWith("receiver", stream)
          /\ UNCHANGED <<info, down>>
    /\ UNCHANGED <<kind, sizes, once, sends, up, halfClosed, trailer, stream, broken,
                   serverVars, entry>>

(* clientStreamWrapper.RecvMsg returns a message, counted, or the end of   *)
(* the stream.                                                             *)
RecvMsg ==
    /\ pc["receiver"] = "idle" /\ ~ended
    /\ \/ Received
       \/ /\ stream # "open"
          /\ down = 0 \/ (stream # "OK" /\ (broken \/ ~ServerStreams))
          /\ ended' = TRUE
          /\ FinishWith("receiver", stream)
          /\ UNCHANGED <<info, down>>
    /\ UNCHANGED <<kind, sizes, once, sends, up, halfClosed, trailer, stream, broken,
                   serverVars, entry>>

-----------------------------------------------------------------------------
(* The network.                                                            *)

TrailersArrive ==
    /\ trailer # "none" /\ stream = "open" /\ pc["sender"] # "new"
    /\ stream' = trailer
    /\ UNCHANGED <<kind, sizes, info, pc, fcode, clientVars, up, down, halfClosed,
                   trailer, broken, serverVars, entry>>

(* The context of the call or the connection ends.                         *)
Breaks ==
    /\ stream = "open" /\ pc["sender"] # "new"
    /\ stream' \in LocalCodes /\ broken' = TRUE
    /\ UNCHANGED <<kind, sizes, info, pc, fcode, clientVars, up, down, halfClosed,
                   trailer, serverVars, entry>>

-----------------------------------------------------------------------------
(* The server.                                                             *)

(* UnaryServerInterceptor: gRPC has decoded the request.                   *)
ServeUnary ==
    /\ kind = "unary" /\ pc["handler"] = "new" /\ up > 0
    /\ info' = RecordRequest("server")
    /\ up' = up - 1
    /\ Goto("handler", "running")
    /\ UNCHANGED <<kind, sizes, fcode, clientVars, down, halfClosed, trailer, stream,
                   broken, serverVars, entry>>

(* Mutant of UnaryHandlerReturns: the response is not counted.             *)
UnaryHandlerReturnsUncounted ==
    /\ kind = "unary" /\ pc["handler"] = "running"
    /\ \E code \in Codes :
        /\ FinalizeWith("handler", code)
        /\ down' = IF code = "OK" THEN 1 ELSE 0
    /\ UNCHANGED <<kind, sizes, info, clientVars, up, halfClosed, trailer, stream,
                   broken, serverVars, entry>>

(* The handler returns a response, or an error and what may be a nil       *)
(* pointer in the response's interface, which counts as a message.         *)
UnaryHandlerReturns ==
    /\ kind = "unary" /\ pc["handler"] = "running"
    /\ \/ /\ info' = RecordResponse("server")
          /\ down' = 1
          /\ FinalizeWith("handler", "OK")
       \/ /\ info' \in {info, RecordResponse("server")}
          /\ UNCHANGED down
          /\ \E code \in Codes \ {"OK"} : FinalizeWith("handler", code)
    /\ UNCHANGED <<kind, sizes, clientVars, up, halfClosed, trailer, stream, broken,
                   serverVars, entry>>

(* StreamServerInterceptor.                                                *)
ServeStream ==
    /\ kind # "unary" /\ pc["handler"] = "new" /\ pc["sender"] # "new"
    /\ Goto("handler", "running")
    /\ UNCHANGED <<kind, sizes, info, fcode, clientVars, netVars, serverVars, entry>>

(* serverStream.RecvMsg: a message, the end of the requests, or, when the  *)
(* stream is broken, the error of its context, whose code is not always    *)
(* the client's.                                                           *)
ServerRecv ==
    /\ kind # "unary" /\ pc["handler"] = "running" /\ seen = Nil
    /\ \/ /\ up > 0
          /\ info' = RecordRequest("server")
          /\ up' = up - 1
          /\ UNCHANGED seen
       \/ /\ up = 0 /\ halfClosed
          /\ seen' = EOF
          /\ UNCHANGED <<info, up>>
       \/ /\ broken
          /\ seen' \in LocalCodes
          /\ UNCHANGED <<info, up>>
    /\ UNCHANGED <<kind, sizes, pc, fcode, clientVars, down, halfClosed, trailer,
                   stream, broken, replies, entry>>

(* serverStream.SendMsg: the message is counted ...                        *)
ServerSend ==
    /\ kind # "unary" /\ pc["handler"] = "running" /\ seen \in {Nil, EOF}
    /\ replies < IF ServerStreams THEN MaxReplies ELSE 1
    /\ replies' = replies + 1
    /\ info' = RecordResponse("server")
    /\ Goto("handler", "sending")
    /\ UNCHANGED <<kind, sizes, fcode, clientVars, netVars, seen, entry>>

(* ... and sent, unless the stream is broken.                              *)
ServerSendReturns ==
    /\ pc["handler"] = "sending"
    /\ \/ ~broken /\ down' = down + 1 /\ UNCHANGED seen
       \/ broken /\ seen' \in LocalCodes /\ UNCHANGED down
    /\ Goto("handler", "running")
    /\ UNCHANGED <<kind, sizes, info, fcode, clientVars, up, halfClosed, trailer,
                   stream, broken, replies, entry>>

(* The handler returns: the stream's error, which it got wrapped, one of   *)
(* its own, or nil, which without ServerStreams it does only after its     *)
(* response.                                                               *)
HandlerReturns ==
    /\ kind # "unary" /\ pc["handler"] = "running"
    /\ IF seen \notin {Nil, EOF} THEN FinalizeWith("handler", CodeOf(WrapStatusError(seen)))
       ELSE \E code \in Codes :
               /\ code = "OK" => ServerStreams \/ replies = 1
               /\ FinalizeWith("handler", code)
    /\ UNCHANGED <<kind, sizes, info, clientVars, netVars, serverVars, entry>>

(* The handler panics, and an interceptor outside slogcp's answers for it: *)
(* nothing finalizes the RequestInfo.                                      *)
HandlerPanics ==
    /\ pc["handler"] = "running"
    /\ Goto("handler", "gone")
    /\ trailer' = "Internal"
    /\ UNCHANGED <<kind, sizes, info, fcode, clientVars, up, down, halfClosed, stream,
                   broken, serverVars, entry>>

-----------------------------------------------------------------------------
Terminated ==
    /\ pc["handler"] = "gone" /\ stream # "open"
    /\ pc["sender"] \in {"idle", "gone"}
    /\ pc["receiver"] = "gone" \/ (ended /\ pc["receiver"] = "idle")
    /\ UNCHANGED vars

Client  == InvokeUnary \/ UnaryReturns \/ StartStream \/ SendMsg \/ SendReturns
           \/ CloseSend \/ RecvMsg \/ \E p \in {"sender", "receiver"} : Finish(p)
Server  == ServeUnary \/ UnaryHandlerReturns \/ ServeStream \/ ServerRecv
           \/ ServerSend \/ ServerSendReturns \/ HandlerReturns \/ HandlerPanics
Storing == \E p \in Procs : Store(p)

Next == Client \/ Server \/ Storing \/ TrailersArrive \/ Breaks
        \/ LogStatus \/ LogRest \/ Terminated

Spec == Init /\ [][Next]_vars

(* The goroutines run; the application reads its stream to the end.        *)
Fairness ==
    /\ WF_vars(RecvMsg \/ UnaryReturns)
    /\ WF_vars(SendReturns)
    /\ \A p \in {"sender", "receiver"} : WF_vars(Finish(p))
    /\ \A p \in Procs : WF_vars(Store(p))
    /\ WF_vars(TrailersArrive)

FairSpec == Spec /\ Fairness

-----------------------------------------------------------------------------
Statuses == Codes \cup LocalCodes \cup {"Internal", "Unknown"}

(* Every variable has its type.                                            *)
TypeOK ==
    /\ kind \in Kinds
    /\ sizes \in [Ends -> BOOLEAN]
    /\ info \in [Ends -> [status : Statuses, final : BOOLEAN, reqCount : Nat,
                          respCount : Nat]]
    /\ once \in {"new", "running", "done"}
    /\ pc \in [Procs -> {"new", "idle", "sending", "invoked", "running", "finish",
                         "status", "latency", "gone"}]
    /\ fcode \in [Procs -> Statuses]
    /\ up \in Nat /\ down \in Nat
    /\ halfClosed \in BOOLEAN /\ broken \in BOOLEAN /\ ended \in BOOLEAN
    /\ trailer \in Statuses \cup {"none"} /\ stream \in Statuses \cup {"open"}
    /\ sends \in 0..MaxSends /\ replies \in 0..MaxReplies
    /\ seen \in Statuses \cup {Nil, EOF}

(* A finished RequestInfo of the client holds the code its stream ended    *)
(* with, or Unknown when SendMsg was the first to notice the end; it never *)
(* reports another code, and none before the end.                          *)
ClientStatusIsReal ==
    info["client"].final => info["client"].status \in {stream, "Unknown"}

(* The client reports a success only of a call that the server finished    *)
(* with a success: not of one that broke, panicked or is still running.    *)
OKMeansServed ==
    (info["client"].final /\ info["client"].status = "OK")
    => info["server"].final /\ info["server"].status = "OK"

(* Nobody has counted a message that the other end has not: requests are   *)
(* counted by the client first, responses by the server first, whatever is *)
(* still under way or lost.                                                *)
SenderCountsFirst ==
    (sizes["client"] /\ sizes["server"])
    => /\ info["server"].reqCount + up <= info["client"].reqCount
       /\ info["client"].respCount + down <= info["server"].respCount

(* After a call that succeeded for the client, both ends report the same   *)
(* number of responses, and of requests if there was but one.              *)
EndsAgree ==
    (/\ sizes["client"] /\ sizes["server"]
     /\ info["client"].final /\ info["client"].status = "OK")
    => /\ info["client"].respCount = info["server"].respCount
       /\ kind = "unary" => info["client"].reqCount = info["server"].reqCount

(* A handler that returns the error its stream gave it is reported with    *)
(* the code of that error, through the wrapper of wrapStatusError.         *)
HandlerErrorKeepsCode ==
    (info["server"].final /\ seen \notin {Nil, EOF})
    => info["server"].status = seen

(* When a RecvMsg that reached the end of a stream of responses has        *)
(* returned, the RequestInfo is finished, also when a failing SendMsg is   *)
(* finishing it at that moment.                                            *)
RecvFinishes ==
    (ServerStreams /\ ended /\ pc["receiver"] = "idle") => info["client"].final

(* What the two RequestInfos say of the outcome of a call is true, and it  *)
(* is there when the application has seen the end.                         *)
StatusIsRight ==
    ClientStatusIsReal /\ OKMeansServed /\ HandlerErrorKeepsCode /\ RecvFinishes

(* What the two RequestInfos say of the messages fits together, at every   *)
(* moment and at the end.                                                  *)
CountsAgree == SenderCountsFirst /\ EndsAgree

(* A failure that an entry has shown is the status the RequestInfo keeps.  *)
EntryHolds ==
    (entry # NoEntry /\ entry.status # "OK")
    => info[entry.end].status = entry.status

(* An entry begun after the RequestInfo was finished shows the outcome of  *)
(* the call: its status and its final duration, never a status that is     *)
(* still to be stored beside a latency that is there already.              *)
LateEntryIsFinal ==
    (entry # NoEntry /\ entry.late)
    => /\ entry.status = info[entry.end].status
       /\ entry.duration \in {"none", "final"}

(* An entry that a goroutine writes while the call goes on may show OK of  *)
(* a call that fails later, as a RequestInfo begins with OK, and even with *)
(* the final duration, which is read after the status.  But a failure that *)
(* it shows is the call's, and so is all it shows once the call is over.   *)
EntryIsRight == EntryHolds /\ LateEntryIsFinal

(* A finished RequestInfo keeps its status, whichever of SendMsg, RecvMsg  *)
(* and CloseSend fails later.  The server's does not change at all; the    *)
(* client's still counts what the stream sends and receives after that.    *)
FinishedOnce ==
    [][\A e \in Ends : info[e].final =>
          /\ info'[e].final /\ info'[e].status = info[e].status
          /\ e = "server" => info'[e] = info[e]]_vars

(* The RequestInfo of a call that has ended is finished in the end, unless *)
(* the call was a stream with one response.                                *)
CallFinishes ==
    (stream # "open" /\ kind # "client_stream") ~> info["client"].final
=============================================================================
