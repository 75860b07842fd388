------------------------ MODULE TraceServices_proofs ------------------------
(***************************************************************************)
(* Proofs about TraceServices, for every set of requests, with any number  *)
(* of chunks and responses, and every order of what client, worker,        *)
(* network, signal and Pub/Sub do.                                         *)
(***************************************************************************)
EXTENDS TraceServices, SequenceTheorems, TLAPS

USE DEF appVars, frontVars, workerVars, netVars, subVars, vars

-----------------------------------------------------------------------------
(* The inductive invariant.                                                *)

Calling == {"send", "recv", "close", "drain", "await"}
Places  == Calling \cup {"idle", "decode", "call", "get", "spans", "done"}

(* The types that the steps need.                                          *)
Types ==
    /\ pc \in Places
    /\ wpc \in {"idle", "loop", "done"}
    /\ link \in {"up", "down"}
    /\ callErr \in BOOLEAN
    /\ trailers \in BOOLEAN
    /\ sendClosed \in BOOLEAN
    /\ stored \in BOOLEAN
    /\ sent \in Nat
    /\ work.received \in Nat
    /\ work = [id |-> work.id, final |-> work.final, received |-> work.received]
    /\ got \in Seq(Nat)
    /\ down \in Seq(Nat)

(* There is a request from Arrive on, and nothing is known of it before.   *)
RequestInv ==
    /\ pc = "idle" => req = NoReq /\ worked = {} /\ msg = None
    /\ pc # "idle" => req \in Requests

(* What has not begun has left no trace in the stream.                     *)
NotBegun ==
    wpc = "idle" =>
       /\ sent = 0 /\ work.received = 0 /\ work.id = Blank
       /\ got = << >> /\ down = << >> /\ up = << >>

(* Where the caller can be while the worker is somewhere.                  *)
PlaceInv ==
    /\ pc \in Calling => wpc # "idle"
    /\ wpc # "idle" => pc \in Calling \cup {"spans", "done"}
    /\ pc = "close" => wpc = "done"
    /\ wpc # "done" => status = None
    /\ trailers => wpc = "done"
    /\ callErr => pc \in {"spans", "done"}

(* Which calls pass through which places.                                  *)
EndpointInv ==
    /\ pc = "send" => req.endpoint \in Chunked
    /\ pc \in {"recv", "close"} => req.endpoint = "bidi"
    /\ pc = "drain" => req.endpoint \in {"server", "bidi"}
    /\ pc = "await" => req.endpoint \in {"http", "grpc", "client"} \cup Direct
    /\ pc = "get" => req.endpoint = "pubsub"
    /\ pc = "call" \/ wpc # "idle" => req.endpoint \in Direct \/ ~DecodeFails

Successes == {<<200>>, <<200, 500>>}
Refusals  == {<<400>>, <<500>>, <<502>>, <<503>>}

(* Nothing is answered before the end, and then a success, whose body may  *)
(* fail, or a refusal.                                                     *)
AnswerInv ==
    /\ pc # "done" => answers = << >>
    /\ answers \in {<< >>} \cup Successes \cup Refusals

(* The responses read and those under way are the worker's, in order.      *)
Echoed ==
    req.endpoint \in {"server", "bidi"} =>
       /\ Len(got) + Len(down) = work.received
       /\ \A i \in 1..Len(got) : got[i] = i
       /\ \A i \in 1..Len(down) : down[i] = Len(got) + i

(* A server stream that ended well sent all it was asked for.              *)
ServerInv ==
    req.endpoint = "server" /\ wpc # "idle" =>
       /\ work.received <= Int32FromInt(req.count)
       /\ status = "OK" => /\ work.received = Int32FromInt(req.count)
                           /\ req.final \in {Blank, "OK"}

(* The chunks under way are the ones after those the worker has received.  *)
UnderWay ==
    req.endpoint \in Chunked =>
       /\ work.received <= sent /\ sent <= Len(req.chunks)
       /\ wpc = "loop" =>
             /\ up \in Seq({Payload(n) : n \in 1..Len(req.chunks)})
             /\ Len(up) = sent - work.received
             /\ \A i \in 1..Len(up) : up[i] = Payload(work.received + i)
             /\ sendClosed => sent = Len(req.chunks) \/ callErr

(* What the worker has made of the chunks it received.                     *)
Received ==
    req.endpoint \in Chunked =>
       /\ work.id = Blank <=> work.received = 0
       /\ \A i \in 1..work.received : Payload(i).id = work.id
       /\ \A n \in 1..work.received :
             /\ req.chunks[n].final # Blank
             /\ \A m \in (n + 1)..work.received : req.chunks[m].final = Blank
             => work.final = ParseStatusCode(req.chunks[n].final)
       /\ wpc = "loop" /\ req.endpoint = "bidi" =>
             \A n \in 1..work.received : ~req.chunks[n].close

(* A worker that ended well without the caller's failing first had all of  *)
(* the chunks, under a final status of OK.                                 *)
ChunkedInv ==
    req.endpoint \in Chunked /\ status = "OK" =>
       callErr \/ (work.received = Processed /\ work.final = "OK")

(* The one response of a client stream.                                    *)
ClientInv ==
    req.endpoint = "client" /\ pc \in {"send", "await"} =>
       /\ wpc = "loop" => down = << >>
       /\ status = "OK" => down = <<work.received>>

(* A unary worker that ended well has done its work.                       *)
UnaryInv ==
    req.endpoint \in {"http", "grpc"} /\ status = "OK" =>
       req.endpoint \in worked

(* A failed call whose link is alive has a worker that is not running, and *)
(* that did not end well unless close_after made it.                       *)
AlarmInv ==
    callErr /\ pc = "spans" /\ link = "up" =>
       /\ wpc # "loop"
       /\ status = "OK" => req.endpoint = "bidi" /\ Processed < Len(req.chunks)

(* A call that has not failed is whole as soon as it is over.              *)
WholeInv == (pc = "spans" /\ ~callErr) \/ answers \in Successes => Whole

StreamInv == Echoed /\ ServerInv /\ UnderWay /\ Received

OutcomeInv == ChunkedInv /\ ClientInv /\ UnaryInv /\ FailWorkFails

IInv ==
    /\ Types /\ RequestInv /\ NotBegun /\ PlaceInv /\ EndpointInv /\ AnswerInv
    /\ StreamInv /\ OutcomeInv /\ AlarmInv /\ WholeInv

-----------------------------------------------------------------------------
(* The operators of the model.                                             *)

(* The answer to a request that has none.                                  *)
LEMMA FirstAnswer ==
    ASSUME answers = << >>
    PROVE  /\ \A c : Refuse(c) => answers' = <<c>>
           /\ WriteTraceResponse => answers' \in Successes
<1>1. \A c : Append(answers, c) = <<c>>
    OBVIOUS
<1>2. answers \o <<200, 500>> = <<200, 500>>
    OBVIOUS
<1> QED
    BY <1>1, <1>2 DEF Refuse, WriteTraceResponse, Successes

LEMMA RefusalIsNoSuccess == Refusals \cap Successes = {} /\ << >> \notin Successes
<1>1. \A c, d : <<c>> = <<d>> => c = d
    OBVIOUS
<1>2. \A c : <<c>> # <<200, 500>> /\ << >> # <<c>>
    OBVIOUS
<1>3. << >> # <<200, 500>>
    OBVIOUS
<1> QED
    BY <1>1, <1>2, <1>3 DEF Refusals, Successes

LEMMA SuccessIs ==
    ASSUME AnswerInv
    PROVE  Succeeded <=> answers \in Successes
<1>1. \A c : Head(<<c>>) = c /\ <<c>> # << >>
    OBVIOUS
<1>2. Head(<<200, 500>>) = 200 /\ <<200, 500>> # << >>
    OBVIOUS
<1>3. CASE answers \in Successes
    BY <1>1, <1>2, <1>3 DEF Succeeded, Successes
<1>4. CASE answers \in Refusals
    BY <1>1, <1>4, RefusalIsNoSuccess DEF Succeeded, Refusals
<1>5. CASE answers = << >>
    BY <1>5, RefusalIsNoSuccess DEF Succeeded
<1> QED
    BY <1>3, <1>4, <1>5 DEF AnswerInv

(* While the request stays, so does what is computed from it.              *)
LEMMA RequestStays ==
    ASSUME req' = req
    PROVE  /\ DecodeFails' <=> DecodeFails
           /\ Processed' = Processed
           /\ \A n : Payload(n)' = Payload(n)
           /\ \A n : LastToAsk(n)' <=> LastToAsk(n)
<1>1. Processed' = Processed
    BY DEF Processed
<1> QED
    BY <1>1 DEF DecodeFails, Payload, LastToAsk

(* The requests are what RequestAssumption says, and NoReq is none.        *)
LEMMA RequestFacts ==
    ASSUME NEW r \in Requests
    PROVE  /\ r.endpoint \in Endpoints
           /\ r.count \in Int
           /\ r.propagate \in BOOLEAN
           /\ Len(r.chunks) \in Nat
           /\ DOMAIN r.chunks = 1..Len(r.chunks)
           /\ \A n \in 1..Len(r.chunks) : r.chunks[n].close \in BOOLEAN
    BY RequestAssumption

(* int32FromInt keeps what is not negative so.                             *)
LEMMA Int32Facts ==
    ASSUME NEW v \in Int
    PROVE  /\ Int32FromInt(v) \in Int
           /\ v >= 0 => Int32FromInt(v) \in Nat
    BY RequestAssumption DEF Int32FromInt

(* A sequence of known length and elements is that function.               *)
LEMMA Identity ==
    ASSUME NEW s \in Seq(Nat), \A i \in 1..Len(s) : s[i] = i
    PROVE  s = [i \in 1..Len(s) |-> i]
    OBVIOUS

(* What Append, Head and Tail do to the elements.                          *)
LEMMA AppendFacts ==
    ASSUME NEW S, NEW s \in Seq(S), NEW x \in S
    PROVE  /\ Append(s, x) \in Seq(S)
           /\ Len(Append(s, x)) = Len(s) + 1
           /\ \A i \in 1..(Len(s) + 1) :
                 Append(s, x)[i] = IF i = Len(s) + 1 THEN x ELSE s[i]
    OBVIOUS

LEMMA TailFacts ==
    ASSUME NEW S, NEW s \in Seq(S), s # << >>
    PROVE  /\ Head(s) = s[1] /\ Head(s) \in S
           /\ Tail(s) \in Seq(S)
           /\ Len(s) \in Nat \ {0}
           /\ Len(Tail(s)) = Len(s) - 1
           /\ \A i \in 1..(Len(s) - 1) : Tail(s)[i] = s[i + 1]
    OBVIOUS

(* Reading the next response.                                              *)
LEMMA ReadNext ==
    ASSUME NEW g \in Seq(Nat), NEW d \in Seq(Nat), d # << >>,
           \A i \in 1..Len(g) : g[i] = i,
           \A i \in 1..Len(d) : d[i] = Len(g) + i
    PROVE  /\ Append(g, Head(d)) \in Seq(Nat)
           /\ Tail(d) \in Seq(Nat)
           /\ Len(Append(g, Head(d))) = Len(g) + 1
           /\ Len(Tail(d)) = Len(d) - 1
           /\ \A i \in 1..(Len(g) + 1) : Append(g, Head(d))[i] = i
           /\ \A i \in 1..(Len(d) - 1) : Tail(d)[i] = Len(g) + 1 + i
<1>1. /\ Head(d) = d[1] /\ Head(d) \in Nat
      /\ Len(d) \in Nat \ {0} /\ Len(g) \in Nat
      /\ Tail(d) \in Seq(Nat) /\ Len(Tail(d)) = Len(d) - 1
      /\ \A i \in 1..(Len(d) - 1) : Tail(d)[i] = d[i + 1]
    BY TailFacts
<1>2. /\ Append(g, Head(d)) \in Seq(Nat)
      /\ Len(Append(g, Head(d))) = Len(g) + 1
      /\ \A i \in 1..(Len(g) + 1) :
            Append(g, Head(d))[i] = IF i = Len(g) + 1 THEN Head(d) ELSE g[i]
    BY <1>1, AppendFacts
<1>3. Head(d) = Len(g) + 1
    BY <1>1
<1>4. ASSUME NEW i \in 1..(Len(d) - 1)
      PROVE  Tail(d)[i] = Len(g) + 1 + i
  <2>1. i + 1 \in 1..Len(d)
      BY <1>1
  <2> QED
      BY <2>1, <1>1
<1>5. ASSUME NEW i \in 1..(Len(g) + 1)
      PROVE  Append(g, Head(d))[i] = i
    BY <1>1, <1>2, <1>3
<1> QED
    BY <1>1, <1>2, <1>4, <1>5

(* Sending the next response.                                              *)
LEMMA WriteNext ==
    ASSUME NEW g \in Seq(Nat), NEW d \in Seq(Nat),
           \A i \in 1..Len(d) : d[i] = Len(g) + i,
           NEW n \in Nat, n = Len(g) + Len(d) + 1
    PROVE  /\ Append(d, n) \in Seq(Nat)
           /\ Len(Append(d, n)) = Len(d) + 1
           /\ \A i \in 1..(Len(d) + 1) : Append(d, n)[i] = Len(g) + i
<1>1. Len(d) \in Nat /\ Len(g) \in Nat
    OBVIOUS
<1>2. /\ Append(d, n) \in Seq(Nat)
      /\ Len(Append(d, n)) = Len(d) + 1
      /\ \A i \in 1..(Len(d) + 1) :
            Append(d, n)[i] = IF i = Len(d) + 1 THEN n ELSE d[i]
    BY AppendFacts
<1>3. ASSUME NEW i \in 1..(Len(d) + 1)
      PROVE  Append(d, n)[i] = Len(g) + i
    BY <1>1, <1>2
<1> QED
    BY <1>2, <1>3

(* The chunks that get through: to the first close_after.                  *)
LEMMA ProcessedAtClose ==
    ASSUME req \in Requests, req.endpoint = "bidi",
           NEW n \in 1..Len(req.chunks), req.chunks[n].close,
           \A m \in 1..(n - 1) : ~req.chunks[m].close
    PROVE  Processed = n
<1>1. DOMAIN req.chunks = 1..Len(req.chunks) /\ Len(req.chunks) \in Nat
    BY RequestFacts
<1>2. \A k \in 1..Len(req.chunks) :
         req.chunks[k].close /\ (\A m \in 1..(k - 1) : ~req.chunks[m].close) => k = n
    BY <1>1
<1> QED
    BY <1>1, <1>2 DEF Processed

(* Without close_after they are all.                                       *)
LEMMA ProcessedWithoutClose ==
    ASSUME req \in Requests,
           req.endpoint = "bidi" =>
              \A n \in 1..Len(req.chunks) : ~req.chunks[n].close
    PROVE  Processed = Len(req.chunks)
    BY RequestFacts DEF Processed

(* A whole answer stays whole.                                             *)
LEMMA WholeStays ==
    ASSUME Whole, UNCHANGED <<req, got, stored>>, worked \subseteq worked'
    PROVE  Whole'
<1> DEFINE unary == req.endpoint \in {"http", "grpc"} =>
                       req.endpoint \in worked
<1>1. unary'
    BY DEF Whole
<1>2. /\ Processed' = Processed
      /\ \A n : Payload(n)' = Payload(n)
      /\ \A n : LastToAsk(n)' <=> LastToAsk(n)
    BY RequestStays
<1> QED
    BY <1>1, <1>2 DEF Whole

(* A response that is read stays in its place.                             *)
LEMMA ReadKeepsOrder ==
    ASSUME Types, Echoed, req.endpoint \in {"server", "bidi"}, down # << >>,
           got' = Append(got, Head(down)), down' = Tail(down),
           UNCHANGED <<req, work>>
    PROVE  got' \in Seq(Nat) /\ down' \in Seq(Nat) /\ Echoed'
<1>1. /\ got \in Seq(Nat) /\ down \in Seq(Nat)
      /\ Len(got) \in Nat /\ Len(down) \in Nat /\ work.received \in Nat
      /\ Len(got) + Len(down) = work.received
      /\ \A i \in 1..Len(got) : got[i] = i
      /\ \A i \in 1..Len(down) : down[i] = Len(got) + i
    BY DEF Types, Echoed
<1>2. /\ got' \in Seq(Nat) /\ Len(got') = Len(got) + 1
      /\ down' \in Seq(Nat) /\ Len(down') = Len(down) - 1
      /\ \A i \in 1..(Len(got) + 1) : got'[i] = i
      /\ \A i \in 1..(Len(down) - 1) : down'[i] = Len(got) + 1 + i
    BY <1>1, ReadNext
<1>3. Len(got') + Len(down') = work.received
    BY <1>1, <1>2
<1> QED
    BY <1>2, <1>3 DEF Echoed

(* An error of Recv while the link is alive is the worker's.               *)
LEMMA ErrorHasReason ==
    ASSUME PlaceInv, link = "down" \/ (trailers /\ status # "OK"),
           UNCHANGED <<wpc, status, link>>
    PROVE  AlarmInv'
    BY DEF PlaceInv, AlarmInv

(* The chunks of a stream that ended well, as its worker has them.         *)
LEMMA ChunksWhole ==
    ASSUME IInv, req.endpoint \in Chunked, status = "OK", ~callErr
    PROVE  /\ work.received = Processed
           /\ \A i, j \in 1..Processed : Payload(i).id = Payload(j).id
           /\ \A n \in 1..Processed :
                 LastToAsk(n) => ParseStatusCode(req.chunks[n].final) = "OK"
<1>1. work.received = Processed /\ work.final = "OK"
    BY DEF IInv, OutcomeInv, ChunkedInv
<1>2. \A i \in 1..Processed : Payload(i).id = work.id
    BY <1>1 DEF IInv, StreamInv, Received
<1>3. ASSUME NEW n \in 1..Processed, LastToAsk(n)
      PROVE  ParseStatusCode(req.chunks[n].final) = "OK"
    BY <1>1, <1>3 DEF IInv, StreamInv, Received, LastToAsk
<1> QED
    BY <1>1, <1>2, <1>3

(* The responses of a stream that were all read.                           *)
LEMMA ResponsesWhole ==
    ASSUME IInv, req.endpoint \in {"server", "bidi"}, down = << >>
    PROVE  got = [i \in 1..work.received |-> i]
<1>1. got \in Seq(Nat) /\ Len(got) \in Nat /\ \A i \in 1..Len(got) : got[i] = i
    BY DEF IInv, Types, StreamInv, Echoed
<1>2. Len(got) = work.received
    BY <1>1 DEF IInv, StreamInv, Echoed
<1> QED
    BY <1>1, <1>2, Identity

(* Only OK parses as OK.                                                   *)
LEMMA ParseOK ==
    ASSUME NEW raw, ParseStatusCode(raw) = "OK"
    PROVE  raw = "OK"
    BY DEF ParseStatusCode

(* The chunk that a worker is about to receive is the next one, under a    *)
(* test id, and the ones behind it follow it.                              *)
LEMMA NextChunk ==
    ASSUME IInv, req.endpoint \in Chunked, wpc = "loop", up # << >>
    PROVE  /\ req \in Requests /\ work.received \in Nat /\ sent \in Nat
           /\ Len(req.chunks) \in Nat
           /\ Head(up) = Payload(work.received + 1)
           /\ Payload(work.received + 1).id # Blank
           /\ work.received + 1 <= sent /\ sent <= Len(req.chunks)
           /\ Tail(up) \in Seq({Payload(n) : n \in 1..Len(req.chunks)})
           /\ Len(Tail(up)) = sent - (work.received + 1)
           /\ \A i \in 1..Len(Tail(up)) : Tail(up)[i] = Payload(work.received + 1 + i)
<1> DEFINE S == {Payload(n) : n \in 1..Len(req.chunks)}
<1>1. /\ req \in Requests /\ work.received \in Nat /\ sent \in Nat
      /\ Len(req.chunks) \in Nat /\ ~DecodeFails
    BY RequestFacts
       DEF IInv, RequestInv, PlaceInv, Calling, EndpointInv, Types, Chunked, Direct
<1>2. /\ up \in Seq(S) /\ Len(up) = sent - work.received
      /\ \A i \in 1..Len(up) : up[i] = Payload(work.received + i)
      /\ sent <= Len(req.chunks)
    BY DEF IInv, StreamInv, UnderWay
<1>3. /\ Head(up) = up[1] /\ Tail(up) \in Seq(S) /\ Len(up) \in Nat \ {0}
      /\ Len(Tail(up)) = Len(up) - 1
      /\ \A i \in 1..(Len(up) - 1) : Tail(up)[i] = up[i + 1]
  <2> HIDE DEF S
  <2> QED
      BY <1>2, TailFacts
<1>4. Head(up) = Payload(work.received + 1)
    BY <1>1, <1>2, <1>3
<1>5. Payload(work.received + 1).id # Blank
    BY <1>1 DEF DecodeFails, Payload
<1>6. ASSUME NEW i \in 1..Len(Tail(up))
      PROVE  Tail(up)[i] = Payload(work.received + 1 + i)
  <2> HIDE DEF S
  <2> DEFINE l == Len(up)
  <2>0. l \in Nat \ {0} /\ i \in 1..(l - 1)
      BY <1>3
  <2>1. i + 1 \in 1..Len(up) /\ work.received + (i + 1) = work.received + 1 + i
    <3> HIDE DEF l
    <3>1. i + 1 \in 1..l
        BY <2>0
    <3> QED
        BY <3>1, <2>0, <1>1 DEF l
  <2>2. Tail(up)[i] = up[i + 1]
      BY <1>3
  <2>3. up[i + 1] = Payload(work.received + (i + 1))
      BY <2>1, <1>2
  <2> QED
      BY <2>1, <2>2, <2>3
<1>7. Len(Tail(up)) = sent - (work.received + 1) /\ work.received + 1 <= sent
  <2> HIDE DEF S
  <2> DEFINE l == Len(up)
             t == Len(Tail(up))
  <2>1. t = l - 1 /\ l \in Nat \ {0} /\ l = sent - work.received
      BY <1>2, <1>3
  <2> HIDE DEF l, t
  <2>2. t = sent - (work.received + 1) /\ work.received + 1 <= sent
      BY <2>1, <1>1
  <2> QED
      BY <2>2 DEF t
<1> HIDE DEF S
<1> QED
    BY <1>1, <1>2, <1>3, <1>4, <1>5, <1>6, <1>7 DEF S

(* applyClientStreamChunk and processBidiChunk take in the next chunk.     *)
LEMMA ApplyKeeps ==
    ASSUME IInv, req.endpoint \in Chunked, wpc = "loop", up # << >>,
           ~Mismatch(Head(up)), work' = Apply(Head(up)), up' = Tail(up),
           UNCHANGED <<req, sent, sendClosed, callErr>>,
           NEW k, k = work.received,
           wpc' = "loop" /\ req.endpoint = "bidi" => ~req.chunks[k + 1].close
    PROVE  /\ work'.received = k + 1
           /\ work' = [id |-> work'.id, final |-> work'.final,
                       received |-> work'.received]
           /\ UnderWay' /\ Received'
<1>1. /\ req \in Requests /\ k \in Nat /\ sent \in Nat /\ Len(req.chunks) \in Nat
      /\ Head(up) = Payload(k + 1) /\ Payload(k + 1).id # Blank
      /\ k + 1 <= sent /\ sent <= Len(req.chunks)
    BY NextChunk
<1>2. /\ work'.received = k + 1
      /\ work'.id = Payload(k + 1).id
      /\ work'.final = IF req.chunks[k + 1].final = Blank THEN work.final
                       ELSE ParseStatusCode(req.chunks[k + 1].final)
      /\ work' = [id |-> work'.id, final |-> work'.final,
                  received |-> work'.received]
    BY <1>1 DEF Apply, Payload
<1>3. \A n : Payload(n)' = Payload(n)
    BY RequestStays
<1>4. UnderWay'
  <2> DEFINE S == {Payload(n) : n \in 1..Len(req.chunks)}
  <2>1. /\ up' \in Seq(S) /\ Len(up') = sent - (k + 1)
        /\ \A i \in 1..Len(up') : up'[i] = Payload(k + 1 + i)
      BY NextChunk
  <2>2. sendClosed => sent = Len(req.chunks) \/ callErr
      BY DEF IInv, StreamInv, UnderWay
  <2>3. S' = S
      BY RequestStays
  <2>4. \A i : Payload(work.received + i)' = Payload(k + 1 + i)
      BY <1>2 DEF Payload
  <2>5. work'.received <= sent' /\ sent' <= Len(req'.chunks)
      BY <1>1, <1>2
  <2>6. up' \in Seq(S') /\ Len(up') = sent' - work'.received
      BY <1>2, <2>1, <2>3
  <2>7. \A i \in 1..Len(up') : up'[i] = Payload(work.received + i)'
      BY <2>1, <2>4
  <2>8. sendClosed' => sent' = Len(req'.chunks) \/ callErr'
      BY <2>2
  <2> QED
      BY <2>5, <2>6, <2>7, <2>8 DEF UnderWay
<1>5. /\ work.id = Blank <=> k = 0
      /\ \A i \in 1..k : Payload(i).id = work.id
      /\ \A n \in 1..k :
            /\ req.chunks[n].final # Blank
            /\ \A m \in (n + 1)..k : req.chunks[m].final = Blank
            => work.final = ParseStatusCode(req.chunks[n].final)
      /\ req.endpoint = "bidi" => \A n \in 1..k : ~req.chunks[n].close
    BY DEF IInv, StreamInv, Received
<1>6. ASSUME NEW i \in 1..(k + 1)
      PROVE  Payload(i).id = work'.id
  <2>1. CASE i = k + 1
      BY <2>1, <1>2
  <2>2. CASE i # k + 1
    <3>1. i \in 1..k /\ k # 0
        BY <2>2, <1>1
    <3>2. work.id = Payload(k + 1).id
        BY <3>1, <1>1, <1>5 DEF Mismatch
    <3> QED
        BY <3>1, <3>2, <1>2, <1>5
  <2> QED
      BY <2>1, <2>2
<1>7. ASSUME NEW n \in 1..(k + 1), req.chunks[n].final # Blank,
             \A m \in (n + 1)..(k + 1) : req.chunks[m].final = Blank
      PROVE  work'.final = ParseStatusCode(req.chunks[n].final)
  <2>1. CASE n = k + 1
      BY <2>1, <1>2, <1>7
  <2>2. CASE n # k + 1
    <3>1. n \in 1..k /\ k + 1 \in (n + 1)..(k + 1)
        BY <2>2, <1>1
    <3>2. work'.final = work.final
        BY <3>1, <1>2, <1>7
    <3>3. \A m \in (n + 1)..k : req.chunks[m].final = Blank
        BY <1>1, <1>7
    <3> QED
        BY <3>1, <3>2, <3>3, <1>5, <1>7
  <2> QED
      BY <2>1, <2>2
<1>8. ASSUME wpc' = "loop", req.endpoint = "bidi", NEW n \in 1..(k + 1)
      PROVE  ~req.chunks[n].close
    BY <1>1, <1>5, <1>8
<1>9. work'.id # Blank /\ k + 1 # 0
    BY <1>1, <1>2
<1>10. Received'
  <2>1. work'.id = Blank <=> work'.received = 0
      BY <1>9, <1>2
  <2>2. \A i \in 1..work'.received : Payload(i)'.id = work'.id
      BY <1>2, <1>3, <1>6
  <2>3. \A n \in 1..work'.received :
           /\ req'.chunks[n].final # Blank
           /\ \A m \in (n + 1)..work'.received : req'.chunks[m].final = Blank
           => work'.final = ParseStatusCode(req'.chunks[n].final)
      BY <1>2, <1>7
  <2>4. wpc' = "loop" /\ req'.endpoint = "bidi" =>
           \A n \in 1..work'.received : ~req'.chunks[n].close
      BY <1>2, <1>8
  <2> QED
      BY <2>1, <2>2, <2>3, <2>4 DEF Received
<1> QED
    BY <1>2, <1>4, <1>10

(* A step that leaves the stream alone leaves alone what is known of it.   *)
LEMMA StreamStays ==
    ASSUME StreamInv,
           UNCHANGED <<req, sent, got, callErr, workerVars, up, down, sendClosed>>
    PROVE  StreamInv'
<1>1. Echoed' /\ ServerInv'
    BY DEF StreamInv, Echoed, ServerInv
<1>2. UnderWay'
    BY RequestStays DEF StreamInv, UnderWay
<1>3. Received'
    BY RequestStays DEF StreamInv, Received
<1> QED
    BY <1>1, <1>2, <1>3 DEF StreamInv

LEMMA OutcomeStays ==
    ASSUME OutcomeInv, UNCHANGED <<req, callErr, workerVars, down>>,
           worked \subseteq worked', pc' = pc \/ pc' \notin {"send", "await"}
    PROVE  OutcomeInv'
<1>1. ChunkedInv'
    BY RequestStays DEF OutcomeInv, ChunkedInv
<1>2. ClientInv'
    BY DEF OutcomeInv, ClientInv
<1>3. UnaryInv' /\ FailWorkFails'
    BY DEF OutcomeInv, UnaryInv, FailWorkFails
<1> QED
    BY <1>1, <1>2, <1>3 DEF OutcomeInv

-----------------------------------------------------------------------------
(* The invariant is inductive: one lemma per action.                       *)

(* The steps of run, of the network and of Pub/Sub: the link can only be   *)
(* lost, and work comes after a request.                                   *)
LEMMA BackgroundStep ==
    ASSUME IInv, UNCHANGED <<frontVars, workerVars, up, down, sendClosed, trailers>>,
           link' \in {link, "down"},
           worked' \in {worked, worked \cup {"pubsub"}},
           pc # "idle" \/ UNCHANGED <<msg, worked>>
    PROVE  IInv'
<1>1. Types'
    BY DEF IInv, Types, Places, Calling
<1>2. RequestInv'
    BY DEF IInv, RequestInv
<1>3. NotBegun'
    BY DEF IInv, NotBegun
<1>4. PlaceInv'
    BY DEF IInv, PlaceInv, Calling
<1>5. EndpointInv'
    BY RequestStays DEF IInv, EndpointInv
<1>6. AnswerInv'
    BY DEF IInv, AnswerInv
<1>7. StreamInv'
    BY StreamStays DEF IInv
<1>8. OutcomeInv'
    BY OutcomeStays DEF IInv
<1>9. AlarmInv'
    BY RequestStays DEF IInv, AlarmInv
<1>10. WholeInv'
    BY WholeStays DEF IInv, WholeInv
<1> QED
    BY <1>1, <1>2, <1>3, <1>4, <1>5, <1>6, <1>7, <1>8, <1>9, <1>10
       DEF IInv

(* The worker's status reaches the client.                                 *)
LEMMA TrailersArriveStep ==
    ASSUME IInv, TrailersArrive
    PROVE  IInv'
<1>1. Types'
    BY DEF IInv, Types, Places, Calling, TrailersArrive
<1>2. RequestInv'
    BY DEF IInv, RequestInv, TrailersArrive
<1>3. NotBegun'
    BY DEF IInv, NotBegun, TrailersArrive
<1>4. PlaceInv'
    BY DEF IInv, PlaceInv, Types, Calling, Places, TrailersArrive
<1>5. EndpointInv'
    BY RequestStays DEF IInv, EndpointInv, TrailersArrive
<1>6. AnswerInv'
    BY DEF IInv, AnswerInv, TrailersArrive
<1>7. StreamInv'
    BY StreamStays DEF IInv, TrailersArrive
<1>8. OutcomeInv'
    BY OutcomeStays DEF IInv, TrailersArrive
<1>9. AlarmInv'
    BY RequestStays DEF IInv, AlarmInv, TrailersArrive
<1>10. WholeInv'
    BY WholeStays DEF IInv, WholeInv, TrailersArrive
<1> QED
    BY <1>1, <1>2, <1>3, <1>4, <1>5, <1>6, <1>7, <1>8, <1>9, <1>10
       DEF IInv

(* A request arrives: nothing is known of it yet.                          *)
LEMMA ArriveStep ==
    ASSUME IInv, Arrive
    PROVE  IInv'
<1>1. /\ wpc = "idle" /\ sent = 0 /\ work.received = 0 /\ work.id = Blank
      /\ got = << >> /\ down = << >> /\ up = << >> /\ status = None
    BY DEF IInv, NotBegun, PlaceInv, Types, Calling, Arrive
<1>2. /\ wpc' = "idle" /\ sent' = 0 /\ work'.received = 0 /\ work'.id = Blank
      /\ got' = << >> /\ down' = << >>
    BY <1>1 DEF Arrive
<1>3. req' \in Requests
    BY DEF Arrive
<1>4. Types'
    BY DEF IInv, Types, Places, Calling, Arrive
<1>5. RequestInv'
    BY DEF IInv, RequestInv, Arrive
<1>6. NotBegun'
    BY <1>1 DEF IInv, NotBegun, Arrive
<1>7. PlaceInv'
    BY DEF IInv, PlaceInv, Types, Calling, Places, Arrive
<1>8. EndpointInv'
    BY <1>1 DEF IInv, EndpointInv, Arrive
<1>9. AnswerInv'
    BY DEF IInv, AnswerInv, Arrive
<1>10. Echoed'
    BY <1>2 DEF Echoed
<1>11. ServerInv'
    BY <1>1 DEF IInv, StreamInv, ServerInv, Arrive
<1>12. UnderWay'
    BY <1>2, <1>3, RequestFacts DEF UnderWay
<1>13. Received'
    BY <1>2 DEF Received
<1>14. ChunkedInv'
    BY <1>1 DEF IInv, OutcomeInv, ChunkedInv, None, Arrive
<1>15. ClientInv'
    BY DEF IInv, OutcomeInv, ClientInv, Arrive
<1>16. UnaryInv'
    BY <1>1 DEF IInv, OutcomeInv, UnaryInv, None, Arrive
<1>17. FailWorkFails'
    BY <1>1 DEF IInv, OutcomeInv, FailWorkFails, Arrive
<1>18. AlarmInv'
    BY DEF IInv, AlarmInv, Arrive
<1>19. WholeInv'
    BY RefusalIsNoSuccess DEF IInv, WholeInv, AnswerInv, Arrive
<1> QED
    BY <1>4, <1>5, <1>6, <1>7, <1>8, <1>9, <1>10, <1>11, <1>12, <1>13, <1>14,
           <1>15, <1>16, <1>17, <1>18, <1>19
       DEF IInv, StreamInv, OutcomeInv

(* The first lines of a handler: an answer, or the call.                   *)
LEMMA DecodeStep ==
    ASSUME IInv, Decode
    PROVE  IInv'
<1>a. answers' \in {<< >>} \cup Refusals
    BY FirstAnswer DEF IInv, AnswerInv, Decode, Refusals
<1>b. answers' # << >> => pc' = "done"
    BY DEF IInv, AnswerInv, Decode
<1>1. Types'
    BY DEF IInv, Types, Places, Calling, Decode
<1>2. RequestInv'
    BY DEF IInv, RequestInv, Decode
<1>3. NotBegun'
    BY DEF IInv, NotBegun, Decode
<1>4. PlaceInv'
    BY DEF IInv, PlaceInv, Types, Calling, Places, Decode
<1>5. EndpointInv'
    BY RequestStays DEF IInv, EndpointInv, Decode
<1>6. AnswerInv'
    BY <1>a, <1>b DEF IInv, AnswerInv, Decode
<1>7. StreamInv'
    BY StreamStays DEF IInv, Decode
<1>8. OutcomeInv'
    BY OutcomeStays DEF IInv, Decode
<1>9. AlarmInv'
    BY RequestStays DEF IInv, AlarmInv, PlaceInv, Calling, Decode
<1>10. WholeInv'
    BY <1>a, <1>b, WholeStays, RefusalIsNoSuccess DEF IInv, WholeInv, Decode
<1> QED
    BY <1>1, <1>2, <1>3, <1>4, <1>5, <1>6, <1>7, <1>8, <1>9, <1>10
       DEF IInv

(* A simple request: the span is the answer.                               *)
LEMMA TraceSimpleStep ==
    ASSUME IInv, TraceSimple
    PROVE  IInv'
<1>1. Types'
    BY DEF IInv, Types, Places, Calling, SpanStored, TraceSimple
<1>2. RequestInv'
    BY DEF IInv, RequestInv, TraceSimple
<1>3. NotBegun'
    BY DEF IInv, NotBegun, TraceSimple
<1>4. PlaceInv'
    BY DEF IInv, PlaceInv, Calling, TraceSimple
<1>5. EndpointInv'
    BY RequestStays DEF IInv, EndpointInv, TraceSimple
<1>6. AnswerInv'
    BY FirstAnswer DEF IInv, AnswerInv, Refusals, TraceSimple
<1>7. StreamInv'
    BY StreamStays DEF IInv, TraceSimple
<1>8. OutcomeInv'
    BY OutcomeStays DEF IInv, TraceSimple
<1>9. AlarmInv'
    BY RequestStays DEF IInv, AlarmInv, TraceSimple
<1>10. WholeInv'
  <2>1. answers = << >> /\ req.endpoint = "simple" /\ stored' \in BOOLEAN
      BY DEF IInv, AnswerInv, TraceSimple, SpanStored
  <2>2. answers' \in Successes => stored'
      BY <2>1, FirstAnswer, RefusalIsNoSuccess DEF TraceSimple, Refusals
  <2> QED
      BY <2>1, <2>2 DEF TraceSimple, WholeInv, Whole, Chunked
<1> QED
    BY <1>1, <1>2, <1>3, <1>4, <1>5, <1>6, <1>7, <1>8, <1>9, <1>10
       DEF IInv

(* The call fails at once, or the worker begins.                           *)
LEMMA OpenCallStep ==
    ASSUME IInv, OpenCall
    PROVE  IInv'
<1>1. /\ wpc = "idle" /\ sent = 0 /\ work.received = 0 /\ work.id = Blank
      /\ got = << >> /\ down = << >> /\ up = << >> /\ status = None
      /\ req \in Requests /\ req.endpoint \in Endpoints
      /\ req.endpoint \in Direct \/ ~DecodeFails
    BY RequestFacts
       DEF IInv, NotBegun, PlaceInv, Types, Calling, OpenCall, RequestInv, EndpointInv
<1>2. /\ sent' = 0 /\ work'.received = 0 /\ work'.id = Blank /\ req' = req
      /\ up' = << >> /\ status' = None
    BY <1>1 DEF OpenCall
<1>3. Types'
    BY DEF IInv, Types, Places, Calling, OpenCall, Fail, AfterCall
<1>4. RequestInv'
    BY DEF IInv, RequestInv, OpenCall, Fail, AfterCall
<1>5. NotBegun'
    BY DEF IInv, NotBegun, PlaceInv, Calling, OpenCall
<1>6. PlaceInv'
    BY DEF IInv, PlaceInv, Calling, OpenCall, Fail, AfterCall
<1>7. EndpointInv'
    BY RequestStays, <1>1 DEF IInv, EndpointInv, Endpoints, Streams, Chunked,
           Direct, OpenCall, Fail, AfterCall
<1>8. AnswerInv'
    BY DEF IInv, AnswerInv, OpenCall
<1>9. Echoed'
    BY DEF IInv, StreamInv, Echoed, OpenCall
<1>10. ServerInv'
  <2>1. req.endpoint = "server" => req.count \in Int /\ req.count >= 0
      BY <1>1, RequestFacts DEF DecodeFails, Direct
  <2>2. req.endpoint = "server" => Int32FromInt(req.count) \in Nat
      BY <2>1, Int32Facts
  <2> QED
      BY <1>2, <2>2 DEF ServerInv, None
<1>11. UnderWay'
  <2>1. req.endpoint \in Chunked => sendClosed' = FALSE \/ wpc' = "idle"
      BY <1>1 DEF OpenCall
  <2> QED
      BY <1>1, <1>2, <2>1, RequestFacts DEF UnderWay
<1>12. Received'
    BY <1>2 DEF Received
<1>13. ChunkedInv'
    BY RequestStays DEF IInv, OutcomeInv, ChunkedInv, OpenCall, Fail,
           AfterCall
<1>14. ClientInv'
    BY <1>1 DEF IInv, OutcomeInv, ClientInv, None, OpenCall, Fail, AfterCall
<1>15. UnaryInv'
    BY DEF IInv, OutcomeInv, UnaryInv, OpenCall
<1>16. FailWorkFails'
    BY DEF IInv, OutcomeInv, FailWorkFails, OpenCall
<1>17. AlarmInv'
    BY RequestStays, <1>1 DEF IInv, AlarmInv, None, OpenCall, Fail, AfterCall
<1>18. WholeInv'
    BY WholeStays DEF IInv, WholeInv, OpenCall, Fail, AfterCall
<1> QED
    BY <1>3, <1>4, <1>5, <1>6, <1>7, <1>8, <1>9, <1>10, <1>11, <1>12, <1>13,
           <1>14, <1>15, <1>16, <1>17, <1>18
       DEF IInv, StreamInv, OutcomeInv

(* A chunk is sent, or the stream is over.                                 *)
LEMMA SendStep ==
    ASSUME IInv, Send
    PROVE  IInv'
<1>1. /\ pc = "send" /\ wpc # "idle" /\ callErr = FALSE /\ req' = req
      /\ req \in Requests /\ req.endpoint \in Chunked /\ Len(req.chunks) \in Nat
      /\ sent \in Nat /\ sent < Len(req.chunks) /\ work.received \in Nat
    BY RequestFacts
       DEF IInv, Types, PlaceInv, Calling, RequestInv, EndpointInv, Send
<1>2. Types'
  <2>1. sendClosed' \in BOOLEAN /\ callErr' \in BOOLEAN /\ pc' \in Places
      BY DEF IInv, Types, Send, Fail, AfterCall, Places, Calling
  <2> QED
      BY <1>1, <2>1 DEF IInv, Types, Send
<1>3. RequestInv'
    BY DEF IInv, RequestInv, Send, Fail, AfterCall
<1>4. NotBegun'
    BY <1>1 DEF IInv, NotBegun, Send
<1>5. PlaceInv'
    BY DEF IInv, PlaceInv, Calling, Send, Fail, AfterCall
<1>6. EndpointInv'
    BY RequestStays DEF IInv, EndpointInv, Send, Fail, AfterCall
<1>7. AnswerInv'
    BY DEF IInv, AnswerInv, Send
<1>8. Echoed'
    BY DEF IInv, StreamInv, Echoed, Send
<1>9. ServerInv'
    BY DEF IInv, StreamInv, ServerInv, Send
<1>10. UnderWay'
  <2> DEFINE S == {Payload(n) : n \in 1..Len(req.chunks)}
  <2>1. /\ work.received <= sent
        /\ wpc = "loop" =>
              /\ up \in Seq(S) /\ Len(up) = sent - work.received
              /\ \A i \in 1..Len(up) : up[i] = Payload(work.received + i)
              /\ sendClosed => callErr
      BY <1>1 DEF IInv, StreamInv, UnderWay
  <2>2. S' = S
      BY <1>1, RequestStays
  <2>3. CASE /\ ~trailers /\ link = "up"
             /\ sent' = sent + 1
             /\ up' = Append(up, Payload(sent + 1))
             /\ UNCHANGED <<callErr, sendClosed>>
    <3>1. ASSUME wpc = "loop"
          PROVE  /\ up' \in Seq(S) /\ Len(up') = sent + 1 - work.received
                 /\ \A i \in 1..Len(up') : up'[i] = Payload(work.received + i)
      <4> DEFINE p == Payload(sent + 1)
      <4>1. p \in S
          BY <1>1
      <4>2. /\ Append(up, p) \in Seq(S) /\ Len(Append(up, p)) = Len(up) + 1
            /\ \A i \in 1..(Len(up) + 1) :
                  Append(up, p)[i] = IF i = Len(up) + 1 THEN p ELSE up[i]
        <5> HIDE DEF S, p
        <5> QED
            BY <4>1, <3>1, <2>1, AppendFacts
      <4>3. work.received + (Len(up) + 1) = sent + 1
          BY <3>1, <2>1, <1>1
      <4>4. ASSUME NEW i \in 1..(Len(up) + 1)
            PROVE  Append(up, p)[i] = Payload(work.received + i)
        <5>1. CASE i = Len(up) + 1
            BY <5>1, <4>2, <4>3
        <5>2. CASE i # Len(up) + 1
          <6>1. i \in 1..Len(up)
              BY <5>2, <3>1, <2>1, <1>1
          <6> HIDE DEF p
          <6> QED
              BY <6>1, <5>2, <4>2, <3>1, <2>1
        <5> QED
            BY <5>1, <5>2
      <4> QED
          BY <2>3, <3>1, <2>1, <1>1, <4>2, <4>4
    <3>2. wpc' = wpc /\ work' = work
        BY DEF Send
    <3> HIDE DEF S
    <3>3. wpc' = "loop" =>
             /\ up' \in Seq(S') /\ Len(up') = sent' - work'.received
             /\ \A i \in 1..Len(up') : up'[i] = Payload(work.received + i)'
             /\ ~sendClosed'
      <4>1. \A i : Payload(work.received + i)' = Payload(work.received + i)
          BY <3>2, <1>1 DEF Payload
      <4> QED
          BY <4>1, <3>1, <3>2, <2>1, <2>2, <2>3, <1>1
    <3>4. work'.received <= sent' /\ sent' <= Len(req'.chunks)
        BY <3>2, <2>1, <2>3, <1>1
    <3> QED
        BY <3>3, <3>4 DEF UnderWay, S
  <2>4. CASE callErr' = TRUE /\ UNCHANGED <<sent, up>>
      BY <2>4, <1>1, RequestStays DEF IInv, StreamInv, UnderWay, Send
  <2> QED
      BY <2>3, <2>4 DEF Send, Fail
<1>11. Received'
    BY RequestStays DEF IInv, StreamInv, Received, Send
<1>12. ChunkedInv'
    BY RequestStays DEF IInv, OutcomeInv, ChunkedInv, Send, Fail, AfterCall
<1>13. ClientInv'
    BY DEF IInv, OutcomeInv, ClientInv, Send, Fail, AfterCall
<1>14. UnaryInv'
    BY DEF IInv, OutcomeInv, UnaryInv, Send
<1>15. FailWorkFails'
    BY DEF IInv, OutcomeInv, FailWorkFails, Send
<1>16. AlarmInv'
  <2>1. ASSUME callErr', link' = "up"
        PROVE  wpc' # "loop" /\ (status' = "OK" =>
                  req'.endpoint = "bidi" /\ Processed' < Len(req'.chunks))
    <3>1. wpc = "done" /\ UNCHANGED <<wpc, status>>
        BY <1>1, <2>1 DEF IInv, PlaceInv, Send
    <3>2. status = "OK" => work.received = Processed
        BY <1>1 DEF IInv, OutcomeInv, ChunkedInv
    <3>3. work.received <= sent
        BY <1>1 DEF IInv, StreamInv, UnderWay
    <3>4. status = "OK" => Processed < Len(req.chunks)
        BY <1>1, <3>2, <3>3
    <3>5. status = "OK" => req.endpoint = "bidi"
        BY <1>1, <3>4 DEF Processed, Chunked
    <3> QED
        BY <1>1, <3>1, <3>4, <3>5, RequestStays
  <2> QED
      BY <2>1 DEF AlarmInv
<1>17. WholeInv'
    BY WholeStays DEF IInv, WholeInv, Send, Fail, AfterCall
<1> QED
    BY <1>2, <1>3, <1>4, <1>5, <1>6, <1>7, <1>8, <1>9, <1>10, <1>11, <1>12,
           <1>13, <1>14, <1>15, <1>16, <1>17
       DEF IInv, StreamInv, OutcomeInv

(* The reply to a chunk, or the end.                                       *)
LEMMA RecvReplyStep ==
    ASSUME IInv, RecvReply
    PROVE  IInv'
<1>1. /\ pc = "recv" /\ wpc # "idle" /\ callErr = FALSE /\ req' = req
      /\ req.endpoint = "bidi" /\ answers = << >>
    BY DEF IInv, PlaceInv, Calling, EndpointInv, AnswerInv, RecvReply
<1>2. got' \in Seq(Nat) /\ down' \in Seq(Nat) /\ Echoed'
  <2>1. CASE CanRead /\ got' = Append(got, Head(down)) /\ down' = Tail(down)
      BY <1>1, <2>1, ReadKeepsOrder DEF IInv, StreamInv, CanRead, RecvReply
  <2>2. CASE UNCHANGED <<got, down>>
      BY <2>2 DEF IInv, Types, StreamInv, Echoed, RecvReply
  <2> QED
      BY <2>1, <2>2 DEF RecvReply
<1>3. Types'
  <2>1. callErr' \in BOOLEAN /\ pc' \in Places /\ sendClosed' \in BOOLEAN
      BY DEF IInv, Types, RecvReply, Fail, AfterCall, Places, Calling
  <2> QED
      BY <1>2, <2>1 DEF IInv, Types, RecvReply
<1>4. RequestInv'
    BY DEF IInv, RequestInv, RecvReply, Fail, AfterCall
<1>5. NotBegun'
    BY <1>1 DEF IInv, NotBegun, RecvReply
<1>6. PlaceInv'
    BY DEF IInv, PlaceInv, Calling, RecvReply, Fail, AfterCall, CanRead,
           AtEOF, AtError
<1>7. EndpointInv'
    BY RequestStays, <1>1 DEF IInv, EndpointInv, Chunked, Direct, RecvReply,
           Fail, AfterCall
<1>8. AnswerInv'
    BY DEF IInv, AnswerInv, RecvReply
<1>9. Echoed'
    BY <1>2
<1>10. ServerInv'
    BY DEF IInv, StreamInv, ServerInv, RecvReply
<1>11. UnderWay'
    BY RequestStays DEF IInv, StreamInv, UnderWay, RecvReply, Fail, AfterCall
<1>12. Received'
    BY RequestStays DEF IInv, StreamInv, Received, RecvReply
<1>13. ChunkedInv'
    BY RequestStays DEF IInv, OutcomeInv, ChunkedInv, RecvReply, Fail,
           AfterCall
<1>14. ClientInv'
    BY <1>1 DEF IInv, OutcomeInv, ClientInv, RecvReply, Fail, AfterCall
<1>15. UnaryInv'
    BY DEF IInv, OutcomeInv, UnaryInv, RecvReply
<1>16. FailWorkFails'
    BY DEF IInv, OutcomeInv, FailWorkFails, RecvReply
<1>17. AlarmInv'
  <2>1. CASE AtError
      BY <2>1, ErrorHasReason DEF IInv, AtError, RecvReply
  <2>2. CASE UNCHANGED callErr
      BY <2>2, <1>1 DEF AlarmInv
  <2> QED
      BY <2>1, <2>2 DEF RecvReply
<1>18. WholeInv'
    BY <1>1, RefusalIsNoSuccess DEF IInv, WholeInv, Direct, RecvReply, Fail, AfterCall
<1> QED
    BY <1>3, <1>4, <1>5, <1>6, <1>7, <1>8, <1>9, <1>10, <1>11, <1>12, <1>13,
           <1>14, <1>15, <1>16, <1>17, <1>18
       DEF IInv, StreamInv, OutcomeInv

(* The client half-closes.                                                 *)
LEMMA CloseSendStep ==
    ASSUME IInv, CloseSend
    PROVE  IInv'
<1>1. /\ pc \in {"send", "close"} /\ wpc # "idle" /\ callErr = FALSE /\ req' = req
      /\ req.endpoint \in Chunked /\ (pc = "close" => req.endpoint = "bidi" /\ wpc = "done")
      /\ (pc = "send" => sent = Len(req.chunks))
    BY DEF IInv, PlaceInv, Calling, EndpointInv, Chunked, CloseSend
<1>2. Types'
    BY DEF IInv, Types, Places, Calling, CloseSend
<1>3. RequestInv'
    BY DEF IInv, RequestInv, CloseSend
<1>4. NotBegun'
    BY DEF IInv, NotBegun, CloseSend
<1>5. PlaceInv'
    BY DEF IInv, PlaceInv, Calling, CloseSend
<1>6. EndpointInv'
    BY RequestStays, <1>1 DEF IInv, EndpointInv, Chunked, Direct, CloseSend
<1>7. AnswerInv'
    BY DEF IInv, AnswerInv, CloseSend
<1>8. Echoed'
    BY DEF IInv, StreamInv, Echoed, CloseSend
<1>9. ServerInv'
    BY DEF IInv, StreamInv, ServerInv, CloseSend
<1>10. UnderWay'
  <2>1. wpc = "loop" => sent = Len(req.chunks)
      BY <1>1
  <2>2. \A i : Payload(work.received + i)' = Payload(work.received + i)
      BY <1>1 DEF Payload, CloseSend
  <2> QED
      BY <1>1, <2>1, <2>2, RequestStays DEF IInv, StreamInv, UnderWay, CloseSend
<1>11. Received'
    BY RequestStays DEF IInv, StreamInv, Received, CloseSend
<1>12. ChunkedInv'
    BY RequestStays DEF IInv, OutcomeInv, ChunkedInv, CloseSend
<1>13. ClientInv'
    BY <1>1 DEF IInv, OutcomeInv, ClientInv, Chunked, CloseSend
<1>14. UnaryInv'
    BY DEF IInv, OutcomeInv, UnaryInv, CloseSend
<1>15. FailWorkFails'
    BY DEF IInv, OutcomeInv, FailWorkFails, CloseSend
<1>16. AlarmInv'
    BY RequestStays DEF IInv, AlarmInv, PlaceInv, Calling, CloseSend
<1>17. WholeInv'
    BY WholeStays DEF IInv, WholeInv, CloseSend
<1> QED
    BY <1>2, <1>3, <1>4, <1>5, <1>6, <1>7, <1>8, <1>9, <1>10, <1>11, <1>12,
           <1>13, <1>14, <1>15, <1>16, <1>17
       DEF IInv, StreamInv, OutcomeInv

(* Responses are read to the end.                                          *)
LEMMA DrainStep ==
    ASSUME IInv, Drain
    PROVE  IInv'
<1>1. /\ pc = "drain" /\ wpc # "idle" /\ callErr = FALSE /\ req' = req
      /\ req.endpoint \in {"server", "bidi"} /\ answers = << >>
    BY DEF IInv, PlaceInv, Calling, EndpointInv, AnswerInv, Drain
<1>2. got' \in Seq(Nat) /\ down' \in Seq(Nat) /\ Echoed'
  <2>1. CASE CanRead /\ got' = Append(got, Head(down)) /\ down' = Tail(down)
      BY <1>1, <2>1, ReadKeepsOrder DEF IInv, StreamInv, CanRead, Drain
  <2>2. CASE UNCHANGED <<got, down>>
      BY <2>2 DEF IInv, Types, StreamInv, Echoed, Drain
  <2> QED
      BY <2>1, <2>2 DEF Drain
<1>3. Types'
  <2>1. callErr' \in BOOLEAN /\ pc' \in Places
      BY DEF IInv, Types, Drain, Fail, AfterCall, Places, Calling
  <2> QED
      BY <1>2, <2>1 DEF IInv, Types, Drain
<1>4. RequestInv'
    BY DEF IInv, RequestInv, Drain, Fail, AfterCall
<1>5. NotBegun'
    BY <1>1 DEF IInv, NotBegun, Drain
<1>6. PlaceInv'
    BY DEF IInv, PlaceInv, Calling, Drain, Fail, AfterCall, CanRead, AtEOF,
           AtError
<1>7. EndpointInv'
    BY RequestStays, <1>1 DEF IInv, EndpointInv, Chunked, Direct, Drain,
           Fail, AfterCall
<1>8. AnswerInv'
    BY DEF IInv, AnswerInv, Drain
<1>9. Echoed'
    BY <1>2
<1>10. ServerInv'
    BY DEF IInv, StreamInv, ServerInv, Drain
<1>11. UnderWay'
    BY RequestStays DEF IInv, StreamInv, UnderWay, Drain, Fail, AfterCall
<1>12. Received'
    BY RequestStays DEF IInv, StreamInv, Received, Drain
<1>13. ChunkedInv'
    BY RequestStays DEF IInv, OutcomeInv, ChunkedInv, Drain, Fail, AfterCall
<1>14. ClientInv'
    BY <1>1 DEF IInv, OutcomeInv, ClientInv, Drain, Fail, AfterCall
<1>15. UnaryInv'
    BY DEF IInv, OutcomeInv, UnaryInv, Drain
<1>16. FailWorkFails'
    BY DEF IInv, OutcomeInv, FailWorkFails, Drain
<1>17. AlarmInv'
  <2>1. CASE AtError
      BY <2>1, ErrorHasReason DEF IInv, AtError, Drain
  <2>2. CASE UNCHANGED callErr
      BY <2>2, <1>1 DEF AlarmInv
  <2> QED
      BY <2>1, <2>2 DEF Drain
<1>18. WholeInv'
  <2>1. CASE AtEOF /\ pc' = "spans" /\ UNCHANGED <<got, callErr>>
    <3>1. /\ down = << >> /\ trailers /\ status = "OK" /\ wpc # "idle"
          /\ UNCHANGED <<req, got, worked, stored>>
        BY <1>1, <2>1 DEF AtEOF, Drain
    <3>2. got = [i \in 1..work.received |-> i]
        BY <1>1, <3>1, ResponsesWhole
    <3>3. req.endpoint = "server" =>
             /\ work.received = Int32FromInt(req.count)
             /\ req.final \in {Blank, "OK"}
        BY <3>1 DEF IInv, StreamInv, ServerInv
    <3>4. req.endpoint = "bidi" =>
             /\ work.received = Processed
             /\ \A i, j \in 1..Processed : Payload(i).id = Payload(j).id
             /\ \A n \in 1..Processed :
                   LastToAsk(n) => ParseStatusCode(req.chunks[n].final) = "OK"
        BY <1>1, <3>1, ChunksWhole DEF Chunked
    <3>5. Whole
        BY <1>1, <3>2, <3>3, <3>4 DEF Whole, Chunked
    <3> QED
        BY <3>1, <3>5, WholeStays DEF WholeInv
  <2>2. CASE callErr' = TRUE
      BY <2>2, <1>1, RefusalIsNoSuccess DEF WholeInv, Drain
  <2>3. CASE UNCHANGED pc
      BY <2>3, <1>1, RefusalIsNoSuccess DEF WholeInv, Drain
  <2> QED
      BY <2>1, <2>2, <2>3 DEF Drain, Fail
<1> QED
    BY <1>3, <1>4, <1>5, <1>6, <1>7, <1>8, <1>9, <1>10, <1>11, <1>12, <1>13,
           <1>14, <1>15, <1>16, <1>17, <1>18
       DEF IInv, StreamInv, OutcomeInv

(* The one response.                                                       *)
LEMMA AwaitStep ==
    ASSUME IInv, Await
    PROVE  IInv'
<1>1. /\ pc = "await" /\ wpc # "idle" /\ callErr = FALSE /\ req' = req
      /\ req.endpoint \in {"http", "grpc", "client"} \cup Direct /\ answers = << >>
    BY DEF IInv, PlaceInv, Calling, EndpointInv, AnswerInv, Await
<1>2. Types'
  <2>1. callErr' \in BOOLEAN /\ pc' \in Places
      BY DEF IInv, Types, Await, Fail, AfterCall, Places, Calling
  <2>2. got' \in Seq(Nat) /\ down' \in Seq(Nat)
    <3>1. << >> \in Seq(Nat) /\ got \in Seq(Nat) /\ down \in Seq(Nat)
        BY DEF IInv, Types
    <3> QED
        BY <3>1 DEF Await
  <2> QED
      BY <2>1, <2>2 DEF IInv, Types, Await
<1>3. RequestInv'
    BY DEF IInv, RequestInv, Await, Fail, AfterCall
<1>4. NotBegun'
    BY <1>1 DEF IInv, NotBegun, Await
<1>5. PlaceInv'
    BY DEF IInv, PlaceInv, Calling, Await, Fail, AfterCall
<1>6. EndpointInv'
    BY RequestStays, <1>1 DEF IInv, EndpointInv, Chunked, Direct, Await,
           Fail, AfterCall
<1>7. AnswerInv'
    BY DEF IInv, AnswerInv, Await
<1>8. Echoed'
    BY <1>1 DEF IInv, StreamInv, Echoed, Direct, Await
<1>9. ServerInv'
    BY DEF IInv, StreamInv, ServerInv, Await
<1>10. UnderWay'
    BY RequestStays DEF IInv, StreamInv, UnderWay, Await, Fail, AfterCall
<1>11. Received'
    BY RequestStays DEF IInv, StreamInv, Received, Await
<1>12. ChunkedInv'
    BY RequestStays DEF IInv, OutcomeInv, ChunkedInv, Await, Fail, AfterCall
<1>13. ClientInv'
    BY <1>1 DEF IInv, OutcomeInv, ClientInv, Await, Fail, AfterCall
<1>14. UnaryInv'
    BY DEF IInv, OutcomeInv, UnaryInv, Await
<1>15. FailWorkFails'
    BY DEF IInv, OutcomeInv, FailWorkFails, Await
<1>16. AlarmInv'
  <2>1. CASE link = "down" \/ (trailers /\ status # "OK")
      BY <2>1, ErrorHasReason DEF IInv, Await
  <2>2. CASE UNCHANGED callErr
      BY <2>2, <1>1 DEF AlarmInv
  <2> QED
      BY <2>1, <2>2 DEF Await
<1>17. WholeInv'
  <2>1. CASE trailers /\ status = "OK" /\ got' = down /\ UNCHANGED callErr
    <3>1. UNCHANGED <<req, worked, stored>>
        BY DEF Await
    <3>2. req.endpoint = "client" => down = <<work.received>>
        BY <1>1, <2>1 DEF IInv, OutcomeInv, ClientInv
    <3>3. req.endpoint = "client" =>
             /\ work.received = Processed /\ Processed = Len(req.chunks)
             /\ \A i, j \in 1..Processed : Payload(i).id = Payload(j).id
             /\ \A n \in 1..Processed :
                   LastToAsk(n) => ParseStatusCode(req.chunks[n].final) = "OK"
      <4>1. req.endpoint = "client" => Processed = Len(req.chunks)
          BY DEF Processed
      <4> QED
          BY <1>1, <2>1, <4>1, ChunksWhole DEF Chunked
    <3>4. req.endpoint \in {"http", "grpc"} => req.endpoint \in worked
        BY <2>1 DEF IInv, OutcomeInv, UnaryInv
    <3>5. req.endpoint = "client" => got' = <<Len(req.chunks)>>
        BY <2>1, <3>2, <3>3
    <3>6. Whole'
        BY <1>1, <3>1, <3>3, <3>4, <3>5, RequestStays DEF Whole, Chunked, Direct
    <3> QED
        BY <3>6 DEF WholeInv
  <2>2. CASE callErr' = TRUE
      BY <2>2, <1>1, RefusalIsNoSuccess DEF WholeInv, Await
  <2> QED
      BY <2>1, <2>2 DEF Await, Fail
<1> QED
    BY <1>2, <1>3, <1>4, <1>5, <1>6, <1>7, <1>8, <1>9, <1>10, <1>11, <1>12,
           <1>13, <1>14, <1>15, <1>16, <1>17
       DEF IInv, StreamInv, OutcomeInv

(* The message is handed over.                                             *)
LEMMA PublishStep ==
    ASSUME IInv, Publish
    PROVE  IInv'
<1>1. Types'
    BY DEF IInv, Types, Places, Calling, Publish
<1>2. RequestInv'
    BY DEF IInv, RequestInv, Publish
<1>3. NotBegun'
    BY DEF IInv, NotBegun, Publish
<1>4. PlaceInv'
    BY DEF IInv, PlaceInv, Calling, Publish
<1>5. EndpointInv'
    BY RequestStays DEF IInv, EndpointInv, Publish
<1>6. AnswerInv'
    BY DEF IInv, AnswerInv, Publish
<1>7. StreamInv'
    BY StreamStays DEF IInv, Publish
<1>8. OutcomeInv'
    BY OutcomeStays DEF IInv, Publish
<1>9. AlarmInv'
    BY RequestStays DEF IInv, AlarmInv, Publish
<1>10. WholeInv'
    BY WholeStays DEF IInv, WholeInv, Publish
<1> QED
    BY <1>1, <1>2, <1>3, <1>4, <1>5, <1>6, <1>7, <1>8, <1>9, <1>10
       DEF IInv

(* The result of the publication is the answer.                            *)
LEMMA GetResultStep ==
    ASSUME IInv, GetResult
    PROVE  IInv'
<1>1. Types'
    BY DEF IInv, Types, Places, Calling, GetResult
<1>2. RequestInv'
    BY DEF IInv, RequestInv, GetResult
<1>3. NotBegun'
    BY DEF IInv, NotBegun, GetResult
<1>4. PlaceInv'
    BY DEF IInv, PlaceInv, Calling, GetResult
<1>5. EndpointInv'
    BY RequestStays DEF IInv, EndpointInv, GetResult
<1>6. AnswerInv'
    BY FirstAnswer DEF IInv, AnswerInv, Refusals, GetResult
<1>7. StreamInv'
    BY StreamStays DEF IInv, GetResult
<1>8. OutcomeInv'
    BY OutcomeStays DEF IInv, GetResult
<1>9. AlarmInv'
    BY RequestStays DEF IInv, AlarmInv, GetResult
<1>10. WholeInv'
  <2>1. req' = req /\ req.endpoint = "pubsub"
      BY DEF IInv, EndpointInv, GetResult
  <2> QED
      BY <2>1 DEF WholeInv, Whole, Chunked
<1> QED
    BY <1>1, <1>2, <1>3, <1>4, <1>5, <1>6, <1>7, <1>8, <1>9, <1>10
       DEF IInv

(* The spans are written and the request answered.                         *)
LEMMA FinishStep ==
    ASSUME IInv, NEW e \in {"http", "grpc"} \cup Streams, Finish(e)
    PROVE  IInv'
<1>1. Types'
    BY DEF IInv, Types, Places, Calling, Finish
<1>2. RequestInv'
    BY DEF IInv, RequestInv, Finish
<1>3. NotBegun'
    BY DEF IInv, NotBegun, Finish
<1>4. PlaceInv'
    BY DEF IInv, PlaceInv, Calling, Finish
<1>5. EndpointInv'
    BY RequestStays DEF IInv, EndpointInv, Finish
<1>6. AnswerInv'
    BY FirstAnswer DEF IInv, AnswerInv, Refusals, Finish
<1>7. StreamInv'
    BY StreamStays DEF IInv, Finish
<1>8. OutcomeInv'
    BY OutcomeStays DEF IInv, Finish
<1>9. AlarmInv'
    BY RequestStays DEF IInv, AlarmInv, Finish
<1>10. WholeInv'
  <2>1. answers = << >> /\ callErr \in BOOLEAN /\ pc = "spans"
      BY DEF IInv, AnswerInv, Types, Finish
  <2>2. answers' \in Successes => ~callErr
      BY <2>1, FirstAnswer, RefusalIsNoSuccess DEF Finish, Refusals
  <2>3. ~callErr => Whole
      BY <2>1 DEF IInv, WholeInv
  <2> QED
      BY <2>2, <2>3, WholeStays DEF Finish, WholeInv
<1> QED
    BY <1>1, <1>2, <1>3, <1>4, <1>5, <1>6, <1>7, <1>8, <1>9, <1>10
       DEF IInv

(* The unary workers.                                                      *)
LEMMA WorkStep ==
    ASSUME IInv, NEW p \in {"http", "grpc"}, Work(p)
    PROVE  IInv'
<1>1. Types'
    BY DEF IInv, Types, Places, Calling, Work, Return
<1>2. RequestInv'
    BY DEF IInv, RequestInv, PlaceInv, Calling, Work
<1>3. NotBegun'
    BY DEF IInv, NotBegun, Work, Return
<1>4. PlaceInv'
    BY DEF IInv, PlaceInv, Calling, Work, Return
<1>5. EndpointInv'
    BY RequestStays DEF IInv, EndpointInv, Work, Return
<1>6. AnswerInv'
    BY DEF IInv, AnswerInv, Work
<1>7. Echoed'
    BY DEF IInv, StreamInv, Echoed, Work
<1>8. ServerInv'
    BY DEF IInv, StreamInv, ServerInv, Work, Return
<1>9. UnderWay'
    BY RequestStays DEF IInv, StreamInv, UnderWay, Work, Return
<1>10. Received'
    BY RequestStays DEF IInv, StreamInv, Received, Work, Return
<1>11. ChunkedInv'
    BY RequestStays DEF IInv, OutcomeInv, ChunkedInv, Chunked, Work, Return
<1>12. ClientInv'
    BY DEF IInv, OutcomeInv, ClientInv, Work, Return
<1>13. UnaryInv'
    BY DEF UnaryInv, Work, Return
<1>14. FailWorkFails'
    BY DEF IInv, OutcomeInv, FailWorkFails, Work, Return
<1>15. AlarmInv'
    BY RequestStays DEF IInv, AlarmInv, Work, Return
<1>16. WholeInv'
    BY WholeStays DEF IInv, WholeInv, Work
<1> QED
    BY <1>1, <1>2, <1>3, <1>4, <1>5, <1>6, <1>7, <1>8, <1>9, <1>10, <1>11,
           <1>12, <1>13, <1>14, <1>15, <1>16
       DEF IInv, StreamInv, OutcomeInv

(* FailWork, PanicWork and EchoPayload.                                    *)
LEMMA DirectWorkStep ==
    ASSUME IInv, DirectWork
    PROVE  IInv'
<1>1. req' = req /\ req.endpoint \in Direct
      /\ req.endpoint \notin Streams \cup {"http", "grpc"}
    BY DEF DirectWork, Direct, Streams, Chunked
<1>2. Types'
    BY DEF IInv, Types, Places, Calling, DirectWork, Return
<1>3. RequestInv'
    BY DEF IInv, RequestInv, DirectWork
<1>4. NotBegun'
    BY DEF IInv, NotBegun, DirectWork, Return
<1>5. PlaceInv'
    BY DEF IInv, PlaceInv, Calling, DirectWork, Return
<1>6. EndpointInv'
    BY RequestStays DEF IInv, EndpointInv, DirectWork, Return
<1>7. AnswerInv'
    BY DEF IInv, AnswerInv, DirectWork
<1>8. Echoed'
    BY DEF IInv, StreamInv, Echoed, DirectWork
<1>9. ServerInv'
    BY <1>1 DEF IInv, StreamInv, ServerInv, Streams, DirectWork, Return
<1>10. UnderWay'
    BY RequestStays DEF IInv, StreamInv, UnderWay, DirectWork, Return
<1>11. Received'
    BY RequestStays DEF IInv, StreamInv, Received, DirectWork, Return
<1>12. ChunkedInv'
    BY RequestStays, <1>1 DEF IInv, OutcomeInv, ChunkedInv, Streams,
           DirectWork, Return
<1>13. ClientInv'
    BY <1>1 DEF IInv, OutcomeInv, ClientInv, Streams, Chunked, DirectWork,
           Return
<1>14. UnaryInv'
    BY <1>1 DEF IInv, OutcomeInv, UnaryInv, DirectWork, Return
<1>15. FailWorkFails'
    BY DEF IInv, OutcomeInv, FailWorkFails, StatusOf, DirectWork, Return
<1>16. AlarmInv'
    BY RequestStays DEF IInv, AlarmInv, DirectWork, Return
<1>17. WholeInv'
    BY WholeStays DEF IInv, WholeInv, DirectWork
<1> QED
    BY <1>2, <1>3, <1>4, <1>5, <1>6, <1>7, <1>8, <1>9, <1>10, <1>11, <1>12,
           <1>13, <1>14, <1>15, <1>16, <1>17
       DEF IInv, StreamInv, OutcomeInv

(* A worker whose stream was reset.                                        *)
LEMMA WorkerCancelledStep ==
    ASSUME IInv, WorkerCancelled
    PROVE  IInv'
<1>1. Types'
    BY DEF IInv, Types, Places, Calling, WorkerCancelled, Return
<1>2. RequestInv'
    BY DEF IInv, RequestInv, WorkerCancelled
<1>3. NotBegun'
    BY DEF IInv, NotBegun, WorkerCancelled, Return
<1>4. PlaceInv'
    BY DEF IInv, PlaceInv, Calling, WorkerCancelled, Return
<1>5. EndpointInv'
    BY RequestStays DEF IInv, EndpointInv, WorkerCancelled, Return
<1>6. AnswerInv'
    BY DEF IInv, AnswerInv, WorkerCancelled
<1>7. Echoed'
    BY DEF IInv, StreamInv, Echoed, WorkerCancelled
<1>8. ServerInv'
    BY DEF IInv, StreamInv, ServerInv, WorkerCancelled, Return
<1>9. UnderWay'
    BY RequestStays DEF IInv, StreamInv, UnderWay, WorkerCancelled, Return
<1>10. Received'
    BY RequestStays DEF IInv, StreamInv, Received, WorkerCancelled, Return
<1>11. ChunkedInv'
    BY RequestStays DEF IInv, OutcomeInv, ChunkedInv, WorkerCancelled, Return
<1>12. ClientInv'
    BY DEF IInv, OutcomeInv, ClientInv, WorkerCancelled, Return
<1>13. UnaryInv'
    BY DEF IInv, OutcomeInv, UnaryInv, WorkerCancelled, Return
<1>14. FailWorkFails'
    BY DEF IInv, OutcomeInv, FailWorkFails, WorkerCancelled, Return
<1>15. AlarmInv'
    BY RequestStays DEF IInv, AlarmInv, WorkerCancelled, Return
<1>16. WholeInv'
    BY WholeStays DEF IInv, WholeInv, WorkerCancelled
<1> QED
    BY <1>1, <1>2, <1>3, <1>4, <1>5, <1>6, <1>7, <1>8, <1>9, <1>10, <1>11,
           <1>12, <1>13, <1>14, <1>15, <1>16
       DEF IInv, StreamInv, OutcomeInv

(* The worker of a server stream.                                          *)
LEMMA StreamServerStep ==
    ASSUME IInv, StreamServer
    PROVE  IInv'
<1>1. /\ wpc = "loop" /\ req' = req /\ got' = got /\ req.endpoint = "server"
      /\ req \in Requests /\ work.received \in Nat /\ Len(got) \in Nat
      /\ Int32FromInt(req.count) \in Int
      /\ got \in Seq(Nat) /\ down \in Seq(Nat)
      /\ Len(got) + Len(down) = work.received
      /\ \A i \in 1..Len(got) : got[i] = i
      /\ \A i \in 1..Len(down) : down[i] = Len(got) + i
    BY RequestFacts, Int32Facts
       DEF IInv, Types, RequestInv, PlaceInv, Calling, StreamInv, Echoed, StreamServer
<1>2. Types' /\ Echoed' /\ ServerInv'
  <2>2. CASE /\ work.received < Int32FromInt(req.count)
             /\ work' = [work EXCEPT !.received = @ + 1]
             /\ down' = Append(down, work.received + 1)
             /\ UNCHANGED <<wpc, status>>
    <3>1. /\ work'.received = work.received + 1
          /\ work' = [id |-> work'.id, final |-> work'.final, received |-> work'.received]
        BY <2>2 DEF IInv, Types
    <3>2. /\ down' \in Seq(Nat) /\ Len(down') = Len(down) + 1
          /\ \A i \in 1..(Len(down) + 1) : down'[i] = Len(got) + i
      <4> DEFINE n == work.received + 1
      <4>1. n \in Nat /\ n = Len(got) + Len(down) + 1 /\ down' = Append(down, n)
          BY <1>1, <2>2
      <4> HIDE DEF n
      <4> QED
          BY <1>1, <4>1, WriteNext
    <3>3. Types'
        BY <1>1, <2>2, <3>1, <3>2 DEF IInv, Types, StreamServer
    <3>4. Echoed'
      <4>1. Len(got) + Len(down') = work'.received
          BY <1>1, <3>1, <3>2
      <4> QED
          BY <1>1, <3>2, <4>1 DEF Echoed
    <3>5. ServerInv'
        BY <1>1, <2>2, <3>1 DEF IInv, PlaceInv, ServerInv, None
    <3> QED
        BY <3>3, <3>4, <3>5
  <2>3. CASE UNCHANGED <<work, down>> /\ Return("Canceled")
      BY <2>3, <1>1 DEF IInv, Types, StreamInv, Echoed, ServerInv, Return, StreamServer
  <2>4. CASE /\ work.received >= Int32FromInt(req.count)
             /\ Return(IF req.final = Blank THEN "OK" ELSE ParseStatusCode(req.final))
             /\ UNCHANGED <<work, down>>
    <3>1. Types' /\ Echoed'
        BY <2>4, <1>1 DEF IInv, Types, StreamInv, Echoed, Return, StreamServer
    <3>2. status' = "OK" => req.final \in {Blank, "OK"}
        BY <2>4, ParseOK DEF Return
    <3>3. work.received <= Int32FromInt(req.count)
        BY <1>1 DEF IInv, StreamInv, ServerInv
    <3>4. ServerInv'
        BY <1>1, <2>4, <3>2, <3>3 DEF ServerInv
    <3> QED
        BY <3>1, <3>4
  <2> QED
      BY <2>2, <2>3, <2>4 DEF StreamServer
<1>3. Types'
    BY <1>2
<1>4. RequestInv'
    BY DEF IInv, RequestInv, StreamServer
<1>5. NotBegun'
    BY DEF IInv, NotBegun, StreamServer, Return
<1>6. PlaceInv'
    BY DEF IInv, PlaceInv, Calling, StreamServer, Return
<1>7. EndpointInv'
    BY RequestStays DEF IInv, EndpointInv, StreamServer, Return
<1>8. AnswerInv'
    BY DEF IInv, AnswerInv, StreamServer
<1>9. Echoed'
    BY <1>2
<1>10. ServerInv'
    BY <1>2
<1>11. UnderWay'
    BY RequestStays, <1>1 DEF IInv, StreamInv, UnderWay, Chunked,
           StreamServer, Return
<1>12. Received'
    BY RequestStays, <1>1 DEF IInv, StreamInv, Received, Chunked,
           StreamServer, Return
<1>13. ChunkedInv'
    BY RequestStays, <1>1 DEF IInv, OutcomeInv, ChunkedInv, Chunked,
           StreamServer, Return
<1>14. ClientInv'
    BY DEF IInv, OutcomeInv, ClientInv, StreamServer, Return
<1>15. UnaryInv'
    BY DEF IInv, OutcomeInv, UnaryInv, StreamServer, Return
<1>16. FailWorkFails'
    BY DEF IInv, OutcomeInv, FailWorkFails, StreamServer, Return
<1>17. AlarmInv'
    BY RequestStays DEF IInv, AlarmInv, StreamServer, Return
<1>18. WholeInv'
    BY WholeStays DEF IInv, WholeInv, StreamServer
<1> QED
    BY <1>3, <1>4, <1>5, <1>6, <1>7, <1>8, <1>9, <1>10, <1>11, <1>12, <1>13,
           <1>14, <1>15, <1>16, <1>17, <1>18
       DEF IInv, StreamInv, OutcomeInv

(* The worker of a client stream.                                          *)
LEMMA StreamClientStep ==
    ASSUME IInv, StreamClient
    PROVE  IInv'
<1>1. /\ wpc = "loop" /\ status = None /\ req' = req /\ work.received \in Nat
      /\ req.endpoint = "client" /\ req.endpoint \in Chunked
      /\ UNCHANGED <<pc, sent, got, callErr, sendClosed, trailers, stored, link>>
    BY DEF IInv, Types, PlaceInv, StreamClient, Chunked
<1>2. Types' /\ UnderWay' /\ Received' /\ ChunkedInv' /\ ClientInv'
  <2>1. CASE /\ Return("InvalidArgument") /\ UNCHANGED <<work, down>>
    <3>1. Types'
        BY <1>1, <2>1 DEF IInv, Types, Return
    <3>2. UnderWay' /\ ChunkedInv' /\ ClientInv'
        BY <1>1, <2>1 DEF IInv, StreamInv, UnderWay, ChunkedInv, ClientInv, Return
    <3>3. Received'
        BY <1>1, <2>1, RequestStays DEF IInv, StreamInv, Received, Return
    <3> QED
        BY <3>1, <3>2, <3>3
  <2>2. CASE /\ up # << >> /\ ~Mismatch(Head(up))
             /\ work' = Apply(Head(up)) /\ up' = Tail(up)
             /\ UNCHANGED <<wpc, status, down>>
    <3>1. /\ work'.received = work.received + 1
          /\ work' = [id |-> work'.id, final |-> work'.final,
                      received |-> work'.received]
          /\ UnderWay' /\ Received'
      <4>1. PICK k : k = work.received
          OBVIOUS
      <4> QED
          BY <4>1, <1>1, <2>2, ApplyKeeps
    <3>2. Types'
        BY <1>1, <2>2, <3>1 DEF IInv, Types
    <3>3. ChunkedInv' /\ ClientInv'
        BY <1>1, <2>2 DEF IInv, OutcomeInv, ClientInv, ChunkedInv, None
    <3> QED
        BY <3>1, <3>2, <3>3
  <2>3. CASE /\ up = << >> /\ sendClosed
             /\ Return(FinalStatus(work))
             /\ down' = IF FinalStatus(work) = "OK" THEN <<work.received>> ELSE << >>
             /\ UNCHANGED <<work, up>>
    <3>1. down' \in Seq(Nat)
        BY <1>1, <2>3
    <3>2. Types'
        BY <1>1, <2>3, <3>1 DEF IInv, Types, Return
    <3>3. UnderWay'
        BY <1>1, <2>3 DEF IInv, StreamInv, UnderWay, Return
    <3>4. Received'
        BY <1>1, <2>3, RequestStays DEF IInv, StreamInv, Received, Return
    <3>5. ClientInv'
        BY <1>1, <2>3 DEF ClientInv, Return
    <3>6. ~callErr => work.received = Processed
      <4>1. sent \in Nat /\ sent - work.received = 0
          BY <2>3, <1>1 DEF IInv, Types, StreamInv, UnderWay
      <4>2. sent = Len(req.chunks) \/ callErr
          BY <2>3, <1>1 DEF IInv, StreamInv, UnderWay
      <4>3. Processed = Len(req.chunks)
          BY <1>1 DEF Processed
      <4> QED
          BY <4>1, <4>2, <4>3, <1>1
    <3>7. status' = "OK" => work.final = "OK"
        BY <2>3 DEF Return, FinalStatus
    <3>8. ChunkedInv'
        BY <1>1, <2>3, <3>6, <3>7, RequestStays DEF ChunkedInv
    <3> QED
        BY <3>2, <3>3, <3>4, <3>5, <3>8
  <2> QED
      BY <2>1, <2>2, <2>3 DEF StreamClient
<1>3. Types'
    BY <1>2
<1>4. RequestInv'
    BY DEF IInv, RequestInv, StreamClient
<1>5. NotBegun'
    BY DEF IInv, NotBegun, StreamClient, Return
<1>6. PlaceInv'
    BY DEF IInv, PlaceInv, Calling, StreamClient, Return
<1>7. EndpointInv'
    BY RequestStays DEF IInv, EndpointInv, StreamClient, Return
<1>8. AnswerInv'
    BY DEF IInv, AnswerInv, StreamClient
<1>9. Echoed'
    BY <1>1 DEF IInv, StreamInv, Echoed, StreamClient
<1>10. ServerInv'
    BY <1>1 DEF IInv, StreamInv, ServerInv, StreamClient, Return
<1>11. UnderWay'
    BY <1>2
<1>12. Received'
    BY <1>2
<1>13. ChunkedInv'
    BY <1>2
<1>14. ClientInv'
    BY <1>2
<1>15. UnaryInv'
    BY DEF IInv, OutcomeInv, UnaryInv, StreamClient, Return
<1>16. FailWorkFails'
    BY DEF IInv, OutcomeInv, FailWorkFails, StreamClient, Return
<1>17. AlarmInv'
    BY RequestStays DEF IInv, AlarmInv, StreamClient, Return
<1>18. WholeInv'
    BY WholeStays DEF IInv, WholeInv, StreamClient
<1> QED
    BY <1>3, <1>4, <1>5, <1>6, <1>7, <1>8, <1>9, <1>10, <1>11, <1>12, <1>13,
           <1>14, <1>15, <1>16, <1>17, <1>18
       DEF IInv, StreamInv, OutcomeInv

(* The worker of a bidi stream.                                            *)
LEMMA StreamBidiStep ==
    ASSUME IInv, StreamBidi
    PROVE  IInv'
<1>1. /\ wpc = "loop" /\ status = None /\ req' = req /\ work.received \in Nat
      /\ req.endpoint = "bidi" /\ req.endpoint \in Chunked /\ req \in Requests
      /\ UNCHANGED <<pc, sent, got, callErr, sendClosed, trailers, stored, link>>
    BY DEF IInv, Types, RequestInv, PlaceInv, Calling, StreamBidi, Chunked
<1>2. Types' /\ Echoed' /\ UnderWay' /\ Received' /\ ChunkedInv'
  <2>1. CASE /\ Return("InvalidArgument") /\ UNCHANGED <<work, down>>
    <3>1. Types' /\ Echoed'
        BY <1>1, <2>1 DEF IInv, Types, StreamInv, Echoed, Return
    <3>2. UnderWay' /\ ChunkedInv'
        BY <1>1, <2>1 DEF IInv, StreamInv, UnderWay, ChunkedInv, Return
    <3>3. Received'
        BY <1>1, <2>1, RequestStays DEF IInv, StreamInv, Received, Return
    <3> QED
        BY <3>1, <3>2, <3>3
  <2>2. CASE /\ up # << >> /\ ~Mismatch(Head(up))
             /\ work' = Apply(Head(up))
             /\ down' = Append(down, Head(up).n) /\ up' = Tail(up)
             /\ IF Head(up).close THEN Return(FinalStatus(work'))
                ELSE UNCHANGED <<wpc, status>>
    <3>1. PICK k : k = work.received
        OBVIOUS
    <3>2. /\ k \in Nat /\ k + 1 \in 1..Len(req.chunks)
          /\ Head(up).n = k + 1 /\ Head(up).close = req.chunks[k + 1].close
          /\ req.chunks[k + 1].close \in BOOLEAN
      <4>1. /\ Head(up) = Payload(k + 1) /\ k \in Nat /\ k + 1 <= Len(req.chunks)
          BY <1>1, <2>2, <3>1, NextChunk
      <4> QED
          BY <4>1, <1>1, RequestFacts DEF Payload
    <3>3. wpc' = "loop" => ~req.chunks[k + 1].close
        BY <2>2, <3>2 DEF Return
    <3>4. /\ work'.received = k + 1
          /\ work' = [id |-> work'.id, final |-> work'.final,
                      received |-> work'.received]
          /\ UnderWay' /\ Received'
        BY <1>1, <2>2, <3>1, <3>3, ApplyKeeps
    <3>5. down' \in Seq(Nat) /\ Echoed'
      <4>1. /\ got \in Seq(Nat) /\ down \in Seq(Nat) /\ Len(got) \in Nat
            /\ Len(got) + Len(down) = k
            /\ \A i \in 1..Len(got) : got[i] = i
            /\ \A i \in 1..Len(down) : down[i] = Len(got) + i
          BY <1>1, <3>1 DEF IInv, Types, StreamInv, Echoed
      <4>2. /\ down' \in Seq(Nat) /\ Len(down') = Len(down) + 1
            /\ \A i \in 1..(Len(down) + 1) : down'[i] = Len(got) + i
        <5> DEFINE n == k + 1
        <5>1. n \in Nat /\ n = Len(got) + Len(down) + 1 /\ down' = Append(down, n)
            BY <2>2, <3>2, <4>1
        <5> HIDE DEF n
        <5> QED
            BY <4>1, <5>1, WriteNext
      <4>3. Len(got') + Len(down') = work'.received
          BY <1>1, <3>2, <3>4, <4>1, <4>2
      <4> QED
          BY <1>1, <4>1, <4>2, <4>3 DEF Echoed
    <3>6. Types'
      <4>1. wpc' \in {"idle", "loop", "done"}
          BY <1>1, <2>2 DEF Return
      <4> QED
          BY <1>1, <3>2, <3>4, <3>5, <4>1 DEF IInv, Types
    <3>7. ChunkedInv'
      <4>1. CASE req.chunks[k + 1].close
        <5>1. \A m \in 1..k : ~req.chunks[m].close
            BY <1>1, <3>1 DEF IInv, StreamInv, Received
        <5>2. Processed = k + 1
          <6>1. PICK n \in 1..Len(req.chunks) : n = k + 1
              BY <3>2
          <6>2. \A m \in 1..(n - 1) : ~req.chunks[m].close
              BY <5>1, <6>1, <3>2
          <6> QED
              BY <6>1, <6>2, <4>1, <1>1, ProcessedAtClose
        <5>3. status' = "OK" => work'.final = "OK"
            BY <4>1, <3>2, <2>2 DEF Return, FinalStatus
        <5> QED
            BY <5>2, <5>3, <3>4, <1>1, RequestStays DEF ChunkedInv
      <4>2. CASE ~req.chunks[k + 1].close
          BY <4>2, <3>2, <2>2, <1>1 DEF ChunkedInv, None
      <4> QED
          BY <4>1, <4>2
    <3> QED
        BY <3>4, <3>5, <3>6, <3>7
  <2>3. CASE /\ up = << >> /\ sendClosed
             /\ Return(FinalStatus(work))
             /\ UNCHANGED <<work, up, down>>
    <3>1. Types' /\ Echoed'
        BY <1>1, <2>3 DEF IInv, Types, StreamInv, Echoed, Return
    <3>2. UnderWay'
        BY <1>1, <2>3 DEF IInv, StreamInv, UnderWay, Return
    <3>3. Received'
        BY <1>1, <2>3, RequestStays DEF IInv, StreamInv, Received, Return
    <3>4. ~callErr => work.received = Processed
      <4>1. sent \in Nat /\ sent - work.received = 0
          BY <2>3, <1>1 DEF IInv, Types, StreamInv, UnderWay
      <4>2. sent = Len(req.chunks) \/ callErr
          BY <2>3, <1>1 DEF IInv, StreamInv, UnderWay
      <4>3. \A n \in 1..work.received : ~req.chunks[n].close
          BY <1>1 DEF IInv, StreamInv, Received
      <4>4. ~callErr => work.received = Len(req.chunks)
          BY <4>1, <4>2, <1>1
      <4> QED
          BY <4>3, <4>4, <1>1, ProcessedWithoutClose
    <3>5. status' = "OK" => work.final = "OK"
        BY <2>3 DEF Return, FinalStatus
    <3>6. ChunkedInv'
        BY <1>1, <2>3, <3>4, <3>5, RequestStays DEF ChunkedInv
    <3> QED
        BY <3>1, <3>2, <3>3, <3>6
  <2> QED
      BY <2>1, <2>2, <2>3 DEF StreamBidi
<1>3. Types'
    BY <1>2
<1>4. RequestInv'
    BY DEF IInv, RequestInv, StreamBidi
<1>5. NotBegun'
    BY DEF IInv, NotBegun, StreamBidi, Return
<1>6. PlaceInv'
    BY DEF IInv, PlaceInv, Calling, StreamBidi, Return
<1>7. EndpointInv'
    BY RequestStays DEF IInv, EndpointInv, StreamBidi, Return
<1>8. AnswerInv'
    BY DEF IInv, AnswerInv, StreamBidi
<1>9. Echoed'
    BY <1>2
<1>10. ServerInv'
    BY <1>1 DEF IInv, StreamInv, ServerInv, StreamBidi, Return
<1>11. UnderWay'
    BY <1>2
<1>12. Received'
    BY <1>2
<1>13. ChunkedInv'
    BY <1>2
<1>14. ClientInv'
    BY <1>1 DEF IInv, OutcomeInv, ClientInv, StreamBidi, Return
<1>15. UnaryInv'
    BY DEF IInv, OutcomeInv, UnaryInv, StreamBidi, Return
<1>16. FailWorkFails'
    BY DEF IInv, OutcomeInv, FailWorkFails, StreamBidi, Return
<1>17. AlarmInv'
    BY RequestStays DEF IInv, AlarmInv, StreamBidi, Return
<1>18. WholeInv'
    BY WholeStays DEF IInv, WholeInv, StreamBidi
<1> QED
    BY <1>3, <1>4, <1>5, <1>6, <1>7, <1>8, <1>9, <1>10, <1>11, <1>12, <1>13,
           <1>14, <1>15, <1>16, <1>17, <1>18
       DEF IInv, StreamInv, OutcomeInv

-----------------------------------------------------------------------------
(* The theorems.                                                           *)

LEMMA Initially ==
    ASSUME Init
    PROVE  IInv
<1>1. Types /\ RequestInv /\ NotBegun /\ PlaceInv /\ AnswerInv
  <2>1. /\ work.id = Blank /\ work.received = 0
        /\ work = [id |-> work.id, final |-> work.final, received |-> work.received]
      BY DEF Init
  <2>2. << >> \in Seq(Nat)
      OBVIOUS
  <2>3. Types
      BY <2>1, <2>2 DEF Init, Types, Places, Calling
  <2> QED
      BY <2>1, <2>3 DEF Init, Calling, RequestInv, NotBegun, PlaceInv, AnswerInv
<1>2. NoReq.endpoint = None
    BY DEF NoReq
<1>3. EndpointInv /\ StreamInv /\ OutcomeInv
    BY <1>2 DEF Init, EndpointInv, StreamInv, Echoed, ServerInv, UnderWay, Received,
       OutcomeInv, ChunkedInv, ClientInv, UnaryInv, FailWorkFails, Chunked, None
<1>4. AlarmInv /\ WholeInv
    BY RefusalIsNoSuccess DEF Init, AlarmInv, WholeInv
<1> QED
    BY <1>1, <1>3, <1>4 DEF IInv

(* The steps that BackgroundStep is about.                                 *)
LEMMA BackgroundNext ==
    ASSUME IInv,
           \/ Open \/ Signal \/ ServeUntilShutdown \/ CloseNext \/ Exit
           \/ LinkBreaks
           \/ Store \/ HandlePubSubMessage \/ Ack \/ Redeliver \/ ReceiveStops
           \/ UNCHANGED vars
    PROVE  IInv'
<1>1. msg # None => pc # "idle"
    BY DEF IInv, RequestInv
<1>2. /\ UNCHANGED <<frontVars, workerVars, up, down, sendClosed, trailers>>
      /\ link' \in {link, "down"}
      /\ worked' \in {worked, worked \cup {"pubsub"}}
    BY DEF Open, Signal, ServeUntilShutdown, CloseNext, Exit, LinkBreaks, Store,
       HandlePubSubMessage, Ack, Redeliver, ReceiveStops
<1>3. pc # "idle" \/ UNCHANGED <<msg, worked>>
    BY <1>1 DEF Open, Signal, ServeUntilShutdown, CloseNext, Exit, LinkBreaks, Store,
       HandlePubSubMessage, Ack, Redeliver, ReceiveStops, None
<1> QED
    BY <1>2, <1>3, BackgroundStep

LEMMA Inductive ==
    ASSUME IInv, [Next]_vars
    PROVE  IInv'
<1>1. CASE \/ Open \/ Signal \/ ServeUntilShutdown \/ CloseNext \/ Exit
           \/ LinkBreaks
           \/ Store \/ HandlePubSubMessage \/ Ack \/ Redeliver \/ ReceiveStops
           \/ UNCHANGED vars
    BY <1>1, BackgroundNext
<1>2. CASE Arrive
    BY <1>2, ArriveStep
<1>3. CASE FrontNext
  <2>1. ASSUME NEW e \in {"http", "grpc"} \cup Streams, Finish(e)
        PROVE  IInv'
      BY <2>1, FinishStep
  <2>2. CASE \/ TraceDownstreamHTTP \/ TraceDownstreamGRPC
             \/ TraceDownstreamGRPCServerStream \/ TraceDownstreamGRPCClientStream
             \/ TraceDownstreamGRPCBidiStream
      BY <2>1, <2>2 DEF TraceDownstreamHTTP, TraceDownstreamGRPC,
         TraceDownstreamGRPCServerStream, TraceDownstreamGRPCClientStream,
         TraceDownstreamGRPCBidiStream, Streams, Chunked
  <2> QED
      BY <1>3, <2>2, DecodeStep, TraceSimpleStep, OpenCallStep, SendStep,
         RecvReplyStep, CloseSendStep, DrainStep, AwaitStep, PublishStep,
         GetResultStep DEF FrontNext
<1>4. CASE WorkerNext
  <2>1. CASE HandleWork \/ DoWork
      BY <2>1, WorkStep DEF HandleWork, DoWork
  <2> QED
      BY <1>4, <2>1, DirectWorkStep, StreamServerStep, StreamClientStep,
         StreamBidiStep, WorkerCancelledStep DEF WorkerNext
<1>5. CASE TrailersArrive
    BY <1>5, TrailersArriveStep
<1>6. CASE Terminated
    BY <1>6, BackgroundNext DEF Terminated
<1> QED
    BY <1>1, <1>2, <1>3, <1>4, <1>5, <1>6 DEF Next

(* IInv holds throughout, in every order of the steps of the caller, the   *)
(* worker, the network, the shutdown and Pub/Sub.                          *)
THEOREM Invariance == Spec => []IInv
<1>1. Init => IInv
    BY Initially
<1>2. IInv /\ [Next]_vars => IInv'
    BY Inductive
<1> QED
    BY <1>1, <1>2, PTL DEF Spec

(* The handlers of trace-target-app answer a request once, but for the     *)
(* error behind a success whose body could not be written; a success       *)
(* stands for the whole exchange with the worker, FailWork                 *)
(* and PanicWork never end well, and a call that failed though its worker  *)
(* ended well lost its link or met close_after.                            *)
THEOREM RightAnswers == Spec => []AnswerIsRight
<1>1. IInv => AnswerIsRight
  <2> SUFFICES ASSUME IInv
               PROVE  AnswerIsRight
      OBVIOUS
  <2>1. AnsweredOnce
    <3>1. Len(<< >>) = 0 /\ \A c : Len(<<c>>) = 1
        OBVIOUS
    <3>2. CASE \E c : answers = <<c>>
        BY <3>1, <3>2 DEF AnsweredOnce
    <3>3. CASE answers \in {<< >>, <<200, 500>>}
        BY <3>1, <3>3 DEF AnsweredOnce
    <3> QED
        BY <3>2, <3>3 DEF IInv, AnswerInv, Successes, Refusals
  <2>2. SuccessIsWhole
      BY SuccessIs DEF IInv, WholeInv, SuccessIsWhole
  <2>3. FailWorkFails
      BY DEF IInv, OutcomeInv
  <2>4. FalseAlarmHasReason
      BY DEF IInv, Types, AlarmInv, FalseAlarmHasReason
  <2> QED
      BY <2>1, <2>2, <2>3, <2>4 DEF AnswerIsRight
<1> QED
    BY <1>1, Invariance, PTL

-----------------------------------------------------------------------------
(* Publication.                                                            *)

Messages == {None, "sending", "lost", "queued", "handled", "acked"}

(* A publication that was answered as a success is never lost afterwards:  *)
(* not by the Pub/Sub client that CloseNext closes, nor by a redelivery.   *)
PublishedIsKept ==
    Succeeded /\ req.endpoint = "pubsub" => msg \in {"queued", "handled", "acked"}

(* result.Get waits for a message that Publish has handed over.            *)
MessageInv ==
    /\ msg \in Messages
    /\ pc = "get" => msg # None
    /\ answers \in Successes /\ req.endpoint = "pubsub" =>
          msg \in {"queued", "handled", "acked"}

LEMMA MessageInductive ==
    ASSUME IInv, MessageInv, [Next]_vars
    PROVE  MessageInv'
<1> USE DEF MessageInv, Messages, None
<1>1. CASE \/ Open \/ Signal \/ ServeUntilShutdown \/ Exit \/ TrailersArrive
           \/ LinkBreaks \/ ReceiveStops \/ UNCHANGED vars
    BY <1>1 DEF Open, Signal, ServeUntilShutdown, Exit, TrailersArrive, LinkBreaks,
       ReceiveStops
<1>2. CASE CloseNext \/ Store \/ HandlePubSubMessage \/ Ack \/ Redeliver
    BY <1>2 DEF CloseNext, Store, HandlePubSubMessage, Ack, Redeliver
<1>3. CASE WorkerNext
  <2>1. UNCHANGED <<frontVars, subVars>>
      BY <1>3 DEF WorkerNext, HandleWork, DoWork, Work, DirectWork, StreamServer,
         StreamClient, StreamBidi, WorkerCancelled
  <2> QED
      BY <2>1
<1>4. CASE Arrive
    BY <1>4, RefusalIsNoSuccess DEF IInv, AnswerInv, Arrive
<1>5. CASE Publish \/ GetResult
  <2>1. answers = << >>
      BY <1>5 DEF IInv, AnswerInv, Publish, GetResult
  <2> QED
      BY <1>5, <2>1, FirstAnswer, RefusalIsNoSuccess DEF Publish, GetResult, Refusals
<1>6. CASE FrontNext /\ ~Publish /\ ~GetResult
  <2>1. answers = << >> /\ UNCHANGED <<req, msg>>
      BY <1>6 DEF IInv, AnswerInv, FrontNext, Decode, TraceSimple, OpenCall, Send,
         RecvReply, CloseSend, Drain, Await, Finish, TraceDownstreamHTTP,
         TraceDownstreamGRPC, TraceDownstreamGRPCServerStream,
         TraceDownstreamGRPCClientStream, TraceDownstreamGRPCBidiStream
  <2>2. pc' # "get"
      BY <1>6 DEF FrontNext, Decode, TraceSimple, OpenCall, Send, Fail, AfterCall,
         RecvReply, CloseSend, Drain, Await, Finish, TraceDownstreamHTTP,
         TraceDownstreamGRPC, TraceDownstreamGRPCServerStream,
         TraceDownstreamGRPCClientStream, TraceDownstreamGRPCBidiStream
  <2>3. req.endpoint = "pubsub" => answers' \notin Successes
      BY <1>6, <2>1, FirstAnswer, RefusalIsNoSuccess DEF FrontNext, Refusals, Decode, TraceSimple, OpenCall, Send, Fail,
         RecvReply, CloseSend, Drain, Await, Finish, TraceDownstreamHTTP,
         TraceDownstreamGRPC, TraceDownstreamGRPCServerStream,
         TraceDownstreamGRPCClientStream, TraceDownstreamGRPCBidiStream
  <2> QED
      BY <2>1, <2>2, <2>3
<1>7. CASE Terminated
    BY <1>7 DEF Terminated
<1> QED
    BY <1>1, <1>2, <1>3, <1>4, <1>5, <1>6, <1>7 DEF Next

(* What TraceDownstreamPubSub confirmed is stored, whenever the process    *)
(* shuts down and closes its Pub/Sub client.                               *)
THEOREM PublicationIsKept == Spec => []PublishedIsKept
<1>1. Init => MessageInv
    BY RefusalIsNoSuccess DEF Init, MessageInv, Messages, None
<1>2. IInv /\ MessageInv /\ [Next]_vars => MessageInv'
    BY MessageInductive
<1>3. IInv /\ MessageInv => PublishedIsKept
    BY SuccessIs DEF IInv, MessageInv, PublishedIsKept
<1> QED
    BY <1>1, <1>2, <1>3, Invariance, PTL DEF Spec

=============================================================================
