------------------------ MODULE RequestScope_proofs ------------------------
(***************************************************************************)
(* Proofs about RequestScope, for any number of readers, any operations of *)
(* the handler, any status codes, requests and options: payloads are whole,*)
(* what is reported of a whole answer is what was sent, and the logger     *)
(* tells the truth about the client.                                       *)
(***************************************************************************)
EXTENDS RequestScope, FiniteSetTheorems, TLAPS

USE DEF scopeVars, serverVars, readVars, newVars, vars

Building == {"new", "scope", "logger"}
Over     == {"done", "answered"}
Ending   == {"status", "bytes", "latency"} \cup Over

Recorders == [status : Nat, wroteHeader : BOOLEAN, bytes : Nat]
Wires     == [status : Nat, held : Nat, bytes : Nat, head : BOOLEAN,
              broken : BOOLEAN, informed : BOOLEAN, flushed : BOOLEAN,
              hijacked : BOOLEAN, aborted : BOOLEAN]
Snapshots == [status : Int, size : Int, latency : Int]

(* The types of the scope's fields and of what they are made from.         *)
ScopeTypes ==
    /\ outbound \in BOOLEAN
    /\ status \in Nat
    /\ respBytes \in Nat \cup {Unset}
    /\ latency \in Nat \cup {Unset}
    /\ rr \in Recorders
    /\ wire \in Wires
    /\ hpc \in Building \cup {"run", "body"} \cup Ending
    /\ fin \in [status : Nat, bytes : Nat \cup {Unset}, latency : Int]

(* The types of what the readers keep.                                     *)
ReaderTypes ==
    /\ rpc \in [Readers -> {"idle", "size", "status", "again", "done"}]
    /\ kind \in [Readers -> {"none", "HTTPRequestAttr", "HTTPRequestFromScope"}]
    /\ snap \in [Readers -> Snapshots]

(* The latency is the last store of finalize, and the other two have been  *)
(* made before it.                                                         *)
FinalInv ==
    /\ latency # Unset <=> hpc \in Over
    /\ hpc \in Ending \ {"status"} => status = DefaultStatus(fin.status)

(* Recorder and scope count the same bytes all the time, and finalize is   *)
(* given the recorder's.  They are no fewer than what net/http has sent    *)
(* and still holds, and just those while nothing is taken to no purpose.   *)
(* An answer that has ended holds nothing back unless it was cut off.      *)
SizeInv ==
    ~outbound =>
        /\ respBytes = rr.bytes /\ wire.bytes + wire.held <= rr.bytes
        /\ ~wire.head /\ ~wire.broken => wire.bytes + wire.held = rr.bytes
        /\ hpc \in Ending => fin.bytes = rr.bytes
        /\ hpc \in Building => ~wire.head
        /\ hpc = "answered" /\ Whole => wire.held = 0

(* Nothing has come between the recorder's status and the wire's.          *)
Undisturbed == ~wire.hijacked /\ ~wire.informed /\ ~wire.flushed

(* The first header is the recorder's and the wire's; without one both     *)
(* have none, until the server itself sends one at the end.                *)
StatusInv ==
    ~outbound =>
        /\ hpc = "body" => rr.wroteHeader
        /\ rr.wroteHeader => rr.status > 0
        /\ ~rr.wroteHeader => rr.status = 0
        /\ Undisturbed /\ hpc # "answered" => wire.status = rr.status
        /\ hpc \in Ending => fin.status = DefaultStatus(rr.status)
        /\ Undisturbed /\ hpc = "answered" /\ ~wire.aborted =>
              wire.status = DefaultStatus(rr.status)

(* A reader that goes on after its first load has seen a final scope.      *)
ReaderInv ==
    \A g \in Readers :
        /\ rpc[g] \in {"idle", "again"} => snap[g].status = Unset
        /\ rpc[g] = "again" => kind[g] = "HTTPRequestAttr"
        /\ rpc[g] \in {"size", "status"} =>
              hpc \in Over /\ snap[g].latency = latency
        /\ rpc[g] = "size" => snap[g].status = Unset
        /\ rpc[g] = "status" => snap[g].size = respBytes

(* The scope is made from a request that has no status yet.                *)
RequestInv ==
    hpc \in Building => req \in Requests /\ status = 0

(* The inductive invariant.                                                *)
IInv == /\ ScopeTypes /\ ReaderTypes /\ FinalInv /\ SizeInv /\ StatusInv
        /\ ReaderInv /\ PayloadIsWhole /\ RequestInv /\ LoggerIsRight

-----------------------------------------------------------------------------
(* Operators and steps, field by field.                                    *)

(* Two answers with the same headers, that end the same way.               *)
SameHeaders(v, w) ==
    /\ v.status = w.status /\ v.informed = w.informed /\ v.flushed = w.flushed
    /\ v.hijacked = w.hijacked /\ v.aborted = w.aborted /\ v.head = w.head

(* Two answers with the same body on the same connection.                  *)
SameBody(v, w) ==
    /\ v.held = w.held /\ v.bytes = w.bytes
    /\ v.head = w.head /\ v.broken = w.broken

(* What net/http makes of a header, field by field.                        *)
LEMMA SendHeaderIs ==
    ASSUME NEW wr \in Wires, NEW code \in Nat
    PROVE  LET sent == SendHeader(wr, code)
               new  == wr.status = 0 /\ ~wr.hijacked
           IN  /\ sent \in Wires /\ SameBody(sent, wr)
               /\ sent.flushed = wr.flushed
               /\ sent.hijacked = wr.hijacked /\ sent.aborted = wr.aborted
               /\ sent.informed = (wr.informed \/ (new /\ Informational(code)))
               /\ sent.status = IF new /\ ~Informational(code) THEN code
                                ELSE wr.status
<1> USE DEF SameBody
<1>1. CASE wr.status # 0 \/ wr.hijacked
    BY <1>1 DEF SendHeader, Wires
<1>2. CASE ~(wr.status # 0 \/ wr.hijacked) /\ Informational(code)
    BY <1>2 DEF SendHeader, Wires
<1>3. CASE ~(wr.status # 0 \/ wr.hijacked) /\ ~Informational(code)
    BY <1>3 DEF SendHeader, Wires
<1> QED
    BY <1>1, <1>2, <1>3

(* The header the server sends of its own accord is not informational.     *)
LEMMA SendOKIs ==
    ASSUME NEW wr \in Wires
    PROVE  LET sent == SendHeader(wr, OK)
           IN  /\ sent \in Wires /\ SameBody(sent, wr)
               /\ sent.flushed = wr.flushed /\ sent.informed = wr.informed
               /\ sent.hijacked = wr.hijacked /\ sent.aborted = wr.aborted
               /\ sent.status = IF wr.status = 0 /\ ~wr.hijacked THEN OK
                                ELSE wr.status
<1>1. OK \in Nat /\ ~Informational(OK)
    BY DEF OK, Informational
<1>2. wr.informed \in BOOLEAN
    BY DEF Wires
<1> QED
    BY <1>1, <1>2, SendHeaderIs

(* What goes out of the buffer was in it.                                  *)
LEMMA PushedIs ==
    ASSUME NEW wr \in Wires, NEW v \in Pushed(wr)
    PROVE  /\ v \in Wires /\ SameHeaders(v, wr)
           /\ v.bytes + v.held = wr.bytes + wr.held
           /\ wr.broken => v.broken
<1>1. CASE wr.broken \/ wr.hijacked
    <2>1. v = wr
        BY <1>1 DEF Pushed
    <2> QED
        BY <2>1 DEF SameHeaders
<1>2. CASE ~(wr.broken \/ wr.hijacked)
    <2>1. PICK k \in 0..wr.held, b \in BOOLEAN :
             v = Push(wr, k, b)
        BY <1>2 DEF Pushed
    <2>2. k \in Nat /\ k <= wr.held /\ wr.held \in Nat /\ wr.bytes \in Nat
        BY DEF Wires
    <2>3. wr.bytes + k \in Nat /\ wr.held - k \in Nat
        BY <2>2
    <2>4. v \in Wires /\ SameHeaders(v, wr)
        BY <2>1, <2>3 DEF Push, Wires, SameHeaders
    <2>5. v.bytes = wr.bytes + k /\ v.held = wr.held - k
        BY <2>1 DEF Push, Wires
    <2> QED
        BY <1>2, <2>2, <2>4, <2>5
<1> QED
    BY <1>1, <1>2

(* And all of it goes out of a connection that holds.                      *)
LEMMA DrainedIs ==
    ASSUME NEW wr \in Wires, NEW v \in Drained(wr)
    PROVE  /\ v \in Wires /\ SameHeaders(v, wr)
           /\ v.bytes + v.held = wr.bytes + wr.held
           /\ wr.broken => v.broken
           /\ v.held = 0 \/ v.broken \/ v.hijacked
<1>1. v \in Pushed(wr) /\ (v.held = 0 \/ v.broken \/ v.hijacked)
    BY DEF Drained
<1> QED
    BY <1>1, PushedIs

(* A body comes after a header; what is taken is held unless it is lost.   *)
LEMMA SendBodyIs ==
    ASSUME NEW wr \in Wires, NEW n \in Nat
    PROVE  LET sent == SendBody(wr, n)
           IN  /\ sent \in Wires
               /\ sent.flushed = wr.flushed /\ sent.informed = wr.informed
               /\ sent.hijacked = wr.hijacked /\ sent.head = wr.head
               /\ sent.broken = wr.broken /\ sent.bytes = wr.bytes
               /\ sent.held = IF wr.head \/ wr.broken THEN wr.held ELSE wr.held + n
               /\ wr.status # 0 => sent.status = wr.status
<1> DEFINE v == SendHeader(wr, OK)
<1>1. /\ v \in Wires /\ SameBody(v, wr)
      /\ v.flushed = wr.flushed /\ v.informed = wr.informed
      /\ v.hijacked = wr.hijacked
      /\ wr.status # 0 => v.status = wr.status
    BY SendOKIs
<1>2. SendBody(wr, n) = IF v.head \/ v.broken THEN v
                        ELSE [v EXCEPT !.held = @ + n]
    BY DEF SendBody
<1> HIDE DEF v
<1>3. CASE v.head \/ v.broken
    <2>1. SendBody(wr, n) = v
        BY <1>2, <1>3
    <2>2. v.held = wr.held /\ v.bytes = wr.bytes /\ v.head = wr.head
        BY <1>1 DEF SameBody
    <2>3. v.broken = wr.broken /\ (wr.head \/ wr.broken)
        BY <1>1, <1>3 DEF SameBody
    <2> QED
        BY <1>1, <2>1, <2>2, <2>3
<1>4. CASE ~(v.head \/ v.broken)
    <2>1. SendBody(wr, n) = [v EXCEPT !.held = v.held + n] /\ v.held + n \in Nat
        BY <1>1, <1>2, <1>4 DEF Wires
    <2> DEFINE w == SendBody(wr, n)
    <2>2. /\ w \in Wires /\ w.held = v.held + n
          /\ w.flushed = v.flushed /\ w.informed = v.informed
          /\ w.hijacked = v.hijacked /\ w.head = v.head
          /\ w.broken = v.broken /\ w.bytes = v.bytes /\ w.status = v.status
        BY <1>1, <2>1 DEF Wires
    <2> HIDE DEF w
    <2>3. ~(wr.head \/ wr.broken)
        BY <1>1, <1>4 DEF SameBody
    <2>4. /\ w.held = wr.held + n /\ w.bytes = wr.bytes
          /\ w.head = wr.head /\ w.broken = wr.broken
        BY <1>1, <2>2 DEF SameBody
    <2>5. /\ w.flushed = wr.flushed /\ w.informed = wr.informed
          /\ w.hijacked = wr.hijacked
          /\ wr.status # 0 => w.status = wr.status
        BY <1>1, <2>2
    <2> QED
        BY <2>2, <2>3, <2>4, <2>5 DEF w
<1> QED
    BY <1>3, <1>4

(* What a header leaves in the recorder, the scope and on the wire.        *)
LEMMA RecordHeaderIs ==
    ASSUME rr \in Recorders, wire \in Wires, status \in Nat,
           NEW code \in Nat, RecordHeader(code)
    PROVE  /\ rr' \in Recorders /\ wire' \in Wires /\ status' \in Nat
           /\ rr'.bytes = rr.bytes /\ SameBody(wire', wire)
           /\ rr'.wroteHeader
           /\ rr'.status = IF rr.wroteHeader THEN rr.status ELSE code
           /\ wire' = SendHeader(wire, code)
<1>1. wire' \in Wires /\ SameBody(wire', wire) /\ wire' = SendHeader(wire, code)
    BY SendHeaderIs DEF RecordHeader
<1>2. CASE rr.wroteHeader
    BY <1>1, <1>2 DEF RecordHeader
<1>3. CASE ~rr.wroteHeader
    <2>1. rr' = [rr EXCEPT !.status = code, !.wroteHeader = TRUE]
        BY <1>3 DEF RecordHeader
    <2>2. status' \in Nat
        BY <1>3 DEF RecordHeader, DefaultStatus, OK
    <2>3. /\ rr' \in Recorders /\ rr'.bytes = rr.bytes
          /\ rr'.wroteHeader /\ rr'.status = code
        BY <2>1 DEF Recorders
    <2> QED
        BY <1>1, <1>3, <2>2, <2>3
<1> QED
    BY <1>2, <1>3

(* WriteHeader and BeginWrite record a header, or find that there is one.  *)
LEMMA HeaderIs ==
    ASSUME ScopeTypes, WriteHeader \/ BeginWrite
    PROVE  /\ rr' \in Recorders /\ wire' \in Wires /\ status' \in Nat
           /\ rr'.bytes = rr.bytes /\ SameBody(wire', wire)
           /\ rr'.wroteHeader
           /\ wire'.hijacked = wire.hijacked /\ wire'.flushed = wire.flushed
           /\ wire.informed => wire'.informed
           /\ rr.wroteHeader => rr'.status = rr.status
           /\ ~rr.wroteHeader => rr'.status > 0
           /\ wire.status # 0 => wire'.status = wire.status
           /\ (wire.status = 0 /\ ~rr.wroteHeader /\ ~wire.hijacked
               /\ ~wire'.informed) => wire'.status = rr'.status
           /\ ~outbound /\ hpc = "run"
<1> DEFINE Recorded == \E code \in Nat : code > 0 /\ RecordHeader(code)
<1>1. rr \in Recorders /\ wire \in Wires /\ status \in Nat
    BY DEF ScopeTypes
<1>2. Recorded \/ (rr.wroteHeader /\ UNCHANGED <<rr, wire, status>>)
    <2>1. CASE WriteHeader
        BY <2>1, ScopeAssumption DEF WriteHeader
    <2>2. CASE BeginWrite
        BY <2>2 DEF BeginWrite, OK
    <2> QED
        BY <2>1, <2>2
<1>3. ~outbound /\ hpc = "run"
    BY DEF WriteHeader, BeginWrite, HandlerMay
<1>4. CASE rr.wroteHeader /\ UNCHANGED <<rr, wire, status>>
    BY <1>1, <1>3, <1>4 DEF SameBody
<1>5. CASE Recorded
    <2>1. PICK code \in Nat : code > 0 /\ RecordHeader(code)
        BY <1>5
    <2>2. /\ rr' \in Recorders /\ wire' \in Wires /\ status' \in Nat
          /\ rr'.bytes = rr.bytes /\ SameBody(wire', wire)
          /\ rr'.wroteHeader
          /\ rr'.status = IF rr.wroteHeader THEN rr.status ELSE code
          /\ wire' = SendHeader(wire, code)
        BY <1>1, <2>1, RecordHeaderIs
    <2>3. /\ wire'.hijacked = wire.hijacked /\ wire'.flushed = wire.flushed
          /\ wire'.informed <=> (wire.informed \/ (/\ wire.status = 0 /\ ~wire.hijacked
                                                 /\ Informational(code)))
          /\ wire'.status = IF wire.status = 0 /\ ~wire.hijacked
                               /\ ~Informational(code)
                            THEN code ELSE wire.status
        BY <1>1, <2>2, SendHeaderIs
    <2> QED
        BY <1>3, <2>1, <2>2, <2>3
<1> QED
    BY <1>2, <1>4, <1>5

(* EndWrite counts what Write took; what the client gets of it was held.   *)
LEMMA EndWriteIs ==
    ASSUME ScopeTypes, EndWrite
    PROVE  \E n \in Nat :
              /\ wire' \in Wires /\ wire'.head = wire.head
              /\ wire'.hijacked = wire.hijacked /\ wire'.informed = wire.informed
              /\ wire'.flushed = wire.flushed
              /\ wire.status # 0 => wire'.status = wire.status
              /\ wire'.bytes + wire'.held
                    = wire.bytes + IF wire.head \/ wire.broken THEN wire.held
                                   ELSE wire.held + n
              /\ wire.broken => wire'.broken
              /\ rr' \in Recorders /\ rr'.bytes = rr.bytes + n
              /\ rr'.status = rr.status /\ rr'.wroteHeader = rr.wroteHeader
              /\ respBytes' = respBytes + n
<1>1. PICK n \in Nat : /\ wire' \in Pushed(SendBody(wire, n))
                       /\ rr' = [rr EXCEPT !.bytes = @ + n]
                       /\ respBytes' = respBytes + n
    <2>1. Takes(wire) \subseteq Nat
        BY ScopeAssumption DEF Takes
    <2> QED
        BY <2>1 DEF EndWrite
<1> DEFINE v == SendBody(wire, n)
<1>2. wire \in Wires
    BY DEF ScopeTypes
<1>3. /\ v \in Wires
      /\ v.flushed = wire.flushed /\ v.informed = wire.informed
      /\ v.hijacked = wire.hijacked /\ v.head = wire.head
      /\ v.broken = wire.broken /\ v.bytes = wire.bytes
      /\ v.held = IF wire.head \/ wire.broken THEN wire.held ELSE wire.held + n
      /\ wire.status # 0 => v.status = wire.status
    BY <1>2, SendBodyIs
<1>4. wire' \in Pushed(v)
    BY <1>1
<1> HIDE DEF v
<1>5. /\ wire' \in Wires /\ SameHeaders(wire', v)
      /\ wire'.bytes + wire'.held = v.bytes + v.held
      /\ v.broken => wire'.broken
    BY <1>3, <1>4, PushedIs
<1>6. /\ rr' \in Recorders /\ rr'.bytes = rr.bytes + n
      /\ rr'.status = rr.status /\ rr'.wroteHeader = rr.wroteHeader
    BY <1>1 DEF ScopeTypes, Recorders
<1> QED
    BY <1>1, <1>3, <1>5, <1>6 DEF SameHeaders

(* Flush may send a header that the recorder does not know of.             *)
LEMMA FlushIs ==
    ASSUME ScopeTypes, Flush
    PROVE  /\ wire' \in Wires /\ wire'.head = wire.head
           /\ wire'.bytes + wire'.held = wire.bytes + wire.held
           /\ wire.broken => wire'.broken
           /\ wire'.hijacked = wire.hijacked /\ wire'.informed = wire.informed
           /\ wire.flushed => wire'.flushed
           /\ wire.status = 0 => wire'.flushed
           /\ wire.status # 0 => wire'.status = wire.status
<1> DEFINE v == SendHeader(wire, OK)
<1>1. /\ v \in Wires /\ SameBody(v, wire) /\ v.flushed = wire.flushed
      /\ v.hijacked = wire.hijacked /\ v.informed = wire.informed
      /\ wire.status # 0 => v.status = wire.status
    BY SendOKIs DEF ScopeTypes
<1>2. PICK w \in Drained(v) : wire' = [w EXCEPT !.flushed = @ \/ wire.status = 0]
    BY DEF Flush
<1> HIDE DEF v
<1>3. /\ w \in Wires /\ SameHeaders(w, v)
      /\ w.bytes + w.held = v.bytes + v.held
      /\ v.broken => w.broken
    BY <1>1, <1>2, DrainedIs
<1>4. /\ wire' \in Wires /\ SameBody(wire', w)
      /\ wire'.status = w.status /\ wire'.informed = w.informed
      /\ wire'.hijacked = w.hijacked
      /\ wire'.flushed = (w.flushed \/ wire.status = 0)
    BY <1>2, <1>3 DEF Wires, SameBody
<1> QED
    BY <1>1, <1>3, <1>4 DEF SameBody, SameHeaders

(* ServeHTTP finalizes with what the recorder holds.                       *)
LEMMA ServeHTTPIs ==
    ASSUME ScopeTypes, ServeHTTP
    PROVE  /\ wire' \in Wires /\ SameBody(wire', wire)
           /\ wire'.hijacked = wire.hijacked /\ wire'.informed = wire.informed
           /\ wire'.flushed = wire.flushed /\ wire'.status = wire.status
           /\ fin'.status = DefaultStatus(rr.status) /\ fin'.bytes = rr.bytes
           /\ fin' \in [status : Nat, bytes : Nat \cup {Unset}, latency : Int]
<1>1. wire \in Wires /\ rr \in Recorders
    BY DEF ScopeTypes
<1>2. DefaultStatus(rr.status) \in Nat /\ rr.bytes \in Nat
    BY <1>1 DEF Recorders, DefaultStatus, OK
<1>3. PICK d \in Int : fin' = [status |-> DefaultStatus(rr.status),
                               bytes |-> rr.bytes, latency |-> d]
    BY ScopeAssumption DEF ServeHTTP, Finalize
<1>4. CASE UNCHANGED wire
    BY <1>1, <1>2, <1>3, <1>4 DEF SameBody
<1>5. CASE wire' = [wire EXCEPT !.aborted = TRUE]
    <2>1. /\ wire' \in Wires /\ SameBody(wire', wire)
          /\ wire'.hijacked = wire.hijacked /\ wire'.informed = wire.informed
          /\ wire'.flushed = wire.flushed /\ wire'.status = wire.status
        BY <1>1, <1>5 DEF Wires, SameBody
    <2> QED
        BY <1>2, <1>3, <2>1
<1> QED
    BY <1>4, <1>5 DEF ServeHTTP

(* The server ends the answer with what it holds, unless the handler       *)
(* panicked, and it has a status then.                                     *)
LEMMA EndAnswerIs ==
    ASSUME ScopeTypes, EndAnswer
    PROVE  /\ wire' \in Wires /\ wire'.head = wire.head
           /\ wire'.bytes + wire'.held = wire.bytes + wire.held
           /\ wire.broken => wire'.broken
           /\ Whole' => wire'.held = 0
           /\ wire'.hijacked = wire.hijacked /\ wire'.informed = wire.informed
           /\ wire'.flushed = wire.flushed /\ wire'.aborted = wire.aborted
           /\ (~wire.hijacked /\ ~wire.aborted)
              => wire'.status = IF wire.status = 0 THEN OK ELSE wire.status
<1>1. wire \in Wires
    BY DEF ScopeTypes
<1>2. CASE wire.aborted
    <2>1. wire' \in Pushed(wire)
        BY <1>2 DEF EndAnswer
    <2> QED
        BY <1>1, <1>2, <2>1, PushedIs DEF SameHeaders, Whole
<1>3. CASE ~wire.aborted
    <2> DEFINE v == SendHeader(wire, OK)
    <2>1. wire' \in Drained(v)
        BY <1>3 DEF EndAnswer
    <2>2. /\ v \in Wires /\ SameBody(v, wire)
          /\ v.flushed = wire.flushed /\ v.informed = wire.informed
          /\ v.hijacked = wire.hijacked /\ v.aborted = wire.aborted
          /\ v.status = IF wire.status = 0 /\ ~wire.hijacked THEN OK ELSE wire.status
        BY <1>1, SendOKIs
    <2> HIDE DEF v
    <2>3. /\ wire' \in Wires /\ SameHeaders(wire', v)
          /\ wire'.bytes + wire'.held = v.bytes + v.held
          /\ v.broken => wire'.broken
          /\ wire'.held = 0 \/ wire'.broken \/ wire'.hijacked
        BY <2>1, <2>2, DrainedIs
    <2> QED
        BY <2>2, <2>3 DEF SameHeaders, SameBody, Whole
<1> QED
    BY <1>2, <1>3

(* Hijack takes the connection and leaves what was sent.                   *)
LEMMA HijackIs ==
    ASSUME ScopeTypes, Hijack
    PROVE  /\ wire' \in Wires /\ wire'.hijacked
           /\ SameBody(wire', wire) /\ wire'.status = wire.status
           /\ wire'.aborted = wire.aborted
<1>1. wire \in Wires /\ wire' = [wire EXCEPT !.hijacked = TRUE]
    BY DEF ScopeTypes, Hijack
<1> QED
    BY <1>1 DEF Wires, SameBody

(* Begin tells the server whether a body is wanted.                        *)
LEMMA BeginIs ==
    ASSUME ScopeTypes, Begin
    PROVE  /\ wire' \in Wires
           /\ wire'.bytes = wire.bytes /\ wire'.held = wire.held
           /\ wire'.broken = wire.broken /\ wire'.status = wire.status
           /\ wire'.hijacked = wire.hijacked /\ wire'.informed = wire.informed
           /\ wire'.flushed = wire.flushed /\ wire'.aborted = wire.aborted
<1>1. wire \in Wires
    BY DEF ScopeTypes
<1>2. PICK h \in BOOLEAN : wire' = [wire EXCEPT !.head = h]
    BY DEF Begin, ScopeTypes
<1> QED
    BY <1>1, <1>2 DEF Wires

(* A load goes into one field of a reader's snapshot.                      *)
LEMMA SnapTypes ==
    ASSUME NEW s \in [Readers -> Snapshots], NEW g \in Readers, NEW v \in Int
    PROVE  /\ [s EXCEPT ![g].latency = v] \in [Readers -> Snapshots]
           /\ [s EXCEPT ![g].size = v] \in [Readers -> Snapshots]
           /\ [s EXCEPT ![g].status = v] \in [Readers -> Snapshots]
<1>1. s[g] \in Snapshots
    OBVIOUS
<1>2. /\ [s[g] EXCEPT !.latency = v] \in Snapshots
      /\ [s[g] EXCEPT !.size = v] \in Snapshots
      /\ [s[g] EXCEPT !.status = v] \in Snapshots
    BY <1>1 DEF Snapshots
<1> QED
    BY <1>2

-----------------------------------------------------------------------------
(* Types.                                                                  *)

(* The scope, the recorder and the wire keep their types.                  *)
LEMMA ScopeTypesStep == ScopeTypes /\ [Next]_vars => ScopeTypes'
<1> SUFFICES ASSUME ScopeTypes, [Next]_vars PROVE ScopeTypes'
    OBVIOUS
<1> USE ScopeAssumption DEF ScopeTypes, Building, Ending, Over, Unset, OK,
        DefaultStatus
<1>1. CASE NewRequestScope
    BY <1>1 DEF NewRequestScope
<1>2. CASE NewClientScope
    BY <1>2 DEF NewClientScope
<1>3. CASE AttachLogger
    BY <1>3 DEF AttachLogger
<1>4. CASE Begin
    BY <1>4, BeginIs DEF Begin
<1>5. CASE WriteHeader
    BY <1>5, HeaderIs DEF WriteHeader, HandlerMay
<1>6. CASE BeginWrite
    BY <1>6, HeaderIs DEF BeginWrite, HandlerMay
<1>7. CASE EndWrite
    BY <1>7, EndWriteIs DEF EndWrite
<1>8. CASE Flush
    BY <1>8, FlushIs DEF Flush, HandlerMay
<1>9. CASE Hijack
    BY <1>9, HijackIs DEF Hijack, HandlerMay
<1>10. CASE ServeHTTP
    BY <1>10, ServeHTTPIs DEF ServeHTTP, Finalize
<1>11. CASE RoundTrip
    <2>1. PICK code \in Nat, n \in Nat \cup {Unset}, d \in Int :
             fin' = [status |-> code, bytes |-> n, latency |-> d]
        <3>1. CASE \E code \in Codes, n \in -1..MaxChunk : Finalize(code, n)
            <4>1. PICK code \in Codes, n \in -1..MaxChunk : Finalize(code, n)
                BY <3>1
            <4>2. code \in Nat /\ n \in Nat \cup {Unset}
                BY DEF Unset
            <4> QED
                BY <4>1, <4>2 DEF Finalize
        <3>2. CASE Finalize(0, respBytes)
            BY <3>2 DEF Finalize
        <3> QED
            BY <1>11, <3>1, <3>2 DEF RoundTrip
    <2>2. fin' \in [status : Nat, bytes : Nat \cup {Unset}, latency : Int]
        BY <2>1
    <2> QED
        BY <1>11, <2>2 DEF RoundTrip, Finalize
<1>12. CASE FinalizeStatus
    BY <1>12 DEF FinalizeStatus
<1>13. CASE FinalizeBytes
    BY <1>13 DEF FinalizeBytes
<1>14. CASE FinalizeLatency
    BY <1>14 DEF FinalizeLatency
<1>15. ASSUME NEW g \in Readers, ReadLatency(g) PROVE ScopeTypes'
    BY <1>15 DEF ReadLatency
<1>16. ASSUME NEW g \in Readers, ReadSize(g) PROVE ScopeTypes'
    BY <1>16 DEF ReadSize
<1>17. ASSUME NEW g \in Readers, ReadStatus(g) PROVE ScopeTypes'
    BY <1>17 DEF ReadStatus
<1>18. ASSUME NEW g \in Readers, LatencyForLogging(g) PROVE ScopeTypes'
    BY <1>18 DEF LatencyForLogging
<1>19. CASE UNCHANGED vars
    BY <1>19
<1>20. CASE EndAnswer
    BY <1>20, EndAnswerIs DEF EndAnswer
<1> QED
    BY <1>1, <1>2, <1>3, <1>4, <1>5, <1>6, <1>7, <1>8, <1>9, <1>10, <1>11,
       <1>12, <1>13, <1>14, <1>15, <1>16, <1>17, <1>18, <1>19, <1>20
       DEF Next, Construct, Handler, Finish, Reader, Terminated

(* The readers keep the types of what they read.                           *)
LEMMA ReaderTypesStep ==
    ScopeTypes /\ ReaderTypes /\ [Next]_vars
    => ReaderTypes'
<1> SUFFICES ASSUME ScopeTypes, ReaderTypes, [Next]_vars PROVE ReaderTypes'
    OBVIOUS
<1> USE ScopeAssumption DEF ScopeTypes, ReaderTypes, Unset, OK, DefaultStatus
<1>1. CASE NewRequestScope
    BY <1>1 DEF NewRequestScope
<1>2. CASE NewClientScope
    BY <1>2 DEF NewClientScope
<1>3. CASE AttachLogger
    BY <1>3 DEF AttachLogger
<1>4. CASE Begin
    BY <1>4 DEF Begin
<1>5. CASE WriteHeader
    BY <1>5 DEF WriteHeader, HandlerMay
<1>6. CASE BeginWrite
    BY <1>6 DEF BeginWrite, HandlerMay
<1>7. CASE EndWrite
    BY <1>7 DEF EndWrite
<1>8. CASE Flush
    BY <1>8 DEF Flush, HandlerMay
<1>9. CASE Hijack
    BY <1>9 DEF Hijack, HandlerMay
<1>10. CASE ServeHTTP
    BY <1>10 DEF ServeHTTP, Finalize
<1>11. CASE RoundTrip
    BY <1>11 DEF RoundTrip, Finalize
<1>12. CASE FinalizeStatus
    BY <1>12 DEF FinalizeStatus
<1>13. CASE FinalizeBytes
    BY <1>13 DEF FinalizeBytes
<1>14. CASE FinalizeLatency
    BY <1>14 DEF FinalizeLatency
<1>15. ASSUME NEW g \in Readers, ReadLatency(g) PROVE ReaderTypes'
    <2>1. latency \in Int
        BY DEF Unset, DefaultStatus, OK
    <2>2. snap' \in [Readers -> Snapshots]
        BY <1>15, <2>1, SnapTypes DEF ReadLatency
    <2> QED
        BY <1>15, <2>2 DEF ReadLatency
<1>16. ASSUME NEW g \in Readers, ReadSize(g) PROVE ReaderTypes'
    <2>1. respBytes \in Int
        BY DEF Unset, DefaultStatus, OK
    <2>2. snap' \in [Readers -> Snapshots]
        BY <1>16, <2>1, SnapTypes DEF ReadSize
    <2> QED
        BY <1>16, <2>2 DEF ReadSize
<1>17. ASSUME NEW g \in Readers, ReadStatus(g) PROVE ReaderTypes'
    <2>1. DefaultStatus(status) \in Int
        BY DEF Unset, DefaultStatus, OK
    <2>2. snap' \in [Readers -> Snapshots]
        BY <1>17, <2>1, SnapTypes DEF ReadStatus
    <2> QED
        BY <1>17, <2>2 DEF ReadStatus
<1>18. ASSUME NEW g \in Readers, LatencyForLogging(g) PROVE ReaderTypes'
    <2>1. latency \in Int
        BY DEF Unset, DefaultStatus, OK
    <2>2. snap' \in [Readers -> Snapshots]
        BY <1>18, <2>1, SnapTypes DEF LatencyForLogging
    <2> QED
        BY <1>18, <2>2 DEF LatencyForLogging
<1>19. CASE UNCHANGED vars
    BY <1>19
<1>20. CASE EndAnswer
    BY <1>20 DEF EndAnswer
<1> QED
    BY <1>1, <1>2, <1>3, <1>4, <1>5, <1>6, <1>7, <1>8, <1>9, <1>10, <1>11,
       <1>12, <1>13, <1>14, <1>15, <1>16, <1>17, <1>18, <1>19, <1>20
       DEF Next, Construct, Handler, Finish, Reader, Terminated

-----------------------------------------------------------------------------
(* The answer.                                                             *)

(* finalize stores the latency last, and nobody stores after it.           *)
LEMMA FinalStep == ScopeTypes /\ FinalInv /\ [Next]_vars => FinalInv'
<1> SUFFICES ASSUME ScopeTypes, FinalInv, [Next]_vars PROVE FinalInv'
    OBVIOUS
<1> USE ScopeAssumption DEF ScopeTypes, FinalInv, Building, Ending, Over, Unset
<1>1. CASE NewRequestScope
    BY <1>1 DEF NewRequestScope
<1>2. CASE NewClientScope
    BY <1>2 DEF NewClientScope
<1>3. CASE AttachLogger
    BY <1>3 DEF AttachLogger
<1>4. CASE Begin
    BY <1>4 DEF Begin
<1>5. CASE WriteHeader
    BY <1>5 DEF WriteHeader, HandlerMay
<1>6. CASE BeginWrite
    BY <1>6 DEF BeginWrite, HandlerMay
<1>7. CASE EndWrite
    BY <1>7 DEF EndWrite
<1>8. CASE Flush
    BY <1>8 DEF Flush, HandlerMay
<1>9. CASE Hijack
    BY <1>9 DEF Hijack, HandlerMay
<1>10. CASE ServeHTTP
    BY <1>10 DEF ServeHTTP, Finalize
<1>11. CASE RoundTrip
    BY <1>11 DEF RoundTrip, Finalize
<1>12. CASE FinalizeStatus
    BY <1>12 DEF FinalizeStatus
<1>13. CASE FinalizeBytes
    BY <1>13 DEF FinalizeBytes
<1>14. CASE FinalizeLatency
    BY <1>14 DEF FinalizeLatency
<1>15. ASSUME NEW g \in Readers, ReadLatency(g) PROVE FinalInv'
    BY <1>15 DEF ReadLatency
<1>16. ASSUME NEW g \in Readers, ReadSize(g) PROVE FinalInv'
    BY <1>16 DEF ReadSize
<1>17. ASSUME NEW g \in Readers, ReadStatus(g) PROVE FinalInv'
    BY <1>17 DEF ReadStatus
<1>18. ASSUME NEW g \in Readers, LatencyForLogging(g) PROVE FinalInv'
    BY <1>18 DEF LatencyForLogging
<1>19. CASE UNCHANGED vars
    BY <1>19
<1>20. CASE EndAnswer
    BY <1>20 DEF EndAnswer
<1> QED
    BY <1>1, <1>2, <1>3, <1>4, <1>5, <1>6, <1>7, <1>8, <1>9, <1>10, <1>11,
       <1>12, <1>13, <1>14, <1>15, <1>16, <1>17, <1>18, <1>19, <1>20
       DEF Next, Construct, Handler, Finish, Reader, Terminated

(* Every byte is counted three times.                                      *)
LEMMA SizeStep == ScopeTypes /\ SizeInv /\ [Next]_vars => SizeInv'
<1> SUFFICES ASSUME ScopeTypes, SizeInv, [Next]_vars PROVE SizeInv'
    OBVIOUS
<1> USE ScopeAssumption DEF ScopeTypes, SizeInv, Building, Ending, Over, Unset, SameBody,
        Whole
<1>1. CASE NewRequestScope
    BY <1>1 DEF NewRequestScope
<1>2. CASE NewClientScope
    BY <1>2 DEF NewClientScope
<1>3. CASE AttachLogger
    BY <1>3 DEF AttachLogger
<1>4. CASE Begin
    BY <1>4, BeginIs DEF Begin
<1>5. CASE WriteHeader
    BY <1>5, HeaderIs DEF WriteHeader, HandlerMay
<1>6. CASE BeginWrite
    BY <1>6, HeaderIs DEF BeginWrite, HandlerMay
<1>7. CASE EndWrite
    <2>1. PICK n \in Nat :
             /\ wire' \in Wires /\ wire'.head = wire.head
             /\ wire'.bytes + wire'.held
                   = wire.bytes + IF wire.head \/ wire.broken THEN wire.held
                                  ELSE wire.held + n
             /\ wire.broken => wire'.broken
             /\ rr'.bytes = rr.bytes + n
             /\ respBytes' = respBytes + n
        BY <1>7, EndWriteIs
    <2>2. hpc = "body" /\ hpc' = "run" /\ outbound' = outbound /\ fin' = fin
        BY <1>7 DEF EndWrite
    <2>3. wire \in Wires /\ rr \in Recorders
        OBVIOUS
    <2>4. CASE outbound
        BY <2>2, <2>4
    <2>5. CASE ~outbound
        <3>1. wire'.bytes + wire'.held <= rr'.bytes
            BY <2>1, <2>3, <2>5 DEF Wires, Recorders
        <3>2. ~wire'.head /\ ~wire'.broken
              => wire'.bytes + wire'.held = rr'.bytes
            BY <2>1, <2>3, <2>5 DEF Wires, Recorders
        <3>3. respBytes' = rr'.bytes
            BY <2>1, <2>5
        <3> QED
            BY <2>2, <2>5, <3>1, <3>2, <3>3
    <2> QED
        BY <2>4, <2>5
<1>8. CASE Flush
    BY <1>8, FlushIs DEF Flush, HandlerMay
<1>9. CASE Hijack
    BY <1>9, HijackIs DEF Hijack, HandlerMay
<1>10. CASE ServeHTTP
    BY <1>10, ServeHTTPIs DEF ServeHTTP, Finalize
<1>11. CASE RoundTrip
    BY <1>11 DEF RoundTrip, Finalize
<1>12. CASE FinalizeStatus
    BY <1>12 DEF FinalizeStatus
<1>13. CASE FinalizeBytes
    BY <1>13 DEF FinalizeBytes
<1>14. CASE FinalizeLatency
    BY <1>14 DEF FinalizeLatency
<1>15. ASSUME NEW g \in Readers, ReadLatency(g) PROVE SizeInv'
    BY <1>15 DEF ReadLatency
<1>16. ASSUME NEW g \in Readers, ReadSize(g) PROVE SizeInv'
    BY <1>16 DEF ReadSize
<1>17. ASSUME NEW g \in Readers, ReadStatus(g) PROVE SizeInv'
    BY <1>17 DEF ReadStatus
<1>18. ASSUME NEW g \in Readers, LatencyForLogging(g) PROVE SizeInv'
    BY <1>18 DEF LatencyForLogging
<1>19. CASE UNCHANGED vars
    BY <1>19
<1>20. CASE EndAnswer
    BY <1>20, EndAnswerIs DEF EndAnswer
<1> QED
    BY <1>1, <1>2, <1>3, <1>4, <1>5, <1>6, <1>7, <1>8, <1>9, <1>10, <1>11,
       <1>12, <1>13, <1>14, <1>15, <1>16, <1>17, <1>18, <1>19, <1>20
       DEF Next, Construct, Handler, Finish, Reader, Terminated

(* The first header counts, here and on the wire.                          *)
LEMMA StatusStep == ScopeTypes /\ StatusInv /\ [Next]_vars => StatusInv'
<1> SUFFICES ASSUME ScopeTypes, StatusInv, [Next]_vars PROVE StatusInv'
    OBVIOUS
<1> USE ScopeAssumption DEF ScopeTypes, StatusInv, Undisturbed, Building,
        Ending, Over, OK, DefaultStatus
<1>1. CASE NewRequestScope
    BY <1>1 DEF NewRequestScope
<1>2. CASE NewClientScope
    BY <1>2 DEF NewClientScope
<1>3. CASE AttachLogger
    BY <1>3 DEF AttachLogger
<1>4. CASE Begin
    BY <1>4, BeginIs DEF Begin
<1>5. CASE WriteHeader
    BY <1>5, HeaderIs DEF WriteHeader, HandlerMay
<1>6. CASE BeginWrite
    BY <1>6, HeaderIs DEF BeginWrite, HandlerMay
<1>7. CASE EndWrite
    <2>1. rr'.status = rr.status /\ rr'.wroteHeader = rr.wroteHeader
        BY <1>7, EndWriteIs
    <2>2. /\ wire'.hijacked = wire.hijacked /\ wire'.informed = wire.informed
          /\ wire'.flushed = wire.flushed
          /\ wire.status # 0 => wire'.status = wire.status
        BY <1>7, EndWriteIs
    <2>3. hpc = "body" /\ hpc' = "run" /\ outbound' = outbound
        BY <1>7 DEF EndWrite
    <2>4. CASE ~outbound
        <3>1. rr.wroteHeader /\ rr.status > 0
            BY <2>3, <2>4
        <3>2. Undisturbed' => wire'.status = rr'.status
            BY <2>1, <2>2, <2>3, <2>4, <3>1
        <3> QED
            BY <2>1, <2>3, <2>4, <3>1, <3>2
    <2> QED
        BY <2>3, <2>4
<1>8. CASE Flush
    BY <1>8, FlushIs DEF Flush, HandlerMay
<1>9. CASE Hijack
    BY <1>9, HijackIs DEF Hijack, HandlerMay
<1>10. CASE ServeHTTP
    BY <1>10, ServeHTTPIs DEF ServeHTTP, Finalize
<1>11. CASE RoundTrip
    BY <1>11 DEF RoundTrip, Finalize
<1>12. CASE FinalizeStatus
    BY <1>12 DEF FinalizeStatus
<1>13. CASE FinalizeBytes
    BY <1>13 DEF FinalizeBytes
<1>14. CASE FinalizeLatency
    BY <1>14 DEF FinalizeLatency
<1>15. ASSUME NEW g \in Readers, ReadLatency(g) PROVE StatusInv'
    BY <1>15 DEF ReadLatency
<1>16. ASSUME NEW g \in Readers, ReadSize(g) PROVE StatusInv'
    BY <1>16 DEF ReadSize
<1>17. ASSUME NEW g \in Readers, ReadStatus(g) PROVE StatusInv'
    BY <1>17 DEF ReadStatus
<1>18. ASSUME NEW g \in Readers, LatencyForLogging(g) PROVE StatusInv'
    BY <1>18 DEF LatencyForLogging
<1>19. CASE UNCHANGED vars
    BY <1>19
<1>20. CASE EndAnswer
    <2>1. /\ wire'.hijacked = wire.hijacked /\ wire'.informed = wire.informed
          /\ wire'.flushed = wire.flushed /\ wire'.aborted = wire.aborted
          /\ (~wire.hijacked /\ ~wire.aborted)
             => wire'.status = IF wire.status = 0 THEN OK ELSE wire.status
        BY <1>20, EndAnswerIs
    <2>2. /\ ~outbound /\ hpc = "done" /\ hpc' = "answered"
          /\ outbound' = outbound /\ rr' = rr /\ fin' = fin
        BY <1>20 DEF EndAnswer
    <2>3. (Undisturbed' /\ ~wire'.aborted) => wire'.status = DefaultStatus(rr.status)
        BY <2>1, <2>2 DEF Recorders
    <2> QED
        BY <2>1, <2>2, <2>3
<1> QED
    BY <1>1, <1>2, <1>3, <1>4, <1>5, <1>6, <1>7, <1>8, <1>9, <1>10, <1>11,
       <1>12, <1>13, <1>14, <1>15, <1>16, <1>17, <1>18, <1>19, <1>20
       DEF Next, Construct, Handler, Finish, Reader, Terminated

-----------------------------------------------------------------------------
(* Payloads.                                                               *)

(* A final scope stays what a reader has read.                             *)
LEMMA ReaderStep ==
    ScopeTypes /\ ReaderTypes /\ FinalInv /\ ReaderInv /\ [Next]_vars
    => ReaderInv'
<1> SUFFICES ASSUME ScopeTypes, ReaderTypes, FinalInv, ReaderInv, [Next]_vars
             PROVE  ReaderInv'
    OBVIOUS
<1> USE ScopeAssumption DEF ScopeTypes, ReaderTypes, FinalInv, ReaderInv,
        Building, Ending, Over, Unset
<1>1. CASE NewRequestScope
    BY <1>1 DEF NewRequestScope
<1>2. CASE NewClientScope
    BY <1>2 DEF NewClientScope
<1>3. CASE AttachLogger
    BY <1>3 DEF AttachLogger
<1>4. CASE Begin
    BY <1>4 DEF Begin
<1>5. CASE WriteHeader
    BY <1>5 DEF WriteHeader, HandlerMay
<1>6. CASE BeginWrite
    BY <1>6 DEF BeginWrite, HandlerMay
<1>7. CASE EndWrite
    BY <1>7 DEF EndWrite
<1>8. CASE Flush
    BY <1>8 DEF Flush, HandlerMay
<1>9. CASE Hijack
    BY <1>9 DEF Hijack, HandlerMay
<1>10. CASE ServeHTTP
    BY <1>10 DEF ServeHTTP, Finalize
<1>11. CASE RoundTrip
    BY <1>11 DEF RoundTrip, Finalize
<1>12. CASE FinalizeStatus
    BY <1>12 DEF FinalizeStatus
<1>13. CASE FinalizeBytes
    BY <1>13 DEF FinalizeBytes
<1>14. CASE FinalizeLatency
    BY <1>14 DEF FinalizeLatency
<1>15. ASSUME NEW g \in Readers, ReadLatency(g) PROVE ReaderInv'
    BY <1>15 DEF ReadLatency
<1>16. ASSUME NEW g \in Readers, ReadSize(g) PROVE ReaderInv'
    BY <1>16 DEF ReadSize
<1>17. ASSUME NEW g \in Readers, ReadStatus(g) PROVE ReaderInv'
    BY <1>17 DEF ReadStatus
<1>18. ASSUME NEW g \in Readers, LatencyForLogging(g) PROVE ReaderInv'
    BY <1>18 DEF LatencyForLogging
<1>19. CASE UNCHANGED vars
    BY <1>19
<1>20. CASE EndAnswer
    BY <1>20 DEF EndAnswer
<1> QED
    BY <1>1, <1>2, <1>3, <1>4, <1>5, <1>6, <1>7, <1>8, <1>9, <1>10, <1>11,
       <1>12, <1>13, <1>14, <1>15, <1>16, <1>17, <1>18, <1>19, <1>20
       DEF Next, Construct, Handler, Finish, Reader, Terminated

(* A payload is finished from one final scope or shows no status.          *)
LEMMA PayloadStep ==
    ScopeTypes /\ ReaderTypes /\ FinalInv /\ ReaderInv /\ PayloadIsWhole /\ [Next]_vars
    => PayloadIsWhole'
<1> SUFFICES ASSUME ScopeTypes, ReaderTypes, FinalInv, ReaderInv,
                     PayloadIsWhole, [Next]_vars
             PROVE  PayloadIsWhole'
    OBVIOUS
<1> USE ScopeAssumption DEF ScopeTypes, ReaderTypes, FinalInv, ReaderInv,
        PayloadIsWhole, SnapshotIsFinal, FromScopeIsWhole, Shown, Building,
        Ending, Over, Unset, OK, DefaultStatus
<1>1. CASE NewRequestScope
    BY <1>1 DEF NewRequestScope
<1>2. CASE NewClientScope
    BY <1>2 DEF NewClientScope
<1>3. CASE AttachLogger
    BY <1>3 DEF AttachLogger
<1>4. CASE Begin
    BY <1>4 DEF Begin
<1>5. CASE WriteHeader
    BY <1>5 DEF WriteHeader, HandlerMay
<1>6. CASE BeginWrite
    BY <1>6 DEF BeginWrite, HandlerMay
<1>7. CASE EndWrite
    BY <1>7 DEF EndWrite
<1>8. CASE Flush
    BY <1>8 DEF Flush, HandlerMay
<1>9. CASE Hijack
    BY <1>9 DEF Hijack, HandlerMay
<1>10. CASE ServeHTTP
    BY <1>10 DEF ServeHTTP, Finalize
<1>11. CASE RoundTrip
    BY <1>11 DEF RoundTrip, Finalize
<1>12. CASE FinalizeStatus
    BY <1>12 DEF FinalizeStatus
<1>13. CASE FinalizeBytes
    BY <1>13 DEF FinalizeBytes
<1>14. CASE FinalizeLatency
    BY <1>14 DEF FinalizeLatency
<1>15. ASSUME NEW g \in Readers, ReadLatency(g) PROVE PayloadIsWhole'
    BY <1>15 DEF ReadLatency
<1>16. ASSUME NEW g \in Readers, ReadSize(g) PROVE PayloadIsWhole'
    BY <1>16 DEF ReadSize
<1>17. ASSUME NEW g \in Readers, ReadStatus(g) PROVE PayloadIsWhole'
    <2>1. /\ rpc[g] = "status" /\ hpc \in Over /\ snap[g].latency = latency
          /\ snap[g].size = respBytes /\ latency # Unset
        BY <1>17 DEF ReadStatus
    <2>2. status > 0
        BY <2>1
    <2>3. DefaultStatus(status) = status
        BY <2>2
    <2>4. /\ snap' = [snap EXCEPT ![g].status = status]
          /\ rpc' = [rpc EXCEPT ![g] = "done"] /\ kind' = kind
          /\ UNCHANGED <<status, respBytes, latency, hpc>>
        BY <1>17, <2>3 DEF ReadStatus
    <2>5. snap[g] \in Snapshots
        OBVIOUS
    <2>6. snap'[g] = [status |-> status, size |-> respBytes, latency |-> latency]
        BY <2>1, <2>4, <2>5 DEF Snapshots
    <2>7. SnapshotIsFinal'
        BY <2>1, <2>4, <2>6
    <2>8. FromScopeIsWhole'
        BY <2>1, <2>2, <2>4, <2>6
    <2> QED
        BY <2>7, <2>8
<1>18. ASSUME NEW g \in Readers, LatencyForLogging(g) PROVE PayloadIsWhole'
    BY <1>18 DEF LatencyForLogging
<1>19. CASE UNCHANGED vars
    BY <1>19
<1>20. CASE EndAnswer
    BY <1>20 DEF EndAnswer
<1> QED
    BY <1>1, <1>2, <1>3, <1>4, <1>5, <1>6, <1>7, <1>8, <1>9, <1>10, <1>11,
       <1>12, <1>13, <1>14, <1>15, <1>16, <1>17, <1>18, <1>19, <1>20
       DEF Next, Construct, Handler, Finish, Reader, Terminated

-----------------------------------------------------------------------------
(* The logger.                                                             *)

(* Two elements from the right.                                            *)
LEMMA LastTwo ==
    ASSUME NEW n \in Nat
    PROVE  /\ n + 1 \in (n + 1)..(n + 2) /\ n + 2 \in (n + 1)..(n + 2)
           /\ \A j \in (n + 1)..(n + 2) : j = n + 1 \/ j = n + 2
           /\ n + 2 \in (n + 2)..(n + 2)
           /\ \A j \in (n + 2)..(n + 2) : j = n + 2
           /\ n + 1 # n + 2 /\ n + 1 \in 1..(n + 2)
    OBVIOUS

(* An earlier element has them and itself from it on.                      *)
LEMMA BeforeLastTwo ==
    ASSUME NEW n \in Nat, NEW i \in 1..n
    PROVE  /\ (n + 1)..(n + 2) \subseteq i..(n + 2)
           /\ i \in i..(n + 2) /\ i \notin (n + 1)..(n + 2)
           /\ IsFiniteSet(i..(n + 2))
<1>1. /\ (n + 1)..(n + 2) \subseteq i..(n + 2)
      /\ i \in i..(n + 2) /\ i \notin (n + 1)..(n + 2)
    OBVIOUS
<1>2. i \in Int /\ n + 2 \in Int
    OBVIOUS
<1> QED
    BY <1>1, <1>2, FS_Interval

(* There are no others.                                                    *)
LEMMA UpToLastTwo ==
    ASSUME NEW n \in Nat, NEW i \in 1..(n + 2)
    PROVE  i \in 1..n \/ i = n + 1 \/ i = n + 2
    OBVIOUS

(* Two values are two.                                                     *)
LEMMA Two ==
    ASSUME NEW a, NEW b, a # b
    PROVE  IsFiniteSet({a, b}) /\ Cardinality({a, b}) = 2
<1>1. IsFiniteSet({b}) /\ Cardinality({b}) = 1
    BY FS_Singleton
<1>2. {a, b} = {b} \cup {a} /\ a \notin {b}
    OBVIOUS
<1>3. /\ IsFiniteSet({b} \cup {a})
      /\ Cardinality({b} \cup {a}) = Cardinality({b}) + 1
    BY <1>1, <1>2, FS_AddElement
<1> QED
    BY <1>1, <1>2, <1>3

(* Only the element before the last has two nonblank elements from it on.  *)
LEMMA SecondFromRight ==
    ASSUME NEW x, NEW n \in Nat, Len(x) = n + 2, DOMAIN x = 1..(n + 2),
           x[n + 1] # "", x[n + 2] # ""
    PROVE  {i \in DOMAIN x : x[i] # "" /\ FromRight(x, i) = 2} = {n + 1}
<1> DEFINE I(i) == i..(n + 2)
           S(i) == {j \in I(i) : x[j] # ""}
<1>1. /\ n + 1 \in I(n + 1) /\ n + 2 \in I(n + 1)
      /\ \A j \in I(n + 1) : j = n + 1 \/ j = n + 2
      /\ n + 2 \in I(n + 2) /\ \A j \in I(n + 2) : j = n + 2
    BY LastTwo
<1>2. \A i : FromRight(x, i) = Cardinality(S(i))
    BY DEF FromRight
<1>3. \A i \in 1..n : /\ I(n + 1) \subseteq I(i)
                      /\ i \in I(i) /\ i \notin I(n + 1)
    BY BeforeLastTwo
<1>4. \A i \in 1..n : IsFiniteSet(I(i))
    BY BeforeLastTwo
<1>5. n + 1 \in DOMAIN x
    BY LastTwo
<1>6. n + 1 # n + 2
    BY LastTwo
<1>7. \A i \in DOMAIN x : i \in 1..n \/ i = n + 1 \/ i = n + 2
    BY UpToLastTwo
<1> HIDE DEF I
<1>8. S(n + 1) = {n + 1, n + 2} /\ S(n + 2) = {n + 2}
    <2>1. S(n + 1) = {n + 1, n + 2}
        <3> DEFINE a == n + 1
                   b == n + 2
        <3>1. /\ a \in I(a) /\ b \in I(a) /\ \A j \in I(a) : j = a \/ j = b
              /\ x[a] # "" /\ x[b] # ""
            BY <1>1
        <3> HIDE DEF a, b
        <3>2. {j \in I(a) : x[j] # ""} = {a, b}
            BY <3>1, Zenon
        <3> QED
            BY <3>2 DEF a, b
    <2>2. S(n + 2) = {n + 2}
        BY <1>1
    <2> QED
        BY <2>1, <2>2
<1>9. Cardinality(S(n + 1)) = 2 /\ Cardinality(S(n + 2)) = 1
    <2>1. Cardinality({n + 1, n + 2}) = 2
        BY <1>6, Two
    <2>2. Cardinality({n + 2}) = 1
        BY FS_Singleton
    <2> QED
        BY <1>8, <2>1, <2>2
<1>10. ASSUME NEW i \in 1..n, x[i] # ""
       PROVE  Cardinality(S(i)) # 2
    <2>1. S(n + 1) \subseteq S(i) /\ i \in S(i) /\ i \notin S(n + 1)
        BY <1>3, <1>10
    <2>2. IsFiniteSet(S(i))
        <3>1. S(i) \subseteq I(i) /\ IsFiniteSet(I(i))
            BY <1>4
        <3> QED
            BY <3>1, FS_Subset
    <2> QED
        BY <1>9, <2>1, <2>2, FS_Subset
<1> HIDE DEF S
<1> QED
    BY <1>2, <1>5, <1>7, <1>9, <1>10

(* Through the load balancer the second element from the right is the      *)
(* client, whatever its sender put before it.                              *)
LEMMA ProxiedClientIP ==
    ASSUME NEW r \in Requests, r.path = "proxied"
    PROVE  GCLBClientIP(XForwardedFor(r), 2) = "client"
<1> DEFINE x == r.xff \o <<"client", "lb">>
           n == Len(r.xff)
<1>1. /\ n \in Nat /\ Len(x) = n + 2 /\ DOMAIN x = 1..(n + 2)
      /\ x[n + 1] = "client" /\ x[n + 2] = "lb"
    BY ScopeAssumption
<1>2. XForwardedFor(r) = x
    BY DEF XForwardedFor
<1> HIDE DEF x, n
<1>3. {i \in DOMAIN x : x[i] # "" /\ FromRight(x, i) = 2} = {n + 1}
    BY <1>1, SecondFromRight
<1>4. {x[i] : i \in {n + 1}} \cap IPs = {"client"}
    BY <1>1 DEF IPs
<1>5. GCLBClientIP(x, 2) = "client"
    BY <1>3, <1>4 DEF GCLBClientIP
<1> QED
    BY <1>2, <1>5

(* The scheme is the client's when forwarding headers are trusted just     *)
(* behind the load balancer.                                               *)
LEMMA RealScheme ==
    ASSUME NEW r \in Requests, NEW c,
           (r.path = "proxied") = (c.proxy = "gclb" \/ TrustXForwardedProto(c))
    PROVE  InferScheme(r, c) = r.scheme
<1>1. CASE r.path = "proxied"
    <2>1. XForwardedProto(r) = <<r.scheme>> /\ Head(<<r.scheme>>) = r.scheme
        BY <1>1 DEF XForwardedProto
    <2> QED
        BY <1>1, <2>1, ScopeAssumption DEF InferScheme
<1>2. CASE r.path # "proxied"
    BY <1>2, ScopeAssumption DEF InferScheme, TLS
<1> QED
    BY <1>1, <1>2

(* The request stays the same until the logger is made.                    *)
LEMMA RequestStep == ScopeTypes /\ RequestInv /\ [Next]_vars => RequestInv'
<1> SUFFICES ASSUME ScopeTypes, RequestInv, [Next]_vars PROVE RequestInv'
    OBVIOUS
<1> USE ScopeAssumption DEF ScopeTypes, RequestInv, Building, Ending, Over
<1>1. CASE NewRequestScope
    BY <1>1 DEF NewRequestScope
<1>2. CASE NewClientScope
    BY <1>2 DEF NewClientScope
<1>3. CASE AttachLogger
    BY <1>3 DEF AttachLogger
<1>4. CASE Begin
    BY <1>4 DEF Begin
<1>5. CASE WriteHeader
    BY <1>5 DEF WriteHeader, HandlerMay
<1>6. CASE BeginWrite
    BY <1>6 DEF BeginWrite, HandlerMay
<1>7. CASE EndWrite
    BY <1>7 DEF EndWrite
<1>8. CASE Flush
    BY <1>8 DEF Flush, HandlerMay
<1>9. CASE Hijack
    BY <1>9 DEF Hijack, HandlerMay
<1>10. CASE ServeHTTP
    BY <1>10 DEF ServeHTTP, Finalize
<1>11. CASE RoundTrip
    BY <1>11 DEF RoundTrip, Finalize
<1>12. CASE FinalizeStatus
    BY <1>12 DEF FinalizeStatus
<1>13. CASE FinalizeBytes
    BY <1>13 DEF FinalizeBytes
<1>14. CASE FinalizeLatency
    BY <1>14 DEF FinalizeLatency
<1>15. ASSUME NEW g \in Readers, ReadLatency(g) PROVE RequestInv'
    BY <1>15 DEF ReadLatency
<1>16. ASSUME NEW g \in Readers, ReadSize(g) PROVE RequestInv'
    BY <1>16 DEF ReadSize
<1>17. ASSUME NEW g \in Readers, ReadStatus(g) PROVE RequestInv'
    BY <1>17 DEF ReadStatus
<1>18. ASSUME NEW g \in Readers, LatencyForLogging(g) PROVE RequestInv'
    BY <1>18 DEF LatencyForLogging
<1>19. CASE UNCHANGED vars
    BY <1>19
<1>20. CASE EndAnswer
    BY <1>20 DEF EndAnswer
<1> QED
    BY <1>1, <1>2, <1>3, <1>4, <1>5, <1>6, <1>7, <1>8, <1>9, <1>10, <1>11,
       <1>12, <1>13, <1>14, <1>15, <1>16, <1>17, <1>18, <1>19, <1>20
       DEF Next, Construct, Handler, Finish, Reader, Terminated

(* The scope is made of the request as it came.                            *)
LEMMA LoggerStep ==
    ScopeTypes /\ FinalInv /\ RequestInv /\ LoggerIsRight /\ [Next]_vars
    => LoggerIsRight'
<1> SUFFICES ASSUME ScopeTypes, FinalInv, RequestInv, LoggerIsRight, [Next]_vars
             PROVE  LoggerIsRight'
    OBVIOUS
<1> USE ScopeAssumption DEF ScopeTypes, RequestInv, LoggerIsRight,
        ClientIPIsReal, SchemeIsReal, NothingPremature, Building, Ending, Over
<1>1. CASE NewRequestScope
    <2>1. req \in Requests
        BY <1>1 DEF NewRequestScope
    <2>2. ClientIPIsReal'
        <3>1. /\ cfg' = cfg /\ req' = req /\ ~outbound /\ outbound' = outbound
              /\ meta'.ip = IF cfg.clientIP THEN ClientIPFromRequest(req, cfg)
                            ELSE ""
            BY <1>1 DEF NewRequestScope
        <3>2. cfg.proxy = "none" => ClientIPFromRequest(req, cfg) = RemoteAddr(req)
            BY DEF ClientIPFromRequest
        <3>3. (cfg.proxy = "gclb" /\ cfg.fromRight = 2 /\ req.path = "proxied")
              => ClientIPFromRequest(req, cfg) = "client"
            BY <2>1, ProxiedClientIP DEF ClientIPFromRequest
        <3> QED
            BY <3>1, <3>2, <3>3
    <2>3. SchemeIsReal'
        <3>1. /\ cfg' = cfg /\ req' = req
              /\ req.urlScheme = Blank => meta'.scheme = InferScheme(req, cfg)
            BY <1>1 DEF NewRequestScope
        <3> QED
            BY <2>1, <3>1, RealScheme DEF TrustXForwardedProto
    <2> QED
        BY <1>1, <2>2, <2>3 DEF NewRequestScope
<1>2. CASE NewClientScope
    BY <1>2 DEF NewClientScope
<1>3. CASE AttachLogger
    <2>1. status = 0 /\ latency = Unset
        BY <1>3 DEF AttachLogger, FinalInv
    <2>2. MetricAttrs = {}
        BY <2>1 DEF MetricAttrs
    <2>3. attrs' \subseteq LoggerAttrs \cup Enriched \cup PayloadAttr
        BY <1>3 DEF AttachLogger, RequestAttributes
    <2>4. (LoggerAttrs \cup PayloadAttr)
          \cap {"http.status_code", "http.response_size", "http.latency"} = {}
        BY <2>2 DEF LoggerAttrs, PayloadAttr, ClientAttrs
    <2>5. NothingPremature'
        BY <2>3, <2>4
    <2> QED
        BY <1>3, <2>5 DEF AttachLogger
<1>4. CASE Begin
    BY <1>4 DEF Begin
<1>5. CASE WriteHeader
    BY <1>5 DEF WriteHeader, HandlerMay
<1>6. CASE BeginWrite
    BY <1>6 DEF BeginWrite, HandlerMay
<1>7. CASE EndWrite
    BY <1>7 DEF EndWrite
<1>8. CASE Flush
    BY <1>8 DEF Flush, HandlerMay
<1>9. CASE Hijack
    BY <1>9 DEF Hijack, HandlerMay
<1>10. CASE ServeHTTP
    BY <1>10 DEF ServeHTTP, Finalize
<1>11. CASE RoundTrip
    BY <1>11 DEF RoundTrip, Finalize
<1>12. CASE FinalizeStatus
    BY <1>12 DEF FinalizeStatus
<1>13. CASE FinalizeBytes
    BY <1>13 DEF FinalizeBytes
<1>14. CASE FinalizeLatency
    BY <1>14 DEF FinalizeLatency
<1>15. ASSUME NEW g \in Readers, ReadLatency(g) PROVE LoggerIsRight'
    BY <1>15 DEF ReadLatency
<1>16. ASSUME NEW g \in Readers, ReadSize(g) PROVE LoggerIsRight'
    BY <1>16 DEF ReadSize
<1>17. ASSUME NEW g \in Readers, ReadStatus(g) PROVE LoggerIsRight'
    BY <1>17 DEF ReadStatus
<1>18. ASSUME NEW g \in Readers, LatencyForLogging(g) PROVE LoggerIsRight'
    BY <1>18 DEF LatencyForLogging
<1>19. CASE UNCHANGED vars
    BY <1>19
<1>20. CASE EndAnswer
    BY <1>20 DEF EndAnswer
<1> QED
    BY <1>1, <1>2, <1>3, <1>4, <1>5, <1>6, <1>7, <1>8, <1>9, <1>10, <1>11,
       <1>12, <1>13, <1>14, <1>15, <1>16, <1>17, <1>18, <1>19, <1>20
       DEF Next, Construct, Handler, Finish, Reader, Terminated

-----------------------------------------------------------------------------
(* The invariant, and what follows from it.                                *)

(* A request that has just come satisfies the invariant.                   *)
LEMMA InvInit == Init => IInv
<1> SUFFICES ASSUME Init PROVE IInv
    OBVIOUS
<1> USE DEF Init, Unset, Building, Ending
<1>1. ScopeTypes
    BY DEF ScopeTypes, Recorders, Wires
<1>2. ReaderTypes
    BY DEF ReaderTypes, Snapshots, Empty
<1>3. FinalInv /\ SizeInv /\ StatusInv
    BY DEF FinalInv, SizeInv, StatusInv, Over
<1>4. ReaderInv /\ PayloadIsWhole
    BY DEF ReaderInv, PayloadIsWhole, SnapshotIsFinal, FromScopeIsWhole, Empty
<1>5. RequestInv /\ LoggerIsRight
    BY DEF RequestInv, LoggerIsRight, ClientIPIsReal, SchemeIsReal,
           NothingPremature
<1> QED
    BY <1>1, <1>2, <1>3, <1>4, <1>5 DEF IInv

(* Every step keeps the invariant.                                         *)
LEMMA InvStep == IInv /\ [Next]_vars => IInv'
    BY ScopeTypesStep, ReaderTypesStep, FinalStep, SizeStep, StatusStep,
       ReaderStep, PayloadStep, RequestStep, LoggerStep DEF IInv

(* The inductive invariant holds of every request.                         *)
THEOREM ScopeInvariance == Spec => []IInv
    BY InvInit, InvStep, PTL DEF Spec

(* A payload built while finalize runs is of one piece: the final status,  *)
(* size and latency together, or none of them (buildHTTPRequestPayload,    *)
(* HTTPRequestFromScope), however many goroutines build one.               *)
THEOREM PayloadsAreWhole == Spec => []PayloadIsWhole
    BY ScopeInvariance, PTL DEF IInv

(* A final scope reports the status of the answer and the size of a whole  *)
(* one, and of one that was cut off no less than what was sent of it, for  *)
(* every sequence of calls on the responseRecorder and every code.         *)
THEOREM ReportsAreSent == Spec => []ReportIsSent
<1>1. IInv => SizeIsSent
    BY DEF IInv, ScopeTypes, Wires, Recorders, SizeInv, Whole, SizeIsSent
<1>2. IInv => PlainStatusIsSent
    BY DEF IInv, ScopeTypes, FinalInv, StatusInv, Undisturbed, Ending, Over,
           PlainStatusIsSent, DefaultStatus, OK
<1> QED
    BY <1>1, <1>2, ScopeInvariance, PTL DEF ReportIsSent

(* The request's logger names the real client whatever headers the sender  *)
(* made up, the real scheme if the target leaves it open, and no status,   *)
(* size or latency of an answer still to be made.                          *)
THEOREM LoggersAreRight == Spec => []LoggerIsRight
    BY ScopeInvariance, PTL DEF IInv

=============================================================================
