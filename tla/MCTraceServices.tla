--------------------------- MODULE MCTraceServices ---------------------------
(* Instances of TraceServices for TLC.                                     *)
EXTENDS TraceServices

MCCodes == {"OK", "Unknown", "Internal", "InvalidArgument", "Canceled", "NotFound"}

Plain(e) == [endpoint |-> e, json |-> TRUE, wrapped |-> TRUE, id |-> "t",
             traced |-> TRUE, count |-> 0, final |-> "", chunks |-> << >>,
             propagate |-> TRUE]

Chunk == [id : {"", "u"}, final : {"", "OK", "NotFound"}, close : BOOLEAN]
NotClosing == {c \in Chunk : ~c.close}
PlainChunk == [id |-> "", final |-> "", close |-> FALSE]

(* What is wrong with a request, one thing at a time.                      *)
Flawed(r) == {r, [r EXCEPT !.json = FALSE], [r EXCEPT !.wrapped = FALSE],
              [r EXCEPT !.id = ""], [r EXCEPT !.traced = FALSE],
              [r EXCEPT !.count = -1]}

(* Up to two chunks of every kind (the first without a final status of OK, *)
(* the one a stream starts with) and a third, plain one; response counts   *)
(* up to one more than an int32 holds.                                     *)
Lists(kind) ==
    LET first == {c \in kind : c.final # "OK"}
    IN  {<<a>> : a \in kind} \cup {<<a, b>> : a \in first, b \in kind}
          \cup {<<a, b, PlainChunk>> : a \in first, b \in kind}

MCRequests ==
    UNION {Flawed(Plain(e)) : e \in Endpoints \ Direct}
      \cup {[Plain("grpc") EXCEPT !.propagate = FALSE],
            [Plain("http") EXCEPT !.propagate = FALSE, !.traced = FALSE]}
      \cup {Plain("panic"), Plain("echo")}
      \cup {[Plain("fail") EXCEPT !.final = f] : f \in {"", "OK", "NotFound", "odd"}}
      \cup {[Plain("server") EXCEPT !.count = n, !.final = f] :
              n \in 0..3, f \in {"", "OK", "NotFound", "odd"}}
      \cup {[Plain("client") EXCEPT !.chunks = c] : c \in Lists(NotClosing)}
      \cup {[Plain("bidi") EXCEPT !.chunks = c] : c \in Lists(Chunk)}

=============================================================================
