--------------------------- MODULE MCTraceContext ---------------------------
(* A request from outside passes through two services.                     *)
EXTENDS TraceContext

(* The caller outside has trace T in traceparent, L in the legacy header.  *)
MCLegacy(t, d, os) == [trace |-> t, dec |-> d, opts |-> os]
O(k, v) == [key |-> k, val |-> v]

MCLegacyHeaders ==
    {<<>>,
     <<MCLegacy(<<0, "L">>, <<0, "d">>, <<O("o", 1)>>)>>,
     <<MCLegacy(<<0, "L">>, <<0, "d">>, <<O("o", -1), O("O", 10)>>)>>,
     <<MCLegacy(<<0, "L">>, <<>>, <<O("foo", 1)>>)>>,
     <<MCLegacy(<<>>, <<0, "d">>, <<>>), MCLegacy(<<0, "L">>, <<>>, <<>>)>>,
     <<MCLegacy(<<0, "L">>, <<0, "d">>, <<>>), MCLegacy(<<0, "M">>, <<>>, <<O("o", 1)>>)>>}

MCT == SC(<<0, "T">>, <<0, "s">>, TRUE, TRUE)

MCBin == [version |-> 0, markers |-> <<0, 1, 2>>, trace |-> <<0, "B">>,
          span |-> <<0, "b">>, flags |-> 3]

MCOutsideHeaders ==
    [tp : {NoSC, MCT}, bin : {NoBin}, xctc : MCLegacyHeaders]
    \cup [tp : {[MCT EXCEPT !.sampled = FALSE]}, xctc : {<<>>},
          bin : {MCBin, [MCBin EXCEPT !.markers = <<0, 1>>],
                 [MCBin EXCEPT !.flags = 2]}]

(* Options that are given, against the defaults of those that are not.     *)
MCServers ==
    {[otel |-> o, public |-> p] : o \in {"off", "noop", "sdk"}, p \in BOOLEAN}
    \cup {[otel |-> o, propagate |-> FALSE] : o \in {"off", "sdk"}}
    \cup {[propagators |-> "w3c"]}

MCHTTPServers ==
    MCServers \cup {[public |-> TRUE, otel |-> "off", trust |-> t] : t \in BOOLEAN}
MCHTTPClients ==
    {[legacy |-> l] : l \in BOOLEAN} \cup {[legacy |-> TRUE, propagate |-> FALSE]}
MCGRPCClients ==
    {[legacy |-> TRUE, otel |-> o] : o \in {"off", "sdk"}} \cup {[propagate |-> FALSE]}
=============================================================================
