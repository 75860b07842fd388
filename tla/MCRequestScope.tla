--------------------------- MODULE MCRequestScope ---------------------------
(* Instances of RequestScope for TLC.                                      *)
EXTENDS RequestScope

(* Values a configuration file cannot write down.                          *)
ClockSteps == {-2, -1, 1}

(* What a sender may put into the forwarding headers.                      *)
MCForged == {<<>>} \cup {<<a>> : a \in {"spoofed", "junk", ""}}
            \cup {<<a, b>> : a, b \in {"spoofed", "junk", ""}}

(* Forged headers with the usual target, and the less usual requests.      *)
MCRequests ==
    [path : {"direct", "proxied"}, method : {"GET"}, urlScheme : {Blank},
     xff : MCForged, scheme : {"http", "https"},
     proto : {<<>>, <<"https", "http">>, <<"junk">>}, host : {"h"}, urlHost : {"", "u"}]
    \cup
    [path : {"direct", "proxied"}, method : {"GET", "HEAD"},
     urlScheme : {Blank, "http", "https"}, xff : {<<>>}, scheme : {"http", "https"},
     proto : {<<>>}, host : {"h"}, urlHost : {"u"}]

MCOptions ==
    [proxy : {"gclb"}, fromRight : 0..3]
    \cup [managed : BOOLEAN, trustProto : {"on", "off"}]
    \cup {[proxy |-> "gclb", trustProto |-> "off"], [managed |-> TRUE]}
    \cup [clientIP : BOOLEAN, query : {TRUE}, agent : {TRUE}, payload : BOOLEAN]
=============================================================================
