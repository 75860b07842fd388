--------------------------- MODULE MCJSONHandler ---------------------------
(* JSONHandler for TLC.                                                    *)
EXTENDS JSONHandler

Base == [writer |-> TRUE, exporter |-> FALSE, replace |-> FALSE, minLevel |-> 0,
         emitTime |-> TRUE, addSource |-> FALSE, service |-> TRUE,
         project |-> "known", stacks |-> TRUE, stackLevel |-> 8]
MCConfigs ==
    {Base,
     [Base EXCEPT !.replace = TRUE, !.project = "unknown", !.service = FALSE],
     [Base EXCEPT !.exporter = TRUE, !.addSource = TRUE, !.stacks = FALSE,
                  !.project = "auto"],
     [Base EXCEPT !.writer = FALSE]}

A(path, key, kind) == [path |-> path, key |-> key, kind |-> kind]
WithA(attrs) == [op |-> "attrs", attrs |-> attrs]
WithG(name) == [op |-> "group", name |-> name]

(* A logger with an attribute that a later group replaces, a map of the    *)
(* application and a shared HTTPRequest; a logger inside the labels.       *)
MCLoggers ==
    {<<WithA(<<A(<<>>, "g", "plain"), A(<<>>, "m", "app"),
               A(<<>>, "httpRequest", "http")>>), WithG("g")>>,
     <<WithG("h"), WithA(<<A(<<>>, "a", "plain")>>), WithG(Labels),
       WithA(<<A(<<>>, "l", "plain")>>)>>}

In(attrs, level, trace, frames) ==
    [attrs |-> attrs, level |-> level, trace |-> trace, frames |-> frames,
     report |-> FALSE, service |-> FALSE, message |-> FALSE]
Calls == <<"internal", "internal", "app", "internal", "app", "goexit">>
MCInputs ==
    {In(<<A(<<>>, "a", "plain"), A(<<"g", "n">>, "b", "bad"),
          A(<<>>, Secret, "err"), A(<<"severity">>, "x", "plain")>>,
        8, "local", Calls),
     In(<<A(<<"g", "n">>, "a", "flaky"), A(<<Labels>>, Secret, "plain"),
          A(<<>>, "n", "nil"), A(<<"g">>, "n", "plain")>>, 30, "remote", Calls),
     In(<<A(<<"n">>, "httpRequest", "http"), A(<<>>, "e", "errstack"),
          A(<<"e", "n">>, "a", "plain"), A(<<Labels>>, "a", "bad")>>,
        0, "none", Calls),
     [In(<<>>, 8, "none", SubSeq(Calls, 1, 2)) EXCEPT !.report = TRUE,
                                                      !.message = TRUE],
     In(<<>>, -4, "none", Calls)}

(* A map of the application under a key that is also the name of a group.  *)
CollidingLoggers ==
    {<<WithA(<<A(<<>>, "g", "app")>>), WithG("g")>>}
CollidingInputs ==
    {In(<<A(<<>>, "a", "plain")>>, 0, "none", <<>>),
     In(<<A(<<"h">>, "b", "plain")>>, 0, "none", <<>>),
     In(<<A(<<"h", "n">>, "b", "plain")>>, 0, "none", <<>>)}
MCBase == {Base}
=============================================================================
