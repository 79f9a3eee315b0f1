------------------------------ MODULE MCClient ------------------------------
(***************************************************************************)
(* Every scenario exercises one side of a connection: calls whose serials  *)
(* come around, with a timeout; a connection that is lost or broken while  *)
(* calls are made; requests around Hello, with and without handlers that   *)
(* call out; and a C program.                                              *)
(***************************************************************************)
EXTENDS LibDBus

Made(by, method, timed, answers) ==
    [by |-> by, method |-> method, timed |-> timed, answers |-> answers]
MCPlan == [hello  |-> Made("task", "Hello", FALSE, {"string", "error"}),
           name   |-> Made("task", "RequestName", FALSE, {"u32", "string"}),
           inner  |-> Made("handler", "other", FALSE, {"string"}),
           c1     |-> Made("c", "other", TRUE, {"string", "error"}),
           c2     |-> Made("c", "other", FALSE, {"string"})]

Request(dest, interface, no_reply) ==
    [dest |-> dest, complete |-> TRUE, path |-> "p", interface |-> interface,
     no_reply |-> no_reply]
ToUs    == Request("none", "none", FALSE)
ToName  == Request("unique", "A", FALSE)
ToOther == Request("well-known", "A", FALSE)
OneWay  == Request("none", "A", TRUE)
Broken  == [ToUs EXCEPT !.complete = FALSE]
MCRequests == {ToUs, ToName, ToOther, OneWay, Broken}

Nobody == [p \in {"p"} |-> {}]
Somebody == [p \in {"p"} |-> {"A"}]
Quiet == [calls |-> {}, requests |-> {}, objects |-> Somebody, registers |-> FALSE,
          closes |-> FALSE, garbage |-> FALSE, signals |-> FALSE, unref |-> FALSE, c |-> FALSE]
MCScenarios ==
    {[Quiet EXCEPT !.calls = {"hello", "name"}, !.signals = TRUE],
     [Quiet EXCEPT !.calls = {"hello", "name"}, !.requests = {ToUs}, !.closes = TRUE,
                   !.garbage = TRUE],
     [Quiet EXCEPT !.calls = {"hello", "name"}, !.requests = {ToUs, ToName},
                   !.closes = TRUE],
     [Quiet EXCEPT !.calls = {"hello", "inner"}, !.requests = {ToName, ToOther, ToUs},
                   !.closes = TRUE, !.unref = TRUE],
     [Quiet EXCEPT !.requests = {ToUs, OneWay, Broken}, !.objects = Nobody, !.registers = TRUE],
     [Quiet EXCEPT !.calls = {"c1", "c2"}, !.closes = TRUE, !.c = TRUE]}
=============================================================================
