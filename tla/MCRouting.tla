------------------------------ MODULE MCRouting ------------------------------
(***************************************************************************)
(* Routing with three connections: c1 calls a service that may have to be   *)
(* started and broadcasts a signal, c2 subscribes and may be or become the  *)
(* service, c3 monitors and calls.                                          *)
(***************************************************************************)
EXTENDS Routing

MCConns == {"c1", "c2", "c3"}

Message(id, type, from, dest, member, body) ==
    [id |-> id, type |-> type, sender |-> {from}, destination |-> dest,
     interface |-> {}, member |-> {member}, path |-> {}, body |-> body,
     no_reply_expected |-> FALSE, no_auto_start |-> FALSE]

NoRule == <<[key |-> "arg", idx |-> 64, value |-> "x"]>>

AnySignal == <<[key |-> "type", idx |-> 0, value |-> "signal"]>>

\* id, type, sender, destination, member, arguments
Call(id, from, dest) == Message(id, "method_call", from, dest, "Do", << >>)

BusCall(id, from, member, arg) == Message(id, "method_call", from, {BUS}, member, <<arg>>)

Signal(id, dest) == Message(id, "signal", "c1", dest, "Changed", << >>)

Everything == [send |-> {Destination(<<"*">>)}, receive |-> {Destination(<<"*">>)},
               own |-> {<<"*">>}]

\* Everybody may do everything; c1 may not send to svc; nobody hears c3.
Open == Rule("default", {}, {}, Everything, NoPatterns)

NoSend == Rule("user", {"c1"}, {}, NoPatterns,
               [NoPatterns EXCEPT !.send = {Destination(<<"svc">>)}])

NoReceive == Rule("mandatory", {}, {}, NoPatterns,
                  [NoPatterns EXCEPT !.receive = {Destination(<<"c3">>)}])

Toml(rules) == [ext |-> "toml", readable |-> TRUE, malformed |-> FALSE, rules |-> rules]

Unreadable == [Toml(<<Open>>) EXCEPT !.readable = FALSE]

Malformed == [Toml(<<Open>>) EXCEPT !.malformed = TRUE]

SomeDirs == {<< <<Toml(<<Open>>)>> >>,
             << <<Toml(<<NoReceive, NoSend>>)>>, <<Toml(<<Open>>)>> >>}

-----------------------------------------------------------------------------
(* Documents of two policy elements, closed or not, each with rules in it *)

Tag(name, kind, attrs) == [name |-> name, kind |-> kind, attrs |-> attrs]

NoAttrs == [a \in {} |-> << >>]

PolicyTags == {Tag("policy", "start", [context |-> "default"]),
               Tag("policy", "start", [context |-> "mandatory", user |-> "u"]),
               Tag("policy", "start", [user |-> "u"]),
               Tag("policy", "start", [group |-> "g"]),
               Tag("policy", "empty", [context |-> "mandatory"])}

RuleTags == {Tag("allow", "empty", [send_destination_prefix |-> <<"s">>]),
             Tag("deny", "start", [send_destination |-> <<"s", "t">>, send_type |-> "signal"]),
             Tag("deny", "empty", [own |-> <<"s", "t">>, recv_sender_prefix |-> <<"s">>])}

EndTag == Tag("policy", "end", NoAttrs)

Documents ==
    {<<p, a, x, q, b, y>> :
        p \in PolicyTags, a \in RuleTags, x \in RuleTags \cup {EndTag},
        q \in PolicyTags, b \in RuleTags, y \in RuleTags \cup {Tag("allow", "empty", NoAttrs)}}

Conf(doc) == [ext |-> "conf", readable |-> TRUE, tokens |-> doc]

ShortDocuments == {<<p, a>> : p \in PolicyTags, a \in RuleTags}

\* A rule that allows and denies, between two documents of another file and directory.
Both == Rule("user", {"u"}, {}, Everything, Everything)

DocumentDirs ==
    {<< <<Conf(doc)>> >> : doc \in Documents}
        \cup {<< <<Conf(d), Toml(<<Both, Open>>)>>, <<Conf(e)>> >> :
                 d \in ShortDocuments, e \in ShortDocuments}

-----------------------------------------------------------------------------
Scenario(messages, closers, reloads) ==
    [messages |-> messages, closers |-> closers, reloads |-> reloads, dirs |-> SomeDirs]

MCScenarios ==
    {Scenario({Call(1, "c1", {"svc"}), Call(2, "c3", {"svc"})}, {}, 1),
     Scenario({Call(1, "c1", {"svc"}), Call(2, "c3", {"svc"})}, {"c2"}, 0),
     [Scenario({Call(1, "c1", {"svc"})}, {"c1", "c2"}, 1) EXCEPT
        !.dirs = @ \cup {<< <<Unreadable>> >>, << <<Malformed>> >>}],
     Scenario({Signal(3, {}), BusCall(4, "c2", "AddMatch", {AnySignal}),
               BusCall(5, "c2", "BecomeMonitor", {})}, {}, 0),
     Scenario({Signal(3, {}), BusCall(4, "c2", "AddMatch", {AnySignal})}, {"c2"}, 1),
     Scenario({BusCall(4, "c2", "AddMatch", {AnySignal}),
               BusCall(6, "c2", "AddMatch", {AnySignal}),
               BusCall(7, "c2", "AddMatch", {AnySignal}),
               BusCall(8, "c2", "RemoveMatch", {AnySignal}),
               BusCall(19, "c2", "RemoveMatch", {AnySignal}),
               BusCall(20, "c2", "AddMatch", {NoRule})}, {}, 0),
     Scenario({BusCall(9, "c1", "StartServiceByName", {"svc"}),
               BusCall(10, "c3", "StartServiceByName", {"other"}), Signal(11, {"svc"})},
              {}, 0),
     Scenario({Call(12, "c1", {}), Call(13, "c1", {"other"}), Call(14, "c1", {"bad"})}, {}, 0),
     Scenario({Call(22, "c3", {"c1"}), Call(23, "c1", {"c3"}), Signal(24, {"c3"})}, {}, 1),
     Scenario({[Call(15, "c1", {"svc"}) EXCEPT !.no_auto_start = TRUE],
               [Call(16, "c3", {"svc"}) EXCEPT !.no_reply_expected = TRUE]}, {}, 0),
     Scenario({BusCall(17, "c1", "other", {}), BusCall(18, "c3", "BecomeMonitor", {AnySignal}),
               Call(21, "c1", {"c2"})}, {"c3"}, 0)}
        \cup {[Scenario({}, {}, 0) EXCEPT !.dirs = {dirs}] : dirs \in DocumentDirs}

\* AppArmor keeps c1 from hearing c3 and from sending to c3.
MCDenied == {<<"receive", "c1", "c3">>, <<"send", "c1", "c3">>}

MCServices == {<<"c2", "svc">>}

MCFiles == [n \in {"svc", "bad"} |->
              [via_helper |-> n = "bad", user |-> IF n = "bad" THEN "none" ELSE "own"]]

Identities == {[uid |-> "u", user_name |-> {}, group_names |-> {}],
               [uid |-> "v", user_name |-> {"v"}, group_names |-> {"g"}]}

Asked(type) == [type |-> type, interface |-> {}, member |-> {}, path |-> {}]

MCQuestions ==
    {<<id, x[1], Asked(x[2]), <<"s", "t">>>> :
        id \in Identities,
        x \in {<<"own", "signal">>, <<"receive", "signal">>,
               <<"send", "signal">>, <<"send", "method_call">>}}

=============================================================================
