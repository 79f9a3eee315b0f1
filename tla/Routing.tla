------------------------------- MODULE Routing -------------------------------
(***************************************************************************)
(* The bus between its clients (oxibus-daemon dispatch.rs, driver.rs,       *)
(* activation.rs, connection_handler.rs): one task per connection takes a   *)
(* message from its socket, carries it through monitors, policy, activation *)
(* and delivery, and only then takes the next.  Every write awaits room in  *)
(* the receiver's socket; the policy is reloaded, names change hands and    *)
(* connections go away at any await.                                        *)
(*                                                                          *)
(* The connections have said Hello.  What request_name and release_name do  *)
(* to the queues is in NameRegistry, the signals they cause in NameSignals; *)
(* here a name has an owner or none.  Counters of stats.rs are left out.    *)
(***************************************************************************)
EXTENDS Integers, Sequences, FiniteSets, SequencesExt, Policy, MatchRules

CONSTANTS
    Conns,       \* connections, all there at the start
    Names,       \* well-known names with a service file
    Services,    \* <<connection, name>>: who may ask for which
    Scenarios,   \* the bounds of a behaviour: the messages the clients send, each
                 \* once, the clients that may go away, the number of reloads and
                 \* what the policy directories may hold
    Files,       \* the service file of each: [via_helper, user]
    Questions,   \* what may be asked of a policy: <<identity, kind, message, text>>
    Denied,      \* <<mask, label, peer label>> that AppArmor denies
    Room,        \* messages a client's socket holds
    Timeout,     \* polls until activation_timeout_ms has passed
    MaxRules     \* max_match_rules_per_connection

BUS == "org.freedesktop.DBus"

MessageFields == {"id", "type", "sender", "destination", "interface", "member", "path",
                  "body", "no_reply_expected", "no_auto_start"}

\* A scenario's directories hold lists of files (Policy!AreFiles).
\* StartServiceByName comes with one name and AddMatch with one rule, as all calls with
\* arguments of the right type; a call with others is refused before it changes anything.
ASSUME RoutingAssumption ==
    /\ Services \subseteq Conns \X Names
    /\ Conns \cap Names = {} /\ BUS \notin Conns
    /\ Room \in Nat \ {0} /\ Timeout \in Nat \ {0} /\ MaxRules \in Nat
    /\ \A q \in Questions : q[2] \in {"own", "send", "receive"}
    /\ \A s \in Scenarios : \A dirs \in s.dirs : AreFiles(FlattenSeq(dirs))
    /\ \A s \in Scenarios : \A m \in s.messages :
          /\ \A x \in s.messages : x.id = m.id => x = m
          /\ m = [f \in MessageFields |-> m[f]] /\ m.type \in MessageTypes
          /\ \E c \in Conns : m.sender = {c}
          /\ m.destination = {BUS} /\ m.member \in {{"StartServiceByName"}, {"AddMatch"}} =>
                \E x \in m.body[1] : m.body[1] = {x}

VARIABLES
    scenario,     \* one of Scenarios, never changed
    epochs,       \* the policies in force so far, the last one now, with their files
    connections,  \* registered connections
    gone,         \* clients that closed their end
    owner,        \* owner of each name, an Option
    match_rules, is_monitor,
    unsent,       \* messages the clients have still to send
    inbox,        \* client to bus: the message on its way, an Option
    got,          \* bus to client: everything written
    nread,        \* how much of it the client has read
    task,         \* the handler of each connection
    copies,       \* writes to monitors, each in a task of its own
    replied,      \* calls a client has answered
    age           \* ticks since each name was acquired, at most 2

registry == <<connections, owner, age>>

subscriptions == <<match_rules, is_monitor>>

clients == <<scenario, gone, unsent, inbox, nread, replied>>

routingVars == <<epochs, registry, subscriptions, clients, got, task, copies>>

-----------------------------------------------------------------------------
(* Messages *)

policy == Last(epochs).rules

Text(o) == IF o = {} THEN << >> ELSE <<CHOOSE x \in o : TRUE>>

From(m) == CHOOSE c \in m.sender : TRUE

\* reply_to(): an answer to m, which no policy sees and nobody answers.
Reply(m, type, sender, code) ==
    [m EXCEPT !.type = type, !.sender = {sender}, !.destination = m.sender,
              !.member = {code}, !.no_reply_expected = TRUE]

\* identity::resolve: every connection has a user of its own, in no group.
identity(c) == [uid |-> c, user_name |-> {c}, group_names |-> {}]

\* The kernel's answer for two labels; an unlabelled or unconfined connection,
\* and any error of the query, is let through.
check_permission(mask, con, dst_con) == <<mask, con, dst_con>> \notin Denied

get_name_owner(n) ==
    IF n \in Names THEN owner[n] ELSE {n} \cap connections

OwnerOf(m) == UNION {get_name_owner(n) : n \in m.destination}

-----------------------------------------------------------------------------
(* Handlers *)

Idle == [pc |-> "idle"]

\* A handler at work has pc, m, to, todo and left, and as history since and held: the
\* policy in force when it took m up and the owners of m's destination since then.

At(c, pc) == task[c].pc = pc

Go(c, t) == task' = [task EXCEPT ![c] = t]

Step(c, pc) == [task[c] EXCEPT !.pc = pc]

\* reply_error and the reply of a driver call: pc "answer" writes it.
Answering(t, type, code) ==
    IF t.m.no_reply_expected THEN Idle
    ELSE [t EXCEPT !.pc = "answer", !.m = Reply(t.m, type, BUS, code), !.to = From(t.m)]

Fail(t, code) == Answering(t, "error", code)

HasRoom(c) == Len(got[c]) - nread[c] < Room

Entry(m, copy, since, held) ==
    [m |-> m, copy |-> copy, since |-> since, now |-> Len(epochs), held |-> held]

Put(c, e) == got' = [got EXCEPT ![c] = Append(@, e)]

\* write_message of handler c to connection d: Ok when all of it is in the
\* socket, Err when the client is gone.
Written(c, d) ==
    /\ d \notin gone
    /\ HasRoom(d)
    /\ Put(d, Entry(task[c].m, FALSE, task[c].since, task[c].held))

WriteFails(d) == d \in gone /\ UNCHANGED got

RoutingInit ==
    /\ scenario \in Scenarios
    /\ \E dirs \in scenario.dirs :
          \E rules \in (IF load_dirs(dirs) = {} THEN {<< >>} ELSE load_dirs(dirs)) :
             epochs = <<[dirs |-> dirs, rules |-> rules]>>
    /\ connections = Conns
    /\ gone = {}
    /\ owner = [n \in Names |-> {}]
    /\ match_rules = [c \in Conns |-> << >>]
    /\ is_monitor = {}
    /\ unsent = scenario.messages
    /\ inbox = [c \in Conns |-> {}]
    /\ got = [c \in Conns |-> << >>]
    /\ nread = [c \in Conns |-> 0]
    /\ task = [c \in Conns |-> Idle]
    /\ copies = {}
    /\ replied = {}
    /\ age = [n \in Names |-> 0]

-----------------------------------------------------------------------------
(* Taking a message up *)

\* Straight to the owner of the destination, if there is one.
Forward(t) ==
    IF OwnerOf(t.m) = {} THEN Idle
    ELSE [t EXCEPT !.pc = "write", !.to = CHOOSE d \in OwnerOf(t.m) : TRUE]

dispatch_signal(t, c) ==
    IF \/ ~ can_send(policy, identity(c), t.m, Text(t.m.destination))
       \/ ~ check_permission("send", c, "none")
    THEN Idle
    ELSE IF t.m.destination # {} THEN Forward(t)
    ELSE [t EXCEPT !.pc = "broadcast", !.todo = connections]

\* No policy, and no check that anybody asked.
dispatch_reply(t) == Forward(t)

\* What spawning n's service may come to: the user in its file decides first,
\* the operating system then.
spawn(n) ==
    IF Files[n].via_helper
    THEN IF Files[n].user = "none" THEN {FALSE} ELSE BOOLEAN
    ELSE IF Files[n].user \in {"none", "own"} THEN BOOLEAN ELSE {FALSE}

\* activate_and_wait up to its first look.  Every caller spawns the service.
activate_and_wait(t, n) ==
    {IF spawned THEN [t EXCEPT !.pc = "look", !.left = Timeout]
     ELSE Fail(t, "SPAWN_EXEC_FAILED") : spawned \in spawn(n)}

dispatch_method_call(t, c) ==
    LET peer == IF OwnerOf(t.m) = {} THEN "none" ELSE CHOOSE d \in OwnerOf(t.m) : TRUE
    IN  IF t.m.destination = {} THEN {Fail(t, "BAD_ADDRESS")}
        ELSE IF t.m.destination = {BUS} THEN {[t EXCEPT !.pc = "driver"]}
        ELSE IF \/ ~ can_send(policy, identity(c), t.m, Text(t.m.destination))
                \/ ~ check_permission("send", c, peer)
        THEN {Fail(t, "ACCESS_DENIED")}
        ELSE IF OwnerOf(t.m) # {} THEN {[t EXCEPT !.pc = "deliver", !.to = peer]}
        ELSE IF t.m.no_auto_start \/ ~ t.m.destination \subseteq Names
        THEN {Fail(t, "SERVICE_UNKNOWN")}
        ELSE UNION {activate_and_wait(t, n) : n \in t.m.destination}

\* read_message and dispatch_incoming: every monitor gets a copy, then the kind
\* of message decides.
dispatch_incoming(c) ==
    \E m \in inbox[c] :
        LET t == [pc |-> "start", m |-> m, to |-> c, todo |-> {}, left |-> 0,
                  since |-> Len(epochs), held |-> OwnerOf(m)]
        IN  /\ At(c, "idle")
            /\ inbox' = [inbox EXCEPT ![c] = {}]
            /\ copies' = copies \cup ((is_monitor \cap connections) \X {m})
            /\ \/ m.type = "signal" /\ Go(c, dispatch_signal(t, c))
               \/ m.type = "method_call" /\ \E u \in dispatch_method_call(t, c) : Go(c, u)
               \/ m.type \in {"method_return", "error"} /\ Go(c, dispatch_reply(t))
            /\ UNCHANGED <<epochs, registry, subscriptions, scenario, gone, unsent, nread, replied, got>>

\* The write to a monitor, in its own task; a failure is nobody's concern.
deliver_to_monitors(d, m) ==
    /\ <<d, m>> \in copies
    /\ copies' = copies \ {<<d, m>>}
    /\ \/ d \notin gone /\ HasRoom(d) /\ Put(d, Entry(m, TRUE, Len(epochs), {}))
       \/ WriteFails(d)
    /\ UNCHANGED <<epochs, registry, subscriptions, clients, task>>

-----------------------------------------------------------------------------
(* The rest of a handler's way, from await to await *)

OnlyTask == UNCHANGED <<epochs, registry, subscriptions, clients, copies>>

\* Mutant: only the sender's side of a message is checked.
may_receive_Unchecked(d, m) == TRUE

\* The receiver's side: the policy in force now, and AppArmor.
may_receive(d, m) ==
    /\ can_receive(policy, identity(d), m, Text(m.sender))
    /\ check_permission("receive", d, From(m))

\* deliver_to_owner: the owner found before may be gone, and is asked whether
\* it may receive.
deliver_to_owner(c) ==
    LET t == task[c]
    IN  /\ At(c, "deliver")
        /\ Go(c, IF t.to \notin connections THEN Fail(t, "SERVICE_UNKNOWN")
                 ELSE IF ~ may_receive(t.to, t.m) THEN Fail(t, "ACCESS_DENIED")
                 ELSE Step(c, "write"))
        /\ UNCHANGED got
        /\ OnlyTask

\* Mutant: a write that fails is nobody's concern.
WriteToOwner_Silent(c) ==
    /\ At(c, "write")
    /\ Written(c, task[c].to) \/ WriteFails(task[c].to)
    /\ Go(c, Idle)
    /\ OnlyTask

\* Only a call is told that its destination is gone.
WriteToOwner(c) ==
    LET t == task[c]
    IN  /\ At(c, "write")
        /\ \/ Written(c, t.to) /\ Go(c, Idle)
           \/ /\ WriteFails(t.to)
              /\ Go(c, IF t.m.type = "method_call" THEN Fail(t, "NO_REPLY") ELSE Idle)
        /\ OnlyTask

reply_error(c) ==
    /\ At(c, "answer")
    /\ Written(c, task[c].to) \/ WriteFails(task[c].to)
    /\ Go(c, Idle)
    /\ OnlyTask

subscribed(d, m) ==
    \E i \in DOMAIN match_rules[d] : rule_matches(match_rules[d][i], m, owner)

\* Mutant: monitors are not passed over.
Wanted_ByMonitorsToo(d, m) == subscribed(d, m) /\ may_receive(d, m)

Wanted(d, m) == d \notin is_monitor /\ subscribed(d, m) /\ may_receive(d, m)

\* One connection of the broadcast's snapshot: skipped, or next to be written.
broadcast_signal(c) ==
    LET t == task[c]
    IN  /\ At(c, "broadcast")
        /\ \/ t.todo = {} /\ Go(c, Idle)
           \/ \E d \in t.todo :
                 Go(c, [t EXCEPT !.todo = @ \ {d}, !.to = d,
                                 !.pc = IF Wanted(d, t.m) THEN "broadcast_write" ELSE @])
        /\ UNCHANGED got
        /\ OnlyTask

\* Mutant: the write is tried again until it succeeds.
BroadcastWrite_Insists(c) ==
    /\ At(c, "broadcast_write")
    /\ Written(c, task[c].to)
    /\ Go(c, Step(c, "broadcast"))
    /\ OnlyTask

BroadcastWrite(c) ==
    /\ At(c, "broadcast_write")
    /\ Written(c, task[c].to) \/ WriteFails(task[c].to)
    /\ Go(c, Step(c, "broadcast"))
    /\ OnlyTask

\* The name an activation waits for: of StartServiceByName, its argument.
Awaited(m) == IF m.destination = {BUS} THEN m.body[1] ELSE m.destination

\* Mutant: the owner is looked up once, before the loop.
Found_Once(t) ==
    IF t.left < Timeout THEN {} ELSE UNION {get_name_owner(n) : n \in Awaited(t.m)}

Found(t) == UNION {get_name_owner(n) : n \in Awaited(t.m)}

\* One turn of the polling loop: the deadline first, then the owner, then sleep.
\* Callers report the timeout as a failed spawn.
PollForOwner(c) ==
    LET t == task[c]
        next == IF t.left = 0 THEN Fail(t, "SPAWN_EXEC_FAILED")
                ELSE IF Found(t) = {} THEN Step(c, "sleep")
                ELSE IF t.m.destination = {BUS} THEN Answering(t, "method_return", "1")
                ELSE Step(c, "activated")
    IN  /\ At(c, "look")
        /\ Go(c, next)
        /\ UNCHANGED got
        /\ OnlyTask

\* The call goes on with the owner of this moment; send is not asked again.
AfterActivation(c) ==
    LET t == task[c]
    IN  /\ At(c, "activated")
        /\ Go(c, IF OwnerOf(t.m) = {} THEN Fail(t, "SERVICE_UNKNOWN")
                 ELSE [t EXCEPT !.pc = "deliver", !.to = CHOOSE d \in OwnerOf(t.m) : TRUE])
        /\ UNCHANGED got
        /\ OnlyTask

\* 50 ms pass.  A task that is due looks before the next 50 ms are over.
Tick ==
    /\ \A c \in Conns : ~ At(c, "look")
    /\ \E c \in Conns : At(c, "sleep")
    /\ task' = [c \in Conns |->
                  IF At(c, "sleep") THEN [task[c] EXCEPT !.pc = "look", !.left = @ - 1]
                  ELSE task[c]]
    /\ age' = [n \in Names |-> IF age[n] < 2 THEN age[n] + 1 ELSE 2]
    /\ UNCHANGED <<epochs, connections, owner, subscriptions, clients, got, copies>>

-----------------------------------------------------------------------------
(* Calls of the bus itself *)

handle_add_match(c) ==
    LET t == task[c]
        parsed == UNION {parse_match_rule(raw) : raw \in t.m.body[1]}
    IN  IF Len(match_rules[c]) >= MaxRules
        THEN Go(c, Fail(t, "LIMITS_EXCEEDED")) /\ UNCHANGED match_rules
        ELSE IF parsed = {}
        THEN Go(c, Fail(t, "MATCH_RULE_INVALID")) /\ UNCHANGED match_rules
        ELSE /\ match_rules' = [match_rules EXCEPT ![c] = @ \o SetToSeq(parsed)]
             /\ Go(c, Answering(t, "method_return", "ok"))

\* retain(): every rule with that text goes, however often it was added.  kept[i]
\* is the result for the first i rules.
WithoutRule(rules, text) ==
    LET kept[i \in 0 .. Len(rules)] ==
            IF i = 0 THEN << >>
            ELSE IF {rules[i].raw} # text THEN Append(kept[i - 1], rules[i])
            ELSE kept[i - 1]
    IN  kept[Len(rules)]

handle_remove_match(c) ==
    LET t == task[c]
        kept == WithoutRule(match_rules[c], t.m.body[1])
    IN  /\ match_rules' = [match_rules EXCEPT ![c] = kept]
        /\ Go(c, IF Len(kept) = Len(match_rules[c]) THEN Fail(t, "MATCH_RULE_NOT_FOUND")
                 ELSE Answering(t, "method_return", "ok"))

\* BecomeMonitor: the rules it brings, or one that matches everything.
BecomeMonitor(c) ==
    LET parsed == UNION {parse_match_rule(raw) : raw \in task[c].m.body[1]}
    IN  /\ match_rules' = [match_rules EXCEPT ![c] =
                             SetToSeq(IF parsed = {} THEN parse_match_rule(<< >>) ELSE parsed)]
        /\ is_monitor' = is_monitor \cup {c}
        /\ Go(c, Answering(task[c], "method_return", "ok"))

handle_start_service(c) ==
    LET t == task[c]
    IN  \E n \in t.m.body[1] :
           IF get_name_owner(n) # {} THEN Go(c, Answering(t, "method_return", "2"))
           ELSE IF n \notin Names THEN Go(c, Fail(t, "SERVICE_UNKNOWN"))
           ELSE \E u \in activate_and_wait(t, n) : Go(c, u)

\* handle_driver_call, with arguments of the right type; the calls that only look
\* something up are all "other".
handle_driver_call(c) ==
    LET Called(member) == task[c].m.member = {member}
    IN  /\ At(c, "driver")
        /\ \/ Called("AddMatch") /\ handle_add_match(c) /\ UNCHANGED is_monitor
           \/ Called("RemoveMatch") /\ handle_remove_match(c) /\ UNCHANGED is_monitor
           \/ Called("BecomeMonitor") /\ BecomeMonitor(c)
           \/ /\ Called("StartServiceByName")
              /\ handle_start_service(c)
              /\ UNCHANGED <<subscriptions>>
           \/ /\ Called("other")
              /\ Go(c, Answering(task[c], "method_return", "ok"))
              /\ UNCHANGED <<subscriptions>>
        /\ UNCHANGED <<epochs, registry, clients, got, copies>>

-----------------------------------------------------------------------------
(* Names, policy and connections change meanwhile *)

NewOwner(n, o) ==
    /\ owner' = [owner EXCEPT ![n] = o]
    /\ age' = [age EXCEPT ![n] = 0]
    /\ task' = [c \in Conns |->
                  IF ~ At(c, "idle") /\ n \in task[c].m.destination
                  THEN [task[c] EXCEPT !.held = @ \cup o] ELSE task[c]]

handle_request_name(c, n) ==
    /\ c \in connections \ gone
    /\ <<c, n>> \in Services
    /\ At(c, "idle")
    /\ owner[n] = {}
    /\ can_own(policy, identity(c), <<n>>)
    /\ check_permission("bind", c, "none")
    /\ NewOwner(n, {c})
    /\ UNCHANGED <<epochs, connections, subscriptions, clients, got, copies>>

handle_release_name(c, n) ==
    /\ c \in connections \ gone
    /\ At(c, "idle")
    /\ owner[n] = {c}
    /\ NewOwner(n, {})
    /\ UNCHANGED <<epochs, connections, subscriptions, clients, got, copies>>

\* SIGHUP: a load that fails leaves the policy as it is.
reload_policy ==
    /\ Len(epochs) <= scenario.reloads
    /\ \E dirs \in scenario.dirs : \E rules \in load_dirs(dirs) :
          epochs' = Append(epochs, [dirs |-> dirs, rules |-> rules])
    /\ UNCHANGED <<registry, subscriptions, clients, got, task, copies>>

\* Mutant: the connection goes, its names stay.
HandlerEnds_KeepsNames(c) ==
    /\ c \in connections \cap gone
    /\ At(c, "idle")
    /\ inbox[c] = {}
    /\ connections' = connections \ {c}
    /\ UNCHANGED <<epochs, owner, age, subscriptions, clients, got, task, copies>>

\* The read loop ends and remove_connection drops the names.
HandlerEnds(c) ==
    /\ c \in connections \cap gone
    /\ At(c, "idle")
    /\ inbox[c] = {}
    /\ connections' = connections \ {c}
    /\ owner' = [n \in Names |-> owner[n] \ {c}]
    /\ UNCHANGED <<epochs, age, subscriptions, clients, got, task, copies>>

-----------------------------------------------------------------------------
(* Clients *)

Sends(c, m) ==
    /\ c \notin gone
    /\ inbox[c] = {}
    /\ inbox' = [inbox EXCEPT ![c] = {m}]

\* A client sends its messages in the order of their ids.
ClientCalls(m) ==
    /\ \A x \in unsent : x.sender = m.sender => m.id <= x.id
    /\ Sends(From(m), m)
    /\ unsent' = unsent \ {m}
    /\ UNCHANGED <<epochs, registry, subscriptions, scenario, gone, nread, replied, got, task, copies>>

\* A client answers a call it was given, at most once.
ClientReplies(c) ==
    \E i \in 1 .. nread[c] :
        LET e == got[c][i]
        IN  /\ e.m.type = "method_call" /\ ~ e.copy /\ ~ e.m.no_reply_expected
            /\ e.m.id \notin replied
            /\ replied' = replied \cup {e.m.id}
            /\ Sends(c, Reply(e.m, "method_return", c, "ok"))
            /\ UNCHANGED <<epochs, registry, subscriptions, scenario, gone, unsent, nread, got, task, copies>>

ClientReads(c) ==
    /\ c \notin gone
    /\ nread[c] < Len(got[c])
    /\ nread' = [nread EXCEPT ![c] = @ + 1]
    /\ UNCHANGED <<epochs, registry, subscriptions, scenario, gone, unsent, inbox, replied, got, task, copies>>

ClientCloses(c) ==
    /\ c \in scenario.closers \ gone
    /\ gone' = gone \cup {c}
    /\ UNCHANGED <<epochs, registry, subscriptions, scenario, unsent, inbox, nread, replied, got, task, copies>>

-----------------------------------------------------------------------------
Handler(c) ==
    \/ dispatch_incoming(c) \/ deliver_to_owner(c) \/ WriteToOwner(c) \/ reply_error(c)
    \/ broadcast_signal(c) \/ BroadcastWrite(c) \/ PollForOwner(c) \/ AfterActivation(c)
    \/ handle_driver_call(c) \/ HandlerEnds(c)

MonitorTask == \E x \in copies : deliver_to_monitors(x[1], x[2])

RoutingNext ==
    \/ \E c \in Conns : Handler(c) \/ ClientReplies(c) \/ ClientReads(c) \/ ClientCloses(c)
    \/ \E m \in unsent : ClientCalls(m)
    \/ MonitorTask
    \/ \E c \in Conns, n \in Names : handle_request_name(c, n) \/ handle_release_name(c, n)
    \/ Tick
    \/ reload_policy

RoutingSpec == RoutingInit /\ [][RoutingNext]_routingVars

\* The runtime runs every task that can go on, and every client keeps reading.
FairRoutingSpec ==
    /\ RoutingSpec
    /\ \A c \in Conns : WF_routingVars(Handler(c)) /\ WF_routingVars(ClientReads(c))
    /\ WF_routingVars(MonitorTask)
    /\ WF_routingVars(Tick)

-----------------------------------------------------------------------------
(* Properties *)

Answers(m) ==
    {i \in DOMAIN got[From(m)] :
        LET e == got[From(m)][i]
        IN  ~ e.copy /\ e.m.id = m.id /\ e.m.type \in {"method_return", "error"}}

Deliveries(m) ==
    UNION {{c} \X {i \in DOMAIN got[c] : ~ got[c][i].copy /\ got[c][i].m = m} : c \in Conns}

Calls == {m \in scenario.messages : m.type = "method_call"}

\* A handler works on a message of its own connection, a name is owned by a
\* connection, and nobody has read what was not written.
RoutingTypeOK ==
    /\ connections \subseteq Conns /\ gone \subseteq scenario.closers /\ is_monitor \subseteq Conns
    /\ \A n \in Names : Cardinality(owner[n]) <= 1 /\ owner[n] \subseteq connections
    /\ \A c \in Conns :
          /\ nread[c] <= Len(got[c])
          /\ Len(got[c]) <= nread[c] + Room
          /\ c \notin is_monitor => Len(match_rules[c]) <= MaxRules
          /\ task[c] # Idle => task[c].left \in 0 .. Timeout

\* A call is handed to one connection at most and answered once at most; one
\* that was handed over is not also refused by the bus, one that expects no
\* reply gets none, and none is forgotten: when the handler has gone on to
\* something else, the call was delivered or answered, or the caller is gone.
AnsweredOnce ==
    \A m \in Calls :
        /\ Cardinality(Answers(m)) <= IF m.no_reply_expected THEN 0 ELSE 1
        /\ Cardinality(Deliveries(m)) <= 1
        /\ Deliveries(m) # {} =>
              \A i \in Answers(m) : got[From(m)][i].m.sender # {BUS}
        /\ \/ m \in unsent \/ m \in inbox[From(m)]
           \/ ~ At(From(m), "idle") /\ task[From(m)].m.id = m.id
           \/ Deliveries(m) # {} \/ Answers(m) # {}
           \/ m.no_reply_expected \/ From(m) \in gone

\* A broadcast signal reaches a connection once at most, however many of its
\* rules match, and a monitor not both as a monitor and as a subscriber, even
\* one that became a monitor while the broadcast was under way.
OneCopyEach ==
    \A c \in Conns : \A i, j \in DOMAIN got[c] :
        LET m == got[c][i].m
        IN  /\ m.type = "signal" /\ m.destination = {}
            /\ got[c][j].m = m
            => i = j

\* Whatever is delivered was allowed: the sender by a policy in force while the
\* message was handled, the receiver by one no older and by AppArmor, and the
\* receiver of a call owned its destination at some time meanwhile.
DeliveredRightly ==
    \A c \in Conns : \A i \in DOMAIN got[c] :
        LET e == got[c][i]
        IN  /\ ~ e.copy
            /\ e.m.type = "method_call" \/ (e.m.type = "signal" /\ e.m.destination = {})
            => /\ \E s \in e.since .. e.now : \E r \in s .. e.now :
                     /\ can_send(epochs[s].rules, identity(From(e.m)), e.m, Text(e.m.destination))
                     /\ can_receive(epochs[r].rules, identity(c), e.m, Text(e.m.sender))
               /\ check_permission("receive", c, From(e.m))
               /\ e.m.type = "method_call" => c \in e.held

\* A caller is told that activation timed out only when nobody has owned the
\* name for longer than a poll, although the loop does not look once more when
\* the deadline has passed.
PromptServiceIsFound ==
    \A c \in Conns : At(c, "look") =>
        (task[c].left = 0 =>
            \A n \in Awaited(task[c].m) : owner[n] = {} \/ age[n] <= 1)

\* Reading the policy files and running their rules in the order of applicable()
\* gives what the files say: "context precedence: default, user, group,
\* mandatory" (policy.rs), and within a context the later directory, file and
\* element.
PolicyFollowsPrecedence ==
    LET files == FlattenSeq(Last(epochs).dirs)
    IN  Readable(files) =>
           \A q \in Questions : Permits(policy, q[1], q[2], q[3], q[4])
                                    = LastWord(files, q[1], q[2], q[3], q[4])

\* While clients keep reading, a handler always comes back to its socket: no
\* wait (for room in a receiver's socket, for a service to appear, for a
\* receiver that waits in turn) lasts for ever.
HandlersComeBack == \A c \in Conns : []<> At(c, "idle")

=============================================================================
