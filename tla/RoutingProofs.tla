---------------------------- MODULE RoutingProofs ----------------------------
(***************************************************************************)
(* What Routing promises for any set of connections, messages, policies and *)
(* reloads: nothing is delivered that was not allowed, a service that came  *)
(* in time is found, a broadcast comes once, a call is answered once and    *)
(* never forgotten, and the limits on rules and sockets hold.               *)
(*                                                                          *)
(* The inductive invariant RouteInv says of every handler at work what it   *)
(* has established by the await it stands at: the policy it has asked, in   *)
(* which epoch, and who has owned the destination since.  BroadcastsOK and  *)
(* CallsOK follow one message through the system, over the few kinds of     *)
(* steps (MessageStep) that the actions fall into; LimitsOK is about names  *)
(* and rules.                                                               *)
(***************************************************************************)
EXTENDS Routing, PolicyProofs, FiniteSetTheorems, WellFoundedInduction, TLAPS

-----------------------------------------------------------------------------
(* The sets the state is made of *)

Requests == UNION {s.messages : s \in Scenarios}

Codes == {"SPAWN_EXEC_FAILED", "BAD_ADDRESS", "ACCESS_DENIED", "SERVICE_UNKNOWN", "NO_REPLY",
          "LIMITS_EXCEEDED", "MATCH_RULE_INVALID", "MATCH_RULE_NOT_FOUND", "ok", "1", "2"}

ReplyTypes == {"method_return", "error"}

\* What the fields of a message or of a reply to it may hold.
RequestValues == UNION {{m[f] : f \in MessageFields} : m \in Requests}

FieldValues ==
    RequestValues \cup ReplyTypes \cup {TRUE}
        \cup {{c} : c \in Conns \cup {BUS}} \cup {{code} : code \in Codes}

Messages == [MessageFields -> FieldValues]

AllDirs == UNION {s.dirs : s \in Scenarios}

Epochs == [dirs : AllDirs, rules : {<< >>} \cup UNION {load_dirs(dirs) : dirs \in AllDirs}]

Entries == [m : Messages, copy : BOOLEAN, since : Nat, now : Nat, held : SUBSET Conns]

Places == {"driver", "deliver", "write", "answer", "broadcast", "broadcast_write",
           "look", "sleep", "activated"}

TasksAt(pcs) ==
    [pc : pcs, m : Messages, to : Conns, todo : SUBSET Conns, left : 0 .. Timeout,
     since : Nat, held : SUBSET Conns]

Tasks == TasksAt(Places)

\* A task that has just taken a message up.
Drafts == TasksAt(Places \cup {"start"})

RoutingTypes ==
    /\ scenario \in Scenarios
    /\ unsent \subseteq scenario.messages
    /\ epochs \in Seq(Epochs) /\ epochs # << >>
    /\ connections \subseteq Conns
    /\ owner \in [Names -> SUBSET Conns]
    /\ age \in [Names -> 0 .. 2]
    /\ inbox \in [Conns -> SUBSET Messages]
    /\ task \in [Conns -> {Idle} \cup Tasks]
    /\ is_monitor \subseteq Conns
    /\ copies \subseteq Conns \X Messages
    /\ got \in [Conns -> Seq(Entries)]

-----------------------------------------------------------------------------
(* What a handler knows at each await *)

MaySend(s, m) == can_send(epochs[s].rules, identity(From(m)), m, Text(m.destination))

MayReceive(r, d, m) == can_receive(epochs[r].rules, identity(d), m, Text(m.sender))

\* The message came from c; the clients send it, or it answers a call.
CameFrom(c, m) ==
    /\ m.sender = {c}
    /\ m \in scenario.messages \/ m.type \in ReplyTypes

\* Only calls wait for services and are answered, only broadcasts are written
\* to more than one connection.
KindAt(c, t) ==
    /\ t.pc # "answer" => CameFrom(c, t.m)
    /\ t.pc = "answer" => t.m.type \in ReplyTypes
    /\ t.pc \in {"driver", "deliver", "look", "sleep", "activated"} => t.m.type = "method_call"
    /\ t.pc = "driver" => t.m.destination = {BUS}
    /\ t.pc \in {"broadcast", "broadcast_write"} => t.m.type = "signal" /\ t.m.destination = {}
    /\ t.pc = "write" /\ t.m.type = "signal" => t.m.destination # {}

\* Every owner of the destination since the message was taken up is in held, and
\* a call goes to one of them.
HeldAt(t) ==
    /\ t.pc # "answer" => OwnerOf(t.m) \subseteq t.held
    /\ t.pc = "deliver" \/ (t.pc = "write" /\ t.m.type = "method_call") => t.to \in t.held

\* The sender was let through by a policy in force since then.
SendAt(t) ==
    /\ t.since \in 1 .. Len(epochs)
    /\ \/ t.pc \in {"deliver", "activated", "broadcast", "broadcast_write"}
       \/ t.pc \in {"look", "sleep"} /\ t.m.destination # {BUS}
       => \E s \in t.since .. Len(epochs) : MaySend(s, t.m)

\* What is about to be written was let through on both sides.
WriteAt(t) ==
    (t.pc = "write" /\ t.m.type = "method_call") \/ t.pc = "broadcast_write" =>
        /\ \E s \in t.since .. Len(epochs) : \E r \in s .. Len(epochs) :
              MaySend(s, t.m) /\ MayReceive(r, t.to, t.m)
        /\ check_permission("receive", t.to, From(t.m))

\* Between two polls a name that appears grows no older than the poll.
PollAt(t) ==
    t.pc \in {"look", "sleep"} =>
        /\ Awaited(t.m) \subseteq Names
        /\ t.pc = "sleep" => /\ t.left # 0
                             /\ \A n \in Awaited(t.m) : owner[n] = {} \/ age[n] = 0
        /\ t.left < Timeout => \A n \in Awaited(t.m) : owner[n] = {} \/ age[n] <= 1

TaskOK(c, t) ==
    /\ t \in {Idle} \cup Tasks
    /\ t # Idle => KindAt(c, t) /\ HeldAt(t) /\ SendAt(t) /\ WriteAt(t) /\ PollAt(t)

HandlerOK(c) == TaskOK(c, task[c])

InboxOK(c) == \A m \in inbox[c] : CameFrom(c, m)

\* Delivered as DeliveredRightly says, in an epoch that has begun.
EntryOK(c, e) ==
    /\ e.now \in 1 .. Len(epochs) /\ e.since \in 1 .. Len(epochs)
    /\ /\ ~ e.copy
       /\ e.m.type = "method_call" \/ (e.m.type = "signal" /\ e.m.destination = {})
       => /\ \E s \in e.since .. e.now : \E r \in s .. e.now :
                MaySend(s, e.m) /\ MayReceive(r, c, e.m)
          /\ check_permission("receive", c, From(e.m))
          /\ e.m.type = "method_call" => c \in e.held

GotOK(c) == \A i \in DOMAIN got[c] : EntryOK(c, got[c][i])

RouteInv == RoutingTypes /\ \A c \in Conns : HandlerOK(c) /\ InboxOK(c) /\ GotOK(c)

-----------------------------------------------------------------------------
(* Messages, replies and tasks *)

\* A request has the fields of a message.
LEMMA RequestsAreMessages == Requests \subseteq Messages
<1> SUFFICES ASSUME NEW m \in Requests
             PROVE  m \in Messages
  OBVIOUS
<1>1. m = [f \in MessageFields |-> m[f]]
  BY RoutingAssumption DEF Requests
<1>2. \A f \in MessageFields : m[f] \in {m[g] : g \in MessageFields}
  OBVIOUS
<1>3. \A f \in MessageFields : m[f] \in RequestValues
  BY <1>2 DEF RequestValues
<1> QED
  BY <1>1, <1>3 DEF Messages, FieldValues

\* The fields of a reply.
LEMMA ReplyFields ==
    ASSUME NEW m \in Messages, NEW type \in ReplyTypes, NEW by \in Conns \cup {BUS},
           NEW code \in Codes
    PROVE  /\ Reply(m, type, by, code) \in Messages
           /\ Reply(m, type, by, code).type = type
           /\ Reply(m, type, by, code).sender = {by}
           /\ Reply(m, type, by, code).destination = m.sender
           /\ Reply(m, type, by, code).id = m.id
<1>1. TRUE \in FieldValues /\ type \in FieldValues
  BY DEF FieldValues
<1>2. {by} \in FieldValues
  BY DEF FieldValues
<1>3. {code} \in FieldValues
  BY DEF FieldValues
<1>4. m.sender \in FieldValues
  BY DEF Messages, MessageFields
<1> HIDE DEF FieldValues
<1> QED
  BY <1>1, <1>2, <1>3, <1>4 DEF Reply, Messages, MessageFields

\* The only sender of a message.
LEMMA OneSender ==
    ASSUME NEW m, NEW c, m.sender = {c}
    PROVE  From(m) = c
  BY DEF From

\* A destination is owned by connections.
LEMMA OwnersAreConns ==
    ASSUME RoutingTypes, NEW m
    PROVE  OwnerOf(m) \in SUBSET Conns
  BY DEF RoutingTypes, OwnerOf, get_name_owner

\* The policy is that of the latest epoch.
LEMMA PolicyNow ==
    ASSUME RoutingTypes
    PROVE  /\ Len(epochs) \in Nat \ {0}
           /\ policy = epochs[Len(epochs)].rules
  BY DEF RoutingTypes, policy, Last

\* Whoever answers has nothing left to establish.
LEMMA AnsweringOK ==
    ASSUME NEW t \in Drafts, NEW c \in Conns, t.m.sender = {c}, t.since \in 1 .. Len(epochs),
           NEW type \in ReplyTypes, NEW code \in Codes
    PROVE  TaskOK(c, Answering(t, type, code))
<1> DEFINE r == Reply(t.m, type, BUS, code)
           u == [t EXCEPT !.pc = "answer", !.m = r, !.to = From(t.m)]
<1>1. t.m \in Messages
  BY DEF Drafts, TasksAt
<1>2. r \in Messages /\ r.type \in ReplyTypes
  <2>1. BUS \in Conns \cup {BUS}
    OBVIOUS
  <2>2. \A m \in Messages : /\ Reply(m, type, BUS, code) \in Messages
                            /\ Reply(m, type, BUS, code).type = type
    BY <2>1, ReplyFields
  <2> QED
    BY <1>1, <2>2
<1>3. From(t.m) = c
  BY OneSender
<1> HIDE DEF r
<1>4. u \in Tasks
  BY <1>2, <1>3 DEF Drafts, Tasks, TasksAt, Places
<1>5. u.pc = "answer" /\ u.m = r /\ u.since = t.since
  BY DEF Drafts, TasksAt
<1> HIDE DEF u
<1>6. r.type # "method_call"
  BY <1>2 DEF ReplyTypes
<1>7. KindAt(c, u) /\ HeldAt(u) /\ SendAt(u) /\ WriteAt(u) /\ PollAt(u)
  BY <1>2, <1>5, <1>6 DEF KindAt, HeldAt, SendAt, WriteAt, PollAt
<1>8. Answering(t, type, code) \in {Idle, u}
  BY DEF Answering, r, u
<1> QED
  BY <1>4, <1>7, <1>8 DEF TaskOK

-----------------------------------------------------------------------------
(* What a step leaves alone *)

\* What a task has established lasts while policy, owners and clock stand still.
LEMMA TaskLasts ==
    ASSUME NEW c, NEW t, TaskOK(c, t), task'[c] = t,
           UNCHANGED <<scenario, epochs, connections, owner, age>>
    PROVE  HandlerOK(c)'
<1>1. CASE t = Idle
  BY <1>1 DEF HandlerOK, TaskOK
<1>2. CASE t # Idle
  <2>1. t \in Tasks
    BY <1>2 DEF TaskOK
  <2>2. KindAt(c, t) => KindAt(c, task[c])'
    BY DEF KindAt, CameFrom
  <2>3. HeldAt(t) => HeldAt(task[c])'
    BY DEF HeldAt, OwnerOf, get_name_owner
  <2>4. SendAt(t) => SendAt(task[c])'
    BY DEF SendAt, MaySend
  <2>5. WriteAt(t) => WriteAt(task[c])'
    BY DEF WriteAt, MaySend, MayReceive
  <2>6. PollAt(t) => PollAt(task[c])'
    BY DEF PollAt
  <2> QED
    BY <1>2, <2>1, <2>2, <2>3, <2>4, <2>5, <2>6 DEF HandlerOK, TaskOK, Idle, Tasks
<1> QED
  BY <1>1, <1>2

\* What was written stays right while the policy stands still.
LEMMA GotLasts ==
    ASSUME NEW c, GotOK(c), got'[c] = got[c], UNCHANGED epochs
    PROVE  GotOK(c)'
  BY DEF GotOK, EntryOK, MaySend, MayReceive

\* One more entry, right as well.
LEMMA PutOK ==
    ASSUME RouteInv, NEW d \in Conns, NEW e \in Entries, EntryOK(d, e), Put(d, e), UNCHANGED epochs
    PROVE  /\ got' \in [Conns -> Seq(Entries)]
           /\ \A c \in Conns : GotOK(c)'
<1>1. got \in [Conns -> Seq(Entries)] /\ got' = [got EXCEPT ![d] = Append(got[d], e)]
  BY DEF RouteInv, RoutingTypes, Put
<1>2. got' \in [Conns -> Seq(Entries)]
  BY <1>1
<1>3. ASSUME NEW c \in Conns
      PROVE  GotOK(c)'
  <2>1. GotOK(c)
    BY DEF RouteInv
  <2>2. CASE c # d
    BY <1>1, <2>1, <2>2, GotLasts
  <2>3. CASE c = d
    <3>1. got'[c] = Append(got[c], e) /\ got[c] \in Seq(Entries)
      BY <1>1, <2>3
    <3>2. ASSUME NEW i \in DOMAIN got'[c]
          PROVE  got'[c][i] = e \/ (i \in DOMAIN got[c] /\ got'[c][i] = got[c][i])
      BY <3>1
    <3>3. ASSUME NEW i \in DOMAIN got'[c]
          PROVE  EntryOK(c, got'[c][i])
      BY <3>2, <2>1, <2>3 DEF GotOK
    <3> QED
      BY <3>3 DEF GotOK, EntryOK, MaySend, MayReceive
  <2> QED
    BY <2>2, <2>3
<1> QED
  BY <1>2, <1>3

\* A step of one handler that has established what its new place asks for.
HandlerMoves(c, u) ==
    /\ task' = [task EXCEPT ![c] = u]
    /\ UNCHANGED <<scenario, epochs, connections, owner, age, unsent>>
    /\ inbox' \in [Conns -> SUBSET Messages]
    /\ \A d \in Conns : inbox'[d] \subseteq inbox[d]
    /\ is_monitor' \subseteq Conns
    /\ copies' \subseteq Conns \X Messages
    /\ got' \in [Conns -> Seq(Entries)]
    /\ \A d \in Conns : GotOK(d)'

\* A handler moves on to u; nothing else of what the invariant speaks of gets worse.
LEMMA HandlerStep ==
    ASSUME RouteInv, NEW c \in Conns, NEW u, TaskOK(c, u), HandlerMoves(c, u)
    PROVE  RouteInv'
<1>1. task' \in [Conns -> {Idle} \cup Tasks]
  BY DEF RouteInv, RoutingTypes, TaskOK, HandlerMoves
<1>2. RoutingTypes'
  BY <1>1 DEF RouteInv, RoutingTypes, HandlerMoves, Tasks, TasksAt
<1>3. ASSUME NEW d \in Conns
      PROVE  HandlerOK(d)' /\ InboxOK(d)' /\ GotOK(d)'
  <2>1. TaskOK(d, IF d = c THEN u ELSE task[d])
    BY DEF RouteInv, HandlerOK
  <2>2. task'[d] = IF d = c THEN u ELSE task[d]
    BY DEF HandlerMoves, RouteInv, RoutingTypes
  <2>3. HandlerOK(d)'
    BY <2>1, <2>2, TaskLasts DEF HandlerMoves
  <2>4. InboxOK(d)'
    BY DEF RouteInv, InboxOK, CameFrom, HandlerMoves
  <2> QED
    BY <2>3, <2>4 DEF HandlerMoves
<1> QED
  BY <1>2, <1>3 DEF RouteInv

\* A handler's step that writes nothing and takes nothing.
LEMMA HandlerStepQuiet ==
    ASSUME RouteInv, NEW c \in Conns, NEW u, TaskOK(c, u), task' = [task EXCEPT ![c] = u],
           UNCHANGED <<scenario, epochs, connections, owner, age, unsent, inbox, copies, got>>,
           is_monitor' \subseteq Conns
    PROVE  RouteInv'
<1>1. ASSUME NEW d \in Conns
      PROVE  GotOK(d)'
  BY GotLasts DEF RouteInv
<1>2. HandlerMoves(c, u)
  BY <1>1 DEF HandlerMoves, RouteInv, RoutingTypes
<1> QED
  BY <1>2, HandlerStep

-----------------------------------------------------------------------------
(* The steps of a handler *)

\* A handler that is not idle has a task with all that its place asks for.
LEMMA AtWork ==
    ASSUME RouteInv, NEW c \in Conns, task[c].pc # "idle"
    PROVE  /\ task[c] \in Tasks /\ task[c] \in Drafts /\ task[c] # Idle
           /\ KindAt(c, task[c]) /\ HeldAt(task[c]) /\ SendAt(task[c])
           /\ WriteAt(task[c]) /\ PollAt(task[c])
<1>1. task[c] # Idle
  BY DEF Idle
<1>2. TaskOK(c, task[c])
  BY DEF RouteInv, HandlerOK
<1>3. Tasks \subseteq Drafts
  BY DEF Tasks, Drafts, TasksAt
<1> QED
  BY <1>1, <1>2, <1>3 DEF TaskOK

\* A handler without a message has nothing to keep.
LEMMA IdleOK == \A c : TaskOK(c, Idle)
  BY DEF TaskOK

\* Refusing, at any await before the answer.
LEMMA RefusalOK ==
    ASSUME RouteInv, NEW c \in Conns, task[c].pc \notin {"idle", "answer"}
    PROVE  \A type \in ReplyTypes, code \in Codes : TaskOK(c, Answering(task[c], type, code))
<1>1. /\ task[c] \in Drafts /\ task[c].m.sender = {c}
      /\ task[c].since \in 1 .. Len(epochs)
  BY AtWork DEF KindAt, CameFrom, SendAt
<1> QED
  BY <1>1, AnsweringOK

\* deliver_to_owner asks the receiver's policy in force by then.
LEMMA DeliverPreserves ==
    ASSUME RouteInv, NEW c \in Conns, deliver_to_owner(c)
    PROVE  RouteInv'
<1> DEFINE t == task[c]
           u == Step(c, "write")
<1>1. t.pc = "deliver"
  BY DEF deliver_to_owner, At
<1>2. /\ t \in Tasks /\ KindAt(c, t) /\ HeldAt(t) /\ SendAt(t)
  BY <1>1, AtWork
<1>3. ASSUME may_receive(t.to, t.m)
      PROVE  TaskOK(c, u)
  <2>1. u = [t EXCEPT !.pc = "write"]
    BY DEF Step
  <2> HIDE DEF t
  <2>2. u \in Tasks
    BY <1>2, <2>1 DEF Tasks, TasksAt, Places
  <2>3. /\ u.pc = "write" /\ u.m = t.m /\ u.to = t.to /\ u.since = t.since
        /\ u.held = t.held
    BY <1>2, <2>1 DEF Tasks, TasksAt
  <2> HIDE DEF u
  <2>4. KindAt(c, u) /\ HeldAt(u) /\ PollAt(u)
    BY <1>1, <1>2, <2>3 DEF KindAt, HeldAt, PollAt
  <2>5. SendAt(u)
    BY <1>2, <2>3 DEF SendAt
  <2>6. WriteAt(u)
    <3>1. PICK s \in t.since .. Len(epochs) : MaySend(s, t.m)
      BY <1>1, <1>2 DEF SendAt
    <3>2. Len(epochs) \in Nat /\ t.since \in Nat
      BY <1>2, PolicyNow DEF SendAt, RouteInv
    <3>3. Len(epochs) \in s .. Len(epochs)
      BY <3>2
    <3>4. MayReceive(Len(epochs), t.to, t.m) /\ check_permission("receive", t.to, From(t.m))
      BY <1>3, PolicyNow DEF may_receive, MayReceive, RouteInv
    <3> QED
      BY <2>3, <3>1, <3>3, <3>4 DEF WriteAt
  <2> QED
    BY <2>2, <2>4, <2>5, <2>6 DEF TaskOK
<1>4. ASSUME NEW code \in Codes
      PROVE  TaskOK(c, Fail(t, code))
  BY <1>1, RefusalOK DEF Fail, ReplyTypes
<1>5. PICK v : TaskOK(c, v) /\ task' = [task EXCEPT ![c] = v]
  <2>1. CASE t.to \notin connections
    BY <1>4, <2>1 DEF deliver_to_owner, Go, Codes
  <2>2. CASE t.to \in connections /\ ~ may_receive(t.to, t.m)
    BY <1>4, <2>2 DEF deliver_to_owner, Go, Codes
  <2>3. CASE t.to \in connections /\ may_receive(t.to, t.m)
    BY <1>3, <2>3 DEF deliver_to_owner, Go
  <2> QED
    BY <2>1, <2>2, <2>3
<1> HIDE DEF t, u
<1> QED
  BY <1>5, HandlerStepQuiet
  DEF deliver_to_owner, OnlyTask, registry, subscriptions, clients, RouteInv, RoutingTypes

\* What a handler writes it has established the right to write.
LEMMA WrittenOK ==
    ASSUME RouteInv, NEW c \in Conns, task[c].pc \in {"write", "answer", "broadcast_write"},
           Written(c, task[c].to), UNCHANGED epochs
    PROVE  /\ got' \in [Conns -> Seq(Entries)]
           /\ \A d \in Conns : GotOK(d)'
<1> DEFINE t == task[c]
           e == [m |-> t.m, copy |-> FALSE, since |-> t.since, now |-> Len(epochs),
                 held |-> t.held]
<1>1. /\ t \in Tasks /\ KindAt(c, t) /\ HeldAt(t) /\ SendAt(t) /\ WriteAt(t)
  BY AtWork
<1>2. Put(t.to, e)
  BY DEF Written, Entry
<1>3. Len(epochs) \in Nat \ {0}
  BY PolicyNow DEF RouteInv
<1>4. t.pc \in {"write", "answer", "broadcast_write"}
  OBVIOUS
<1> HIDE DEF t
<1>5. /\ t.m \in Messages /\ t.since \in Nat /\ t.held \in SUBSET Conns /\ t.to \in Conns
  BY <1>1 DEF Tasks, TasksAt
<1>6. FALSE \in BOOLEAN
  OBVIOUS
<1>7. e \in Entries
  BY <1>3, <1>5, <1>6 DEF Entries
<1>8. /\ e.m = t.m /\ e.since = t.since /\ e.now = Len(epochs) /\ e.held = t.held
  OBVIOUS
<1> HIDE DEF e
<1>9. EntryOK(t.to, e)
  <2>1. e.now \in 1 .. Len(epochs) /\ e.since \in 1 .. Len(epochs)
    BY <1>1, <1>3, <1>8 DEF SendAt
  <2>2. ASSUME t.m.type = "method_call" \/ (t.m.type = "signal" /\ t.m.destination = {})
        PROVE  /\ \E s \in t.since .. Len(epochs) : \E r \in s .. Len(epochs) :
                     MaySend(s, t.m) /\ MayReceive(r, t.to, t.m)
               /\ check_permission("receive", t.to, From(t.m))
               /\ t.m.type = "method_call" => t.to \in t.held
    <3>1. (t.pc = "write" /\ t.m.type = "method_call") \/ t.pc = "broadcast_write"
      BY <1>1, <1>4, <2>2 DEF KindAt, ReplyTypes
    <3>2. t.m.type = "method_call" => t.pc = "write"
      BY <1>1, <3>1 DEF KindAt
    <3> QED
      BY <1>1, <3>1, <3>2 DEF WriteAt, HeldAt
  <2> QED
    BY <1>8, <2>1, <2>2 DEF EntryOK
<1> QED
  BY <1>2, <1>5, <1>7, <1>9, PutOK

\* A handler writes, or fails to, and goes on.
LEMMA HandlerWrites ==
    ASSUME RouteInv, NEW c \in Conns, task[c].pc \in {"write", "answer", "broadcast_write"},
           Written(c, task[c].to) \/ WriteFails(task[c].to),
           NEW u, TaskOK(c, u), task' = [task EXCEPT ![c] = u], OnlyTask
    PROVE  RouteInv'
<1>1. UNCHANGED <<scenario, epochs, connections, owner, age, unsent, inbox, copies, is_monitor>>
  BY DEF OnlyTask, registry, subscriptions, clients
<1>2. CASE Written(c, task[c].to)
  <2>1. HandlerMoves(c, u)
    BY <1>1, <1>2, WrittenOK DEF HandlerMoves, RouteInv, RoutingTypes
  <2> QED
    BY <2>1, HandlerStep
<1>3. CASE WriteFails(task[c].to)
  BY <1>1, <1>3, HandlerStepQuiet DEF WriteFails, RouteInv, RoutingTypes
<1> QED
  BY <1>2, <1>3

\* The call or the reply is written to its receiver.
LEMMA WritePreserves ==
    ASSUME RouteInv, NEW c \in Conns, WriteToOwner(c)
    PROVE  RouteInv'
<1>1. task[c].pc = "write"
  BY DEF WriteToOwner, At
<1>2. TaskOK(c, Fail(task[c], "NO_REPLY"))
  BY <1>1, RefusalOK DEF Fail, ReplyTypes, Codes
<1>3. PICK u : TaskOK(c, u) /\ task' = [task EXCEPT ![c] = u]
  <2>1. task' = [task EXCEPT ![c] = Idle]
        \/ task' = [task EXCEPT ![c] = Fail(task[c], "NO_REPLY")]
    BY DEF WriteToOwner, Go
  <2> QED
    BY <1>2, <2>1, IdleOK
<1>4. (Written(c, task[c].to) \/ WriteFails(task[c].to)) /\ OnlyTask
  BY DEF WriteToOwner
<1> QED
  BY <1>1, <1>3, <1>4, HandlerWrites

\* The bus's answer is written to the caller.
LEMMA ReplyPreserves ==
    ASSUME RouteInv, NEW c \in Conns, reply_error(c)
    PROVE  RouteInv'
  BY HandlerWrites, IdleOK DEF reply_error, At, Go

\* The broadcast is written to the connection at hand.
LEMMA BroadcastWritePreserves ==
    ASSUME RouteInv, NEW c \in Conns, BroadcastWrite(c)
    PROVE  RouteInv'
<1> DEFINE t == task[c]
           u == Step(c, "broadcast")
<1>1. t.pc = "broadcast_write"
  BY DEF BroadcastWrite, At
<1>2. /\ t \in Tasks /\ KindAt(c, t) /\ HeldAt(t) /\ SendAt(t)
  BY <1>1, AtWork
<1>3. TaskOK(c, u)
  <2>1. u = [t EXCEPT !.pc = "broadcast"]
    BY DEF Step
  <2> HIDE DEF t
  <2>2. u \in Tasks
    BY <1>2, <2>1 DEF Tasks, TasksAt, Places
  <2>3. u.pc = "broadcast" /\ u.m = t.m /\ u.since = t.since /\ u.held = t.held
    BY <1>2, <2>1 DEF Tasks, TasksAt
  <2> HIDE DEF u
  <2>4. KindAt(c, u) /\ HeldAt(u) /\ SendAt(u) /\ WriteAt(u) /\ PollAt(u)
    BY <1>1, <1>2, <2>3 DEF KindAt, HeldAt, SendAt, WriteAt, PollAt
  <2> QED
    BY <2>2, <2>4 DEF TaskOK
<1> QED
  BY <1>1, <1>3, HandlerWrites DEF BroadcastWrite, Go

\* The next connection of the snapshot is passed over or was let through.
LEMMA BroadcastPreserves ==
    ASSUME RouteInv, NEW c \in Conns, broadcast_signal(c)
    PROVE  RouteInv'
<1> DEFINE t == task[c]
           pc(d) == IF Wanted(d, t.m) THEN "broadcast_write" ELSE t.pc
           u(d) == [t EXCEPT !.todo = t.todo \ {d}, !.to = d, !.pc = pc(d)]
<1>1. t.pc = "broadcast"
  BY DEF broadcast_signal, At
<1>2. /\ t \in Tasks /\ KindAt(c, t) /\ HeldAt(t) /\ SendAt(t)
  BY <1>1, AtWork
<1>3. ASSUME NEW d \in t.todo
      PROVE  TaskOK(c, u(d))
  <2> DEFINE v == u(d)
             p == pc(d)
  <2>1. p \in {"broadcast", "broadcast_write"}
    BY <1>1
  <2>2. p = "broadcast_write" => Wanted(d, t.m)
    BY <1>1
  <2>3. v = [t EXCEPT !.todo = t.todo \ {d}, !.to = d, !.pc = p]
    OBVIOUS
  <2> HIDE DEF p, v, t, u, pc
  <2>4. v \in Tasks
    BY <1>2, <1>3, <2>1, <2>3 DEF Tasks, TasksAt, Places
  <2>5. v.pc = p /\ v.m = t.m /\ v.since = t.since /\ v.held = t.held /\ v.to = d
    BY <1>2, <2>3 DEF Tasks, TasksAt
  <2>6. KindAt(c, v) /\ HeldAt(v) /\ SendAt(v) /\ PollAt(v)
    BY <1>1, <1>2, <2>1, <2>5 DEF KindAt, HeldAt, SendAt, PollAt
  <2>7. WriteAt(v)
    <3>1. CASE p = "broadcast"
      BY <2>5, <3>1 DEF WriteAt
    <3>2. CASE p = "broadcast_write"
      <4>1. PICK s \in t.since .. Len(epochs) : MaySend(s, t.m)
        BY <1>1, <1>2 DEF SendAt
      <4>2. Len(epochs) \in Nat /\ t.since \in Nat
        BY <1>2, PolicyNow DEF SendAt, RouteInv
      <4>3. Len(epochs) \in s .. Len(epochs)
        BY <4>2
      <4>4. may_receive(d, t.m)
        BY <2>2, <3>2 DEF Wanted
      <4>5. MayReceive(Len(epochs), d, t.m) /\ check_permission("receive", d, From(t.m))
        BY <4>4, PolicyNow DEF may_receive, MayReceive, RouteInv
      <4> QED
        BY <2>5, <4>1, <4>3, <4>5 DEF WriteAt
    <3> QED
      BY <2>1, <3>1, <3>2
  <2>8. TaskOK(c, v)
    BY <2>4, <2>6, <2>7 DEF TaskOK
  <2> QED
    BY <2>8 DEF v
<1>4. PICK v : TaskOK(c, v) /\ task' = [task EXCEPT ![c] = v]
  <2>1. CASE task' = [task EXCEPT ![c] = Idle]
    BY <2>1, IdleOK
  <2>2. CASE \E d \in t.todo : task' = [task EXCEPT ![c] = u(d)]
    <3> HIDE DEF u
    <3> QED
      BY <1>3, <2>2
  <2> QED
    BY <2>1, <2>2 DEF broadcast_signal, Go
<1> HIDE DEF t, u
<1> QED
  BY <1>4, HandlerStepQuiet
  DEF broadcast_signal, OnlyTask, registry, subscriptions, clients, RouteInv, RoutingTypes

\* A handler goes on to look again, or has found its service.
LEMMA PollPreserves ==
    ASSUME RouteInv, NEW c \in Conns, PollForOwner(c)
    PROVE  RouteInv'
<1> DEFINE t == task[c]
<1>1. t.pc = "look"
  BY DEF PollForOwner, At
<1>2. /\ t \in Tasks /\ KindAt(c, t) /\ HeldAt(t) /\ SendAt(t) /\ PollAt(t)
  BY <1>1, AtWork
<1>3. /\ TaskOK(c, Fail(t, "SPAWN_EXEC_FAILED"))
      /\ TaskOK(c, Answering(t, "method_return", "1"))
  BY <1>1, RefusalOK DEF Fail, ReplyTypes, Codes
<1>4. ASSUME NEW p \in {"sleep", "activated"},
             p = "sleep" => t.left # 0 /\ Found(t) = {},
             p = "activated" => t.m.destination # {BUS}
      PROVE  TaskOK(c, Step(c, p))
  <2> DEFINE u == Step(c, p)
  <2>1. u = [t EXCEPT !.pc = p]
    BY DEF Step
  <2> HIDE DEF t, u
  <2>2. u \in Tasks
    BY <1>2, <2>1 DEF Tasks, TasksAt, Places
  <2>3. /\ u.pc = p /\ u.m = t.m /\ u.since = t.since /\ u.held = t.held /\ u.left = t.left
    BY <1>2, <2>1 DEF Tasks, TasksAt
  <2>4. KindAt(c, u) /\ HeldAt(u) /\ SendAt(u) /\ WriteAt(u)
    BY <1>1, <1>2, <1>4, <2>3 DEF KindAt, HeldAt, SendAt, WriteAt
  <2>5. PollAt(u)
    <3>1. CASE p = "activated"
      BY <2>3, <3>1 DEF PollAt
    <3>2. CASE p = "sleep"
      <4>1. Awaited(t.m) \subseteq Names
        BY <1>1, <1>2 DEF PollAt
      <4>2. \A n \in Awaited(t.m) : get_name_owner(n) = {}
        BY <1>4, <3>2 DEF Found
      <4>3. \A n \in Awaited(t.m) : owner[n] = {}
        BY <4>1, <4>2 DEF get_name_owner
      <4> QED
        BY <1>4, <2>3, <3>2, <4>1, <4>3 DEF PollAt
    <3> QED
      BY <3>1, <3>2
  <2> QED
    BY <2>2, <2>4, <2>5 DEF TaskOK, u
<1>5. PICK v : TaskOK(c, v) /\ task' = [task EXCEPT ![c] = v]
  <2>1. CASE t.left = 0
    BY <1>3, <2>1 DEF PollForOwner, Go
  <2>2. CASE t.left # 0 /\ Found(t) = {}
    BY <1>4, <2>2 DEF PollForOwner, Go
  <2>3. CASE t.left # 0 /\ Found(t) # {} /\ t.m.destination = {BUS}
    BY <1>3, <2>3 DEF PollForOwner, Go
  <2>4. CASE t.left # 0 /\ Found(t) # {} /\ t.m.destination # {BUS}
    BY <1>4, <2>4 DEF PollForOwner, Go
  <2> QED
    BY <2>1, <2>2, <2>3, <2>4
<1> HIDE DEF t
<1> QED
  BY <1>5, HandlerStepQuiet
  DEF PollForOwner, OnlyTask, registry, subscriptions, clients, RouteInv, RoutingTypes

\* After the wait the owner is looked up anew.
LEMMA ActivatedPreserves ==
    ASSUME RouteInv, NEW c \in Conns, AfterActivation(c)
    PROVE  RouteInv'
<1> DEFINE t == task[c]
           d == CHOOSE x \in OwnerOf(t.m) : TRUE
           u == [t EXCEPT !.pc = "deliver", !.to = d]
<1>1. t.pc = "activated"
  BY DEF AfterActivation, At
<1>2. /\ t \in Tasks /\ KindAt(c, t) /\ HeldAt(t) /\ SendAt(t)
  BY <1>1, AtWork
<1>3. TaskOK(c, Fail(t, "SERVICE_UNKNOWN"))
  BY <1>1, RefusalOK DEF Fail, ReplyTypes, Codes
<1>4. ASSUME OwnerOf(t.m) # {}
      PROVE  TaskOK(c, u)
  <2>1. d \in OwnerOf(t.m)
    BY <1>4
  <2>2. d \in Conns
    BY <2>1, OwnersAreConns DEF RouteInv
  <2> HIDE DEF t, d
  <2>3. u \in Tasks
    BY <1>2, <2>2 DEF Tasks, TasksAt, Places
  <2>4. u.pc = "deliver" /\ u.m = t.m /\ u.since = t.since /\ u.held = t.held /\ u.to = d
    BY <1>2 DEF Tasks, TasksAt
  <2> HIDE DEF u
  <2>5. KindAt(c, u) /\ HeldAt(u) /\ SendAt(u) /\ WriteAt(u) /\ PollAt(u)
    BY <1>1, <1>2, <2>1, <2>4 DEF KindAt, HeldAt, SendAt, WriteAt, PollAt
  <2> QED
    BY <2>3, <2>5 DEF TaskOK
<1>5. PICK v : TaskOK(c, v) /\ task' = [task EXCEPT ![c] = v]
  BY <1>3, <1>4 DEF AfterActivation, Go
<1> HIDE DEF t, u
<1> QED
  BY <1>5, HandlerStepQuiet
  DEF AfterActivation, OnlyTask, registry, subscriptions, clients, RouteInv, RoutingTypes

-----------------------------------------------------------------------------
(* Taking a message up, and the calls of the bus *)

\* What is known of a message that is being handled, before anything is asked.
TakenUp(c, t) ==
    /\ t \in Drafts
    /\ CameFrom(c, t.m)
    /\ t.since \in 1 .. Len(epochs)
    /\ OwnerOf(t.m) \subseteq t.held

\* The first look of an activation.
LEMMA ActivationOK ==
    ASSUME NEW c \in Conns, NEW t, TakenUp(c, t), t.m.type = "method_call",
           Awaited(t.m) \subseteq Names,
           t.m.destination # {BUS} => \E s \in t.since .. Len(epochs) : MaySend(s, t.m)
    PROVE  \A n : \A u \in activate_and_wait(t, n) : TaskOK(c, u)
<1> DEFINE v == [t EXCEPT !.pc = "look", !.left = Timeout]
<1>1. t \in Drafts
  BY DEF TakenUp
<1>2. TaskOK(c, Fail(t, "SPAWN_EXEC_FAILED"))
  BY AnsweringOK DEF TakenUp, CameFrom, Fail, ReplyTypes, Codes
<1>3. Timeout \in 0 .. Timeout /\ ~ (Timeout < Timeout)
  BY RoutingAssumption
<1>4. v \in Tasks
  BY <1>1, <1>3 DEF Drafts, Tasks, TasksAt, Places
<1>5. /\ v.pc = "look" /\ v.m = t.m /\ v.since = t.since /\ v.held = t.held /\ v.left = Timeout
  BY <1>1 DEF Drafts, TasksAt
<1> HIDE DEF v
<1>6. KindAt(c, v) /\ HeldAt(v) /\ SendAt(v) /\ WriteAt(v) /\ PollAt(v)
  BY <1>3, <1>5 DEF TakenUp, KindAt, HeldAt, SendAt, WriteAt, PollAt
<1>7. TaskOK(c, v)
  BY <1>4, <1>6 DEF TaskOK
<1>8. \A n : \A u \in activate_and_wait(t, n) : u = v \/ u = Fail(t, "SPAWN_EXEC_FAILED")
  BY DEF activate_and_wait, v
<1> QED
  BY <1>2, <1>7, <1>8

\* What goes straight to an owner is no call, and a signal has a destination.
LEMMA ForwardOK ==
    ASSUME RouteInv, NEW c \in Conns, NEW t, TakenUp(c, t), t.m.type # "method_call",
           t.m.type = "signal" => t.m.destination # {}
    PROVE  TaskOK(c, Forward(t))
<1> DEFINE d == CHOOSE x \in OwnerOf(t.m) : TRUE
           u == [t EXCEPT !.pc = "write", !.to = d]
<1>1. CASE OwnerOf(t.m) = {}
  BY <1>1, IdleOK DEF Forward
<1>2. CASE OwnerOf(t.m) # {}
  <2>1. d \in Conns
    BY <1>2, OwnersAreConns DEF RouteInv
  <2> HIDE DEF d
  <2>2. t \in Drafts
    BY DEF TakenUp
  <2>3. u \in Tasks
    BY <2>1, <2>2 DEF Drafts, Tasks, TasksAt, Places
  <2>4. u.pc = "write" /\ u.m = t.m /\ u.since = t.since /\ u.held = t.held
    BY <2>2 DEF Drafts, TasksAt
  <2>5. Forward(t) = u
    BY <1>2 DEF Forward, d
  <2> HIDE DEF u
  <2>6. KindAt(c, u) /\ HeldAt(u) /\ SendAt(u) /\ WriteAt(u) /\ PollAt(u)
    BY <2>4 DEF TakenUp, KindAt, HeldAt, SendAt, WriteAt, PollAt
  <2> QED
    BY <2>3, <2>5, <2>6 DEF TaskOK
<1> QED
  BY <1>1, <1>2

\* A policy that lets the message through now is one in force since it was taken up.
LEMMA SendNow ==
    ASSUME RouteInv, NEW c, NEW t, TakenUp(c, t),
           can_send(policy, identity(c), t.m, Text(t.m.destination))
    PROVE  \E s \in t.since .. Len(epochs) : MaySend(s, t.m)
<1>1. Len(epochs) \in Nat \ {0} /\ policy = epochs[Len(epochs)].rules
  BY PolicyNow DEF RouteInv
<1>2. Len(epochs) \in t.since .. Len(epochs)
  BY <1>1 DEF TakenUp
<1>3. From(t.m) = c
  BY OneSender DEF TakenUp, CameFrom
<1> QED
  BY <1>1, <1>2, <1>3 DEF MaySend

\* A signal taken up: the sender's policy was asked before anything else.
LEMMA SignalOK ==
    ASSUME RouteInv, NEW c \in Conns, NEW t, TakenUp(c, t), t.m.type = "signal"
    PROVE  TaskOK(c, dispatch_signal(t, c))
<1> DEFINE u == [t EXCEPT !.pc = "broadcast", !.todo = connections]
<1>1. ASSUME can_send(policy, identity(c), t.m, Text(t.m.destination)), t.m.destination = {}
      PROVE  TaskOK(c, u)
  <2>1. t \in Drafts /\ connections \subseteq Conns
    BY DEF TakenUp, RouteInv, RoutingTypes
  <2>2. u \in Tasks
    BY <2>1 DEF Drafts, Tasks, TasksAt, Places
  <2>3. u.pc = "broadcast" /\ u.m = t.m /\ u.since = t.since /\ u.held = t.held
    BY <2>1 DEF Drafts, TasksAt
  <2>4. \E s \in t.since .. Len(epochs) : MaySend(s, t.m)
    BY <1>1, SendNow
  <2> HIDE DEF u
  <2>5. KindAt(c, u) /\ HeldAt(u) /\ SendAt(u) /\ WriteAt(u) /\ PollAt(u)
    BY <1>1, <2>3, <2>4 DEF TakenUp, KindAt, HeldAt, SendAt, WriteAt, PollAt
  <2> QED
    BY <2>2, <2>5 DEF TaskOK
<1>2. t.m.destination # {} => TaskOK(c, Forward(t))
  BY ForwardOK
<1> QED
  BY <1>1, <1>2, IdleOK DEF dispatch_signal

\* A call taken up: refused, delivered, answered by the bus or waiting for a service.
LEMMA CallOK ==
    ASSUME RouteInv, NEW c \in Conns, NEW t, TakenUp(c, t), t.m.type = "method_call",
           NEW u \in dispatch_method_call(t, c)
    PROVE  TaskOK(c, u)
<1> DEFINE peer == IF OwnerOf(t.m) = {} THEN "none" ELSE CHOOSE d \in OwnerOf(t.m) : TRUE
           allowed == /\ can_send(policy, identity(c), t.m, Text(t.m.destination))
                      /\ check_permission("send", c, peer)
           v == [t EXCEPT !.pc = "driver"]
           w == [t EXCEPT !.pc = "deliver", !.to = peer]
<1>1. t \in Drafts
  BY DEF TakenUp
<1>2. \A code \in Codes : TaskOK(c, Fail(t, code))
  BY AnsweringOK DEF TakenUp, CameFrom, Fail, ReplyTypes
<1>3. t.m.destination = {BUS} => TaskOK(c, v)
  <2>1. v \in Tasks
    BY <1>1 DEF Drafts, Tasks, TasksAt, Places
  <2>2. v.pc = "driver" /\ v.m = t.m /\ v.since = t.since /\ v.held = t.held
    BY <1>1 DEF Drafts, TasksAt
  <2> HIDE DEF v
  <2>3. t.m.destination = {BUS} =>
           KindAt(c, v) /\ HeldAt(v) /\ SendAt(v) /\ WriteAt(v) /\ PollAt(v)
    BY <2>2 DEF TakenUp, KindAt, HeldAt, SendAt, WriteAt, PollAt
  <2> QED
    BY <2>1, <2>3 DEF TaskOK
<1>4. allowed => \E s \in t.since .. Len(epochs) : MaySend(s, t.m)
  BY SendNow
<1>5. ASSUME allowed, OwnerOf(t.m) # {}
      PROVE  TaskOK(c, w)
  <2>1. peer \in OwnerOf(t.m)
    BY <1>5
  <2>2. peer \in Conns
    BY <2>1, OwnersAreConns DEF RouteInv
  <2>3. \E s \in t.since .. Len(epochs) : MaySend(s, t.m)
    BY <1>4, <1>5
  <2> HIDE DEF peer, allowed
  <2>4. w \in Tasks
    BY <1>1, <2>2 DEF Drafts, Tasks, TasksAt, Places
  <2>5. /\ w.pc = "deliver" /\ w.m = t.m /\ w.since = t.since /\ w.held = t.held /\ w.to = peer
    BY <1>1 DEF Drafts, TasksAt
  <2> HIDE DEF w
  <2>6. KindAt(c, w) /\ HeldAt(w) /\ SendAt(w) /\ WriteAt(w) /\ PollAt(w)
    BY <2>1, <2>3, <2>5 DEF TakenUp, KindAt, HeldAt, SendAt, WriteAt, PollAt
  <2> QED
    BY <2>4, <2>6 DEF TaskOK
<1>6. ASSUME allowed, t.m.destination # {BUS}, t.m.destination \subseteq Names,
             NEW n \in t.m.destination, u \in activate_and_wait(t, n)
      PROVE  TaskOK(c, u)
  <2>1. Awaited(t.m) \subseteq Names
    BY <1>6 DEF Awaited
  <2> QED
    BY <1>4, <1>6, <2>1, ActivationOK
<1>7. \/ u = Fail(t, "BAD_ADDRESS") \/ u = Fail(t, "ACCESS_DENIED") \/ u = Fail(t, "SERVICE_UNKNOWN")
      \/ t.m.destination = {BUS} /\ u = v
      \/ allowed /\ OwnerOf(t.m) # {} /\ u = w
      \/ /\ allowed /\ t.m.destination # {BUS} /\ t.m.destination \subseteq Names
         /\ \E n \in t.m.destination : u \in activate_and_wait(t, n)
  BY DEF dispatch_method_call
<1> HIDE DEF v, w, allowed
<1> QED
  BY <1>2, <1>3, <1>5, <1>6, <1>7 DEF Codes

\* dispatch_incoming up to its first await.
LEMMA DispatchPreserves ==
    ASSUME RouteInv, NEW c \in Conns, dispatch_incoming(c)
    PROVE  RouteInv'
<1> DEFINE Taken(m) == [pc |-> "start", m |-> m, to |-> c, todo |-> {}, left |-> 0,
                        since |-> Len(epochs), held |-> OwnerOf(m)]
<1>1. PICK m \in inbox[c] :
         /\ inbox' = [inbox EXCEPT ![c] = {}]
         /\ copies' = copies \cup ((is_monitor \cap connections) \X {m})
         /\ \/ m.type = "signal" /\ Go(c, dispatch_signal(Taken(m), c))
            \/ m.type = "method_call" /\ \E u \in dispatch_method_call(Taken(m), c) : Go(c, u)
            \/ m.type \in {"method_return", "error"} /\ Go(c, dispatch_reply(Taken(m)))
         /\ UNCHANGED <<epochs, registry, subscriptions, scenario, gone, unsent, nread, replied, got>>
  BY DEF dispatch_incoming
<1> DEFINE t == Taken(m)
<1>2. RoutingTypes /\ CameFrom(c, m)
  BY DEF RouteInv, InboxOK
<1>3. m \in Messages
  BY <1>2 DEF RoutingTypes
<1>4. t.m = m
  OBVIOUS
<1>5. TakenUp(c, t)
  <2>1. Len(epochs) \in Nat \ {0}
    BY <1>2, PolicyNow
  <2>2. OwnerOf(m) \in SUBSET Conns
    BY <1>2, OwnersAreConns
  <2>3. 0 \in 0 .. Timeout
    BY RoutingAssumption
  <2>4. t \in Drafts
    BY <1>3, <2>1, <2>2, <2>3 DEF Drafts, TasksAt
  <2> QED
    BY <1>2, <2>1, <2>4 DEF TakenUp
<1> HIDE DEF t, Taken
<1>6. PICK u : TaskOK(c, u) /\ task' = [task EXCEPT ![c] = u]
  <2>1. CASE m.type = "signal" /\ Go(c, dispatch_signal(t, c))
    BY <1>4, <1>5, <2>1, SignalOK DEF Go
  <2>2. CASE m.type = "method_call" /\ \E u \in dispatch_method_call(t, c) : Go(c, u)
    BY <1>4, <1>5, <2>2, CallOK DEF Go
  <2>3. CASE m.type \in {"method_return", "error"} /\ Go(c, dispatch_reply(t))
    BY <1>4, <1>5, <2>3, ForwardOK DEF Go, dispatch_reply
  <2> QED
    BY <1>1, <2>1, <2>2, <2>3 DEF t
<1>7. ASSUME NEW d \in Conns
      PROVE  GotOK(d)'
  BY <1>1, GotLasts DEF RouteInv
<1>8. /\ inbox' \in [Conns -> SUBSET Messages]
      /\ \A d \in Conns : inbox'[d] \subseteq inbox[d]
  BY <1>1, <1>2 DEF RoutingTypes
<1>9. copies' \subseteq Conns \X Messages
  BY <1>1, <1>2, <1>3 DEF RoutingTypes
<1>10. HandlerMoves(c, u)
  BY <1>1, <1>2, <1>6, <1>7, <1>8, <1>9
  DEF HandlerMoves, registry, subscriptions, RoutingTypes
<1> QED
  BY <1>6, <1>10, HandlerStep

\* The driver answers, or starts the service that StartServiceByName names.
LEMMA DriverPreserves ==
    ASSUME RouteInv, NEW c \in Conns, handle_driver_call(c)
    PROVE  RouteInv'
<1> DEFINE t == task[c]
<1>1. t.pc = "driver"
  BY DEF handle_driver_call, At
<1>2. /\ t \in Drafts /\ KindAt(c, t) /\ HeldAt(t) /\ SendAt(t)
  BY <1>1, AtWork
<1>3. \A type \in ReplyTypes, code \in Codes : TaskOK(c, Answering(t, type, code))
  BY <1>1, RefusalOK
<1>4. ASSUME t.m.member = {"StartServiceByName"}, NEW n \in t.m.body[1] \cap Names,
             NEW u \in activate_and_wait(t, n)
      PROVE  TaskOK(c, u)
  <2>1. t.m.type = "method_call" /\ t.m.destination = {BUS} /\ CameFrom(c, t.m)
    BY <1>1, <1>2 DEF KindAt
  <2>2. t.m \in scenario.messages /\ scenario \in Scenarios
    BY <2>1 DEF CameFrom, ReplyTypes, RouteInv, RoutingTypes
  <2>3. t.m.body[1] = {n}
    BY <1>4, <2>1, <2>2, RoutingAssumption
  <2>4. Awaited(t.m) \subseteq Names
    BY <2>1, <2>3 DEF Awaited
  <2>5. TakenUp(c, t)
    BY <1>1, <1>2, <2>1 DEF TakenUp, HeldAt, SendAt
  <2> QED
    BY <2>1, <2>4, <2>5, ActivationOK
<1>5. ASSUME NEW x, NEW y, x \in ReplyTypes, y \in Codes, Go(c, Answering(t, x, y))
      PROVE  \E u : TaskOK(c, u) /\ task' = [task EXCEPT ![c] = u]
  BY <1>3, <1>5 DEF Go
<1>6. PICK u : TaskOK(c, u) /\ task' = [task EXCEPT ![c] = u]
  <2>1. CASE handle_add_match(c)
    BY <1>5, <2>1 DEF handle_add_match, Fail, ReplyTypes, Codes
  <2>2. CASE handle_remove_match(c)
    <3>1. Go(c, Fail(t, "MATCH_RULE_NOT_FOUND")) \/ Go(c, Answering(t, "method_return", "ok"))
      BY <2>2 DEF handle_remove_match, Go
    <3> QED
      BY <1>5, <3>1 DEF Fail, ReplyTypes, Codes
  <2>3. CASE BecomeMonitor(c)
    BY <1>5, <2>3 DEF BecomeMonitor, ReplyTypes, Codes
  <2>4. CASE t.m.member = {"StartServiceByName"} /\ handle_start_service(c)
    <3>1. PICK n \in t.m.body[1] :
             \/ Go(c, Answering(t, "method_return", "2"))
             \/ Go(c, Fail(t, "SERVICE_UNKNOWN"))
             \/ n \in Names /\ \E u \in activate_and_wait(t, n) : Go(c, u)
      BY <2>4 DEF handle_start_service
    <3> QED
      BY <1>4, <1>5, <2>4, <3>1 DEF Fail, ReplyTypes, Codes, Go
  <2>5. CASE Go(c, Answering(t, "method_return", "ok"))
    BY <1>5, <2>5 DEF ReplyTypes, Codes
  <2> QED
    BY <2>1, <2>2, <2>3, <2>4, <2>5 DEF handle_driver_call
<1>7. is_monitor' \subseteq Conns
  BY DEF handle_driver_call, BecomeMonitor, subscriptions, RouteInv, RoutingTypes
<1>8. UNCHANGED <<scenario, epochs, connections, owner, age, unsent, inbox, copies, got>>
  BY DEF handle_driver_call, registry, clients
<1> HIDE DEF t
<1> QED
  BY <1>6, <1>7, <1>8, HandlerStepQuiet

-----------------------------------------------------------------------------
(* Names, time, policy and connections change *)

\* What does not depend on names and clock lasts.
LEMMA AskedLasts ==
    ASSUME NEW c, NEW t, task'[c] = t, KindAt(c, t), SendAt(t), WriteAt(t),
           UNCHANGED <<scenario, epochs>>
    PROVE  KindAt(c, task[c])' /\ SendAt(task[c])' /\ WriteAt(task[c])'
<1>1. KindAt(c, task[c])'
  BY DEF KindAt, CameFrom
<1>2. SendAt(task[c])'
  BY DEF SendAt, MaySend
<1>3. WriteAt(task[c])'
  BY DEF WriteAt, MaySend, MayReceive
<1> QED
  BY <1>1, <1>2, <1>3

\* A connection that ends leaves the handlers of the others where they are.
LEMMA EndsPreserves ==
    ASSUME RouteInv, NEW c \in Conns, HandlerEnds(c)
    PROVE  RouteInv'
<1>1. /\ RoutingTypes
      /\ UNCHANGED <<scenario, epochs, age, unsent, inbox, task, is_monitor, copies, got>>
      /\ connections' = connections \ {c}
      /\ owner' = [n \in Names |-> owner[n] \ {c}]
  BY DEF HandlerEnds, RouteInv, subscriptions, clients
<1>2. RoutingTypes'
  BY <1>1 DEF RoutingTypes, Tasks, TasksAt
<1>3. ASSUME NEW d \in Conns
      PROVE  HandlerOK(d)'
  <2> DEFINE t == task[d]
  <2>1. CASE t = Idle
    BY <1>1, <2>1, IdleOK DEF HandlerOK, TaskOK
  <2>2. CASE t # Idle
    <3>1. /\ t \in Tasks /\ KindAt(d, t) /\ HeldAt(t) /\ SendAt(t)
          /\ WriteAt(t) /\ PollAt(t)
      BY <2>2 DEF RouteInv, HandlerOK, TaskOK
    <3>2. task'[d] = t
      BY <1>1
    <3>3. (KindAt(d, task[d]) /\ SendAt(task[d]) /\ WriteAt(task[d]))'
      BY <1>1, <3>1, <3>2, AskedLasts
    <3>4. \A n : get_name_owner(n)' \subseteq get_name_owner(n)
      BY <1>1 DEF get_name_owner, RoutingTypes
    <3>5. OwnerOf(task[d].m)' \subseteq OwnerOf(t.m)
      BY <3>2, <3>4 DEF OwnerOf
    <3>6. HeldAt(task[d])'
      BY <3>1, <3>2, <3>5 DEF HeldAt
    <3>7. PollAt(task[d])'
      BY <1>1, <3>1, <3>2 DEF PollAt
    <3> QED
      BY <3>1, <3>2, <3>3, <3>6, <3>7, <2>2 DEF HandlerOK, TaskOK, Idle, Tasks
  <2> QED
    BY <2>1, <2>2
<1>4. ASSUME NEW d \in Conns
      PROVE  InboxOK(d)' /\ GotOK(d)'
  BY <1>1, GotLasts DEF RouteInv, InboxOK, CameFrom
<1> QED
  BY <1>2, <1>3, <1>4 DEF RouteInv

\* A name gets an owner or loses it; who has handled a message for it since then
\* has seen that owner.
LEMMA NewOwnerPreserves ==
    ASSUME RouteInv, NEW n \in Names, NEW o \in SUBSET Conns, NewOwner(n, o),
           UNCHANGED <<scenario, epochs, connections, unsent, inbox, is_monitor, copies, got>>
    PROVE  RouteInv'
<1> DEFINE t(d) == task[d]
           u(d) == IF t(d).pc # "idle" /\ n \in t(d).m.destination
                   THEN [t(d) EXCEPT !.held = t(d).held \cup o] ELSE t(d)
<1>1. /\ RoutingTypes
      /\ owner' = [owner EXCEPT ![n] = o]
      /\ age' = [age EXCEPT ![n] = 0]
      /\ task' = [d \in Conns |-> u(d)]
  BY DEF NewOwner, RouteInv, At
<1>2. ASSUME NEW d \in Conns
      PROVE  HandlerOK(d)'
  <2>1. CASE task[d] = Idle
    <3>1. task'[d] = Idle
      BY <1>1, <2>1 DEF Idle
    <3> QED
      BY <3>1 DEF HandlerOK, TaskOK
  <2>2. CASE task[d] # Idle
    <3> DEFINE x == task[d]
               y == task'[d]
    <3>1. /\ x \in Tasks /\ KindAt(d, x) /\ HeldAt(x) /\ SendAt(x)
          /\ WriteAt(x) /\ PollAt(x)
      BY <2>2 DEF RouteInv, HandlerOK, TaskOK
    <3>2. x.pc # "idle"
      BY <3>1 DEF Tasks, TasksAt, Places
    <3>3. y = IF n \in x.m.destination THEN [x EXCEPT !.held = x.held \cup o] ELSE x
      BY <1>1, <3>2
    <3> HIDE DEF x, y, t, u
    <3>4. x.held \cup o \in SUBSET Conns
      BY <3>1 DEF Tasks, TasksAt
    <3>5. /\ y \in Tasks
          /\ y.pc = x.pc /\ y.m = x.m /\ y.to = x.to /\ y.left = x.left /\ y.since = x.since
          /\ y.held = IF n \in x.m.destination THEN x.held \cup o ELSE x.held
      <4>1. CASE n \in x.m.destination
        BY <3>1, <3>3, <3>4, <4>1 DEF Tasks, TasksAt
      <4>2. CASE n \notin x.m.destination
        BY <3>1, <3>3, <4>2
      <4> QED
        BY <4>1, <4>2
    <3>6. KindAt(d, y) /\ SendAt(y) /\ WriteAt(y)
      BY <3>1, <3>5 DEF KindAt, SendAt, WriteAt
    <3>7. (KindAt(d, task[d]) /\ SendAt(task[d]) /\ WriteAt(task[d]))'
      BY <3>6, AskedLasts DEF y
    <3>8. y.pc # "answer" => \A k \in x.m.destination : get_name_owner(k)' \subseteq y.held
      <4>1. \A k : k # n => get_name_owner(k)' = get_name_owner(k)
        BY <1>1 DEF get_name_owner, RoutingTypes
      <4>2. get_name_owner(n)' = o
        BY <1>1 DEF get_name_owner, RoutingTypes
      <4> QED
        BY <3>1, <3>5, <4>1, <4>2 DEF HeldAt, OwnerOf
    <3>9. HeldAt(task[d])'
      <4>1. y.pc # "answer" => OwnerOf(task[d].m)' \subseteq y.held
        BY <3>5, <3>8 DEF OwnerOf, y
      <4>2. y.pc = "deliver" \/ (y.pc = "write" /\ y.m.type = "method_call") => y.to \in y.held
        BY <3>1, <3>5 DEF HeldAt
      <4> QED
        BY <4>1, <4>2 DEF HeldAt, y
    <3>10. PollAt(task[d])'
      <4>1. \A k \in Names : \/ owner'[k] = owner[k] /\ age'[k] = age[k]
                             \/ age'[k] = 0
        BY <1>1 DEF RoutingTypes
      <4> QED
        BY <3>1, <3>5, <4>1 DEF PollAt, y
    <3> QED
      BY <2>2, <3>5, <3>7, <3>9, <3>10 DEF HandlerOK, TaskOK, y, Idle, Tasks
  <2> QED
    BY <2>1, <2>2
<1>3. RoutingTypes'
  <2>1. task' \in [Conns -> {Idle} \cup Tasks]
    <3>1. ASSUME NEW d \in Conns
          PROVE  task'[d] \in {Idle} \cup Tasks
      BY <1>2 DEF HandlerOK, TaskOK, Idle, Tasks, TasksAt
    <3> HIDE DEF u
    <3> QED
      BY <1>1, <3>1
  <2>2. owner' \in [Names -> SUBSET Conns] /\ age' \in [Names -> 0 .. 2]
    BY <1>1 DEF RoutingTypes
  <2> HIDE DEF u
  <2> QED
    BY <1>1, <2>1, <2>2 DEF RoutingTypes, Tasks, TasksAt
<1>4. ASSUME NEW d \in Conns
      PROVE  InboxOK(d)' /\ GotOK(d)'
  BY GotLasts DEF RouteInv, InboxOK, CameFrom
<1> QED
  BY <1>2, <1>3, <1>4 DEF RouteInv

\* 50 ms later every sleeper looks again; no name it waits for is older than that.
LEMMA TickPreserves ==
    ASSUME RouteInv, Tick
    PROVE  RouteInv'
<1> DEFINE older(k) == IF age[k] < 2 THEN age[k] + 1 ELSE 2
           woken(d) == IF task[d].pc = "sleep"
                       THEN [task[d] EXCEPT !.pc = "look", !.left = task[d].left - 1]
                       ELSE task[d]
<1>1. /\ RoutingTypes
      /\ UNCHANGED <<scenario, epochs, connections, owner, unsent, inbox, is_monitor, copies, got>>
      /\ age' = [k \in Names |-> older(k)]
      /\ task' = [d \in Conns |-> woken(d)]
      /\ \A d \in Conns : task[d].pc # "look"
  BY DEF Tick, RouteInv, At, subscriptions, clients
<1> HIDE DEF older, woken
<1>2. age' \in [Names -> 0 .. 2]
  <2>1. \A k \in Names : older(k) \in 0 .. 2
    BY <1>1 DEF RoutingTypes, older
  <2> QED
    BY <1>1, <2>1
<1>3. \A k \in Names : age[k] = 0 => age'[k] = 1
  BY <1>1 DEF older
<1>4. ASSUME NEW d \in Conns
      PROVE  HandlerOK(d)'
  <2>1. CASE task[d] = Idle
    <3>1. Idle.pc # "sleep"
      BY DEF Idle
    <3>2. woken(d) = task[d]
      BY <2>1, <3>1 DEF woken
    <3>3. task'[d] = Idle
      BY <1>1, <2>1, <3>2
    <3> QED
      BY <3>3 DEF HandlerOK, TaskOK
  <2>2. CASE task[d] # Idle
    <3> DEFINE x == task[d]
               y == task'[d]
    <3>1. /\ x \in Tasks /\ KindAt(d, x) /\ HeldAt(x) /\ SendAt(x)
          /\ WriteAt(x) /\ PollAt(x)
      BY <2>2 DEF RouteInv, HandlerOK, TaskOK
    <3>2. y = IF x.pc = "sleep" THEN [x EXCEPT !.pc = "look", !.left = x.left - 1] ELSE x
      BY <1>1 DEF woken
    <3>3. x.pc # "look"
      BY <1>1
    <3> HIDE DEF x, y
    <3>4. x.pc = "sleep" => x.left - 1 \in 0 .. Timeout
      BY <3>1, RoutingAssumption DEF PollAt, Tasks, TasksAt
    <3>5. /\ y \in Tasks
          /\ y.pc = (IF x.pc = "sleep" THEN "look" ELSE x.pc)
          /\ y.m = x.m /\ y.to = x.to /\ y.since = x.since /\ y.held = x.held
      <4>1. CASE x.pc = "sleep"
        BY <3>1, <3>2, <3>4, <4>1 DEF Tasks, TasksAt, Places
      <4>2. CASE x.pc # "sleep"
        BY <3>1, <3>2, <4>2
      <4> QED
        BY <4>1, <4>2
    <3>6. KindAt(d, y) /\ SendAt(y) /\ WriteAt(y)
      BY <3>1, <3>5 DEF KindAt, SendAt, WriteAt
    <3>7. (KindAt(d, task[d]) /\ SendAt(task[d]) /\ WriteAt(task[d]))'
      BY <1>1, <3>6, AskedLasts DEF y
    <3>8. HeldAt(task[d])'
      <4>1. HeldAt(y)
        BY <3>1, <3>5 DEF HeldAt
      <4> QED
        BY <1>1, <4>1 DEF HeldAt, OwnerOf, get_name_owner, y
    <3>9. PollAt(task[d])'
      <4>1. x.pc = "sleep" => \A k \in Awaited(x.m) : owner'[k] = {} \/ age'[k] <= 1
        BY <1>1, <1>3, <3>1 DEF PollAt
      <4>2. y.pc = "look" => Awaited(y.m) \subseteq Names
        BY <3>1, <3>3, <3>5 DEF PollAt
      <4>3. y.pc # "sleep"
        BY <3>5
      <4> QED
        BY <3>3, <3>5, <4>1, <4>2, <4>3 DEF PollAt, y
    <3> QED
      BY <2>2, <3>5, <3>7, <3>8, <3>9 DEF HandlerOK, TaskOK, y, Idle, Tasks
  <2> QED
    BY <2>1, <2>2
<1>5. RoutingTypes'
  <2>1. task' \in [Conns -> {Idle} \cup Tasks]
    <3>1. ASSUME NEW d \in Conns
          PROVE  task'[d] \in {Idle} \cup Tasks
      BY <1>4 DEF HandlerOK, TaskOK, Idle, Tasks, TasksAt
    <3> QED
      BY <1>1, <3>1
  <2> QED
    BY <1>1, <1>2, <2>1 DEF RoutingTypes, Tasks, TasksAt
<1>6. ASSUME NEW d \in Conns
      PROVE  InboxOK(d)' /\ GotOK(d)'
  BY <1>1, GotLasts DEF RouteInv, InboxOK, CameFrom
<1> QED
  BY <1>4, <1>5, <1>6 DEF RouteInv

\* A new epoch takes nothing back that was established in the earlier ones.
LEMMA ReloadPreserves ==
    ASSUME RouteInv, reload_policy
    PROVE  RouteInv'
<1>0. PICK dirs \in scenario.dirs :
         \E r \in load_dirs(dirs) : epochs' = Append(epochs, [dirs |-> dirs, rules |-> r])
  BY DEF reload_policy
<1>1. PICK rules \in load_dirs(dirs) :
         epochs' = Append(epochs, [dirs |-> dirs, rules |-> rules])
  BY <1>0
<1>2. /\ RoutingTypes
      /\ UNCHANGED <<scenario, connections, owner, age, unsent, inbox, task, is_monitor, copies, got>>
  BY DEF reload_policy, registry, subscriptions, clients, RouteInv
<1>3. [dirs |-> dirs, rules |-> rules] \in Epochs
  <2>1. dirs \in AllDirs
    BY <1>2 DEF AllDirs, RoutingTypes
  <2>2. rules \in UNION {load_dirs(x) : x \in AllDirs}
    BY <2>1
  <2> QED
    BY <2>1, <2>2 DEF Epochs
<1>4. /\ epochs' \in Seq(Epochs) /\ epochs' # << >>
      /\ Len(epochs) \in Nat /\ Len(epochs') = Len(epochs) + 1
      /\ \A i \in 1 .. Len(epochs) : epochs'[i] = epochs[i]
  BY <1>1, <1>2, <1>3 DEF RoutingTypes
<1>5. RoutingTypes'
  BY <1>2, <1>4 DEF RoutingTypes, Tasks, TasksAt
<1>6. ASSUME NEW d \in Conns
      PROVE  HandlerOK(d)'
  <2> DEFINE t == task[d]
  <2>1. CASE t = Idle
    BY <1>2, <2>1 DEF HandlerOK, TaskOK
  <2>2. CASE t # Idle
    <3>1. /\ t \in Tasks /\ KindAt(d, t) /\ HeldAt(t) /\ SendAt(t)
          /\ WriteAt(t) /\ PollAt(t)
      BY <2>2 DEF RouteInv, HandlerOK, TaskOK
    <3>2. task'[d] = t
      BY <1>2
    <3> HIDE DEF t
    <3>3. KindAt(d, task[d])' /\ HeldAt(task[d])' /\ PollAt(task[d])'
      <4>1. KindAt(d, task[d])'
        BY <1>2, <3>1, <3>2 DEF KindAt, CameFrom
      <4>2. HeldAt(task[d])'
        BY <1>2, <3>1, <3>2 DEF HeldAt, OwnerOf, get_name_owner
      <4>3. PollAt(task[d])'
        BY <1>2, <3>1, <3>2 DEF PollAt
      <4> QED
        BY <4>1, <4>2, <4>3
    <3>4. t.since \in 1 .. Len(epochs)
      BY <3>1 DEF SendAt
    <3>5. SendAt(task[d])'
      BY <1>4, <3>1, <3>2, <3>4 DEF SendAt, MaySend
    <3>6. WriteAt(task[d])'
      BY <1>4, <3>1, <3>2, <3>4 DEF WriteAt, MaySend, MayReceive
    <3> QED
      BY <2>2, <3>1, <3>2, <3>3, <3>5, <3>6 DEF HandlerOK, TaskOK, Idle, Tasks, t
  <2> QED
    BY <2>1, <2>2
<1>7. ASSUME NEW d \in Conns
      PROVE  GotOK(d)'
  <2>1. ASSUME NEW i \in DOMAIN got[d]
        PROVE  EntryOK(d, got[d][i])'
    <3> DEFINE e == got[d][i]
    <3>1. EntryOK(d, e)
      BY DEF RouteInv, GotOK
    <3>2. got'[d][i] = e
      BY <1>2
    <3> HIDE DEF e
    <3>3. \A s \in e.since .. e.now : s \in 1 .. Len(epochs)
      BY <1>4, <3>1 DEF EntryOK
    <3>4. \A s \in e.since .. e.now : \A r \in s .. e.now : r \in 1 .. Len(epochs)
      BY <1>4, <3>1 DEF EntryOK
    <3> QED
      BY <1>4, <3>1, <3>2, <3>3, <3>4 DEF EntryOK, MaySend, MayReceive
  <2> QED
    BY <1>2, <2>1 DEF GotOK
<1>8. ASSUME NEW d \in Conns
      PROVE  InboxOK(d)'
  BY <1>2 DEF RouteInv, InboxOK, CameFrom
<1> QED
  BY <1>5, <1>6, <1>7, <1>8 DEF RouteInv

-----------------------------------------------------------------------------
(* Monitors and clients *)

\* A copy for a monitor is written; it is marked as a copy.
LEMMA MonitorPreserves ==
    ASSUME RouteInv, NEW x \in copies, deliver_to_monitors(x[1], x[2])
    PROVE  RouteInv'
<1> DEFINE d == x[1]
           m == x[2]
           e == [m |-> m, copy |-> TRUE, since |-> Len(epochs), now |-> Len(epochs), held |-> {}]
<1>1. /\ RoutingTypes
      /\ UNCHANGED <<scenario, epochs, connections, owner, age, unsent, inbox, task, is_monitor>>
      /\ copies' \subseteq copies
  BY DEF deliver_to_monitors, registry, subscriptions, clients, RouteInv
<1>2. d \in Conns /\ m \in Messages
  BY <1>1 DEF RoutingTypes
<1>3. Len(epochs) \in Nat \ {0}
  BY <1>1, PolicyNow
<1>4. Put(d, e) \/ UNCHANGED got
  BY DEF deliver_to_monitors, Entry, WriteFails
<1> HIDE DEF d, m
<1>5. TRUE \in BOOLEAN
  OBVIOUS
<1>6. e \in Entries
  BY <1>2, <1>3, <1>5 DEF Entries
<1>7. e.now = Len(epochs) /\ e.since = Len(epochs) /\ e.copy
  OBVIOUS
<1>8. EntryOK(d, e)
  <2> HIDE DEF e
  <2> QED
    BY <1>3, <1>7 DEF EntryOK
<1> HIDE DEF e
<1>9. got' \in [Conns -> Seq(Entries)] /\ \A c \in Conns : GotOK(c)'
  <2>1. CASE Put(d, e)
    BY <1>1, <1>2, <1>6, <1>8, <2>1, PutOK
  <2>2. CASE UNCHANGED got
    BY <1>1, <2>2, GotLasts DEF RouteInv, RoutingTypes
  <2> QED
    BY <1>4, <2>1, <2>2
<1>10. RoutingTypes'
  BY <1>1, <1>9 DEF RoutingTypes, Tasks, TasksAt
<1>11. ASSUME NEW c \in Conns
       PROVE  HandlerOK(c)' /\ InboxOK(c)'
  <2>1. HandlerOK(c)'
    BY <1>1, TaskLasts DEF RouteInv, HandlerOK
  <2> QED
    BY <1>1, <2>1 DEF RouteInv, InboxOK, CameFrom
<1> QED
  BY <1>9, <1>10, <1>11 DEF RouteInv

\* A client puts a message of its own into its socket.
LEMMA SendPreserves ==
    ASSUME RouteInv, NEW c \in Conns, NEW m \in Messages, Sends(c, m), CameFrom(c, m),
           unsent' \subseteq unsent,
           UNCHANGED <<scenario, epochs, connections, owner, age, task, is_monitor, copies, got>>
    PROVE  RouteInv'
<1>1. RoutingTypes /\ inbox' = [inbox EXCEPT ![c] = {m}]
  BY DEF Sends, RouteInv
<1>2. RoutingTypes'
  BY <1>1 DEF RoutingTypes, Tasks, TasksAt
<1>3. ASSUME NEW d \in Conns
      PROVE  HandlerOK(d)' /\ InboxOK(d)' /\ GotOK(d)'
  <2>1. HandlerOK(d)'
    BY TaskLasts DEF RouteInv, HandlerOK
  <2>2. GotOK(d)'
    BY GotLasts DEF RouteInv
  <2>3. InboxOK(d)
    BY DEF RouteInv
  <2>4. inbox'[d] = IF d = c THEN {m} ELSE inbox[d]
    BY <1>1 DEF RoutingTypes
  <2>5. InboxOK(d)'
    BY <2>3, <2>4 DEF InboxOK, CameFrom
  <2> QED
    BY <2>1, <2>2, <2>5
<1> QED
  BY <1>2, <1>3 DEF RouteInv

\* A client sends under its own name, which the bus stamps on the message.
LEMMA CallPreserves ==
    ASSUME RouteInv, NEW m \in unsent, ClientCalls(m)
    PROVE  RouteInv'
<1>1. m \in scenario.messages /\ scenario \in Scenarios
  BY DEF RouteInv, RoutingTypes
<1>2. m \in Messages
  BY <1>1, RequestsAreMessages DEF Requests
<1>3. PICK c \in Conns : m.sender = {c}
  BY <1>1, RoutingAssumption
<1>4. From(m) = c
  BY <1>3, OneSender
<1>5. CameFrom(c, m)
  BY <1>1, <1>3 DEF CameFrom
<1>6. /\ Sends(c, m) /\ unsent' \subseteq unsent
      /\ UNCHANGED <<scenario, epochs, connections, owner, age, task, is_monitor, copies, got>>
  BY <1>4 DEF ClientCalls, registry, subscriptions
<1> QED
  BY <1>2, <1>5, <1>6, SendPreserves

\* A client answers a call it has read.
LEMMA ClientReplyPreserves ==
    ASSUME RouteInv, NEW c \in Conns, ClientReplies(c),
           nread[c] \in Nat, nread[c] <= Len(got[c])
    PROVE  RouteInv'
<1>1. PICK i \in 1 .. nread[c] :
         /\ Sends(c, Reply(got[c][i].m, "method_return", c, "ok"))
         /\ UNCHANGED <<epochs, registry, subscriptions, scenario, gone, unsent, nread, got, task, copies>>
  BY DEF ClientReplies
<1>2. got[c] \in Seq(Entries)
  BY DEF RouteInv, RoutingTypes
<1>3. got[c][i] \in Entries
  BY <1>2
<1>4. got[c][i].m \in Messages
  BY <1>3 DEF Entries
<1>5. "method_return" \in ReplyTypes /\ "ok" \in Codes /\ c \in Conns \cup {BUS}
  BY DEF ReplyTypes, Codes
<1> DEFINE x == got[c][i].m
           m == Reply(x, "method_return", c, "ok")
<1>6. m \in Messages /\ m.type = "method_return" /\ m.sender = {c}
  <2> HIDE DEF x
  <2> QED
    BY <1>4, <1>5, ReplyFields DEF x
<1> HIDE DEF m
<1>7. CameFrom(c, m)
  BY <1>5, <1>6 DEF CameFrom
<1> QED
  BY <1>1, <1>6, <1>7, SendPreserves DEF m, registry, subscriptions

-----------------------------------------------------------------------------
(* Sockets: what was read, what is written and how much fits *)

ReadOK ==
    /\ nread \in [Conns -> Nat]
    /\ \A c \in Conns : nread[c] <= Len(got[c]) /\ Len(got[c]) <= nread[c] + Room

\* A write goes into a socket with room.
LEMMA PutRead ==
    ASSUME RouteInv, ReadOK, NEW d \in Conns, NEW e, HasRoom(d), Put(d, e), UNCHANGED nread
    PROVE  ReadOK'
<1>1. got \in [Conns -> Seq(Entries)] /\ got' = [got EXCEPT ![d] = Append(got[d], e)]
  BY DEF RouteInv, RoutingTypes, Put
<1>2. \A c \in Conns : Len(got[c]) \in Nat
  BY <1>1
<1>3. Len(got'[d]) = Len(got[d]) + 1
  BY <1>1
<1>4. \A c \in Conns \ {d} : got'[c] = got[c]
  BY <1>1
<1>5. Room \in Nat
  BY RoutingAssumption
<1> QED
  BY <1>2, <1>3, <1>4, <1>5, SMTT(30) DEF ReadOK, HasRoom

\* A write finds room or the receiver gone: reader and writer stay within the socket.
LEMMA WriteRead ==
    ASSUME RouteInv, ReadOK, NEW c \in Conns, task[c].pc # "idle",
           Written(c, task[c].to) \/ WriteFails(task[c].to), UNCHANGED nread
    PROVE  ReadOK'
<1>1. task[c].to \in Conns
  BY AtWork DEF Tasks, TasksAt
<1>2. CASE Written(c, task[c].to)
  BY <1>1, <1>2, PutRead DEF Written
<1>3. CASE UNCHANGED got
  BY <1>3 DEF ReadOK
<1> QED
  BY <1>2, <1>3 DEF WriteFails

\* No step reads what was not written or writes where there is no room.
LEMMA ReadPreserves ==
    ASSUME RouteInv, ReadOK, RoutingNext
    PROVE  ReadOK'
<1>1. CASE UNCHANGED <<got, nread>>
  BY <1>1 DEF ReadOK
<1>2. ASSUME NEW c \in Conns, WriteToOwner(c) \/ reply_error(c) \/ BroadcastWrite(c)
      PROVE  ReadOK'
  BY <1>2, WriteRead DEF WriteToOwner, reply_error, BroadcastWrite, At, OnlyTask, clients
<1>3. ASSUME NEW x \in copies, deliver_to_monitors(x[1], x[2])
      PROVE  ReadOK'
  <2>1. x[1] \in Conns
    BY DEF RouteInv, RoutingTypes
  <2> QED
    BY <1>1, <1>3, <2>1, PutRead DEF deliver_to_monitors, WriteFails, clients
<1>4. ASSUME NEW c \in Conns, ClientReads(c)
      PROVE  ReadOK'
  <2>1. \A d \in Conns : Len(got[d]) \in Nat
    BY DEF RouteInv, RoutingTypes
  <2> QED
    BY <1>4, <2>1, RoutingAssumption, SMTT(30) DEF ClientReads, ReadOK
<1>5. ASSUME NEW c \in Conns,
             \/ dispatch_incoming(c) \/ deliver_to_owner(c) \/ broadcast_signal(c)
             \/ PollForOwner(c) \/ AfterActivation(c) \/ handle_driver_call(c) \/ HandlerEnds(c)
             \/ ClientReplies(c) \/ ClientCloses(c)
      PROVE  UNCHANGED <<got, nread>>
  BY <1>5, Zenon DEF dispatch_incoming, deliver_to_owner, broadcast_signal, PollForOwner, AfterActivation,
              handle_driver_call, HandlerEnds, ClientReplies, ClientCloses, OnlyTask, clients
<1>6. ASSUME \/ \E m \in unsent : ClientCalls(m)
             \/ \E c \in Conns, n \in Names : handle_request_name(c, n) \/ handle_release_name(c, n)
             \/ Tick \/ reload_policy
      PROVE  UNCHANGED <<got, nread>>
  BY <1>6 DEF ClientCalls, handle_request_name, handle_release_name, Tick, reload_policy, clients
<1> QED
  BY <1>1, <1>2, <1>3, <1>4, <1>5, <1>6 DEF RoutingNext, Handler, MonitorTask

-----------------------------------------------------------------------------
(* The theorems *)

\* At the start no handler is at work and nothing was written.
LEMMA RoutingStarts == RoutingInit => RouteInv /\ ReadOK
<1> SUFFICES ASSUME RoutingInit
             PROVE  RouteInv /\ ReadOK
  OBVIOUS
<1>1. epochs \in Seq(Epochs) /\ epochs # << >>
  <2>1. PICK dirs \in scenario.dirs :
           \E rules \in (IF load_dirs(dirs) = {} THEN {<< >>} ELSE load_dirs(dirs)) :
              epochs = <<[dirs |-> dirs, rules |-> rules]>>
    BY DEF RoutingInit
  <2>2. PICK rules \in {<< >>} \cup load_dirs(dirs) :
           epochs = <<[dirs |-> dirs, rules |-> rules]>>
    BY <2>1
  <2>3. dirs \in AllDirs
    BY DEF AllDirs, RoutingInit
  <2>4. rules \in {<< >>} \cup UNION {load_dirs(x) : x \in AllDirs}
    BY <2>3
  <2>5. [dirs |-> dirs, rules |-> rules] \in Epochs
    BY <2>3, <2>4 DEF Epochs
  <2> QED
    BY <2>2, <2>5
<1>2. RoutingTypes
  <2>1. << >> \in Seq(Entries)
    OBVIOUS
  <2> QED
    BY <1>1, <2>1 DEF RoutingTypes, RoutingInit
<1>3. \A c \in Conns : HandlerOK(c) /\ InboxOK(c) /\ GotOK(c)
  BY IdleOK DEF RoutingInit, HandlerOK, InboxOK, GotOK
<1>4. ReadOK
  BY RoutingAssumption DEF RoutingInit, ReadOK
<1> QED
  BY <1>2, <1>3, <1>4 DEF RouteInv

\* Action by action.
LEMMA RoutingSteps ==
    ASSUME RouteInv, ReadOK, [RoutingNext]_routingVars
    PROVE  RouteInv' /\ ReadOK'
<1>1. CASE UNCHANGED routingVars
  <2>1. RoutingTypes'
    BY <1>1 DEF RouteInv, RoutingTypes, Tasks, TasksAt, routingVars, registry, subscriptions, clients
  <2>2. ASSUME NEW c \in Conns
        PROVE  HandlerOK(c)' /\ InboxOK(c)' /\ GotOK(c)'
    <3>1. HandlerOK(c)'
      BY <1>1, TaskLasts DEF RouteInv, HandlerOK, routingVars, registry, clients
    <3>2. GotOK(c)'
      BY <1>1, GotLasts DEF RouteInv, routingVars
    <3>3. InboxOK(c)'
      BY <1>1 DEF RouteInv, InboxOK, CameFrom, routingVars, clients
    <3> QED
      BY <3>1, <3>2, <3>3
  <2> QED
    BY <1>1, <2>1, <2>2 DEF RouteInv, ReadOK, routingVars, clients
<1>2. CASE RoutingNext
  <2>1. ASSUME NEW c \in Conns, Handler(c)
        PROVE  RouteInv'
    BY <2>1, DispatchPreserves, DeliverPreserves, WritePreserves, ReplyPreserves,
       BroadcastPreserves, BroadcastWritePreserves, PollPreserves, ActivatedPreserves,
       DriverPreserves, EndsPreserves DEF Handler
  <2>2. ASSUME NEW c \in Conns, ClientReplies(c)
        PROVE  RouteInv'
    BY <2>2, ClientReplyPreserves DEF ReadOK
  <2>3. ASSUME NEW c \in Conns, ClientReads(c) \/ ClientCloses(c)
        PROVE  RouteInv'
    <3>1. UNCHANGED <<scenario, epochs, connections, owner, age, unsent, inbox, task, is_monitor,
                      copies, got>>
      BY <2>3 DEF ClientReads, ClientCloses, registry, subscriptions
    <3>2. RoutingTypes'
      BY <3>1 DEF RouteInv, RoutingTypes, Tasks, TasksAt
    <3>3. ASSUME NEW d \in Conns
          PROVE  HandlerOK(d)' /\ InboxOK(d)' /\ GotOK(d)'
      <4>1. HandlerOK(d)'
        BY <3>1, TaskLasts DEF RouteInv, HandlerOK
      <4>2. GotOK(d)'
        BY <3>1, GotLasts DEF RouteInv
      <4>3. InboxOK(d)'
        BY <3>1 DEF RouteInv, InboxOK, CameFrom
      <4> QED
        BY <4>1, <4>2, <4>3
    <3> QED
      BY <3>2, <3>3 DEF RouteInv
  <2>4. ASSUME NEW c \in Conns, NEW n \in Names,
               handle_request_name(c, n) \/ handle_release_name(c, n)
        PROVE  RouteInv'
    BY <2>4, NewOwnerPreserves
    DEF handle_request_name, handle_release_name, subscriptions, clients
  <2>5. RouteInv'
    BY <1>2, <2>1, <2>2, <2>3, <2>4, CallPreserves, MonitorPreserves, TickPreserves,
       ReloadPreserves DEF RoutingNext, MonitorTask
  <2> QED
    BY <1>2, <2>5, ReadPreserves
<1> QED
  BY <1>1, <1>2

\* Every handler keeps, at every await, what its place asks for (dispatch.rs), and
\* no socket holds more than it has room for.
THEOREM RoutingInvariance == RoutingSpec => [](RouteInv /\ ReadOK)
<1>1. RoutingInit => RouteInv /\ ReadOK
  BY RoutingStarts
<1>2. (RouteInv /\ ReadOK) /\ [RoutingNext]_routingVars => (RouteInv /\ ReadOK)'
  BY RoutingSteps
<1> QED
  BY <1>1, <1>2, PTL DEF RoutingSpec

\* Whatever the interleaving of reloads, of names that change hands and of handlers
\* that wait, nothing is delivered that a policy in force meanwhile did not allow on
\* both sides, and a call goes only to an owner of its destination.
THEOREM DeliveriesAreAllowed == RoutingSpec => []DeliveredRightly
<1>1. RouteInv => DeliveredRightly
  BY DEF RouteInv, GotOK, EntryOK, MaySend, MayReceive, DeliveredRightly
<1> QED
  BY <1>1, RoutingInvariance, PTL

\* Activation never gives up on a service that has owned its name for longer than a
\* poll (activation.rs).
THEOREM PromptServicesAreFound == RoutingSpec => []PromptServiceIsFound
<1>1. RouteInv => PromptServiceIsFound
  <2> SUFFICES ASSUME RouteInv, NEW c \in Conns, At(c, "look"), task[c].left = 0,
                      NEW n \in Awaited(task[c].m)
               PROVE  owner[n] = {} \/ age[n] <= 1
    BY DEF PromptServiceIsFound
  <2>1. PollAt(task[c]) /\ task[c].pc = "look"
    BY AtWork DEF At
  <2>2. task[c].left < Timeout
    BY RoutingAssumption
  <2> QED
    BY <2>1, <2>2 DEF PollAt
<1> QED
  BY <1>1, RoutingInvariance, PTL

-----------------------------------------------------------------------------
(* The way of a message.  Every step is one of a few kinds, as far as the      *)
(* whereabouts of messages go.                                                 *)

\* What may become of m in one step of its handler: forgotten, if nobody waits for
\* an answer; a call, answered by the bus; or still on its way.
Keeps(m, u) ==
    \/ u = Idle /\ (m.type = "method_call" => m.no_reply_expected)
    \/ /\ u.pc = "answer" /\ u.m.id = m.id /\ u.m.type \in ReplyTypes /\ u.m.sender = {BUS}
       /\ u.to = From(m) /\ m.type = "method_call" /\ ~ m.no_reply_expected
    \/ u.pc \in Places \ {"answer", "broadcast_write"} /\ u.m = m

OnlyMoves(c) == \A d \in Conns \ {c} : task'[d] = task[d]

TakesUp(c, m) ==
    /\ m \in inbox[c] /\ task[c].pc = "idle"
    /\ inbox' = [inbox EXCEPT ![c] = {}]
    /\ copies' = copies \cup ((is_monitor \cap connections) \X {m})
    /\ Keeps(m, task'[c]) /\ OnlyMoves(c)
    /\ UNCHANGED <<scenario, unsent, gone, got, replied, is_monitor>>

GoesOn(c) ==
    /\ task[c].pc \notin {"idle", "answer", "broadcast", "broadcast_write"}
    /\ Keeps(task[c].m, task'[c]) /\ OnlyMoves(c)
    /\ is_monitor \subseteq is_monitor'
    /\ UNCHANGED <<scenario, unsent, inbox, gone, got, replied, copies>>

\* After a write a broadcast goes on; any other message is done with.
AfterWrite(c) ==
    /\ OnlyMoves(c)
    /\ IF task[c].pc = "broadcast_write"
       THEN /\ task'[c].pc = "broadcast" /\ task'[c].m = task[c].m /\ task'[c].todo = task[c].todo
       ELSE task'[c] = Idle
    /\ UNCHANGED <<scenario, unsent, inbox, gone, replied, copies, is_monitor>>

Writes(c) ==
    /\ task[c].pc \in {"write", "answer", "broadcast_write"}
    /\ \E e \in Entries : e.m = task[c].m /\ ~ e.copy /\ Put(task[c].to, e)
    /\ AfterWrite(c)

Loses(c) ==
    /\ task[c].pc \in {"answer", "broadcast_write"}
    /\ task[c].to \in gone
    /\ UNCHANGED got
    /\ AfterWrite(c)

NextInLine(c) ==
    /\ task[c].pc = "broadcast"
    /\ OnlyMoves(c)
    /\ \/ task'[c] = Idle
       \/ \E d \in task[c].todo :
             /\ task'[c].m = task[c].m /\ task'[c].todo = task[c].todo \ {d} /\ task'[c].to = d
             /\ \/ task'[c].pc = "broadcast"
                \/ task'[c].pc = "broadcast_write" /\ d \notin is_monitor
    /\ UNCHANGED <<scenario, unsent, inbox, gone, got, replied, copies, is_monitor>>

CopyGoes(d, m) ==
    /\ <<d, m>> \in copies /\ copies' = copies \ {<<d, m>>}
    /\ UNCHANGED got \/ \E e \in Entries : e.m = m /\ e.copy /\ Put(d, e)
    /\ UNCHANGED <<scenario, unsent, inbox, gone, replied, task, is_monitor>>

\* Whatever else happens leaves every message where it is.
Background ==
    /\ \A d \in Conns :
          \/ task'[d] = Idle /\ task[d] = Idle
          \/ /\ task[d].pc # "idle" /\ task'[d].m = task[d].m
             /\ task'[d].to = task[d].to /\ task'[d].todo = task[d].todo
             /\ \/ task'[d].pc = task[d].pc
                \/ task[d].pc = "sleep" /\ task'[d].pc = "look"
    /\ gone \subseteq gone'
    /\ UNCHANGED <<scenario, unsent, inbox, got, replied, copies, is_monitor>>

ClientSends(c, m) ==
    /\ m \in unsent /\ m.sender = {c} /\ unsent' = unsent \ {m}
    /\ inbox[c] = {} /\ inbox' = [inbox EXCEPT ![c] = {m}]
    /\ UNCHANGED <<scenario, gone, got, replied, task, copies, is_monitor>>

ClientAnswers(c) ==
    \E i \in DOMAIN got[c], r \in Messages :
        LET e == got[c][i]
        IN  /\ e.m.type = "method_call" /\ ~ e.copy /\ ~ e.m.no_reply_expected
            /\ e.m.id \notin replied /\ replied' = replied \cup {e.m.id}
            /\ r.id = e.m.id /\ r.type = "method_return" /\ r.sender = {c}
            /\ inbox[c] = {} /\ inbox' = [inbox EXCEPT ![c] = {r}]
            /\ UNCHANGED <<scenario, unsent, gone, got, task, copies, is_monitor>>

MessageStep ==
    \/ \E c \in Conns : \/ \E m \in inbox[c] : TakesUp(c, m)
                        \/ GoesOn(c) \/ Writes(c) \/ Loses(c) \/ NextInLine(c)
                        \/ \E m \in unsent : ClientSends(c, m)
                        \/ ClientAnswers(c)
    \/ \E x \in copies : CopyGoes(x[1], x[2])
    \/ Background

\* A call answered by the bus, or dropped because no answer is wanted.
LEMMA AnsweringKeeps ==
    ASSUME NEW t \in Drafts, t.m.type = "method_call", NEW type \in ReplyTypes,
           NEW code \in Codes
    PROVE  Keeps(t.m, Answering(t, type, code))
<1> DEFINE m == t.m
           r == Reply(m, type, BUS, code)
           u == [t EXCEPT !.pc = "answer", !.m = r, !.to = From(m)]
<1>1. m \in Messages
  BY DEF Drafts, TasksAt
<1>2. r.id = m.id /\ r.type \in ReplyTypes /\ r.sender = {BUS}
  <2>1. BUS \in Conns \cup {BUS}
    OBVIOUS
  <2>2. \A x \in Messages : /\ Reply(x, type, BUS, code).id = x.id
                            /\ Reply(x, type, BUS, code).type = type
                            /\ Reply(x, type, BUS, code).sender = {BUS}
    BY <2>1, ReplyFields
  <2> QED
    BY <1>1, <2>2
<1> HIDE DEF r
<1>3. u.pc = "answer" /\ u.m = r /\ u.to = From(m)
  BY DEF Drafts, TasksAt
<1>4. Answering(t, type, code) = IF m.no_reply_expected THEN Idle ELSE u
  BY DEF Answering, r
<1> HIDE DEF m, u
<1>5. CASE m.no_reply_expected
  BY <1>4, <1>5 DEF Keeps, m
<1>6. CASE ~ m.no_reply_expected
  BY <1>2, <1>3, <1>4, <1>6 DEF Keeps, m
<1> QED
  BY <1>5, <1>6

\* Only a call must not be forgotten.
LEMMA IdleKeeps ==
    ASSUME NEW m, m.type # "method_call"
    PROVE  Keeps(m, Idle)
  BY DEF Keeps

\* Replies and signals to one connection go to it or nowhere.
LEMMA ForwardKeeps ==
    ASSUME NEW t \in Drafts, t.m.type # "method_call"
    PROVE  Keeps(t.m, Forward(t))
<1> DEFINE d == CHOOSE x \in OwnerOf(t.m) : TRUE
           u == [t EXCEPT !.pc = "write", !.to = d]
<1> HIDE DEF d
<1>1. u.pc = "write" /\ u.m = t.m
  BY DEF Drafts, TasksAt
<1> HIDE DEF u
<1>2. Keeps(t.m, u)
  BY <1>1 DEF Keeps, Places
<1> QED
  BY <1>2, IdleKeeps DEF Forward, d, u

\* A service to be started: the call waits or is answered.
LEMMA ActivationKeeps ==
    ASSUME NEW t \in Drafts, t.m.type = "method_call"
    PROVE  \A n : \A u \in activate_and_wait(t, n) : Keeps(t.m, u)
<1> DEFINE v == [t EXCEPT !.pc = "look", !.left = Timeout]
<1>1. v.pc = "look" /\ v.m = t.m
  BY DEF Drafts, TasksAt
<1> HIDE DEF v
<1>2. Keeps(t.m, v)
  BY <1>1 DEF Keeps, Places
<1>3. Keeps(t.m, Fail(t, "SPAWN_EXEC_FAILED"))
  BY AnsweringKeeps DEF Fail, ReplyTypes, Codes
<1>4. \A n : \A u \in activate_and_wait(t, n) : u = v \/ u = Fail(t, "SPAWN_EXEC_FAILED")
  BY DEF activate_and_wait, v
<1> QED
  BY <1>2, <1>3, <1>4

\* Every outcome of dispatch_method_call keeps the call.
LEMMA CallKeeps ==
    ASSUME NEW c, NEW t \in Drafts, t.m.type = "method_call", NEW u \in dispatch_method_call(t, c)
    PROVE  Keeps(t.m, u)
<1> DEFINE peer == IF OwnerOf(t.m) = {} THEN "none" ELSE CHOOSE d \in OwnerOf(t.m) : TRUE
           v == [t EXCEPT !.pc = "driver"]
           w == [t EXCEPT !.pc = "deliver", !.to = peer]
<1>1. \/ u = Fail(t, "BAD_ADDRESS") \/ u = Fail(t, "ACCESS_DENIED") \/ u = Fail(t, "SERVICE_UNKNOWN")
      \/ u = v \/ u = w
      \/ \E n : u \in activate_and_wait(t, n)
  BY DEF dispatch_method_call
<1> HIDE DEF peer
<1>2. v.pc = "driver" /\ v.m = t.m /\ w.pc = "deliver" /\ w.m = t.m
  BY DEF Drafts, TasksAt
<1> HIDE DEF v, w
<1>3. Keeps(t.m, v) /\ Keeps(t.m, w)
  BY <1>2 DEF Keeps, Places
<1>4. \A code \in Codes : Keeps(t.m, Fail(t, code))
  BY AnsweringKeeps DEF Fail, ReplyTypes
<1> QED
  BY <1>1, <1>3, <1>4, ActivationKeeps DEF Codes

\* Every outcome of dispatch_signal.
LEMMA SignalKeeps ==
    ASSUME NEW c, NEW t \in Drafts, t.m.type = "signal"
    PROVE  Keeps(t.m, dispatch_signal(t, c))
<1> DEFINE u == [t EXCEPT !.pc = "broadcast", !.todo = connections]
<1>1. u.pc = "broadcast" /\ u.m = t.m
  BY DEF Drafts, TasksAt
<1> HIDE DEF u
<1>2. Keeps(t.m, u)
  BY <1>1 DEF Keeps, Places
<1> QED
  BY <1>2, IdleKeeps, ForwardKeeps DEF dispatch_signal, u

\* dispatch_incoming takes one message from the socket and keeps it.
LEMMA DispatchTakesUp ==
    ASSUME RouteInv, NEW c \in Conns, dispatch_incoming(c)
    PROVE  \E m \in inbox[c] : TakesUp(c, m)
<1> DEFINE Taken(m) == [pc |-> "start", m |-> m, to |-> c, todo |-> {}, left |-> 0,
                        since |-> Len(epochs), held |-> OwnerOf(m)]
<1>1. PICK m \in inbox[c] :
         /\ At(c, "idle")
         /\ inbox' = [inbox EXCEPT ![c] = {}]
         /\ copies' = copies \cup ((is_monitor \cap connections) \X {m})
         /\ \/ m.type = "signal" /\ Go(c, dispatch_signal(Taken(m), c))
            \/ m.type = "method_call" /\ \E u \in dispatch_method_call(Taken(m), c) : Go(c, u)
            \/ m.type \in {"method_return", "error"} /\ Go(c, dispatch_reply(Taken(m)))
         /\ UNCHANGED <<epochs, registry, subscriptions, scenario, gone, unsent, nread, replied, got>>
  BY DEF dispatch_incoming
<1> DEFINE t == Taken(m)
<1>2. RoutingTypes
  BY DEF RouteInv
<1>3. m \in Messages /\ Len(epochs) \in Nat /\ OwnerOf(m) \in SUBSET Conns /\ 0 \in 0 .. Timeout
  BY <1>2, PolicyNow, OwnersAreConns, RoutingAssumption DEF RoutingTypes
<1>4. t \in Drafts
  BY <1>3 DEF Drafts, TasksAt
<1>5. t.m = m
  OBVIOUS
<1> HIDE DEF t, Taken
<1>6. PICK u : Keeps(m, u) /\ task' = [task EXCEPT ![c] = u]
  <2>1. CASE m.type = "signal" /\ Go(c, dispatch_signal(t, c))
    BY <1>4, <1>5, <2>1, SignalKeeps DEF Go
  <2>2. CASE m.type = "method_call" /\ \E u \in dispatch_method_call(t, c) : Go(c, u)
    BY <1>4, <1>5, <2>2, CallKeeps DEF Go
  <2>3. CASE m.type \in {"method_return", "error"} /\ Go(c, dispatch_reply(t))
    BY <1>4, <1>5, <2>3, ForwardKeeps DEF Go, dispatch_reply
  <2> QED
    BY <1>1, <2>1, <2>2, <2>3 DEF t
<1>7. task'[c] = u /\ OnlyMoves(c)
  BY <1>2, <1>6 DEF RoutingTypes, OnlyMoves
<1> QED
  BY <1>1, <1>6, <1>7 DEF TakesUp, At, subscriptions

\* A handler with a call on its hands, not yet answering.
LEMMA MovesGoOn ==
    ASSUME RouteInv, NEW c \in Conns,
           task[c].pc \notin {"idle", "answer", "broadcast", "broadcast_write"},
           NEW u, Keeps(task[c].m, u), task' = [task EXCEPT ![c] = u],
           is_monitor \subseteq is_monitor',
           UNCHANGED <<scenario, unsent, inbox, gone, got, replied, copies>>
    PROVE  GoesOn(c)
<1>1. task'[c] = u /\ OnlyMoves(c)
  BY DEF RouteInv, RoutingTypes, OnlyMoves
<1> QED
  BY <1>1 DEF GoesOn

\* A handler that goes on to another await keeps its message.
LEMMA StepKeeps ==
    ASSUME RouteInv, NEW c \in Conns, task[c].pc # "idle", NEW p \in Places \ {"answer", "broadcast_write"}
    PROVE  Keeps(task[c].m, Step(c, p))
<1> DEFINE t == task[c]
<1>1. t \in Tasks
  BY AtWork
<1>2. Step(c, p) = [t EXCEPT !.pc = p]
  BY DEF Step
<1> HIDE DEF t
<1>3. [t EXCEPT !.pc = p].pc = p /\ [t EXCEPT !.pc = p].m = t.m
  BY <1>1 DEF Tasks, TasksAt
<1>4. Keeps(t.m, Step(c, p))
  BY <1>2, <1>3 DEF Keeps
<1> QED
  BY <1>4 DEF t

\* A handler that refuses a call answers it.
LEMMA RefusalKeeps ==
    ASSUME RouteInv, NEW c \in Conns, task[c].pc # "idle", task[c].m.type = "method_call"
    PROVE  \A type \in ReplyTypes, code \in Codes :
              Keeps(task[c].m, Answering(task[c], type, code))
  BY AtWork, AnsweringKeeps

\* Delivering, polling and coming back from the wait keep the call.
LEMMA HandlerGoesOn ==
    ASSUME RouteInv, NEW c \in Conns,
           deliver_to_owner(c) \/ PollForOwner(c) \/ AfterActivation(c)
    PROVE  GoesOn(c)
<1> DEFINE t == task[c]
           d == CHOOSE x \in OwnerOf(t.m) : TRUE
           w == [t EXCEPT !.pc = "deliver", !.to = d]
<1>1. t.pc \in {"deliver", "look", "activated"} /\ t.m.type = "method_call"
  BY AtWork DEF deliver_to_owner, PollForOwner, AfterActivation, At, KindAt
<1>2. \A code \in Codes : Keeps(t.m, Fail(t, code))
  BY <1>1, RefusalKeeps DEF Fail, ReplyTypes
<1>3. Keeps(t.m, Answering(t, "method_return", "1"))
  BY <1>1, RefusalKeeps DEF ReplyTypes, Codes
<1>4. \A p \in {"write", "sleep", "activated"} : Keeps(t.m, Step(c, p))
  BY <1>1, StepKeeps DEF Places
<1>5. Keeps(t.m, w)
  <2>1. t \in Tasks
    BY <1>1, AtWork
  <2> HIDE DEF t, d
  <2>2. w.pc = "deliver" /\ w.m = t.m
    BY <2>1 DEF Tasks, TasksAt
  <2> HIDE DEF w
  <2> QED
    BY <2>2 DEF Keeps, Places
<1>6. PICK u : Keeps(t.m, u) /\ task' = [task EXCEPT ![c] = u]
  <2>1. CASE deliver_to_owner(c)
    BY <1>2, <1>4, <2>1 DEF deliver_to_owner, Go, Codes
  <2>2. CASE PollForOwner(c)
    BY <1>2, <1>3, <1>4, <2>2 DEF PollForOwner, Go, Codes
  <2>3. CASE AfterActivation(c)
    BY <1>2, <1>5, <2>3 DEF AfterActivation, Go, Codes
  <2> QED
    BY <2>1, <2>2, <2>3
<1>7. UNCHANGED <<scenario, unsent, inbox, gone, got, replied, copies, is_monitor>>
  BY DEF deliver_to_owner, PollForOwner, AfterActivation, OnlyTask, clients, subscriptions
<1> HIDE DEF t, w
<1> QED
  BY <1>1, <1>6, <1>7, MovesGoOn DEF t

\* The bus's own calls are answered, or wait for the service they start.
LEMMA DriverGoesOn ==
    ASSUME RouteInv, NEW c \in Conns, handle_driver_call(c)
    PROVE  GoesOn(c)
<1> DEFINE t == task[c]
<1>1. t.pc = "driver"
  BY DEF handle_driver_call, At
<1>2. t \in Drafts /\ t.m.type = "method_call"
  BY <1>1, AtWork DEF KindAt
<1>3. ASSUME NEW x, NEW y, x \in ReplyTypes, y \in Codes, Go(c, Answering(t, x, y))
      PROVE  \E u : Keeps(t.m, u) /\ task' = [task EXCEPT ![c] = u]
  BY <1>1, <1>2, <1>3, RefusalKeeps DEF Go
<1>4. PICK u : Keeps(t.m, u) /\ task' = [task EXCEPT ![c] = u]
  <2>1. CASE handle_add_match(c)
    BY <1>3, <2>1 DEF handle_add_match, Fail, ReplyTypes, Codes
  <2>2. CASE handle_remove_match(c)
    <3>1. Go(c, Fail(t, "MATCH_RULE_NOT_FOUND")) \/ Go(c, Answering(t, "method_return", "ok"))
      BY <2>2 DEF handle_remove_match, Go
    <3> QED
      BY <1>3, <3>1 DEF Fail, ReplyTypes, Codes
  <2>3. CASE BecomeMonitor(c)
    BY <1>3, <2>3 DEF BecomeMonitor, ReplyTypes, Codes
  <2>4. CASE handle_start_service(c)
    <3>1. \/ Go(c, Answering(t, "method_return", "2"))
          \/ Go(c, Fail(t, "SERVICE_UNKNOWN"))
          \/ \E n : \E u \in activate_and_wait(t, n) : Go(c, u)
      BY <2>4 DEF handle_start_service
    <3> QED
      BY <1>2, <1>3, <3>1, ActivationKeeps DEF Fail, ReplyTypes, Codes, Go
  <2>5. CASE Go(c, Answering(t, "method_return", "ok"))
    BY <1>3, <2>5 DEF ReplyTypes, Codes
  <2> QED
    BY <2>1, <2>2, <2>3, <2>4, <2>5 DEF handle_driver_call
<1>5. is_monitor \subseteq is_monitor'
  BY DEF handle_driver_call, BecomeMonitor, subscriptions
<1>6. UNCHANGED <<scenario, unsent, inbox, gone, got, replied, copies>>
  BY DEF handle_driver_call, clients
<1> HIDE DEF t
<1> QED
  BY <1>1, <1>4, <1>5, <1>6, MovesGoOn DEF t

\* The entry a handler writes.
LEMMA WrittenEntry ==
    ASSUME RouteInv, NEW c \in Conns, task[c].pc # "idle", Written(c, task[c].to)
    PROVE  \E e \in Entries : e.m = task[c].m /\ ~ e.copy /\ Put(task[c].to, e)
<1> DEFINE t == task[c]
           e == [m |-> t.m, copy |-> FALSE, since |-> t.since, now |-> Len(epochs),
                 held |-> t.held]
<1>1. Put(t.to, e)
  BY DEF Written, Entry
<1>2. Len(epochs) \in Nat
  BY PolicyNow DEF RouteInv
<1>3. /\ t.m \in Messages /\ t.since \in Nat /\ t.held \in SUBSET Conns
  BY AtWork DEF Tasks, TasksAt
<1> HIDE DEF t
<1>4. FALSE \in BOOLEAN
  OBVIOUS
<1>5. e \in Entries
  BY <1>2, <1>3, <1>4 DEF Entries
<1>6. e.m = t.m /\ ~ e.copy
  OBVIOUS
<1> HIDE DEF e
<1> QED
  BY <1>1, <1>5, <1>6 DEF t

\* A write puts the message into the socket, or the receiver is gone.
LEMMA HandlerWritesOrLoses ==
    ASSUME RouteInv, NEW c \in Conns,
           WriteToOwner(c) \/ reply_error(c) \/ BroadcastWrite(c)
    PROVE  Writes(c) \/ Loses(c) \/ GoesOn(c)
<1> DEFINE t == task[c]
<1>1. /\ t.pc \in {"write", "answer", "broadcast_write"}
      /\ Written(c, t.to) \/ WriteFails(t.to)
      /\ OnlyTask
  BY DEF WriteToOwner, reply_error, BroadcastWrite, At
<1>2. UNCHANGED <<scenario, unsent, inbox, gone, replied, copies, is_monitor>>
  BY <1>1 DEF OnlyTask, clients, subscriptions
<1>3. CASE WriteToOwner(c) /\ ~ Written(c, t.to)
  <2>1. t.pc = "write" /\ UNCHANGED got
    BY <1>3 DEF WriteToOwner, At, WriteFails
  <2>2. PICK u : Keeps(t.m, u) /\ task' = [task EXCEPT ![c] = u]
    <3>1. CASE t.m.type = "method_call"
      <4>1. task' = [task EXCEPT ![c] = Fail(t, "NO_REPLY")]
        BY <1>3, <3>1 DEF WriteToOwner, Go
      <4>2. Keeps(t.m, Fail(t, "NO_REPLY"))
        BY <2>1, <3>1, RefusalKeeps DEF Fail, ReplyTypes, Codes
      <4> QED
        BY <4>1, <4>2
    <3>2. CASE t.m.type # "method_call"
      <4>1. task' = [task EXCEPT ![c] = Idle]
        BY <1>3, <3>2 DEF WriteToOwner, Go
      <4> QED
        BY <3>2, <4>1, IdleKeeps
    <3> QED
      BY <3>1, <3>2
  <2> HIDE DEF t
  <2> QED
    BY <1>2, <2>1, <2>2, MovesGoOn DEF t
<1>4. CASE (WriteToOwner(c) /\ Written(c, t.to)) \/ reply_error(c) \/ BroadcastWrite(c)
  <2>1. /\ OnlyMoves(c)
        /\ t.pc = "broadcast_write" =>
              task'[c].pc = "broadcast" /\ task'[c].m = t.m /\ task'[c].todo = t.todo
        /\ t.pc # "broadcast_write" => task'[c] = Idle
    <3>1. CASE BroadcastWrite(c)
      <4>1. t.pc = "broadcast_write" /\ t \in Tasks
        BY <3>1, AtWork DEF BroadcastWrite, At
      <4>2. task' = [task EXCEPT ![c] = [t EXCEPT !.pc = "broadcast"]]
        BY <3>1 DEF BroadcastWrite, Go, Step
      <4>3. task'[c] = [t EXCEPT !.pc = "broadcast"] /\ OnlyMoves(c)
        BY <4>2 DEF RouteInv, RoutingTypes, OnlyMoves
      <4> HIDE DEF t
      <4> QED
        BY <4>1, <4>3 DEF Tasks, TasksAt
    <3>2. CASE (WriteToOwner(c) /\ Written(c, t.to)) \/ reply_error(c)
      <4>1. t.pc # "broadcast_write"
        BY <3>2 DEF WriteToOwner, reply_error, At
      <4>2. task' = [task EXCEPT ![c] = Idle]
        <5>1. CASE reply_error(c)
          BY <5>1 DEF reply_error, Go
        <5>2. CASE WriteToOwner(c) /\ Written(c, t.to)
          BY <5>2 DEF WriteToOwner, Go, Written, WriteFails
        <5> QED
          BY <3>2, <5>1, <5>2
      <4> QED
        BY <4>1, <4>2 DEF RouteInv, RoutingTypes, OnlyMoves
    <3> QED
      BY <1>4, <3>1, <3>2
  <2>2. AfterWrite(c)
    BY <1>2, <2>1 DEF AfterWrite
  <2>3. CASE Written(c, t.to)
    BY <1>1, <2>2, <2>3, WrittenEntry DEF Writes
  <2>4. CASE ~ Written(c, t.to)
    <3>1. WriteFails(t.to)
      BY <1>1, <2>4
    <3>2. t.pc \in {"answer", "broadcast_write"}
      BY <1>4, <2>4 DEF reply_error, BroadcastWrite, At
    <3> QED
      BY <2>2, <3>1, <3>2 DEF Loses, WriteFails
  <2> QED
    BY <2>3, <2>4
<1> QED
  BY <1>3, <1>4

\* A broadcast takes the next connection of its snapshot or ends.
LEMMA BroadcastNext ==
    ASSUME RouteInv, NEW c \in Conns, broadcast_signal(c)
    PROVE  NextInLine(c)
<1> DEFINE t == task[c]
           pc(d) == IF Wanted(d, t.m) THEN "broadcast_write" ELSE t.pc
           u(d) == [t EXCEPT !.todo = t.todo \ {d}, !.to = d, !.pc = pc(d)]
<1>1. t.pc = "broadcast" /\ t \in Tasks
  BY AtWork DEF broadcast_signal, At
<1>2. task' = [task EXCEPT ![c] = Idle] \/ \E d \in t.todo : task' = [task EXCEPT ![c] = u(d)]
  BY DEF broadcast_signal, Go
<1>3. UNCHANGED <<scenario, unsent, inbox, gone, got, replied, copies, is_monitor>>
  BY DEF broadcast_signal, OnlyTask, clients, subscriptions
<1>4. CASE task' = [task EXCEPT ![c] = Idle]
  <2>1. task'[c] = Idle /\ OnlyMoves(c)
    BY <1>4 DEF RouteInv, RoutingTypes, OnlyMoves
  <2> QED
    BY <1>1, <1>3, <2>1 DEF NextInLine
<1>5. ASSUME NEW d \in t.todo, task' = [task EXCEPT ![c] = u(d)]
      PROVE  NextInLine(c)
  <2> DEFINE p == pc(d)
             v == u(d)
  <2>1. p = "broadcast" \/ (p = "broadcast_write" /\ d \notin is_monitor)
    BY <1>1 DEF Wanted
  <2>2. v = [t EXCEPT !.todo = t.todo \ {d}, !.to = d, !.pc = p]
    OBVIOUS
  <2> HIDE DEF p, v
  <2>3. task'[c] = v /\ OnlyMoves(c)
    BY <1>5 DEF RouteInv, RoutingTypes, OnlyMoves, v
  <2> HIDE DEF t, u, pc
  <2>4. v.m = t.m /\ v.todo = t.todo \ {d} /\ v.to = d /\ v.pc = p
    BY <1>1, <2>2 DEF Tasks, TasksAt
  <2> QED
    BY <1>1, <1>3, <1>5, <2>1, <2>3, <2>4 DEF NextInLine, t
<1> QED
  BY <1>2, <1>4, <1>5

\* A monitor's task writes its copy or gives it up.
LEMMA MonitorCopies ==
    ASSUME RouteInv, NEW x \in copies, deliver_to_monitors(x[1], x[2])
    PROVE  CopyGoes(x[1], x[2])
<1> DEFINE d == x[1]
           m == x[2]
           e == [m |-> m, copy |-> TRUE, since |-> Len(epochs), now |-> Len(epochs), held |-> {}]
<1>1. m \in Messages
  BY DEF RouteInv, RoutingTypes
<1>2. Len(epochs) \in Nat
  BY PolicyNow DEF RouteInv
<1>3. Put(d, e) \/ UNCHANGED got
  BY DEF deliver_to_monitors, Entry, WriteFails
<1>4. /\ <<d, m>> \in copies /\ copies' = copies \ {<<d, m>>}
      /\ UNCHANGED <<scenario, unsent, inbox, gone, replied, task, is_monitor>>
  BY DEF deliver_to_monitors, clients, subscriptions
<1> HIDE DEF d, m
<1>5. TRUE \in BOOLEAN
  OBVIOUS
<1>6. e \in Entries
  BY <1>1, <1>2, <1>5 DEF Entries
<1>7. e.m = m /\ e.copy
  OBVIOUS
<1> HIDE DEF e
<1>8. CopyGoes(d, m)
  BY <1>3, <1>4, <1>6, <1>7 DEF CopyGoes
<1> QED
  BY <1>8 DEF d, m

\* A step that moves no handler moves no message.
LEMMA NothingMoves ==
    ASSUME RouteInv, task' = task, gone \subseteq gone',
           UNCHANGED <<scenario, unsent, inbox, got, replied, copies, is_monitor>>
    PROVE  Background
<1>1. \A d \in Conns : task[d] = Idle \/ task[d].pc # "idle"
  BY DEF RouteInv, RoutingTypes, Tasks, TasksAt, Places
<1> QED
  BY <1>1 DEF Background

\* A name that changes hands moves no message.
LEMMA OwnersMoveNothing ==
    ASSUME RouteInv, NEW n, NEW o, NewOwner(n, o),
           UNCHANGED <<scenario, unsent, inbox, gone, got, replied, copies, is_monitor>>
    PROVE  Background
<1>1. ASSUME NEW d \in Conns
      PROVE  \/ task'[d] = Idle /\ task[d] = Idle
             \/ /\ task[d].pc # "idle" /\ task'[d].m = task[d].m
                /\ task'[d].to = task[d].to /\ task'[d].todo = task[d].todo
                /\ task'[d].pc = task[d].pc
  <2> DEFINE t == task[d]
             u == [t EXCEPT !.held = t.held \cup o]
  <2>1. t = Idle \/ t \in Tasks
    BY DEF RouteInv, RoutingTypes
  <2>2. task'[d] = IF t.pc # "idle" /\ n \in t.m.destination THEN u ELSE t
    BY DEF NewOwner, At
  <2> HIDE DEF t
  <2>3. CASE t = Idle
    BY <2>2, <2>3 DEF Idle, t
  <2>4. CASE t \in Tasks
    <3>1. t.pc # "idle"
      BY <2>4 DEF Tasks, TasksAt, Places
    <3>2. u.m = t.m /\ u.to = t.to /\ u.todo = t.todo /\ u.pc = t.pc
      BY <2>4 DEF Tasks, TasksAt
    <3> HIDE DEF u
    <3>3. task'[d] = u \/ task'[d] = t
      BY <2>2
    <3> QED
      BY <3>1, <3>2, <3>3 DEF t
  <2> QED
    BY <2>1, <2>3, <2>4
<1> QED
  BY <1>1 DEF Background

\* Time ends waits and moves no message.
LEMMA TickMovesNothing ==
    ASSUME RouteInv, Tick
    PROVE  Background
<1>1. ASSUME NEW d \in Conns
      PROVE  \/ task'[d] = Idle /\ task[d] = Idle
             \/ /\ task[d].pc # "idle" /\ task'[d].m = task[d].m
                /\ task'[d].to = task[d].to /\ task'[d].todo = task[d].todo
                /\ task'[d].pc = task[d].pc \/ (task[d].pc = "sleep" /\ task'[d].pc = "look")
  <2> DEFINE t == task[d]
             u == [t EXCEPT !.pc = "look", !.left = t.left - 1]
  <2>1. t = Idle \/ t \in Tasks
    BY DEF RouteInv, RoutingTypes
  <2>2. task'[d] = IF t.pc = "sleep" THEN u ELSE t
    BY DEF Tick, At
  <2> HIDE DEF t
  <2>3. CASE t = Idle
    BY <2>2, <2>3 DEF Idle, t
  <2>4. CASE t \in Tasks
    <3>1. t.pc # "idle"
      BY <2>4 DEF Tasks, TasksAt, Places
    <3>2. u.m = t.m /\ u.to = t.to /\ u.todo = t.todo /\ u.pc = "look"
      BY <2>4 DEF Tasks, TasksAt
    <3> HIDE DEF u
    <3>3. (t.pc = "sleep" /\ task'[d] = u) \/ task'[d] = t
      BY <2>2
    <3> QED
      BY <3>1, <3>2, <3>3 DEF t
  <2> QED
    BY <2>1, <2>3, <2>4
<1>2. UNCHANGED <<scenario, unsent, inbox, gone, got, replied, copies, is_monitor>>
  BY DEF Tick, clients, subscriptions
<1> QED
  BY <1>1, <1>2 DEF Background

\* A client's reply answers a call that was delivered to it.
LEMMA ClientReplyAnswers ==
    ASSUME RouteInv, ReadOK, NEW c \in Conns, ClientReplies(c)
    PROVE  ClientAnswers(c)
<1>1. PICK i \in 1 .. nread[c] :
         LET e == got[c][i]
         IN  /\ e.m.type = "method_call" /\ ~ e.copy /\ ~ e.m.no_reply_expected
             /\ e.m.id \notin replied
             /\ replied' = replied \cup {e.m.id}
             /\ Sends(c, Reply(e.m, "method_return", c, "ok"))
             /\ UNCHANGED <<epochs, registry, subscriptions, scenario, gone, unsent, nread, got, task, copies>>
  BY DEF ClientReplies
<1> DEFINE e == got[c][i]
           m == e.m
           r == Reply(m, "method_return", c, "ok")
<1>2. got[c] \in Seq(Entries) /\ nread[c] \in Nat /\ nread[c] <= Len(got[c])
  BY DEF RouteInv, RoutingTypes, ReadOK
<1>3. i \in DOMAIN got[c] /\ e \in Entries
  BY <1>2
<1>4. m \in Messages
  BY <1>3 DEF Entries
<1>5. "method_return" \in ReplyTypes /\ "ok" \in Codes /\ c \in Conns \cup {BUS}
  BY DEF ReplyTypes, Codes
<1>6. r \in Messages /\ r.id = m.id /\ r.type = "method_return" /\ r.sender = {c}
  <2> HIDE DEF m
  <2> QED
    BY <1>4, <1>5, ReplyFields
<1> HIDE DEF r
<1>7. inbox[c] = {} /\ inbox' = [inbox EXCEPT ![c] = {r}]
  BY <1>1 DEF Sends, r
<1> QED
  BY <1>1, <1>3, <1>6, <1>7 DEF ClientAnswers, subscriptions

\* Every step of the bus and its clients is one of the kinds.
LEMMA StepsAreMessageSteps ==
    ASSUME RouteInv, ReadOK, [RoutingNext]_routingVars
    PROVE  MessageStep
<1>1. CASE UNCHANGED routingVars
  <2>1. Background
    BY <1>1, NothingMoves DEF routingVars, clients, subscriptions
  <2> QED
    BY <2>1 DEF MessageStep
<1>2. ASSUME NEW c \in Conns, Handler(c)
      PROVE  MessageStep
  <2>1. CASE dispatch_incoming(c)
    BY <2>1, DispatchTakesUp DEF MessageStep
  <2>2. CASE deliver_to_owner(c) \/ PollForOwner(c) \/ AfterActivation(c) \/ handle_driver_call(c)
    <3>1. GoesOn(c)
      BY <2>2, HandlerGoesOn, DriverGoesOn
    <3> QED
      BY <3>1 DEF MessageStep
  <2>3. CASE WriteToOwner(c) \/ reply_error(c) \/ BroadcastWrite(c)
    <3>1. Writes(c) \/ Loses(c) \/ GoesOn(c)
      BY <2>3, HandlerWritesOrLoses
    <3> QED
      BY <3>1 DEF MessageStep
  <2>4. CASE broadcast_signal(c)
    <3>1. NextInLine(c)
      BY <2>4, BroadcastNext
    <3> QED
      BY <3>1 DEF MessageStep
  <2>5. CASE HandlerEnds(c)
    <3>1. Background
      BY <2>5, NothingMoves DEF HandlerEnds, subscriptions, clients
    <3> QED
      BY <3>1 DEF MessageStep
  <2> QED
    BY <1>2, <2>1, <2>2, <2>3, <2>4, <2>5 DEF Handler
<1>3. ASSUME NEW c \in Conns, ClientReplies(c)
      PROVE  MessageStep
  <2>1. ClientAnswers(c)
    BY <1>3, ClientReplyAnswers
  <2> QED
    BY <2>1 DEF MessageStep
<1>4. ASSUME NEW c \in Conns, ClientReads(c) \/ ClientCloses(c)
      PROVE  MessageStep
  <2>1. Background
    BY <1>4, NothingMoves DEF ClientReads, ClientCloses, subscriptions
  <2> QED
    BY <2>1 DEF MessageStep
<1>5. ASSUME NEW m \in unsent, ClientCalls(m)
      PROVE  MessageStep
  <2>1. m \in scenario.messages /\ scenario \in Scenarios
    BY DEF RouteInv, RoutingTypes
  <2>2. PICK c \in Conns : m.sender = {c}
    BY <2>1, RoutingAssumption
  <2>3. From(m) = c
    BY <2>2, OneSender
  <2>4. ClientSends(c, m)
    BY <1>5, <2>2, <2>3 DEF ClientCalls, Sends, ClientSends, subscriptions
  <2> QED
    BY <2>4 DEF MessageStep
<1>6. ASSUME MonitorTask
      PROVE  MessageStep
  BY <1>6, MonitorCopies DEF MonitorTask, MessageStep
<1>7. ASSUME NEW c \in Conns, NEW n \in Names,
             handle_request_name(c, n) \/ handle_release_name(c, n)
      PROVE  MessageStep
  <2>1. Background
    BY <1>7, OwnersMoveNothing
    DEF handle_request_name, handle_release_name, subscriptions, clients
  <2> QED
    BY <2>1 DEF MessageStep
<1>8. ASSUME Tick \/ reload_policy
      PROVE  MessageStep
  <2>1. Background
    BY <1>8, TickMovesNothing, NothingMoves DEF reload_policy, subscriptions, clients
  <2> QED
    BY <2>1 DEF MessageStep
<1> QED
  BY <1>1, <1>2, <1>3, <1>4, <1>5, <1>6, <1>7, <1>8 DEF RoutingNext

-----------------------------------------------------------------------------
(* Broadcasts *)

Broadcast(m) == m.type = "signal" /\ m.destination = {}

On(c, m) == task[c].pc # "idle" /\ task[c].m = m

InGot(d, m) == \E i \in DOMAIN got[d] : got[d][i].m = m

Seen(d, m) == <<d, m>> \in copies \/ InGot(d, m)

GotOnce(m) ==
    \A d \in Conns : \A i, j \in DOMAIN got[d] : got[d][i].m = m /\ got[d][j].m = m => i = j

\* A broadcast is in one place at a time; of the connections it has still to go to
\* only monitors have it already, as their copy.
OnceOK(m) ==
    /\ m \in unsent =>
          \A d \in Conns : m \notin inbox[d] /\ ~ On(d, m) /\ ~ Seen(d, m)
    /\ \A c \in Conns : m \in inbox[c] => ~ On(c, m) /\ \A d \in Conns : ~ Seen(d, m)
    /\ \A c \in Conns : On(c, m) =>
          /\ \A d \in task[c].todo : Seen(d, m) => d \in is_monitor
          /\ task[c].pc = "broadcast_write" => task[c].to \notin task[c].todo /\ ~ Seen(task[c].to, m)
    /\ \A d \in Conns : <<d, m>> \in copies => ~ InGot(d, m)
    /\ GotOnce(m)

BroadcastsOK == \A m \in Messages : Broadcast(m) => OnceOK(m)

\* What one more entry changes.
LEMMA PutSeen ==
    ASSUME RoutingTypes, NEW d \in Conns, NEW e \in Entries, Put(d, e)
    PROVE  /\ \A k \in Conns \ {d} : got'[k] = got[k]
           /\ DOMAIN got'[d] = DOMAIN got[d] \cup {Len(got[d]) + 1}
           /\ Len(got[d]) + 1 \notin DOMAIN got[d]
           /\ \A i \in DOMAIN got[d] : got'[d][i] = got[d][i]
           /\ got'[d][Len(got[d]) + 1] = e
<1>1. got \in [Conns -> Seq(Entries)] /\ got' = [got EXCEPT ![d] = Append(got[d], e)]
  BY DEF RoutingTypes, Put
<1>2. got'[d] = Append(got[d], e) /\ got[d] \in Seq(Entries)
  BY <1>1
<1> QED
  BY <1>1, <1>2

\* One entry more is the only one of its message if there was none.
LEMMA PutOnce ==
    ASSUME RoutingTypes, NEW d \in Conns, NEW e \in Entries, Put(d, e), NEW m,
           GotOnce(m), e.m = m => ~ InGot(d, m)
    PROVE  /\ GotOnce(m)'
           /\ \A k \in Conns : InGot(k, m)' => InGot(k, m) \/ (k = d /\ e.m = m)
<1>1. /\ \A k \in Conns \ {d} : got'[k] = got[k]
      /\ DOMAIN got'[d] = DOMAIN got[d] \cup {Len(got[d]) + 1}
      /\ Len(got[d]) + 1 \notin DOMAIN got[d]
      /\ \A i \in DOMAIN got[d] : got'[d][i] = got[d][i]
      /\ got'[d][Len(got[d]) + 1] = e
  BY PutSeen
<1>2. ASSUME NEW k \in Conns
      PROVE  InGot(k, m)' => InGot(k, m) \/ (k = d /\ e.m = m)
  BY <1>1 DEF InGot
<1>3. ASSUME NEW k \in Conns, NEW i \in DOMAIN got'[k], NEW j \in DOMAIN got'[k],
             got'[k][i].m = m, got'[k][j].m = m
      PROVE  i = j
  <2>1. CASE k # d
    BY <1>1, <1>3, <2>1 DEF GotOnce
  <2>2. CASE k = d /\ e.m = m
    BY <1>1, <1>3, <2>2 DEF InGot
  <2>3. CASE k = d /\ e.m # m
    BY <1>1, <1>3, <2>3 DEF GotOnce
  <2> QED
    BY <2>1, <2>2, <2>3
<1> QED
  BY <1>2, <1>3 DEF GotOnce

\* Where a broadcast can be, by what handlers and sockets hold.
LEMMA BroadcastPlaces ==
    ASSUME RouteInv, NEW m, Broadcast(m), NEW c \in Conns
    PROVE  /\ On(c, m) => task[c].pc \in {"broadcast", "broadcast_write"} /\ m.sender = {c}
           /\ m \in inbox[c] => m.sender = {c}
<1>1. ASSUME On(c, m)
      PROVE  task[c].pc \in {"broadcast", "broadcast_write"} /\ m.sender = {c}
  <2>1. task[c].pc # "idle" /\ task[c].m = m
    BY <1>1 DEF On
  <2>2. task[c] \in Tasks /\ KindAt(c, task[c])
    BY <2>1, AtWork
  <2>3. task[c].pc \in Places
    BY <2>2 DEF Tasks, TasksAt
  <2> QED
    BY <2>1, <2>2, <2>3 DEF KindAt, CameFrom, Broadcast, Places, ReplyTypes
<1>2. m \in inbox[c] => m.sender = {c}
  BY DEF RouteInv, InboxOK, CameFrom
<1> QED
  BY <1>1, <1>2

\* A broadcast taken up has been seen by nobody; its copies go to the monitors of now.
LEMMA TakesUpOnce ==
    ASSUME RouteInv, RouteInv', NEW c \in Conns, NEW x \in inbox[c], TakesUp(c, x),
           NEW m, Broadcast(m), OnceOK(m)
    PROVE  OnceOK(m)'
<1>1. m.type \notin ReplyTypes
  BY DEF Broadcast, ReplyTypes
<1>2. /\ \A k \in Conns \ {c} : task'[k] = task[k] /\ inbox'[k] = inbox[k]
      /\ inbox'[c] = {} /\ ~ On(c, m)
      /\ UNCHANGED <<unsent, got, is_monitor>>
  BY DEF TakesUp, OnlyMoves, On, RouteInv, RoutingTypes
<1>3. \A k : InGot(k, m)' <=> InGot(k, m)
  BY <1>2 DEF InGot
<1>4. GotOnce(m)' 
  BY <1>2 DEF OnceOK, GotOnce
<1>5. \A k \in Conns \ {c} : On(k, m)' <=> On(k, m)
  BY <1>2 DEF On
<1>6. CASE x # m
  <2>1. ~ On(c, m)'
    <3>1. Keeps(x, task'[c])
      BY DEF TakesUp
    <3> QED
      BY <1>1, <1>6, <3>1 DEF Keeps, On, Idle
  <2>2. \A k : <<k, m>> \in copies' <=> <<k, m>> \in copies
    BY <1>6 DEF TakesUp
  <2>3. \A k : Seen(k, m)' <=> Seen(k, m)
    BY <1>3, <2>2 DEF Seen
  <2> QED
    BY <1>2, <1>3, <1>4, <1>5, <2>1, <2>2, <2>3 DEF OnceOK
<1>7. CASE x = m
  <2>1. \A k \in Conns : ~ Seen(k, m)
    BY <1>7 DEF OnceOK
  <2>2. m \notin unsent
    BY <1>7 DEF OnceOK
  <2>3. \A k \in Conns \ {c} : ~ On(k, m) /\ m \notin inbox[k]
    BY <1>7, BroadcastPlaces
  <2>4. \A k \in Conns : Seen(k, m)' => k \in is_monitor'
    BY <1>2, <1>3, <1>7, <2>1 DEF Seen, TakesUp
  <2>5. On(c, m)' => task'[c].pc # "broadcast_write"
    BY <1>1, <1>7 DEF On, TakesUp, Keeps, Idle
  <2>6. \A k \in Conns : ~ InGot(k, m)'
    BY <1>3, <2>1 DEF Seen
  <2>7. On(c, m)' => task'[c].todo \subseteq Conns
    <3>1. task'[c] = Idle \/ task'[c] \in Tasks
      BY DEF RouteInv, RoutingTypes, Tasks, TasksAt, Idle
    <3> QED
      BY <3>1 DEF Tasks, TasksAt, On, Idle
  <2> QED
    BY <1>2, <1>4, <1>5, <2>2, <2>3, <2>4, <2>5, <2>6, <2>7 DEF OnceOK
<1> QED
  BY <1>6, <1>7

\* A handler that goes on with another message: who becomes a monitor is passed over.
LEMMA GoesOnOnce ==
    ASSUME RouteInv, NEW c \in Conns, GoesOn(c), NEW m, Broadcast(m), OnceOK(m)
    PROVE  OnceOK(m)'
<1>1. m.type \notin ReplyTypes
  BY DEF Broadcast, ReplyTypes
<1>2. /\ \A k \in Conns \ {c} : task'[k] = task[k]
      /\ is_monitor \subseteq is_monitor'
      /\ UNCHANGED <<unsent, inbox, got, copies>>
  BY DEF GoesOn, OnlyMoves
<1>3. ~ On(c, m)
  BY BroadcastPlaces DEF GoesOn
<1>4. ~ On(c, m)'
  <2>1. task[c].m # m /\ Keeps(task[c].m, task'[c])
    BY <1>3 DEF GoesOn, On
  <2> QED
    BY <1>1, <2>1 DEF Keeps, On, Idle
<1>5. \A k \in Conns \ {c} : On(k, m)' <=> On(k, m)
  BY <1>2 DEF On
<1>6. \A k : (InGot(k, m)' <=> InGot(k, m)) /\ (Seen(k, m)' <=> Seen(k, m))
  BY <1>2 DEF InGot, Seen
<1>7. GotOnce(m)'
  BY <1>2 DEF OnceOK, GotOnce
<1> QED
  BY <1>2, <1>3, <1>4, <1>5, <1>6, <1>7 DEF OnceOK

\* A handler is done with another message than m, or its broadcast goes on.
LEMMA WritesOnce ==
    ASSUME RouteInv, NEW c \in Conns, Writes(c), NEW m, Broadcast(m), OnceOK(m)
    PROVE  OnceOK(m)'
<1>1. PICK e \in Entries : e.m = task[c].m /\ Put(task[c].to, e)
  BY DEF Writes
<1>2. /\ \A k \in Conns \ {c} : task'[k] = task[k]
      /\ UNCHANGED <<unsent, inbox, copies, is_monitor>>
      /\ task[c].pc # "idle"
      /\ IF task[c].pc = "broadcast_write"
         THEN /\ task'[c].pc = "broadcast" /\ task'[c].m = task[c].m /\ task'[c].todo = task[c].todo
         ELSE task'[c] = Idle
  BY DEF Writes, AfterWrite, OnlyMoves
<1>3. task[c].to \in Conns /\ RoutingTypes
  BY <1>2, AtWork DEF Tasks, TasksAt, RouteInv
<1>4. \A k \in Conns \ {c} : On(k, m)' <=> On(k, m)
  BY <1>2 DEF On
<1>5. task[c].m = m => task[c].pc = "broadcast_write" /\ On(c, m)
  BY <1>2, BroadcastPlaces DEF On, Writes
<1>6. e.m = m => ~ Seen(task[c].to, m) /\ task[c].to \notin task[c].todo
  BY <1>1, <1>5 DEF OnceOK
<1>7. /\ GotOnce(m)'
      /\ \A k \in Conns : InGot(k, m)' => InGot(k, m) \/ (k = task[c].to /\ e.m = m)
  <2>1. e.m = m => ~ InGot(task[c].to, m)
    BY <1>6 DEF Seen
  <2> QED
    BY <1>1, <1>3, <2>1, PutOnce DEF OnceOK
<1>8. \A k \in Conns : Seen(k, m)' => Seen(k, m) \/ (k = task[c].to /\ e.m = m)
  BY <1>2, <1>7 DEF Seen
<1>9. CASE task[c].m # m
  <2>1. ~ On(c, m)' /\ ~ On(c, m)
    BY <1>2, <1>9 DEF On, Idle
  <2>2. \A k \in Conns : /\ InGot(k, m)' => InGot(k, m)
                         /\ Seen(k, m)' => Seen(k, m)
    BY <1>1, <1>7, <1>8, <1>9
  <2>3. \A k \in Conns : On(k, m)' => task'[k] = task[k] /\ task[k] \in Tasks /\ On(k, m)
    BY <1>2, <1>4, <2>1, AtWork DEF On
  <2>4. \A k \in Conns : On(k, m) => task[k].todo \subseteq Conns /\ task[k].to \in Conns
    BY <2>3, AtWork DEF On, Tasks, TasksAt
  <2> QED
    BY <1>2, <1>7, <2>1, <2>2, <2>3, <2>4 DEF OnceOK
<1>10. CASE task[c].m = m
  <2>1. On(c, m) /\ task[c].pc = "broadcast_write" /\ e.m = m
    BY <1>1, <1>5, <1>10
  <2>2. m \notin unsent /\ \A k \in Conns : m \notin inbox[k]
    BY <2>1, BroadcastPlaces DEF OnceOK
  <2>3. \A k \in Conns \ {c} : ~ On(k, m)
    BY <2>1, BroadcastPlaces
  <2>4. task[c].todo \subseteq Conns
    BY <1>2, AtWork DEF Tasks, TasksAt
  <2>5. \A k \in task[c].todo : Seen(k, m)' => k \in is_monitor'
    BY <1>2, <1>6, <1>8, <2>1, <2>4 DEF OnceOK
  <2>6. \A k \in Conns : <<k, m>> \in copies' => ~ InGot(k, m)'
    BY <1>2, <1>6, <1>7, <2>1 DEF OnceOK, Seen
  <2> QED
    BY <1>2, <1>4, <1>7, <2>1, <2>2, <2>3, <2>5, <2>6 DEF OnceOK
<1> QED
  BY <1>9, <1>10

\* Passing over a connection, or losing it, brings the broadcast to nobody.
LEMMA LosesOnce ==
    ASSUME RouteInv, NEW c \in Conns, Loses(c) \/ NextInLine(c), NEW m, Broadcast(m), OnceOK(m)
    PROVE  OnceOK(m)'
<1>1. /\ \A k \in Conns \ {c} : task'[k] = task[k]
      /\ UNCHANGED <<unsent, inbox, got, copies, is_monitor>>
      /\ task[c].pc # "idle"
  BY DEF Loses, NextInLine, AfterWrite, OnlyMoves
<1>2. \A k : (InGot(k, m)' <=> InGot(k, m)) /\ (Seen(k, m)' <=> Seen(k, m))
  BY <1>1 DEF InGot, Seen
<1>3. GotOnce(m)'
  BY <1>1 DEF OnceOK, GotOnce
<1>4. \A k \in Conns \ {c} : On(k, m)' <=> On(k, m)
  BY <1>1 DEF On
<1>5. On(c, m)' =>
         /\ On(c, m) /\ task'[c].todo \subseteq task[c].todo
         /\ task'[c].pc = "broadcast_write" =>
               /\ task'[c].to \in task[c].todo /\ task'[c].to \notin is_monitor
               /\ task'[c].to \notin task'[c].todo
  BY <1>1 DEF On, Loses, AfterWrite, NextInLine, Idle
<1>6. On(c, m)' =>
         /\ \A d \in task'[c].todo : Seen(d, m)' => d \in is_monitor'
         /\ task'[c].pc = "broadcast_write" =>
               task'[c].to \notin task'[c].todo /\ ~ Seen(task'[c].to, m)
  BY <1>1, <1>2, <1>5 DEF OnceOK
<1>7. ASSUME NEW k \in Conns, On(k, m)'
      PROVE  /\ \A d \in task'[k].todo : Seen(d, m)' => d \in is_monitor'
             /\ task'[k].pc = "broadcast_write" =>
                   task'[k].to \notin task'[k].todo /\ ~ Seen(task[k].to, m)'
  <2>1. CASE k = c
    BY <1>2, <1>6, <1>7, <2>1 DEF Seen, InGot
  <2>2. CASE k # c
    BY <1>1, <1>2, <1>4, <1>7, <2>2 DEF OnceOK, Seen, InGot
  <2> QED
    BY <2>1, <2>2
<1> QED
  BY <1>1, <1>2, <1>3, <1>4, <1>5, <1>7 DEF OnceOK

\* The copy of a monitor is written to it once and not by the broadcast.
LEMMA CopyOnce ==
    ASSUME RouteInv, NEW x \in copies, CopyGoes(x[1], x[2]), NEW m, Broadcast(m), OnceOK(m)
    PROVE  OnceOK(m)'
<1> DEFINE d == x[1]
           y == x[2]
<1>1. /\ <<d, y>> \in copies /\ copies' = copies \ {<<d, y>>}
      /\ UNCHANGED <<unsent, inbox, task, is_monitor>>
      /\ UNCHANGED got \/ \E e \in Entries : e.m = y /\ Put(d, e)
  BY DEF CopyGoes
<1>2. d \in Conns /\ RoutingTypes
  BY DEF RouteInv, RoutingTypes
<1> HIDE DEF d, y
<1>3. y = m => ~ InGot(d, m)
  BY <1>1, <1>2 DEF OnceOK
<1>4. /\ GotOnce(m)'
      /\ \A k \in Conns : InGot(k, m)' => InGot(k, m) \/ (k = d /\ y = m)
  <2>1. CASE UNCHANGED got
    BY <2>1 DEF OnceOK, GotOnce, InGot
  <2>2. ASSUME NEW e \in Entries, e.m = y, Put(d, e)
        PROVE  /\ GotOnce(m)'
               /\ \A k \in Conns : InGot(k, m)' => InGot(k, m) \/ (k = d /\ y = m)
    BY <1>2, <1>3, <2>2, PutOnce DEF OnceOK
  <2> QED
    BY <1>1, <2>1, <2>2
<1>5. \A k \in Conns : Seen(k, m)' => Seen(k, m)
  BY <1>1, <1>4 DEF Seen
<1>6. \A k \in Conns : <<k, m>> \in copies' => ~ InGot(k, m)'
  BY <1>1, <1>4 DEF OnceOK
<1>7. \A k \in Conns : On(k, m)' <=> On(k, m)
  BY <1>1 DEF On
<1>8. \A k \in Conns : On(k, m) => task[k].todo \subseteq Conns /\ task[k].to \in Conns
  BY AtWork DEF On, Tasks, TasksAt
<1> QED
  BY <1>1, <1>4, <1>5, <1>6, <1>7, <1>8 DEF OnceOK

\* What clients send is new, and answers are no broadcasts.
LEMMA ClientOnce ==
    ASSUME RouteInv, NEW c \in Conns,
           ClientAnswers(c) \/ \E x \in unsent : ClientSends(c, x),
           NEW m, Broadcast(m), OnceOK(m)
    PROVE  OnceOK(m)'
<1>1. /\ UNCHANGED <<got, task, copies, is_monitor>>
      /\ \A k \in Conns \ {c} : inbox'[k] = inbox[k]
      /\ inbox \in [Conns -> SUBSET Messages]
  BY DEF ClientAnswers, ClientSends, RouteInv, RoutingTypes
<1>2. m \in unsent' => m \in unsent
  BY DEF ClientAnswers, ClientSends
<1>3. m \in inbox'[c] => m \in unsent /\ m \notin unsent'
  <2>1. CASE ClientAnswers(c)
    BY <1>1, <2>1 DEF ClientAnswers, Broadcast
  <2>2. ASSUME NEW x \in unsent, ClientSends(c, x)
        PROVE  m \in inbox'[c] => m \in unsent /\ m \notin unsent'
    BY <1>1, <2>2 DEF ClientSends
  <2> QED
    BY <2>1, <2>2
<1>4. m \in unsent' => m \notin inbox'[c]
  BY <1>3
<1>5. \A k : /\ On(k, m)' <=> On(k, m)
             /\ InGot(k, m)' <=> InGot(k, m)
             /\ Seen(k, m)' <=> Seen(k, m)
  BY <1>1 DEF On, InGot, Seen
<1>6. GotOnce(m)'
  BY <1>1 DEF OnceOK, GotOnce
<1>7. \A k \in Conns : On(k, m)' =>
          /\ \A d \in task'[k].todo : Seen(d, m)' => d \in is_monitor'
          /\ task'[k].pc = "broadcast_write" =>
                task'[k].to \notin task'[k].todo /\ ~ Seen(task[k].to, m)'
  BY <1>1 DEF OnceOK, On, Seen, InGot
<1> QED
  BY <1>1, <1>2, <1>3, <1>4, <1>5, <1>6, <1>7 DEF OnceOK

\* Nothing moves.
LEMMA BackgroundOnce ==
    ASSUME RouteInv, Background, NEW m, Broadcast(m), OnceOK(m)
    PROVE  OnceOK(m)'
<1>1. UNCHANGED <<unsent, inbox, got, copies, is_monitor>>
  BY DEF Background
<1>2. \A k : /\ InGot(k, m)' <=> InGot(k, m)
             /\ Seen(k, m)' <=> Seen(k, m)
  BY <1>1 DEF InGot, Seen
<1>3. \A k \in Conns : On(k, m)' <=> On(k, m)
  BY DEF Background, On, Idle
<1>4. GotOnce(m)'
  BY <1>1 DEF OnceOK, GotOnce
<1>5. ASSUME NEW k \in Conns, On(k, m)'
      PROVE  /\ \A d \in task'[k].todo : Seen(d, m)' => d \in is_monitor'
             /\ task'[k].pc = "broadcast_write" =>
                   task'[k].to \notin task'[k].todo /\ ~ Seen(task[k].to, m)'
  <2>1. task'[k].to = task[k].to /\ task'[k].todo = task[k].todo
    BY <1>5 DEF Background, On, Idle
  <2>2. task'[k].pc = "broadcast_write" => task[k].pc = "broadcast_write"
    BY <1>5 DEF Background, On, Idle
  <2>3. Seen(task[k].to, m)' => Seen(task[k].to, m)
    BY <1>1, <2>1 DEF Seen, InGot
  <2> QED
    BY <1>1, <1>2, <1>3, <1>5, <2>1, <2>2, <2>3 DEF OnceOK
<1> QED
  BY <1>1, <1>2, <1>3, <1>4, <1>5 DEF OnceOK

\* Nothing has been sent.
LEMMA BroadcastsStart == RoutingInit => BroadcastsOK
<1> SUFFICES ASSUME RoutingInit, NEW m \in Messages
             PROVE  OnceOK(m)
  BY DEF BroadcastsOK
<1>1. \A c \in Conns : ~ On(c, m) /\ ~ InGot(c, m) /\ ~ Seen(c, m)
  BY DEF RoutingInit, On, InGot, Seen, Idle
<1>2. GotOnce(m)
  BY DEF RoutingInit, GotOnce
<1> QED
  BY <1>1, <1>2 DEF OnceOK, RoutingInit

\* Every kind of step keeps every broadcast to one copy each.
LEMMA BroadcastsStep ==
    ASSUME RouteInv, RouteInv', MessageStep, BroadcastsOK
    PROVE  BroadcastsOK'
<1>1. ASSUME NEW m \in Messages, Broadcast(m)
      PROVE  OnceOK(m)'
  <2>1. OnceOK(m)
    BY <1>1 DEF BroadcastsOK
  <2> QED
    BY <1>1, <2>1, TakesUpOnce, GoesOnOnce, WritesOnce, LosesOnce, CopyOnce, ClientOnce,
       BackgroundOnce DEF MessageStep
<1> QED
  BY <1>1 DEF BroadcastsOK, Broadcast, Messages, FieldValues, RequestValues, Requests

\* A broadcast signal is written to a connection once at most, whether as a
\* subscriber or as a monitor, whenever it became one (dispatch.rs).
THEOREM BroadcastsReachOnce == RoutingSpec => []OneCopyEach
<1>1. RoutingInit => BroadcastsOK
  BY BroadcastsStart
<1>2. RouteInv /\ ReadOK /\ RouteInv' /\ BroadcastsOK /\ [RoutingNext]_routingVars => BroadcastsOK'
  BY BroadcastsStep, StepsAreMessageSteps
<1>3. RouteInv /\ BroadcastsOK => OneCopyEach
  <2> SUFFICES ASSUME RouteInv, BroadcastsOK, NEW c \in Conns,
                      NEW i \in DOMAIN got[c], NEW j \in DOMAIN got[c],
                      Broadcast(got[c][i].m), got[c][j].m = got[c][i].m
               PROVE  i = j
    BY DEF OneCopyEach, Broadcast
  <2>1. got[c] \in Seq(Entries)
    BY DEF RouteInv, RoutingTypes
  <2>2. got[c][i] \in Entries
    BY <2>1
  <2>3. got[c][i].m \in Messages
    BY <2>2 DEF Entries
  <2> QED
    BY <2>3 DEF BroadcastsOK, OnceOK, GotOnce
<1>4. RoutingSpec => []BroadcastsOK
  BY <1>1, <1>2, RoutingInvariance, PTL DEF RoutingSpec
<1> QED
  BY <1>3, <1>4, RoutingInvariance, PTL

-----------------------------------------------------------------------------
(* Calls *)

\* The caller, or the bus before it has made up its mind, has the call.
Pending(m) == m \in unsent \/ \E c \in Conns : m \in inbox[c] \/ On(c, m)

IsReplyTo(r, m) == r.id = m.id /\ r.type \in ReplyTypes

BusAnswers(c, m) == task[c].pc = "answer" /\ IsReplyTo(task[c].m, m)

\* A client's reply is on its way: in the socket or with the client's handler.
InSocket(d, m) == \E r \in inbox[d] : IsReplyTo(r, m)

InHandler(d, m) == task[d].pc \notin {"idle", "answer"} /\ IsReplyTo(task[d].m, m)

\* What an entry means for a call: it is the call, or its answer by the bus or by
\* a client.
Outcome(e, m) ==
    IF e.copy THEN "none"
    ELSE IF e.m = m THEN "delivered"
    ELSE IF IsReplyTo(e.m, m) THEN IF e.m.sender = {BUS} THEN "bus" ELSE "client"
    ELSE "none"

Ends(kind, m) ==
    UNION {{c} \X {i \in DOMAIN got[c] : Outcome(got[c][i], m) = kind} : c \in Conns}

\* While a call is pending nobody has answered it.
PendingOK(m) ==
    /\ m \in unsent => \A c \in Conns : m \notin inbox[c] /\ ~ On(c, m)
    /\ \A c \in Conns : m \in inbox[c] => ~ On(c, m)
    /\ Pending(m) => /\ Ends("delivered", m) = {} /\ Ends("bus", m) = {} /\ m.id \notin replied
                     /\ \A d \in Conns : ~ BusAnswers(d, m)

\* Then the bus answers,
BusAnswersOK(m) ==
    \A c \in Conns : BusAnswers(c, m) =>
        /\ task[c].m.sender = {BUS} /\ m.sender = {c} /\ task[c].to = c
        /\ Ends("delivered", m) = {} /\ Ends("bus", m) = {} /\ m.id \notin replied
        /\ ~ m.no_reply_expected

\* or one connection is given the call, and may send one reply.
ReplyOK(m) ==
    /\ \A d \in Conns : InSocket(d, m) \/ InHandler(d, m) =>
          /\ m.id \in replied /\ Ends("client", m) = {}
          /\ \A e \in Conns : InSocket(e, m) \/ InHandler(e, m) => e = d
    /\ \A d \in Conns : ~ (InSocket(d, m) /\ InHandler(d, m))
    /\ m.id \in replied => Ends("delivered", m) # {} /\ ~ m.no_reply_expected

EndOK(m) ==
    /\ \A kind \in {"delivered", "bus", "client"} : \A x, y \in Ends(kind, m) : x = y
    /\ Ends("bus", m) # {} => Ends("delivered", m) = {} /\ ~ m.no_reply_expected
    /\ Ends("client", m) # {} => m.id \in replied

\* No call is forgotten.
KeptOK(m) ==
    \/ Pending(m) \/ Ends("delivered", m) # {}
    \/ \E c \in Conns : BusAnswers(c, m)
    \/ \E x \in Ends("bus", m) : x[1] = From(m)
    \/ m.no_reply_expected \/ From(m) \in gone

CallOnce(m) == PendingOK(m) /\ BusAnswersOK(m) /\ ReplyOK(m) /\ EndOK(m) /\ KeptOK(m)

\* A socket holds one message, and only calls that clients sent are delivered.
PlainOK ==
    /\ \A c \in Conns : \A x, y \in inbox[c] : x = y
    /\ \A c \in Conns : \A i \in DOMAIN got[c] :
          ~ got[c][i].copy /\ got[c][i].m.type = "method_call" => got[c][i].m \in scenario.messages

CallsOK == PlainOK /\ \A m \in Calls : CallOnce(m)

\* Everything a step may leave alone about a call.
SameEnds(m) == \A kind \in {"delivered", "bus", "client"} : Ends(kind, m)' = Ends(kind, m)

SameAt(c, m) ==
    /\ m \in inbox'[c] <=> m \in inbox[c]
    /\ On(c, m)' <=> On(c, m)
    /\ BusAnswers(c, m)' <=> BusAnswers(c, m)
    /\ BusAnswers(c, m) => task'[c].m = task[c].m /\ task'[c].to = task[c].to
    /\ InSocket(c, m)' <=> InSocket(c, m)
    /\ InHandler(c, m)' <=> InHandler(c, m)

\* A call, sent once by c0.
IsCall(m, c0) ==
    /\ m \in scenario.messages /\ m.type = "method_call" /\ m.sender = {c0}
    /\ From(m) = c0

\* A call came from one connection.
LEMMA CallHasCaller ==
    ASSUME RouteInv, NEW m \in Calls
    PROVE  \E c0 \in Conns : IsCall(m, c0)
<1>1. scenario \in Scenarios /\ m \in scenario.messages /\ m.type = "method_call"
  BY DEF RouteInv, RoutingTypes, Calls
<1>2. PICK c0 \in Conns : m.sender = {c0}
  BY <1>1, RoutingAssumption
<1> QED
  BY <1>1, <1>2, OneSender DEF IsCall

\* No other message of a client has the id of a call.
LEMMA CallIsAlone ==
    ASSUME RouteInv, NEW m, NEW c0, IsCall(m, c0), NEW x \in scenario.messages
    PROVE  (x.id = m.id => x = m) /\ ~ IsReplyTo(x, m)
<1>1. x.id = m.id => x = m
  BY RoutingAssumption DEF RouteInv, RoutingTypes, IsCall
<1> QED
  BY <1>1 DEF IsReplyTo, ReplyTypes, IsCall

\* A call is with its caller's handler or in its socket; a reply of a client is
\* with a handler that writes it.
LEMMA CallPlaces ==
    ASSUME RouteInv, NEW m, NEW c0, IsCall(m, c0), NEW c \in Conns
    PROVE  /\ On(c, m) => c = c0
           /\ m \in inbox[c] => c = c0
           /\ On(c, m) => task[c].pc \notin {"answer", "broadcast", "broadcast_write"}
           /\ InHandler(c, m) => task[c].pc = "write" /\ task[c].m.sender = {c}
<1>1. m \in inbox[c] => c = c0
  BY DEF RouteInv, InboxOK, CameFrom, IsCall
<1>2. CASE task[c].pc = "idle"
  BY <1>1, <1>2 DEF On, InHandler
<1>3. CASE task[c].pc # "idle"
  <2>1. task[c] \in Tasks /\ KindAt(c, task[c])
    BY <1>3, AtWork
  <2>2. task[c].pc \in Places
    BY <2>1 DEF Tasks, TasksAt
  <2>3. On(c, m) => task[c].pc \notin {"answer", "broadcast", "broadcast_write"} /\ c = c0
    BY <1>3, <2>1 DEF On, KindAt, CameFrom, IsCall, ReplyTypes
  <2>4. InHandler(c, m) => task[c].pc = "write" /\ task[c].m.sender = {c}
    BY <2>1, <2>2 DEF InHandler, IsReplyTo, KindAt, CameFrom, Places, ReplyTypes
  <2> QED
    BY <1>1, <2>3, <2>4
<1> QED
  BY <1>2, <1>3

\* The ends of a call are in what was written.
LEMMA SameGotSameEnds ==
    ASSUME NEW m, UNCHANGED got
    PROVE  SameEnds(m)
  BY DEF SameEnds, Ends, Outcome

\* An end of a call is an entry of some connection.
LEMMA EndsMembers ==
    ASSUME NEW m, NEW kind
    PROVE  \A x : x \in Ends(kind, m) <=>
              \E c \in Conns : \E i \in DOMAIN got[c] :
                  x = <<c, i>> /\ Outcome(got[c][i], m) = kind
  BY DEF Ends

\* One more entry ends a call one way, or not at all.
LEMMA PutEnds ==
    ASSUME RoutingTypes, NEW d \in Conns, NEW e \in Entries, Put(d, e), NEW m, NEW kind
    PROVE  Ends(kind, m)' = Ends(kind, m) \cup (IF Outcome(e, m) = kind THEN {<<d, Len(got[d]) + 1>>} ELSE {})
<1> DEFINE L == Len(got[d]) + 1
<1>1. /\ \A k \in Conns \ {d} : got'[k] = got[k]
      /\ DOMAIN got'[d] = DOMAIN got[d] \cup {L}
      /\ L \notin DOMAIN got[d]
      /\ \A i \in DOMAIN got[d] : got'[d][i] = got[d][i]
      /\ got'[d][L] = e
  BY PutSeen
<1> HIDE DEF L
<1>2. \A x : x \in Ends(kind, m)' <=>
              \E c \in Conns : \E i \in DOMAIN got'[c] :
                  x = <<c, i>> /\ Outcome(got'[c][i], m) = kind
  BY DEF Ends, Outcome
<1>3. ASSUME NEW x \in Ends(kind, m)'
      PROVE  x \in Ends(kind, m) \/ (x = <<d, L>> /\ Outcome(e, m) = kind)
  <2>1. PICK c \in Conns : \E i \in DOMAIN got'[c] : x = <<c, i>> /\ Outcome(got'[c][i], m) = kind
    BY <1>2, <1>3
  <2>2. PICK i \in DOMAIN got'[c] : x = <<c, i>> /\ Outcome(got'[c][i], m) = kind
    BY <2>1
  <2>3. CASE c = d /\ i = L
    BY <1>1, <2>2, <2>3
  <2>4. CASE ~ (c = d /\ i = L)
    <3>1. i \in DOMAIN got[c] /\ got'[c][i] = got[c][i]
      BY <1>1, <2>2, <2>4
    <3> QED
      BY <2>2, <3>1, EndsMembers
  <2> QED
    BY <2>3, <2>4
<1>4. ASSUME NEW x \in Ends(kind, m)
      PROVE  x \in Ends(kind, m)'
  <2>1. PICK c \in Conns : \E i \in DOMAIN got[c] : x = <<c, i>> /\ Outcome(got[c][i], m) = kind
    BY <1>4, EndsMembers
  <2>2. PICK i \in DOMAIN got[c] : x = <<c, i>> /\ Outcome(got[c][i], m) = kind
    BY <2>1
  <2>3. i \in DOMAIN got'[c] /\ got'[c][i] = got[c][i]
    BY <1>1, <2>2
  <2> QED
    BY <1>2, <2>2, <2>3
<1>5. Outcome(e, m) = kind => <<d, L>> \in Ends(kind, m)'
  BY <1>1, <1>2
<1> QED
  BY <1>3, <1>4, <1>5 DEF L

\* A step that leaves everything about the call alone.
LEMMA CallUntouched ==
    ASSUME NEW m, CallOnce(m), m \in unsent' <=> m \in unsent, m.id \in replied' <=> m.id \in replied,
           \A c \in Conns : SameAt(c, m), SameEnds(m), gone \subseteq gone'
    PROVE  CallOnce(m)'
<1>1. /\ Ends("delivered", m)' = Ends("delivered", m)
      /\ Ends("bus", m)' = Ends("bus", m)
      /\ Ends("client", m)' = Ends("client", m)
  BY DEF SameEnds
<1>2. Pending(m)' <=> Pending(m)
  BY DEF Pending, SameAt
<1>3. PendingOK(m)'
  BY <1>1, <1>2 DEF CallOnce, PendingOK, SameAt
<1>4. BusAnswersOK(m)'
  BY <1>1 DEF CallOnce, BusAnswersOK, SameAt
<1>5. ReplyOK(m)'
  BY <1>1 DEF CallOnce, ReplyOK, SameAt
<1>6. EndOK(m)'
  BY <1>1 DEF CallOnce, EndOK
<1>7. KeptOK(m)'
  BY <1>1, <1>2 DEF CallOnce, KeptOK, SameAt
<1> QED
  BY <1>3, <1>4, <1>5, <1>6, <1>7 DEF CallOnce

\* Handler c does something with y, taken from its socket or at hand before.
Handles(c, y) ==
    /\ CameFrom(c, y) /\ Keeps(y, task'[c]) /\ OnlyMoves(c)
    /\ UNCHANGED <<scenario, unsent, gone, got, replied>>
    /\ \A k \in Conns \ {c} : inbox'[k] = inbox[k]
    /\ task[c].pc # "answer"
    /\ (y \in inbox[c] /\ task[c].pc = "idle") \/ (task[c].pc # "idle" /\ task[c].m = y)

\* Where y was before, it is no longer, unless the handler has it.
Leaves(c, y, m) ==
    /\ m \in inbox'[c] <=> m \in inbox[c] /\ y # m
    /\ InSocket(c, m)' <=> InSocket(c, m) /\ ~ IsReplyTo(y, m)

\* Taking up a message is a step with that message.
LEMMA TakesUpHandles ==
    ASSUME RouteInv, PlainOK, NEW c \in Conns, NEW y \in inbox[c], TakesUp(c, y), NEW m
    PROVE  Handles(c, y) /\ Leaves(c, y, m)
<1>1. inbox'[c] = {} /\ \A k \in Conns \ {c} : inbox'[k] = inbox[k]
  BY DEF TakesUp, RouteInv, RoutingTypes
<1>2. \A x \in inbox[c] : x = y
  BY DEF PlainOK
<1>3. CameFrom(c, y)
  BY DEF RouteInv, InboxOK
<1>4. Handles(c, y)
  BY <1>1, <1>3 DEF TakesUp, Handles
<1>5. Leaves(c, y, m)
  BY <1>1, <1>2 DEF Leaves, InSocket
<1> QED
  BY <1>4, <1>5

\* Going on with a message is a step with that message.
LEMMA GoesOnHandles ==
    ASSUME RouteInv, NEW c \in Conns, GoesOn(c), NEW m, CallOnce(m)
    PROVE  Handles(c, task[c].m) /\ Leaves(c, task[c].m, m)
<1>1. CameFrom(c, task[c].m)
  BY AtWork DEF GoesOn, KindAt
<1>2. Handles(c, task[c].m)
  BY <1>1 DEF GoesOn, Handles
<1>3. task[c].m = m => m \notin inbox[c]
  BY DEF GoesOn, CallOnce, PendingOK, On
<1>4. IsReplyTo(task[c].m, m) => ~ InSocket(c, m)
  BY DEF GoesOn, CallOnce, ReplyOK, InHandler
<1>5. Leaves(c, task[c].m, m)
  BY <1>3, <1>4 DEF Leaves, GoesOn, InSocket
<1> QED
  BY <1>2, <1>5

\* What the other handlers and sockets hold is left alone.
LEMMA OthersSame ==
    ASSUME NEW c \in Conns, OnlyMoves(c), \A k \in Conns \ {c} : inbox'[k] = inbox[k], NEW m
    PROVE  \A k \in Conns \ {c} : SameAt(k, m)
  BY DEF OnlyMoves, SameAt, On, BusAnswers, InSocket, InHandler

\* A step with the call itself: it is still at one place or answered by the bus.
LEMMA HandlesCall ==
    ASSUME RouteInv, NEW m, NEW c0 \in Conns, IsCall(m, c0), CallOnce(m),
           NEW c \in Conns, Handles(c, m), Leaves(c, m, m)
    PROVE  CallOnce(m)'
<1> DEFINE u == task'[c]
<1>1. Keeps(m, u) /\ \A k \in Conns \ {c} : SameAt(k, m)
  BY OthersSame DEF Handles
<1>2. Pending(m) /\ c = c0 /\ m \notin unsent'
  <2>1. On(c, m) \/ m \in inbox[c]
    BY DEF Handles, On
  <2> QED
    BY <2>1, CallPlaces DEF Pending, CallOnce, PendingOK, Handles
<1>3. /\ Ends("delivered", m)' = {} /\ Ends("bus", m)' = {} /\ Ends("client", m)' = {}
      /\ m.id \notin replied'
  <2>1. SameEnds(m) /\ replied' = replied
    BY SameGotSameEnds DEF Handles
  <2> QED
    BY <1>2, <2>1 DEF SameEnds, CallOnce, PendingOK, EndOK
<1>4. \A k \in Conns \ {c} : /\ m \notin inbox'[k] /\ ~ On(k, m)' /\ ~ BusAnswers(k, m)'
                             /\ ~ InSocket(k, m)' /\ ~ InHandler(k, m)'
  BY <1>1, <1>2, CallPlaces DEF SameAt, CallOnce, PendingOK, ReplyOK
<1>5. m \notin inbox'[c] /\ ~ InSocket(c, m)'
  BY <1>2 DEF Leaves, CallOnce, PendingOK, ReplyOK
<1>6. ~ InHandler(c, m)'
  BY <1>1 DEF Keeps, InHandler, IsReplyTo, Idle, IsCall, ReplyTypes
<1>7. On(c, m)' => ~ BusAnswers(c, m)'
  BY DEF On, BusAnswers, IsReplyTo, IsCall, ReplyTypes
<1>8. BusAnswers(c, m)' =>
         u.m.sender = {BUS} /\ u.to = c /\ m.sender = {c} /\ ~ m.no_reply_expected
  BY <1>1, <1>2 DEF Keeps, BusAnswers, IsReplyTo, Idle, IsCall, ReplyTypes
<1>9. On(c, m)' \/ BusAnswers(c, m)' \/ m.no_reply_expected
  BY <1>1 DEF Keeps, On, BusAnswers, IsReplyTo, Idle, IsCall, Places
<1> HIDE DEF u
<1>10. PendingOK(m)'
  BY <1>2, <1>3, <1>4, <1>5, <1>7 DEF PendingOK, Pending
<1>11. BusAnswersOK(m)'
  BY <1>3, <1>4, <1>8 DEF BusAnswersOK, u
<1>12. ReplyOK(m)'
  BY <1>3, <1>4, <1>5, <1>6 DEF ReplyOK
<1>13. EndOK(m)'
  BY <1>3 DEF EndOK
<1>14. KeptOK(m)'
  BY <1>9 DEF KeptOK, Pending
<1> QED
  BY <1>10, <1>11, <1>12, <1>13, <1>14 DEF CallOnce

\* A step with the reply to the call.
LEMMA HandlesReply ==
    ASSUME RouteInv, NEW m, NEW c0 \in Conns, IsCall(m, c0), CallOnce(m),
           NEW c \in Conns, NEW y, Handles(c, y), Leaves(c, y, m), IsReplyTo(y, m)
    PROVE  CallOnce(m)'
<1> DEFINE u == task'[c]
<1>1. Keeps(y, u) /\ y.type \notin {"method_call"} /\ y # m /\ \A k \in Conns \ {c} : SameAt(k, m)
  BY OthersSame DEF Handles, IsReplyTo, ReplyTypes, IsCall
<1>2. InSocket(c, m) \/ InHandler(c, m)
  BY DEF Handles, InSocket, InHandler
<1>3. m.id \in replied /\ Ends("client", m) = {} /\ Ends("delivered", m) # {}
  BY <1>2 DEF CallOnce, ReplyOK
<1>4. ~ Pending(m) /\ \A k \in Conns : ~ BusAnswers(k, m)
  BY <1>3 DEF CallOnce, PendingOK, BusAnswersOK
<1>5. /\ Ends("delivered", m)' = Ends("delivered", m)
      /\ Ends("bus", m)' = Ends("bus", m)
      /\ Ends("client", m)' = Ends("client", m)
      /\ replied' = replied /\ unsent' = unsent
  <2>1. SameEnds(m)
    BY SameGotSameEnds DEF Handles
  <2> QED
    BY <2>1 DEF SameEnds, Handles
<1>6. ~ On(c, m)' /\ ~ BusAnswers(c, m)' /\ m \notin inbox'[c] /\ ~ InSocket(c, m)'
  <2>1. ~ On(c, m)' /\ ~ BusAnswers(c, m)'
    BY <1>1 DEF Keeps, On, BusAnswers, Idle
  <2> QED
    BY <1>4, <2>1 DEF Leaves, Pending
<1>7. \A k \in Conns \ {c} : /\ m \notin inbox'[k] /\ ~ On(k, m)' /\ ~ BusAnswers(k, m)'
                             /\ ~ InSocket(k, m)' /\ ~ InHandler(k, m)'
  BY <1>1, <1>2, <1>4 DEF SameAt, Pending, CallOnce, ReplyOK
<1>8. ~ Pending(m)'
  BY <1>4, <1>5, <1>6, <1>7 DEF Pending
<1> HIDE DEF u
<1>10. PendingOK(m)'
  BY <1>6, <1>7, <1>8 DEF PendingOK
<1>11. BusAnswersOK(m)'
  BY <1>6, <1>7 DEF BusAnswersOK
<1>12. ReplyOK(m)'
  BY <1>3, <1>5, <1>6, <1>7 DEF CallOnce, ReplyOK
<1>13. EndOK(m)'
  BY <1>5 DEF CallOnce, EndOK
<1>14. KeptOK(m)'
  BY <1>3, <1>5 DEF KeptOK
<1> QED
  BY <1>10, <1>11, <1>12, <1>13, <1>14 DEF CallOnce

\* A step with another message.
LEMMA HandlesOther ==
    ASSUME RouteInv, NEW m, NEW c0 \in Conns, IsCall(m, c0), CallOnce(m),
           NEW c \in Conns, NEW y, Handles(c, y), Leaves(c, y, m), y # m, ~ IsReplyTo(y, m)
    PROVE  CallOnce(m)'
<1>1. Keeps(y, task'[c]) /\ \A k \in Conns \ {c} : SameAt(k, m)
  BY OthersSame DEF Handles
<1>2. y.type = "method_call" => y.id # m.id
  BY CallIsAlone DEF Handles, CameFrom, ReplyTypes
<1>3. ~ On(c, m) /\ ~ BusAnswers(c, m) /\ ~ InHandler(c, m)
  BY DEF Handles, On, BusAnswers, InHandler
<1>4. ~ On(c, m)' /\ ~ BusAnswers(c, m)' /\ ~ InHandler(c, m)'
  BY <1>1, <1>2 DEF Keeps, On, BusAnswers, InHandler, IsReplyTo, Idle, IsCall, ReplyTypes
<1>5. SameAt(c, m)
  BY <1>3, <1>4 DEF SameAt, Leaves
<1>6. SameEnds(m)
  BY SameGotSameEnds DEF Handles
<1>7. (m \in unsent' <=> m \in unsent) /\ (m.id \in replied' <=> m.id \in replied) /\ gone \subseteq gone'
  BY DEF Handles
<1>8. \A k \in Conns : SameAt(k, m)
  BY <1>1, <1>5
<1> QED
  BY <1>6, <1>7, <1>8, CallUntouched

\* The three together.
LEMMA HandlesOnce ==
    ASSUME RouteInv, NEW m, NEW c0 \in Conns, IsCall(m, c0), CallOnce(m),
           NEW c \in Conns, NEW y, Handles(c, y), Leaves(c, y, m)
    PROVE  CallOnce(m)'
  BY HandlesCall, HandlesReply, HandlesOther

\* After a write the handler is done with its message, or goes on with a broadcast.
LEMMA DoneWith ==
    ASSUME RouteInv, NEW m, NEW c0 \in Conns, IsCall(m, c0), NEW c \in Conns,
           AfterWrite(c) \/ NextInLine(c),
           task[c].pc \in {"write", "answer", "broadcast", "broadcast_write"}
    PROVE  /\ ~ On(c, m)' /\ ~ BusAnswers(c, m)' /\ ~ InHandler(c, m)'
           /\ \A k \in Conns \ {c} : SameAt(k, m)
           /\ m \in inbox'[c] <=> m \in inbox[c]
           /\ InSocket(c, m)' <=> InSocket(c, m)
           /\ UNCHANGED <<unsent, inbox, replied, gone>>
<1>1. KindAt(c, task[c])
  BY AtWork
<1>2. OnlyMoves(c) /\ UNCHANGED <<unsent, inbox, replied, gone>>
  BY DEF AfterWrite, NextInLine
<1>3. task'[c] = Idle \/ (task'[c].pc \in {"broadcast", "broadcast_write"} /\ task'[c].m.type = "signal")
  BY <1>1 DEF AfterWrite, NextInLine, KindAt
<1>4. ~ On(c, m)' /\ ~ BusAnswers(c, m)' /\ ~ InHandler(c, m)'
  BY <1>3 DEF On, BusAnswers, InHandler, IsReplyTo, Idle, IsCall, ReplyTypes
<1>5. \A k \in Conns \ {c} : SameAt(k, m)
  BY <1>2, OthersSame
<1> QED
  BY <1>2, <1>4, <1>5 DEF InSocket

\* Another message than the call and its replies.
LEMMA DoneWithOther ==
    ASSUME RouteInv, NEW m, NEW c0 \in Conns, IsCall(m, c0), CallOnce(m), NEW c \in Conns,
           AfterWrite(c) \/ NextInLine(c),
           task[c].pc \in {"write", "answer", "broadcast", "broadcast_write"},
           task[c].m # m, ~ IsReplyTo(task[c].m, m), SameEnds(m)
    PROVE  CallOnce(m)'
<1>1. /\ ~ On(c, m)' /\ ~ BusAnswers(c, m)' /\ ~ InHandler(c, m)'
      /\ \A k \in Conns \ {c} : SameAt(k, m)
      /\ m \in inbox'[c] <=> m \in inbox[c]
      /\ InSocket(c, m)' <=> InSocket(c, m)
      /\ UNCHANGED <<unsent, inbox, replied, gone>>
  BY DoneWith
<1>2. ~ On(c, m) /\ ~ BusAnswers(c, m) /\ ~ InHandler(c, m)
  BY DEF On, BusAnswers, InHandler
<1>3. SameAt(c, m)
  BY <1>1, <1>2 DEF SameAt
<1>4. \A k \in Conns : SameAt(k, m)
  BY <1>1, <1>3
<1> QED
  BY <1>1, <1>4, CallUntouched

\* The call is written.
LEMMA WritesCall ==
    ASSUME RouteInv, NEW m, NEW c0 \in Conns, IsCall(m, c0), CallOnce(m), NEW c \in Conns,
           AfterWrite(c), On(c, m), task[c].pc = "write", NEW x,
           Ends("delivered", m)' = Ends("delivered", m) \cup {x},
           Ends("bus", m)' = Ends("bus", m), Ends("client", m)' = Ends("client", m)
    PROVE  CallOnce(m)'
<1>1. /\ ~ On(c, m)' /\ ~ BusAnswers(c, m)' /\ ~ InHandler(c, m)'
      /\ \A k \in Conns \ {c} : SameAt(k, m)
      /\ m \in inbox'[c] <=> m \in inbox[c]
      /\ InSocket(c, m)' <=> InSocket(c, m)
      /\ UNCHANGED <<unsent, inbox, replied, gone>>
  BY DoneWith
<1>2. Pending(m)
  BY DEF Pending
<1>3. Ends("delivered", m)' = {x} /\ Ends("bus", m)' = {} /\ Ends("client", m)' = {} /\ m.id \notin replied'
  BY <1>1, <1>2 DEF CallOnce, PendingOK, EndOK
<1>4. m \notin unsent /\ m \notin inbox[c]
  BY DEF CallOnce, PendingOK
<1>5. \A k \in Conns : /\ m \notin inbox'[k] /\ ~ On(k, m)' /\ ~ BusAnswers(k, m)'
                       /\ ~ InSocket(k, m)' /\ ~ InHandler(k, m)'
  <2>1. \A k \in Conns : ~ InSocket(k, m) /\ ~ InHandler(k, m) /\ ~ BusAnswers(k, m)
    BY <1>2 DEF CallOnce, PendingOK, ReplyOK
  <2>2. \A k \in Conns \ {c} : m \notin inbox[k] /\ ~ On(k, m)
    BY CallPlaces
  <2> QED
    BY <1>1, <1>4, <2>1, <2>2 DEF SameAt
<1>6. ~ Pending(m)'
  BY <1>1, <1>4, <1>5 DEF Pending
<1>7. PendingOK(m)' /\ BusAnswersOK(m)'
  BY <1>5, <1>6 DEF PendingOK, BusAnswersOK
<1>8. ReplyOK(m)'
  BY <1>3, <1>5 DEF ReplyOK
<1>9. EndOK(m)' /\ KeptOK(m)'
  BY <1>3 DEF EndOK, KeptOK
<1> QED
  BY <1>7, <1>8, <1>9 DEF CallOnce

\* The answer of the bus is written, or the caller is gone.
LEMMA BusHasAnswered ==
    ASSUME RouteInv, NEW m, NEW c0 \in Conns, IsCall(m, c0), CallOnce(m), NEW c \in Conns,
           AfterWrite(c), BusAnswers(c, m), NEW S,
           Ends("bus", m)' = Ends("bus", m) \cup S, \A x, y \in S : x = y,
           (\E x \in S : x[1] = task[c].to) \/ task[c].to \in gone,
           Ends("delivered", m)' = Ends("delivered", m), Ends("client", m)' = Ends("client", m)
    PROVE  CallOnce(m)'
<1>1. /\ ~ On(c, m)' /\ ~ BusAnswers(c, m)' /\ ~ InHandler(c, m)'
      /\ \A k \in Conns \ {c} : SameAt(k, m)
      /\ m \in inbox'[c] <=> m \in inbox[c]
      /\ InSocket(c, m)' <=> InSocket(c, m)
      /\ UNCHANGED <<unsent, inbox, replied, gone>>
  BY DoneWith DEF BusAnswers
<1>2. /\ Ends("delivered", m) = {} /\ Ends("bus", m) = {} /\ m.id \notin replied
      /\ ~ m.no_reply_expected /\ task[c].to = c /\ m.sender = {c}
  BY DEF CallOnce, BusAnswersOK
<1>3. From(m) = c /\ c = c0
  BY <1>2 DEF IsCall
<1>4. Ends("delivered", m)' = {} /\ Ends("bus", m)' = S /\ Ends("client", m)' = {} /\ m.id \notin replied'
  BY <1>1, <1>2 DEF CallOnce, EndOK
<1>5. \A k \in Conns : /\ m \notin inbox'[k] /\ ~ On(k, m)' /\ ~ BusAnswers(k, m)'
                       /\ ~ InSocket(k, m)' /\ ~ InHandler(k, m)'
  <2>1. \A k \in Conns : ~ InSocket(k, m) /\ ~ InHandler(k, m)
    BY <1>2 DEF CallOnce, ReplyOK
  <2>2. \A k \in Conns : m \notin inbox[k] /\ ~ On(k, m)
    BY DEF CallOnce, PendingOK, Pending
  <2>3. \A k \in Conns \ {c} : ~ BusAnswers(k, m)
    BY <1>2 DEF CallOnce, BusAnswersOK
  <2> QED
    BY <1>1, <2>1, <2>2, <2>3 DEF SameAt
<1>6. ~ Pending(m)'
  <2>1. m \notin unsent
    BY DEF CallOnce, PendingOK, Pending
  <2> QED
    BY <1>1, <1>5, <2>1 DEF Pending
<1>7. PendingOK(m)' /\ BusAnswersOK(m)'
  BY <1>5, <1>6 DEF PendingOK, BusAnswersOK
<1>8. ReplyOK(m)'
  BY <1>4, <1>5 DEF ReplyOK
<1>9. EndOK(m)'
  BY <1>2, <1>4 DEF EndOK
<1>10. KeptOK(m)'
  BY <1>1, <1>2, <1>3, <1>4 DEF KeptOK
<1> QED
  BY <1>7, <1>8, <1>9, <1>10 DEF CallOnce

\* The client's reply is written.
LEMMA ClientHasAnswered ==
    ASSUME RouteInv, NEW m, NEW c0 \in Conns, IsCall(m, c0), CallOnce(m), NEW c \in Conns,
           AfterWrite(c), InHandler(c, m), NEW x,
           Ends("client", m)' = Ends("client", m) \cup {x},
           Ends("delivered", m)' = Ends("delivered", m), Ends("bus", m)' = Ends("bus", m)
    PROVE  CallOnce(m)'
<1>1. /\ ~ On(c, m)' /\ ~ BusAnswers(c, m)' /\ ~ InHandler(c, m)'
      /\ \A k \in Conns \ {c} : SameAt(k, m)
      /\ m \in inbox'[c] <=> m \in inbox[c]
      /\ InSocket(c, m)' <=> InSocket(c, m)
      /\ UNCHANGED <<unsent, inbox, replied, gone>>
  BY DoneWith, CallPlaces
<1>2. m.id \in replied /\ Ends("client", m) = {} /\ Ends("delivered", m) # {} /\ ~ InSocket(c, m)
  BY DEF CallOnce, ReplyOK
<1>3. ~ Pending(m) /\ \A k \in Conns : ~ BusAnswers(k, m)
  BY <1>2 DEF CallOnce, PendingOK, BusAnswersOK
<1>4. \A k \in Conns : /\ m \notin inbox'[k] /\ ~ On(k, m)' /\ ~ BusAnswers(k, m)'
                       /\ ~ InSocket(k, m)' /\ ~ InHandler(k, m)'
  <2>1. \A k \in Conns \ {c} : ~ InSocket(k, m) /\ ~ InHandler(k, m)
    BY DEF CallOnce, ReplyOK
  <2> QED
    BY <1>1, <1>2, <1>3, <2>1 DEF SameAt, Pending
<1>5. ~ Pending(m)'
  BY <1>1, <1>3, <1>4 DEF Pending
<1>6. PendingOK(m)' /\ BusAnswersOK(m)'
  BY <1>4, <1>5 DEF PendingOK, BusAnswersOK
<1>7. ReplyOK(m)'
  BY <1>1, <1>4 DEF CallOnce, ReplyOK
<1>8. EndOK(m)'
  BY <1>1, <1>2 DEF CallOnce, EndOK
<1>9. KeptOK(m)'
  BY <1>2 DEF KeptOK
<1> QED
  BY <1>6, <1>7, <1>8, <1>9 DEF CallOnce

\* A write ends the way of the call or of its answer.
LEMMA WritesCallsOnce ==
    ASSUME RouteInv, NEW m, NEW c0 \in Conns, IsCall(m, c0), CallOnce(m), NEW c \in Conns, Writes(c)
    PROVE  CallOnce(m)'
<1>1. PICK e \in Entries : e.m = task[c].m /\ ~ e.copy /\ Put(task[c].to, e)
  BY DEF Writes
<1>2. AfterWrite(c) /\ task[c].pc \in {"write", "answer", "broadcast_write"}
  BY DEF Writes
<1>3. task[c].to \in Conns /\ RoutingTypes
  BY <1>2, AtWork DEF Tasks, TasksAt, RouteInv
<1> DEFINE x == <<task[c].to, Len(got[task[c].to]) + 1>>
<1>4. \A kind : Ends(kind, m)' = Ends(kind, m) \cup (IF Outcome(e, m) = kind THEN {x} ELSE {})
  BY <1>1, <1>3, PutEnds
<1>5. x[1] = task[c].to
  OBVIOUS
<1> HIDE DEF x
<1>6. CASE task[c].m = m
  <2>1. On(c, m) /\ task[c].pc = "write"
    BY <1>2, <1>6, CallPlaces DEF On
  <2>2. Outcome(e, m) = "delivered"
    BY <1>1, <1>6 DEF Outcome
  <2>3. /\ Ends("delivered", m)' = Ends("delivered", m) \cup {x}
        /\ Ends("bus", m)' = Ends("bus", m) /\ Ends("client", m)' = Ends("client", m)
    BY <1>4, <2>2
  <2> QED
    BY <1>2, <2>1, <2>3, WritesCall
<1>7. CASE task[c].pc = "answer" /\ IsReplyTo(task[c].m, m)
  <2>1. BusAnswers(c, m) /\ task[c].m # m
    BY <1>7 DEF BusAnswers, IsReplyTo, IsCall, ReplyTypes
  <2>2. Outcome(e, m) = "bus"
    BY <1>1, <1>7, <2>1 DEF Outcome, CallOnce, BusAnswersOK
  <2>3. /\ Ends("bus", m)' = Ends("bus", m) \cup {x}
        /\ Ends("delivered", m)' = Ends("delivered", m) /\ Ends("client", m)' = Ends("client", m)
    BY <1>4, <2>2
  <2>4. \A y, z \in {x} : y = z
    OBVIOUS
  <2>5. \E y \in {x} : y[1] = task[c].to
    BY <1>5
  <2> QED
    BY <1>2, <2>1, <2>3, <2>4, <2>5, BusHasAnswered
<1>8. CASE task[c].pc # "answer" /\ IsReplyTo(task[c].m, m)
  <2>1. InHandler(c, m) /\ task[c].m # m
    BY <1>2, <1>8 DEF InHandler, IsReplyTo, IsCall, ReplyTypes
  <2>2. task[c].m.sender # {BUS}
    BY <2>1, CallPlaces, RoutingAssumption
  <2>3. Outcome(e, m) = "client"
    BY <1>1, <1>8, <2>1, <2>2 DEF Outcome
  <2>4. /\ Ends("client", m)' = Ends("client", m) \cup {x}
        /\ Ends("delivered", m)' = Ends("delivered", m) /\ Ends("bus", m)' = Ends("bus", m)
    BY <1>4, <2>3
  <2> QED
    BY <1>2, <2>1, <2>4, ClientHasAnswered
<1>9. CASE task[c].m # m /\ ~ IsReplyTo(task[c].m, m)
  <2>1. Outcome(e, m) = "none"
    BY <1>1, <1>9 DEF Outcome
  <2>2. SameEnds(m)
    BY <1>4, <2>1 DEF SameEnds
  <2> QED
    BY <1>2, <1>9, <2>2, DoneWithOther
<1> QED
  BY <1>6, <1>7, <1>8, <1>9

\* An answer is lost only if its receiver is gone; a call is not lost.
LEMMA LosesCallsOnce ==
    ASSUME RouteInv, NEW m, NEW c0 \in Conns, IsCall(m, c0), CallOnce(m), NEW c \in Conns,
           Loses(c) \/ NextInLine(c)
    PROVE  CallOnce(m)'
<1>1. /\ AfterWrite(c) \/ NextInLine(c)
      /\ task[c].pc \in {"answer", "broadcast", "broadcast_write"} /\ UNCHANGED got
  BY DEF Loses, NextInLine
<1>2. SameEnds(m)
  BY <1>1, SameGotSameEnds
<1>3. KindAt(c, task[c])
  BY <1>1, AtWork
<1>4. task[c].m # m
  BY <1>1, <1>3 DEF KindAt, IsCall, ReplyTypes
<1>5. CASE IsReplyTo(task[c].m, m)
  <2>1. task[c].pc = "answer"
    BY <1>1, <1>3, <1>5 DEF KindAt, IsReplyTo, ReplyTypes
  <2>2. BusAnswers(c, m) /\ AfterWrite(c) /\ task[c].to \in gone
    BY <1>5, <2>1 DEF BusAnswers, Loses, NextInLine
  <2> DEFINE none == {}
  <2>3. /\ Ends("bus", m)' = Ends("bus", m) \cup none
        /\ Ends("delivered", m)' = Ends("delivered", m) /\ Ends("client", m)' = Ends("client", m)
    BY <1>2 DEF SameEnds
  <2>4. \A x, y \in none : x = y
    OBVIOUS
  <2> HIDE DEF none
  <2> QED
    BY <2>2, <2>3, <2>4, BusHasAnswered
<1>6. CASE ~ IsReplyTo(task[c].m, m)
  BY <1>1, <1>2, <1>4, <1>6, DoneWithOther
<1> QED
  BY <1>5, <1>6

\* A copy is no end of a call.
LEMMA CopyCallsOnce ==
    ASSUME RouteInv, NEW m, NEW c0 \in Conns, IsCall(m, c0), CallOnce(m),
           NEW x \in copies, CopyGoes(x[1], x[2])
    PROVE  CallOnce(m)'
<1>1. UNCHANGED <<unsent, inbox, replied, task, gone>>
  BY DEF CopyGoes
<1>2. SameEnds(m)
  <2>1. CASE UNCHANGED got
    BY <2>1, SameGotSameEnds
  <2>2. ASSUME NEW e \in Entries, e.copy, Put(x[1], e)
        PROVE  SameEnds(m)
    <3>1. x[1] \in Conns /\ RoutingTypes
      BY DEF RouteInv, RoutingTypes
    <3>2. Outcome(e, m) = "none"
      BY <2>2 DEF Outcome
    <3>3. \A kind : Ends(kind, m)' = Ends(kind, m)
                       \cup (IF Outcome(e, m) = kind THEN {<<x[1], Len(got[x[1]]) + 1>>} ELSE {})
      BY <2>2, <3>1, PutEnds
    <3> QED
      BY <3>2, <3>3 DEF SameEnds
  <2> QED
    BY <2>1, <2>2 DEF CopyGoes
<1>3. \A k \in Conns : SameAt(k, m)
  BY <1>1 DEF SameAt, On, BusAnswers, InSocket, InHandler
<1> QED
  BY <1>1, <1>2, <1>3, CallUntouched

\* Nothing moves.
LEMMA BackgroundCallsOnce ==
    ASSUME NEW m, CallOnce(m), Background
    PROVE  CallOnce(m)'
<1>1. UNCHANGED <<unsent, inbox, replied, got>> /\ gone \subseteq gone'
  BY DEF Background
<1>2. ASSUME NEW k \in Conns
      PROVE  SameAt(k, m)
  <2>1. \/ task'[k] = Idle /\ task[k] = Idle
        \/ /\ task[k].pc # "idle" /\ task'[k].m = task[k].m /\ task'[k].to = task[k].to
           /\ \/ task'[k].pc = task[k].pc
              \/ task[k].pc = "sleep" /\ task'[k].pc = "look"
    BY DEF Background
  <2> QED
    BY <1>1, <2>1 DEF SameAt, On, BusAnswers, InSocket, InHandler, Idle
<1> QED
  BY <1>1, <1>2, SameGotSameEnds, CallUntouched

\* A call is sent once.
LEMMA SendCallsOnce ==
    ASSUME RouteInv, NEW m, NEW c0 \in Conns, IsCall(m, c0), CallOnce(m), NEW c \in Conns,
           NEW x \in unsent, ClientSends(c, x)
    PROVE  CallOnce(m)'
<1>1. /\ inbox[c] = {} /\ inbox'[c] = {x} /\ \A k \in Conns \ {c} : inbox'[k] = inbox[k]
      /\ UNCHANGED <<gone, got, replied, task>>
      /\ x \in scenario.messages /\ unsent' = unsent \ {x} /\ x.sender = {c}
  BY DEF ClientSends, RouteInv, RoutingTypes
<1>2. SameEnds(m) /\ \A k \in Conns \ {c} : SameAt(k, m)
  BY <1>1, SameGotSameEnds, OthersSame DEF OnlyMoves
<1>3. /\ On(c, m)' <=> On(c, m)
      /\ BusAnswers(c, m)' <=> BusAnswers(c, m)
      /\ InHandler(c, m)' <=> InHandler(c, m)
      /\ ~ InSocket(c, m) /\ ~ InSocket(c, m)'
  BY <1>1, CallIsAlone DEF On, BusAnswers, InHandler, InSocket
<1>4. CASE x # m
  <2>1. SameAt(c, m)
    BY <1>1, <1>3, <1>4 DEF SameAt
  <2>2. \A k \in Conns : SameAt(k, m)
    BY <1>2, <2>1
  <2> QED
    BY <1>1, <1>2, <1>4, <2>2, CallUntouched
<1>5. CASE x = m
  <2>1. m \in unsent /\ m \notin unsent' /\ Pending(m) /\ Pending(m)'
    BY <1>1, <1>5 DEF Pending
  <2>2. \A k \in Conns : ~ On(k, m)'
    BY <1>2, <1>3, <2>1 DEF CallOnce, PendingOK, SameAt
  <2>3. \A k \in Conns : /\ ~ BusAnswers(k, m)'
                         /\ InSocket(k, m)' <=> InSocket(k, m)
                         /\ InHandler(k, m)' <=> InHandler(k, m)
    BY <1>2, <1>3, <2>1 DEF CallOnce, PendingOK, SameAt
  <2>4. PendingOK(m)' /\ BusAnswersOK(m)'
    BY <1>1, <1>2, <2>1, <2>2, <2>3 DEF CallOnce, PendingOK, BusAnswersOK, SameEnds
  <2>5. ReplyOK(m)'
    BY <1>1, <1>2, <2>3 DEF CallOnce, ReplyOK, SameEnds
  <2>6. EndOK(m)' /\ KeptOK(m)'
    BY <1>1, <1>2, <2>1 DEF CallOnce, EndOK, KeptOK, SameEnds
  <2> QED
    BY <2>4, <2>5, <2>6 DEF CallOnce
<1> QED
  BY <1>4, <1>5

\* A client answers once, and only a call that was delivered to it.
LEMMA AnswerCallsOnce ==
    ASSUME RouteInv, PlainOK, NEW m, NEW c0 \in Conns, IsCall(m, c0), CallOnce(m), NEW c \in Conns,
           ClientAnswers(c)
    PROVE  CallOnce(m)'
<1>1. PICK i \in DOMAIN got[c], r \in Messages :
         /\ got[c][i].m.type = "method_call" /\ ~ got[c][i].copy /\ ~ got[c][i].m.no_reply_expected
         /\ got[c][i].m.id \notin replied /\ replied' = replied \cup {got[c][i].m.id}
         /\ r.id = got[c][i].m.id /\ r.type = "method_return" /\ r.sender = {c}
         /\ inbox[c] = {} /\ inbox' = [inbox EXCEPT ![c] = {r}]
         /\ UNCHANGED <<scenario, unsent, gone, got, task>>
  BY DEF ClientAnswers
<1> DEFINE y == got[c][i].m
<1>2. inbox'[c] = {r} /\ \A k \in Conns \ {c} : inbox'[k] = inbox[k]
  BY <1>1 DEF RouteInv, RoutingTypes
<1>3. y \in scenario.messages
  BY <1>1 DEF PlainOK
<1>4. SameEnds(m) /\ \A k \in Conns \ {c} : SameAt(k, m)
  BY <1>1, <1>2, SameGotSameEnds, OthersSame DEF OnlyMoves
<1>5. /\ On(c, m)' <=> On(c, m)
      /\ BusAnswers(c, m)' <=> BusAnswers(c, m)
      /\ InHandler(c, m)' <=> InHandler(c, m)
      /\ ~ InSocket(c, m) /\ m \notin inbox[c] /\ m \notin inbox'[c]
  BY <1>1, <1>2 DEF On, BusAnswers, InHandler, InSocket, IsCall
<1>6. CASE y # m
  <2>1. y.id # m.id
    BY <1>3, <1>6, CallIsAlone
  <2>2. ~ InSocket(c, m)'
    BY <1>1, <1>2, <2>1 DEF InSocket, IsReplyTo
  <2>3. SameAt(c, m)
    BY <1>1, <1>5, <2>2 DEF SameAt
  <2>4. \A k \in Conns : SameAt(k, m)
    BY <1>4, <2>3
  <2>5. m.id \in replied' <=> m.id \in replied
    BY <1>1, <2>1
  <2> QED
    BY <1>1, <1>4, <2>4, <2>5, CallUntouched
<1>7. CASE y = m
  <2>1. Outcome(got[c][i], m) = "delivered"
    BY <1>1, <1>7 DEF Outcome
  <2>2. <<c, i>> \in Ends("delivered", m)
    BY <2>1, EndsMembers
  <2>3. m.id \notin replied /\ m.id \in replied' /\ ~ m.no_reply_expected
    BY <1>1, <1>7
  <2>4. ~ Pending(m) /\ Ends("client", m) = {}
        /\ \A k \in Conns : ~ BusAnswers(k, m) /\ ~ InSocket(k, m) /\ ~ InHandler(k, m)
    BY <2>2, <2>3 DEF CallOnce, PendingOK, BusAnswersOK, ReplyOK, EndOK
  <2>5. \A k \in Conns : /\ ~ BusAnswers(k, m)' /\ ~ InHandler(k, m)' /\ ~ On(k, m)' /\ m \notin inbox'[k]
                         /\ InSocket(k, m)' => k = c
    BY <1>4, <1>5, <2>4 DEF SameAt, Pending
  <2>6. ~ Pending(m)'
    BY <1>1, <2>4, <2>5 DEF Pending
  <2>7. /\ Ends("delivered", m)' = Ends("delivered", m)
        /\ Ends("bus", m)' = Ends("bus", m)
        /\ Ends("client", m)' = Ends("client", m)
    BY <1>4 DEF SameEnds
  <2>8. PendingOK(m)' /\ BusAnswersOK(m)'
    BY <2>5, <2>6 DEF PendingOK, BusAnswersOK
  <2>9. ReplyOK(m)'
    BY <2>2, <2>3, <2>4, <2>5, <2>7 DEF ReplyOK
  <2>10. EndOK(m)' /\ KeptOK(m)'
    BY <2>2, <2>3, <2>7 DEF CallOnce, EndOK, KeptOK
  <2> QED
    BY <2>8, <2>9, <2>10 DEF CallOnce
<1> QED
  BY <1>6, <1>7

\* Every socket is empty.
LEMMA PlainStarts == RoutingInit => PlainOK
  BY DEF RoutingInit, PlainOK

\* A client sends its next message when the last one was taken up.
LEMMA PlainSteps ==
    ASSUME RouteInv, MessageStep, PlainOK
    PROVE  PlainOK'
<1>1. ASSUME NEW c \in Conns
      PROVE  \A x, y \in inbox'[c] : x = y
  <2>1. inbox'[c] = inbox[c] \/ \E z : inbox'[c] \in {{}, {z}}
    <3>1. inbox \in [Conns -> SUBSET Messages]
      BY DEF RouteInv, RoutingTypes
    <3> QED
      BY <3>1, ZenonT(60) DEF MessageStep, TakesUp, GoesOn, Writes, Loses, AfterWrite, NextInLine, CopyGoes,
                  Background, ClientSends, ClientAnswers
  <2> QED
    BY <2>1 DEF PlainOK
<1>2. scenario' = scenario
  BY ZenonT(60) DEF MessageStep, TakesUp, GoesOn, Writes, Loses, AfterWrite, NextInLine, CopyGoes,
         Background, ClientSends, ClientAnswers
<1>3. \/ got' = got
      \/ \E d \in Conns : \E e \in Entries :
            Put(d, e) /\ (~ e.copy /\ e.m.type = "method_call" => e.m \in scenario.messages)
  <2>1. ASSUME NEW c \in Conns, Writes(c)
        PROVE  \E d \in Conns : \E e \in Entries :
                  Put(d, e) /\ (~ e.copy /\ e.m.type = "method_call" => e.m \in scenario.messages)
    <3>1. task[c] \in Tasks /\ KindAt(c, task[c])
      BY <2>1, AtWork DEF Writes
    <3>2. task[c].to \in Conns
      BY <3>1 DEF Tasks, TasksAt
    <3>3. task[c].m.type = "method_call" => task[c].m \in scenario.messages
      BY <3>1 DEF KindAt, CameFrom, ReplyTypes
    <3> QED
      BY <2>1, <3>2, <3>3 DEF Writes
  <2>2. ASSUME NEW x \in copies, CopyGoes(x[1], x[2])
        PROVE  got' = got \/ \E d \in Conns : \E e \in Entries : Put(d, e) /\ e.copy
    <3>1. x[1] \in Conns
      BY DEF RouteInv, RoutingTypes
    <3> QED
      BY <2>2, <3>1 DEF CopyGoes
  <2> QED
    BY <2>1, <2>2 DEF MessageStep, TakesUp, GoesOn, Loses, NextInLine, Background,
                      ClientSends, ClientAnswers
<1>4. ASSUME NEW c \in Conns, NEW i \in DOMAIN got'[c], ~ got'[c][i].copy, got'[c][i].m.type = "method_call"
      PROVE  got'[c][i].m \in scenario.messages
  <2>1. CASE got' = got
    BY <1>4, <2>1 DEF PlainOK
  <2>2. ASSUME NEW d \in Conns, NEW e \in Entries, Put(d, e),
               ~ e.copy /\ e.m.type = "method_call" => e.m \in scenario.messages
        PROVE  got'[c][i].m \in scenario.messages
    <3>1. got'[c][i] = e \/ (i \in DOMAIN got[c] /\ got'[c][i] = got[c][i])
      BY <1>4, <2>2, PutSeen DEF RouteInv
    <3> QED
      BY <1>4, <2>2, <3>1 DEF PlainOK
  <2> QED
    BY <1>3, <2>1, <2>2
<1> QED
  BY <1>1, <1>2, <1>4 DEF PlainOK

\* No call has been sent.
LEMMA CallsStart == RoutingInit => CallsOK
<1> SUFFICES ASSUME RoutingInit
             PROVE  CallsOK
  OBVIOUS
<1>1. ASSUME NEW m \in Calls
      PROVE  CallOnce(m)
  <2>1. m \in unsent
    BY DEF RoutingInit, Calls
  <2>2. \A c \in Conns : task[c] = Idle /\ inbox[c] = {} /\ got[c] = << >>
    BY DEF RoutingInit
  <2>3. \A c \in Conns : /\ m \notin inbox[c] /\ ~ On(c, m) /\ ~ BusAnswers(c, m)
                         /\ ~ InSocket(c, m) /\ ~ InHandler(c, m)
    BY <2>2 DEF On, BusAnswers, InSocket, InHandler, Idle
  <2>4. ASSUME NEW kind
        PROVE  Ends(kind, m) = {}
    <3>1. \A c \in Conns : DOMAIN got[c] = {}
      BY <2>2
    <3> QED
      BY <3>1, EndsMembers
  <2>5. m.id \notin replied
    BY DEF RoutingInit
  <2> QED
    BY <2>1, <2>3, <2>4, <2>5 DEF CallOnce, PendingOK, BusAnswersOK, ReplyOK, EndOK, KeptOK, Pending
<1> QED
  BY <1>1, PlainStarts DEF CallsOK

\* Every kind of step keeps every call.
LEMMA CallsStep ==
    ASSUME RouteInv, MessageStep, CallsOK
    PROVE  CallsOK'
<1>1. PlainOK /\ PlainOK'
  BY PlainSteps DEF CallsOK
<1>2. scenario' = scenario
  BY DEF MessageStep, TakesUp, GoesOn, Writes, Loses, AfterWrite, NextInLine, CopyGoes,
         Background, ClientSends, ClientAnswers
<1>3. ASSUME NEW m \in Calls
      PROVE  CallOnce(m)'
  <2>1. CallOnce(m)
    BY DEF CallsOK
  <2>2. PICK c0 \in Conns : IsCall(m, c0)
    BY CallHasCaller
  <2>3. ASSUME NEW c \in Conns, NEW x \in inbox[c], TakesUp(c, x)
        PROVE  CallOnce(m)'
    <3>1. Handles(c, x) /\ Leaves(c, x, m)
      BY <1>1, <2>3, TakesUpHandles
    <3> QED
      BY <2>1, <2>2, <3>1, HandlesOnce
  <2>4. ASSUME NEW c \in Conns, GoesOn(c)
        PROVE  CallOnce(m)'
    <3>1. Handles(c, task[c].m) /\ Leaves(c, task[c].m, m)
      BY <2>1, <2>4, GoesOnHandles
    <3> QED
      BY <2>1, <2>2, <3>1, HandlesOnce
  <2>5. ASSUME NEW c \in Conns, Writes(c) \/ Loses(c) \/ NextInLine(c)
        PROVE  CallOnce(m)'
    BY <2>1, <2>2, <2>5, WritesCallsOnce, LosesCallsOnce
  <2>6. ASSUME NEW c \in Conns, ClientAnswers(c) \/ \E x \in unsent : ClientSends(c, x)
        PROVE  CallOnce(m)'
    BY <1>1, <2>1, <2>2, <2>6, SendCallsOnce, AnswerCallsOnce
  <2>7. CASE Background \/ \E x \in copies : CopyGoes(x[1], x[2])
    BY <2>1, <2>2, <2>7, CopyCallsOnce, BackgroundCallsOnce
  <2> QED
    BY <2>3, <2>4, <2>5, <2>6, <2>7 DEF MessageStep
<1>4. Calls' = Calls
  BY <1>2 DEF Calls
<1> QED
  BY <1>1, <1>3, <1>4 DEF CallsOK

\* A set whose members are all the same is small.
LEMMA AtMostOne ==
    ASSUME NEW S, \A x, y \in S : x = y
    PROVE  Cardinality(S) \in Nat /\ Cardinality(S) <= 1 /\ (S = {} => Cardinality(S) = 0)
<1>1. CASE S = {}
  <2>1. Cardinality(S) = 0
    BY <1>1, FS_EmptySet
  <2> QED
    BY <2>1
<1>2. CASE S # {}
  <2>1. PICK x : S = {x}
    BY <1>2
  <2>2. Cardinality(S) = 1
    BY <2>1, FS_Singleton
  <2> QED
    BY <1>2, <2>2
<1> QED
  BY <1>1, <1>2

\* What the invariant says of a call is what AnsweredOnce says.
LEMMA CallsAnsweredOnce ==
    ASSUME RouteInv, CallsOK
    PROVE  AnsweredOnce
<1> SUFFICES ASSUME NEW m \in Calls
             PROVE  /\ Cardinality(Answers(m)) <= IF m.no_reply_expected THEN 0 ELSE 1
                    /\ Cardinality(Deliveries(m)) <= 1
                    /\ Deliveries(m) # {} =>
                          \A i \in Answers(m) : got[From(m)][i].m.sender # {BUS}
                    /\ \/ m \in unsent \/ m \in inbox[From(m)]
                       \/ ~ At(From(m), "idle") /\ task[From(m)].m.id = m.id
                       \/ Deliveries(m) # {} \/ Answers(m) # {}
                       \/ m.no_reply_expected \/ From(m) \in gone
  BY DEF AnsweredOnce
<1>1. PICK c0 \in Conns : IsCall(m, c0)
  BY CallHasCaller
<1>2. CallOnce(m) /\ From(m) = c0
  BY <1>1 DEF CallsOK, IsCall
<1>3. Deliveries(m) = Ends("delivered", m)
  <2>1. \A c \in Conns : \A i \in DOMAIN got[c] :
           (~ got[c][i].copy /\ got[c][i].m = m) <=> Outcome(got[c][i], m) = "delivered"
    BY DEF Outcome
  <2>2. \A c \in Conns : {i \in DOMAIN got[c] : ~ got[c][i].copy /\ got[c][i].m = m}
                         = {i \in DOMAIN got[c] : Outcome(got[c][i], m) = "delivered"}
    BY <2>1
  <2> QED
    BY <2>2 DEF Deliveries, Ends
<1>4. \A i : i \in Answers(m) <=>
          \/ <<c0, i>> \in Ends("bus", m)
          \/ <<c0, i>> \in Ends("client", m)
  <2>1. \A i \in DOMAIN got[c0] :
           i \in Answers(m) <=> Outcome(got[c0][i], m) \in {"bus", "client"}
    BY <1>1, <1>2 DEF Answers, Outcome, IsReplyTo, ReplyTypes, IsCall
  <2>2. \A i : i \in Answers(m) => i \in DOMAIN got[c0]
    BY <1>2 DEF Answers
  <2>3. \A kind, i : <<c0, i>> \in Ends(kind, m) <=>
                       i \in DOMAIN got[c0] /\ Outcome(got[c0][i], m) = kind
    BY EndsMembers
  <2> QED
    BY <2>1, <2>2, <2>3
<1>5. Ends("bus", m) # {} => Ends("client", m) = {}
  BY <1>2 DEF CallOnce, EndOK, ReplyOK
<1>6. \A i, j \in Answers(m) : i = j
  <2>1. ASSUME NEW i \in Answers(m), NEW j \in Answers(m)
        PROVE  <<c0, i>> = <<c0, j>>
    BY <1>2, <1>4, <1>5 DEF CallOnce, EndOK
  <2> QED
    BY <2>1
<1>7. m.no_reply_expected => Answers(m) = {}
  BY <1>2, <1>4 DEF CallOnce, EndOK, ReplyOK
<1>8. Cardinality(Answers(m)) <= IF m.no_reply_expected THEN 0 ELSE 1
  BY <1>6, <1>7, AtMostOne
<1>9. Cardinality(Deliveries(m)) <= 1
  <2>1. \A x, y \in Deliveries(m) : x = y
    BY <1>2, <1>3 DEF CallOnce, EndOK
  <2> QED
    BY <2>1, AtMostOne
<1>10. ASSUME Deliveries(m) # {}, NEW i \in Answers(m)
       PROVE  got[From(m)][i].m.sender # {BUS}
  <2>1. <<c0, i>> \in Ends("client", m)
    BY <1>2, <1>3, <1>4, <1>10 DEF CallOnce, EndOK
  <2>2. Outcome(got[c0][i], m) = "client"
    BY <2>1, EndsMembers
  <2> QED
    BY <1>2, <2>2 DEF Outcome
<1>11. \/ m \in unsent \/ m \in inbox[From(m)]
       \/ ~ At(From(m), "idle") /\ task[From(m)].m.id = m.id
       \/ Deliveries(m) # {} \/ Answers(m) # {}
       \/ m.no_reply_expected \/ From(m) \in gone
  <2>1. CASE Pending(m)
    BY <1>1, <1>2, <2>1, CallPlaces DEF Pending, On, At
  <2>2. ASSUME NEW c \in Conns, BusAnswers(c, m)
        PROVE  ~ At(From(m), "idle") /\ task[From(m)].m.id = m.id
    BY <1>1, <1>2, <2>2 DEF CallOnce, BusAnswersOK, BusAnswers, IsReplyTo, IsCall, At
  <2>3. ASSUME NEW x \in Ends("bus", m), x[1] = From(m)
        PROVE  Answers(m) # {}
    <3>1. PICK c \in Conns : \E i \in DOMAIN got[c] : x = <<c, i>>
      BY <2>3, EndsMembers
    <3>2. PICK i \in DOMAIN got[c] : x = <<c, i>>
      BY <3>1
    <3>3. c = c0
      BY <1>2, <2>3, <3>2
    <3> QED
      BY <1>4, <2>3, <3>2, <3>3
  <2> QED
    BY <1>2, <1>3, <2>1, <2>2, <2>3 DEF CallOnce, KeptOK
<1> QED
  BY <1>8, <1>9, <1>10, <1>11

\* A call is delivered to one connection at most and answered once at most, by the
\* bus only if it was not delivered, and not at all if it expects no reply; the
\* handler forgets none (dispatch.rs, connection_handler.rs).
THEOREM CallsEndOnce == RoutingSpec => []AnsweredOnce
<1>1. RoutingInit => CallsOK
  BY CallsStart
<1>2. RouteInv /\ ReadOK /\ CallsOK /\ [RoutingNext]_routingVars => CallsOK'
  BY CallsStep, StepsAreMessageSteps
<1>3. RouteInv /\ CallsOK => AnsweredOnce
  BY CallsAnsweredOnce
<1>4. RoutingSpec => []CallsOK
  BY <1>1, <1>2, RoutingInvariance, PTL DEF RoutingSpec
<1> QED
  BY <1>3, <1>4, RoutingInvariance, PTL

-----------------------------------------------------------------------------
(* What RemoveMatch leaves.  The recursion of WithoutRule is a table; that it    *)
(* exists and grows no longer than the rules rests on the least-number principle. *)

\* The table for the first n rules.
IsKept(f, rules, text, n) ==
    f = [i \in 0 .. n |->
            IF i = 0 THEN << >>
            ELSE IF {rules[i].raw} # text THEN Append(f[i - 1], rules[i])
            ELSE f[i - 1]]

\* There is a table of WithoutRule's recursion for every number of rules.
LEMMA KeptExists ==
    ASSUME NEW rules, NEW text, NEW n \in Nat
    PROVE  \E f : IsKept(f, rules, text, n)
<1> DEFINE Bad == {k \in Nat : ~ \E f : IsKept(f, rules, text, k)}
<1>1. SUFFICES ASSUME Bad # {}
               PROVE  FALSE
  OBVIOUS
<1>2. PICK k \in Bad : \A j \in Bad : k <= j
  <2>1. Bad \subseteq Nat
    OBVIOUS
  <2> HIDE DEF Bad
  <2> QED
    BY <1>1, <2>1, LeastNat
<1>3. k # 0
  <2>1. IsKept([i \in 0 .. 0 |-> << >>], rules, text, 0)
    BY DEF IsKept
  <2> QED
    BY <2>1
<1>4. PICK g : IsKept(g, rules, text, k - 1)
  BY <1>2, <1>3
<1> DEFINE f == [i \in 0 .. k |->
                    IF i = k THEN IF {rules[k].raw} # text THEN Append(g[k - 1], rules[k])
                                  ELSE g[k - 1]
                    ELSE g[i]]
<1>5. IsKept(f, rules, text, k)
  <2>1. \A i \in 0 .. k - 1 :
           g[i] = IF i = 0 THEN << >>
                  ELSE IF {rules[i].raw} # text THEN Append(g[i - 1], rules[i])
                  ELSE g[i - 1]
    BY <1>2, <1>3, <1>4 DEF IsKept
  <2>2. \A i \in 0 .. k :
           f[i] = IF i = 0 THEN << >>
                  ELSE IF {rules[i].raw} # text THEN Append(f[i - 1], rules[i])
                  ELSE f[i - 1]
    BY <1>2, <1>3, <2>1
  <2> QED
    BY <2>2 DEF IsKept
<1> QED
  BY <1>2, <1>5

\* RemoveMatch leaves no more rules than there were.
LEMMA KeptIsShorter ==
    ASSUME NEW R, NEW rules \in Seq(R), NEW text
    PROVE  /\ WithoutRule(rules, text) \in Seq(R)
           /\ Len(WithoutRule(rules, text)) <= Len(rules)
<1> DEFINE n == Len(rules)
           kept == CHOOSE f : IsKept(f, rules, text, n)
<1>1. n \in Nat
  OBVIOUS
<1>2. IsKept(kept, rules, text, n)
  BY <1>1, KeptExists
<1>3. WithoutRule(rules, text) = kept[n]
  <2>1. WithoutRule(rules, text) =
          (CHOOSE f : f = [i \in 0 .. Len(rules) |->
                              IF i = 0 THEN << >>
                              ELSE IF {rules[i].raw} # text THEN Append(f[i - 1], rules[i])
                              ELSE f[i - 1]])[Len(rules)]
    BY Zenon DEF WithoutRule
  <2> QED
    BY <2>1, Zenon DEF IsKept
<1>4. \A i \in 0 .. n :
         kept[i] = IF i = 0 THEN << >>
                   ELSE IF {rules[i].raw} # text THEN Append(kept[i - 1], rules[i])
                   ELSE kept[i - 1]
  BY <1>2, Zenon DEF IsKept
<1>5. \A i \in 1 .. n : rules[i] \in R
  OBVIOUS
<1> HIDE DEF kept, n
<1> DEFINE Bad == {i \in 0 .. n : ~ (kept[i] \in Seq(R) /\ Len(kept[i]) <= i)}
<1>6. Bad = {}
  <2> SUFFICES ASSUME Bad # {}
               PROVE  FALSE
    OBVIOUS
  <2>1. PICK i \in Bad : \A j \in Bad : i <= j
    <3>1. Bad \subseteq Nat
      BY <1>1
    <3> HIDE DEF Bad
    <3> QED
      BY <3>1, LeastNat
  <2>2. i \in 0 .. n /\ i \in Nat
    BY <1>1, <2>1
  <2>3. i # 0
    <3>1. kept[0] = << >>
      BY <1>1, <1>4
    <3>2. << >> \in Seq(R) /\ Len(<< >>) = 0
      OBVIOUS
    <3> QED
      BY <2>1, <3>1, <3>2
  <2>4. i - 1 \in 0 .. n /\ i \in 1 .. n
    BY <1>1, <2>2, <2>3
  <2>5. kept[i - 1] \in Seq(R) /\ Len(kept[i - 1]) <= i - 1
    BY <2>1, <2>2, <2>4
  <2>6. rules[i] \in R
    BY <1>5, <2>4
  <2>7. kept[i] = Append(kept[i - 1], rules[i]) \/ kept[i] = kept[i - 1]
    BY <1>4, <2>2, <2>3
  <2>8. ASSUME NEW s \in Seq(R), NEW r \in R, NEW k \in Nat, Len(s) <= k - 1
        PROVE  /\ s \in Seq(R) /\ Len(s) <= k
               /\ Append(s, r) \in Seq(R) /\ Len(Append(s, r)) <= k
    BY <2>8
  <2>9. kept[i] \in Seq(R) /\ Len(kept[i]) <= i
    BY <2>2, <2>5, <2>6, <2>7, <2>8
  <2> QED
    BY <2>1, <2>9
<1>7. n \in 0 .. n
  BY <1>1
<1> QED
  BY <1>3, <1>6, <1>7 DEF n

-----------------------------------------------------------------------------
(* Owners and rules *)

Rules == UNION {UNION {parse_match_rule(raw) : raw \in m.body[1]} : m \in Requests}

\* A name has one owner at most, a registered connection.
OwnersOK ==
    \A n \in Names : owner[n] \subseteq connections /\ \A c, d \in owner[n] : c = d

\* Who is no monitor has no more rules than it may have.
RulesOK ==
    /\ match_rules = [c \in Conns |-> match_rules[c]]
    /\ \A c \in Conns \ is_monitor :
          match_rules[c] \in Seq(Rules) /\ Len(match_rules[c]) <= MaxRules

LimitsOK == OwnersOK /\ RulesOK /\ gone \subseteq scenario.closers

\* The sequence of one rule.
LEMMA OneRule ==
    ASSUME NEW R, NEW r \in R
    PROVE  SetToSeq({r}) \in Seq(R) /\ Len(SetToSeq({r})) = 1
<1>1. Cardinality({r}) = 1
  BY FS_Singleton
<1>2. SetToSeq({r}) = CHOOSE f \in [1 .. 1 -> {r}] : IsInjective(f)
  BY <1>1 DEF SetToSeq
<1>3. \E f \in [1 .. 1 -> {r}] : IsInjective(f)
  <2>1. [i \in 1 .. 1 |-> r] \in [1 .. 1 -> {r}]
    OBVIOUS
  <2>2. IsInjective([i \in 1 .. 1 |-> r])
    BY DEF IsInjective
  <2> QED
    BY <2>1, <2>2
<1>4. SetToSeq({r}) \in [1 .. 1 -> {r}]
  BY <1>2, <1>3
<1>5. ASSUME NEW f \in [1 .. 1 -> {r}]
      PROVE  f = <<r>>
  BY <1>5
<1>6. <<r>> \in Seq(R) /\ Len(<<r>>) = 1
  OBVIOUS
<1> QED
  BY <1>4, <1>5, <1>6

\* AddMatch with room for one more rule.
LEMMA AddMatchRules ==
    ASSUME RouteInv, RulesOK, NEW c \in Conns, At(c, "driver"), task[c].m.member = {"AddMatch"},
           handle_add_match(c), UNCHANGED is_monitor
    PROVE  RulesOK'
<1> DEFINE m == task[c].m
           parsed == UNION {parse_match_rule(raw) : raw \in m.body[1]}
<1>1. CASE UNCHANGED match_rules
  BY <1>1 DEF RulesOK
<1>2. CASE /\ ~ (Len(match_rules[c]) >= MaxRules) /\ parsed # {}
           /\ match_rules' = [match_rules EXCEPT ![c] = @ \o SetToSeq(parsed)]
  <2>1. m \in scenario.messages /\ scenario \in Scenarios /\ m.destination = {BUS}
    BY AtWork DEF At, KindAt, CameFrom, ReplyTypes, RouteInv, RoutingTypes
  <2>2. PICK x : m.body[1] = {x}
    BY <2>1, RoutingAssumption
  <2>3. parsed = parse_match_rule(x)
    BY <2>2
  <2>4. PICK r : parsed = {r}
    BY <1>2, <2>3 DEF parse_match_rule
  <2>5. r \in Rules
    BY <2>1, <2>4 DEF Rules, Requests
  <2> HIDE DEF parsed, m
  <2>6. SetToSeq(parsed) \in Seq(Rules) /\ Len(SetToSeq(parsed)) = 1
    BY <2>4, <2>5, OneRule
  <2>7. ASSUME c \notin is_monitor
        PROVE  match_rules'[c] \in Seq(Rules) /\ Len(match_rules'[c]) <= MaxRules
    <3>1. match_rules[c] \in Seq(Rules) /\ Len(match_rules[c]) \in Nat
      BY <2>7 DEF RulesOK
    <3>2. match_rules'[c] = match_rules[c] \o SetToSeq(parsed)
      BY <1>2 DEF RulesOK
    <3>3. MaxRules \in Nat
      BY RoutingAssumption
    <3>4. ASSUME NEW s \in Seq(Rules), NEW o \in Seq(Rules)
          PROVE  s \o o \in Seq(Rules) /\ Len(s \o o) = Len(s) + Len(o)
      OBVIOUS
    <3>5. match_rules'[c] \in Seq(Rules) /\ Len(match_rules'[c]) = Len(match_rules[c]) + 1
      BY <2>6, <3>1, <3>2, <3>4
    <3> QED
      BY <1>2, <3>1, <3>3, <3>5
  <2>8. /\ match_rules' = [d \in Conns |-> match_rules'[d]]
        /\ \A d \in Conns \ {c} : match_rules'[d] = match_rules[d]
    BY <1>2 DEF RulesOK
  <2> QED
    BY <2>7, <2>8 DEF RulesOK
<1> QED
  BY <1>1, <1>2 DEF handle_add_match

\* AddMatch stops at the limit, RemoveMatch only shortens the list.
LEMMA DriverRules ==
    ASSUME RouteInv, RulesOK, NEW c \in Conns, handle_driver_call(c)
    PROVE  RulesOK'
<1>1. CASE task[c].m.member = {"AddMatch"} /\ handle_add_match(c) /\ UNCHANGED is_monitor
  BY <1>1, AddMatchRules DEF handle_driver_call
<1>2. CASE handle_remove_match(c) /\ UNCHANGED is_monitor
  <2> DEFINE kept == WithoutRule(match_rules[c], task[c].m.body[1])
  <2>1. match_rules' = [match_rules EXCEPT ![c] = kept]
    BY <1>2 DEF handle_remove_match
  <2>2. c \notin is_monitor =>
           kept \in Seq(Rules) /\ Len(kept) <= Len(match_rules[c]) /\ match_rules[c] \in Seq(Rules)
    BY KeptIsShorter DEF RulesOK
  <2> HIDE DEF kept
  <2>3. /\ match_rules' = [d \in Conns |-> match_rules'[d]]
        /\ match_rules'[c] = kept
        /\ \A d \in Conns \ {c} : match_rules'[d] = match_rules[d]
    BY <2>1 DEF RulesOK
  <2>4. MaxRules \in Nat
    BY RoutingAssumption
  <2>5. c \notin is_monitor => match_rules'[c] \in Seq(Rules) /\ Len(match_rules'[c]) <= MaxRules
    BY <2>2, <2>3, <2>4 DEF RulesOK
  <2> QED
    BY <1>2, <2>3, <2>5 DEF RulesOK
<1>3. CASE BecomeMonitor(c)
  <2>1. /\ match_rules' = [d \in Conns |-> match_rules'[d]]
        /\ \A d \in Conns \ {c} : match_rules'[d] = match_rules[d]
        /\ is_monitor' = is_monitor \cup {c}
    BY <1>3 DEF BecomeMonitor, RulesOK
  <2> QED
    BY <2>1 DEF RulesOK
<1>4. CASE UNCHANGED <<subscriptions>>
  BY <1>4 DEF RulesOK, subscriptions
<1> QED
  BY <1>1, <1>2, <1>3, <1>4 DEF handle_driver_call

\* No name is owned and there is no rule.
LEMMA LimitsStart == RoutingInit => LimitsOK
<1> SUFFICES ASSUME RoutingInit
             PROVE  LimitsOK
  OBVIOUS
<1>1. OwnersOK
  BY DEF RoutingInit, OwnersOK
<1>2. MaxRules \in Nat /\ << >> \in Seq(Rules) /\ Len(<< >>) = 0
  BY RoutingAssumption
<1>3. RulesOK
  BY <1>2 DEF RoutingInit, RulesOK
<1> QED
  BY <1>1, <1>3 DEF RoutingInit, LimitsOK

\* Action by action.
LEMMA LimitsStep ==
    ASSUME RouteInv, LimitsOK, [RoutingNext]_routingVars
    PROVE  LimitsOK'
<1> USE DEF LimitsOK
<1>1. CASE UNCHANGED <<scenario, connections, owner, match_rules, is_monitor>>
           /\ gone' \subseteq scenario.closers
  BY <1>1 DEF OwnersOK, RulesOK
<1>2. CASE UNCHANGED routingVars
  BY <1>1, <1>2, SMTT(30) DEF routingVars, registry, subscriptions, clients
<1>3. ASSUME NEW c \in Conns,
             \/ dispatch_incoming(c) \/ deliver_to_owner(c) \/ WriteToOwner(c) \/ reply_error(c)
             \/ broadcast_signal(c) \/ BroadcastWrite(c) \/ PollForOwner(c) \/ AfterActivation(c)
             \/ ClientReplies(c) \/ ClientReads(c) \/ ClientCloses(c)
      PROVE  LimitsOK'
  BY <1>1, <1>3, Zenon DEF dispatch_incoming, deliver_to_owner, WriteToOwner, reply_error,
       broadcast_signal, BroadcastWrite, PollForOwner, AfterActivation, ClientReplies,
       ClientReads, ClientCloses, OnlyTask, registry, subscriptions, clients
<1>4. ASSUME NEW c \in Conns, handle_driver_call(c)
      PROVE  LimitsOK'
  <2>1. RulesOK'
    BY <1>4, DriverRules
  <2> QED
    BY <1>4, <2>1 DEF handle_driver_call, registry, clients, OwnersOK
<1>5. ASSUME NEW c \in Conns, HandlerEnds(c)
      PROVE  LimitsOK'
  BY <1>5 DEF HandlerEnds, OwnersOK, RulesOK, subscriptions, clients
<1>6. ASSUME NEW c \in Conns, NEW n \in Names, handle_request_name(c, n) \/ handle_release_name(c, n)
      PROVE  LimitsOK'
  <2>1. owner \in [Names -> SUBSET Conns]
    BY DEF RouteInv, RoutingTypes
  <2>2. UNCHANGED <<scenario, connections, match_rules, is_monitor, gone>>
    BY <1>6 DEF handle_request_name, handle_release_name, subscriptions, clients
  <2>3. /\ \A k \in Names \ {n} : owner'[k] = owner[k]
        /\ owner'[n] = {} \/ (owner'[n] = {c} /\ c \in connections)
    BY <1>6, <2>1 DEF handle_request_name, handle_release_name, NewOwner
  <2> QED
    BY <2>2, <2>3 DEF OwnersOK, RulesOK
<1>7. ASSUME NEW m \in unsent, ClientCalls(m)
      PROVE  LimitsOK'
  BY <1>1, <1>7 DEF ClientCalls, registry, subscriptions
<1>8. ASSUME NEW x \in copies, deliver_to_monitors(x[1], x[2])
      PROVE  LimitsOK'
  BY <1>1, <1>8 DEF deliver_to_monitors, registry, subscriptions, clients
<1>9. CASE Tick \/ reload_policy
  BY <1>1, <1>9 DEF Tick, reload_policy, registry, subscriptions, clients
<1> QED
  BY <1>2, <1>3, <1>4, <1>5, <1>6, <1>7, <1>8, <1>9 DEF RoutingNext, Handler, MonitorTask

\* A name has one owner at most, a registered connection; nobody has read more than
\* was written to it, and no socket or rule list holds more than it may
\* (driver.rs, registry.rs, connection_handler.rs).
THEOREM RoutingKeepsTypes == RoutingSpec => []RoutingTypeOK
<1>1. RoutingInit => LimitsOK
  BY LimitsStart
<1>2. RouteInv /\ LimitsOK /\ [RoutingNext]_routingVars => LimitsOK'
  BY LimitsStep
<1>3. RouteInv /\ ReadOK /\ LimitsOK => RoutingTypeOK
  <2> SUFFICES ASSUME RouteInv, ReadOK, LimitsOK
               PROVE  RoutingTypeOK
    OBVIOUS
  <2>1. ASSUME NEW n \in Names
        PROVE  Cardinality(owner[n]) <= 1 /\ owner[n] \subseteq connections
    <3>1. \A c, d \in owner[n] : c = d
      BY DEF LimitsOK, OwnersOK
    <3> QED
      BY <3>1, AtMostOne DEF LimitsOK, OwnersOK
  <2>2. ASSUME NEW c \in Conns, task[c] # Idle
        PROVE  task[c].left \in 0 .. Timeout
    BY <2>2 DEF RouteInv, RoutingTypes, Tasks, TasksAt
  <2> QED
    BY <2>1, <2>2 DEF RoutingTypeOK, LimitsOK, RulesOK, ReadOK, RouteInv, RoutingTypes
<1>4. RoutingSpec => []LimitsOK
  BY <1>1, <1>2, RoutingInvariance, PTL DEF RoutingSpec
<1> QED
  BY <1>3, <1>4, RoutingInvariance, PTL

-----------------------------------------------------------------------------
(* The policy in force is what its files say *)

\* The policy in force was loaded from the directories of its epoch, or there is none
\* because they could not be read at the start.
LoadedOK ==
    LET e == epochs[Len(epochs)]
    IN  e.dirs \in AllDirs /\ e.rules \in (IF load_dirs(e.dirs) = {} THEN {<< >>}
                                           ELSE load_dirs(e.dirs))

\* Only a reload changes the policy.
LEMMA OnlyReloadsLoad ==
    ASSUME [RoutingNext]_routingVars
    PROVE  UNCHANGED epochs \/ reload_policy
<1>1. CASE UNCHANGED routingVars
  BY <1>1 DEF routingVars
<1>2. ASSUME NEW c \in Conns,
             \/ dispatch_incoming(c) \/ deliver_to_owner(c) \/ WriteToOwner(c) \/ reply_error(c)
             \/ broadcast_signal(c) \/ BroadcastWrite(c) \/ PollForOwner(c) \/ AfterActivation(c)
             \/ handle_driver_call(c) \/ HandlerEnds(c)
             \/ ClientReplies(c) \/ ClientReads(c) \/ ClientCloses(c)
      PROVE  UNCHANGED epochs
  BY <1>2, Zenon DEF dispatch_incoming, deliver_to_owner, WriteToOwner, reply_error,
       broadcast_signal, BroadcastWrite, PollForOwner, AfterActivation, handle_driver_call,
       HandlerEnds, ClientReplies, ClientReads, ClientCloses, OnlyTask
<1>3. ASSUME NEW c \in Conns, NEW n \in Names, handle_request_name(c, n) \/ handle_release_name(c, n)
      PROVE  UNCHANGED epochs
  BY <1>3 DEF handle_request_name, handle_release_name
<1>4. ASSUME NEW m \in unsent, ClientCalls(m)
      PROVE  UNCHANGED epochs
  BY <1>4 DEF ClientCalls
<1>5. ASSUME NEW x \in copies, deliver_to_monitors(x[1], x[2])
      PROVE  UNCHANGED epochs
  BY <1>5 DEF deliver_to_monitors
<1>6. CASE Tick
  BY <1>6 DEF Tick
<1> QED
  BY <1>1, <1>2, <1>3, <1>4, <1>5, <1>6 DEF RoutingNext, Handler, MonitorTask

\* The first policy.
LEMMA LoadedStart == RoutingInit => LoadedOK
<1> SUFFICES ASSUME RoutingInit
             PROVE  LoadedOK
  OBVIOUS
<1>1. PICK dirs \in scenario.dirs :
         \E rules \in (IF load_dirs(dirs) = {} THEN {<< >>} ELSE load_dirs(dirs)) :
            epochs = <<[dirs |-> dirs, rules |-> rules]>>
  BY DEF RoutingInit
<1>2. PICK rules \in (IF load_dirs(dirs) = {} THEN {<< >>} ELSE load_dirs(dirs)) :
         epochs = <<[dirs |-> dirs, rules |-> rules]>>
  BY <1>1
<1>3. dirs \in AllDirs
  BY DEF AllDirs, RoutingInit
<1>4. epochs[Len(epochs)] = [dirs |-> dirs, rules |-> rules]
  BY <1>2
<1> QED
  BY <1>2, <1>3, <1>4 DEF LoadedOK

\* A reload puts a policy in force that it has loaded.
LEMMA LoadedStep ==
    ASSUME RouteInv, LoadedOK, [RoutingNext]_routingVars
    PROVE  LoadedOK'
<1>1. CASE UNCHANGED epochs
  BY <1>1 DEF LoadedOK
<1>2. CASE reload_policy
  <2>0. PICK dirs \in scenario.dirs :
           \E r \in load_dirs(dirs) : epochs' = Append(epochs, [dirs |-> dirs, rules |-> r])
    BY <1>2 DEF reload_policy
  <2>1. PICK rules \in load_dirs(dirs) :
           epochs' = Append(epochs, [dirs |-> dirs, rules |-> rules])
    BY <2>0
  <2>2. scenario \in Scenarios /\ epochs \in Seq(Epochs)
    BY DEF RouteInv, RoutingTypes
  <2>3. dirs \in AllDirs
    BY <2>2 DEF AllDirs
  <2>4. epochs'[Len(epochs')] = [dirs |-> dirs, rules |-> rules]
    BY <2>1, <2>2
  <2> QED
    BY <2>1, <2>3, <2>4 DEF LoadedOK
<1> QED
  BY <1>1, <1>2, OnlyReloadsLoad

\* What the policy in force says to any question is what its files say: the statement of
\* the highest context decides, and within a context the last one (policy.rs).
THEOREM PolicyIsItsFiles == RoutingSpec => []PolicyFollowsPrecedence
<1>1. RoutingSpec => []LoadedOK
  <2>1. RouteInv /\ LoadedOK /\ [RoutingNext]_routingVars => LoadedOK'
    BY LoadedStep
  <2> QED
    BY <2>1, LoadedStart, RoutingInvariance, PTL DEF RoutingSpec
<1>2. RouteInv /\ LoadedOK => PolicyFollowsPrecedence
  <2> SUFFICES ASSUME RouteInv, LoadedOK
               PROVE  PolicyFollowsPrecedence
    OBVIOUS
  <2> DEFINE e == epochs[Len(epochs)]
             files == FlattenSeq(e.dirs)
  <2>1. Last(epochs) = e /\ policy = e.rules
    BY DEF Last, policy
  <2>2. SUFFICES ASSUME Readable(files), NEW q \in Questions
                 PROVE  Permits(e.rules, q[1], q[2], q[3], q[4])
                           = LastWord(files, q[1], q[2], q[3], q[4])
    BY <2>1, Zenon DEF PolicyFollowsPrecedence
  <2>3. load_dirs(e.dirs) # {}
    BY <2>2 DEF load_dirs
  <2>4. e.rules \in load_dirs(e.dirs) /\ e.dirs \in AllDirs
    BY <2>3 DEF LoadedOK
  <2>5. AreFiles(files) /\ q[2] \in {"own", "send", "receive"}
    BY <2>4, RoutingAssumption DEF AllDirs
  <2> HIDE DEF e
  <2> QED
    BY <2>4, <2>5, FilesHaveTheLastWord
<1> QED
  BY <1>1, <1>2, RoutingInvariance, PTL

=============================================================================
