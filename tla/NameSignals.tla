----------------------------- MODULE NameSignals -----------------------------
(***************************************************************************)
(* How clients learn of ownership changes (dispatch.rs): the handler task   *)
(* of a connection reads a call, runs the registry operation, broadcasts    *)
(* the change events one by one and only then answers the caller.           *)
(*                                                                          *)
(* The registry is NameRegistry; its outputs changes' and reply' are the    *)
(* work the task carries on with.  The daemon's executor has one thread     *)
(* (main.rs): a task runs until it awaits a socket write, and other tasks   *)
(* run only then.  running is the task that has the thread.  A task waiting *)
(* to write has a target; the write is a step of its own, after which the   *)
(* task has the thread again.                                               *)
(*                                                                          *)
(* The sockets themselves are lossless here and always take a message:      *)
(* back-pressure is not part of this module.  Of a client only what it      *)
(* concludes from its messages is kept: mine and belief.                    *)
(***************************************************************************)
EXTENDS NameRegistry

VARIABLES
    running,   \* the connection whose task has the thread, or None
    task,      \* per connection: where its handler task is
    watches,   \* connections with a match rule for NameOwnerChanged
    mine,      \* per client: names it was told it acquired and not lost
    belief,    \* per client: name -> owner by the last NameOwnerChanged
    raced      \* names that changed while a change was being announced

taskVars == <<running, task, watches, mine, belief, raced>>

allVars == <<next_id, connections, is_registered, names, reply, changes,
             running, task, watches, mine, belief, raced>>

\* The outputs of the last registry step are used up within the step.
view == <<next_id, connections, is_registered, names,
          running, task, watches, mine, belief, raced>>

Unknown == MaxId + 1    \* no NameOwnerChanged seen since the match was added

Stages == {"idle", "next", "visit", "acquired", "lost", "reply"}

\* todo: the changes still to announce, the one in progress first; visit: the
\* connections of the snapshot the broadcast has not looked at; target: whom
\* the task is waiting to write to; answer: the reply to send at the end, of
\* which only "you are the owner" is told apart from the rest.
Idle == [stage |-> "idle", todo |-> << >>, visit |-> {}, target |-> None,
         answer |-> NoReply]

\* The ways to go through the events of T one by one: the map's order is arbitrary.
Arrangements(T) ==
    {s \in [1 .. Cardinality(T) -> T] : \A i, j \in DOMAIN s : s[i] = s[j] => i = j}

\* The events in the order they are announced: the loss of the unique name comes last.
Orders(S) ==
    LET own == {e \in S : e.name \in UniqueNames}
    IN  {p[1] \o p[2] : p \in Arrangements(S \ own) \X Arrangements(own)}

\* Some task has yet to finish announcing a change of n.
Announcing(n) ==
    \E c \in UniqueNames : \E i \in 1 .. Len(task[c].todo) :
        task[c].todo[i].name = n

SignalsInit ==
    /\ Init
    /\ running = None
    /\ task = [c \in UniqueNames |-> Idle]
    /\ watches = {}
    /\ mine = [c \in UniqueNames |-> {}]
    /\ belief = [c \in UniqueNames |-> [n \in Names |-> Unknown]]
    /\ raced = {}

-----------------------------------------------------------------------------
(* Taking up a call: everything up to the first await *)

OtherAnswer(c) == Answer(c, c, "none")

\* The task of c goes on with the outputs of the registry operation.
CarryOn(c) ==
    /\ \E s \in Orders(changes') :
          task' = [task EXCEPT ![c] = [stage |-> "next", todo |-> s, visit |-> {},
                                       target |-> None,
                                       answer |-> IF reply'.code = "primary_owner"
                                                     \/ reply' = NoReply
                                                  THEN reply'
                                                  ELSE OtherAnswer(c)]]
    /\ running' = c
    /\ raced' = raced \cup {n \in Names : /\ Announcing(n)
                                          /\ \E e \in changes' : e.name = n}

CanTakeUp(c) == running = None /\ task[c] = Idle

\* A call to org.freedesktop.DBus that goes to the registry.
Serve(c) ==
    /\ CanTakeUp(c)
    /\ \/ Hello(c)
       \/ \E n \in Names :
             \/ RefuseUnregistered(c, n)
             \/ RefuseRequest(c, n)
             \/ ReleaseName(c, n)
             \/ \E flags \in Flags : RequestName(c, n, flags)
    /\ CarryOn(c)
    /\ UNCHANGED <<watches, mine, belief>>

\* AddMatch and RemoveMatch of a rule that matches every NameOwnerChanged.  A
\* client starts watching, and stops, without an opinion about the owners.
SetWatch(c, w) ==
    /\ CanTakeUp(c)
    /\ c \in is_registered
    /\ watches' = w
    /\ belief' = IF w = watches THEN belief
                 ELSE [belief EXCEPT ![c] = [n \in Names |-> Unknown]]
    /\ task' = [task EXCEPT ![c] = [@ EXCEPT !.stage = "next",
                                             !.answer = OtherAnswer(c)]]
    /\ running' = c
    /\ UNCHANGED <<next_id, connections, is_registered, names, reply, changes,
                   mine, raced>>

AddMatch(c) == SetWatch(c, watches \cup {c})

RemoveMatch(c) == SetWatch(c, watches \ {c})

\* The read loop ends: the connection leaves the registry, its task announces
\* that.  Nobody reads what is still written to it.
Leave(c) ==
    /\ CanTakeUp(c)
    /\ Disconnect(c)
    /\ CarryOn(c)
    /\ UNCHANGED <<watches, mine, belief>>

Arrive ==
    /\ running = None
    /\ Connect
    /\ UNCHANGED taskVars

-----------------------------------------------------------------------------
(* Announcing: the task has the thread *)

Stage(c, s) == running = c /\ task[c].target = None /\ task[c].stage = s

Change1(c) == task[c].todo[1]

\* Steps that keep the thread.
GoOn(t, c) ==
    /\ task' = [task EXCEPT ![c] = t]
    /\ UNCHANGED <<next_id, connections, is_registered, names, reply, changes,
                   running, watches, mine, belief, raced>>

\* A write is awaited: the thread is free for other tasks.
Await(t, c) ==
    /\ task' = [task EXCEPT ![c] = t]
    /\ running' = None
    /\ UNCHANGED <<next_id, connections, is_registered, names, reply, changes,
                   watches, mine, belief, raced>>

\* broadcast_signal starts with a snapshot of the connections.
StartBroadcast(c) ==
    /\ Stage(c, "next")
    /\ task[c].todo # << >>
    /\ GoOn([task[c] EXCEPT !.stage = "visit", !.visit = connections], c)

\* A connection of the snapshot, in the map's arbitrary order: skipped unless
\* a rule of its matches now.
Visit(c) ==
    /\ Stage(c, "visit")
    /\ \E d \in task[c].visit :
          LET t == [task[c] EXCEPT !.visit = @ \ {d}]
          IN  \/ /\ d \notin watches
                 /\ GoOn(t, c)
              \/ /\ d \in watches
                 /\ Await([t EXCEPT !.target = d], c)

\* After the broadcast NameAcquired goes to the new owner, then NameLost to the
\* old one, each only if there is one and it is connected.
EndBroadcast(c) ==
    /\ Stage(c, "visit")
    /\ task[c].visit = {}
    /\ LET d == Change1(c).new_owner
           t == [task[c] EXCEPT !.stage = "acquired"]
       IN  \/ d \in connections /\ Await([t EXCEPT !.target = d], c)
           \/ d \notin connections /\ GoOn(t, c)

\* Mutant: NameLost is sent only when nobody else gets the name.
TellLoser_OnlyIfFree(c) ==
    /\ Stage(c, "acquired")
    /\ LET e == Change1(c)
           t == [task[c] EXCEPT !.stage = "lost"]
       IN  \/ /\ e.new_owner = None /\ e.old_owner \in connections
              /\ Await([t EXCEPT !.target = e.old_owner], c)
           \/ ~ (e.new_owner = None /\ e.old_owner \in connections) /\ GoOn(t, c)

TellLoser(c) ==
    /\ Stage(c, "acquired")
    /\ LET d == Change1(c).old_owner
           t == [task[c] EXCEPT !.stage = "lost"]
       IN  \/ d \in connections /\ Await([t EXCEPT !.target = d], c)
           \/ d \notin connections /\ GoOn(t, c)

EndChange(c) ==
    /\ Stage(c, "lost")
    /\ GoOn([task[c] EXCEPT !.stage = "next", !.todo = Tail(@)], c)

\* Mutant: the caller is answered before the changes are announced.
SendReply_BeforeSignals(c) ==
    /\ Stage(c, "next")
    /\ \/ /\ task[c].answer.to = c
          /\ Await([task[c] EXCEPT !.stage = "reply", !.target = c], c)
       \/ Await(Idle, c)

\* No change left: the caller is answered, unless it asked for no reply or is
\* the connection that just left.
SendReply(c) ==
    /\ Stage(c, "next")
    /\ task[c].todo = << >>
    /\ \/ /\ task[c].answer.to = c
          /\ Await([task[c] EXCEPT !.stage = "reply", !.target = c], c)
       \/ Await(Idle, c)

Done(c) ==
    /\ Stage(c, "reply")
    /\ Await(Idle, c)

\* Mutant: the task takes the thread back still waiting for its write.
Write_KeepsTarget(c) ==
    /\ running = None
    /\ task[c].target # None
    /\ running' = c
    /\ UNCHANGED <<next_id, connections, is_registered, names, reply, changes,
                   task, watches, mine, belief, raced>>

\* The awaited write happens.  The message is the one of the task's stage.
Write(c) ==
    /\ running = None
    /\ task[c].target # None
    /\ LET d == task[c].target
           s == task[c].stage
           e == Change1(c)
       IN  /\ belief' = IF s = "visit" /\ e.name \in Names
                        THEN [belief EXCEPT ![d][e.name] = e.new_owner]
                        ELSE belief
           /\ mine' = [mine EXCEPT ![d] =
                          IF s = "acquired" THEN @ \cup ({e.name} \cap Names)
                          ELSE IF s = "lost" THEN @ \ {e.name}
                          ELSE @]
    /\ task' = [task EXCEPT ![c].target = None]
    /\ running' = c
    /\ UNCHANGED <<next_id, connections, is_registered, names, reply, changes,
                   watches, raced>>

SignalsNext ==
    \/ Arrive
    \/ \E c \in UniqueNames :
          \/ Serve(c)
          \/ AddMatch(c)
          \/ RemoveMatch(c)
          \/ Leave(c)
          \/ StartBroadcast(c)
          \/ Visit(c)
          \/ EndBroadcast(c)
          \/ TellLoser(c)
          \/ EndChange(c)
          \/ SendReply(c)
          \/ Done(c)
          \/ Write(c)

SignalsSpec == SignalsInit /\ [][SignalsNext]_allVars

-----------------------------------------------------------------------------
(* Properties *)

\* Every variable keeps its type, and the thread belongs to a task with work to
\* do that is not waiting for a write.
SignalsTypeOK ==
    /\ TypeOK
    /\ \A c \in UniqueNames :
          /\ task[c].stage \in Stages
          /\ task[c].visit \subseteq UniqueNames
          /\ task[c].target \in UniqueNames \cup {None}
          /\ task[c].answer \in Reply
          /\ \A i \in 1 .. Len(task[c].todo) : task[c].todo[i] \in NameOwnerChange
    /\ running # None => task[running].stage # "idle" /\ task[running].target = None
    /\ watches \subseteq UniqueNames
    /\ mine \in [UniqueNames -> SUBSET Names]
    /\ belief \in [UniqueNames -> [Names -> 0 .. MaxId + 1]]
    /\ raced \subseteq Names

\* What the clients concluded about n from the messages they got is so: those
\* told that they acquired it own it, and nobody else, and those that watch
\* NameOwnerChanged have the owner right.
ViewsAreRight(n) ==
    \A c \in is_registered :
        /\ n \in mine[c] <=> get_name_owner(n) = c
        /\ (c \in watches /\ belief[c][n] # Unknown) =>
              belief[c][n] = get_name_owner(n)

\* Once nothing about a name is left to announce, all clients have it right:
\* connections arriving, leaving, subscribing in the middle of a broadcast do
\* not make anyone miss the last change.  This needs that no two changes of the
\* name were announced at a time (raced).
UnracedViewsSettle ==
    \A n \in Names \ raced : ~ Announcing(n) => ViewsAreRight(n)

\* The same without the exception.
ViewsSettle ==
    \A n \in Names : ~ Announcing(n) => ViewsAreRight(n)

\* finish_driver_reply announces before it answers: a client that reads
\* PRIMARY_OWNER has already read NameAcquired, unless another task has changed
\* the owner since.
ReplyFollowsSignals ==
    [][\A c \in UniqueNames :
          LET a == task[c].answer
          IN  (task[c].stage = "next" /\ task'[c].stage = "reply"
                 /\ a.code = "primary_owner") =>
                 \/ a.name \in mine[c]
                 \/ a.name \in raced]_allVars

=============================================================================
