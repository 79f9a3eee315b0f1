---------------------------- MODULE NameRegistry ----------------------------
(***************************************************************************)
(* The daemon's registry of connections and bus names (registry.rs), driven *)
(* by the calls of org.freedesktop.DBus that change it (driver.rs) and by   *)
(* connections coming and going (connection_handler.rs).                    *)
(*                                                                          *)
(* The daemon runs on one thread and none of these operations awaits, so    *)
(* each is one step.  What a step returns is kept in two output variables:  *)
(* reply, the answer to the caller, and changes, the NameOwnerChange events *)
(* handed to dispatch.rs for broadcasting.                                  *)
(*                                                                          *)
(* A unique name ":1.k" is the number k.  A bus name without an owner       *)
(* (Option::None in the code) has the owner None = 0, which is no number a  *)
(* connection ever gets: next_id starts at 1.                               *)
(***************************************************************************)
EXTENDS Integers, Sequences, FiniteSets

CONSTANTS
    Names,       \* the well-known bus names clients ask for
    MaxId,       \* bound of the model: unique names handed out in a behaviour
    MaxNames     \* limits.max_names_per_connection

ASSUME NamesAssumption == \A n \in Names, i \in 0 .. MaxId : n # i
ASSUME BoundsAssumption == MaxId \in Nat /\ MaxNames \in Nat

VARIABLES
    next_id,       \* Registry.next_id: the number of the next unique name
    connections,   \* Registry.connections: the connections in the map
    is_registered, \* the connections whose Hello was answered
    names,         \* Registry.names: bus name -> its queue, the owner first
    reply,         \* answer of the last step: [to, name, code]
    changes        \* NameOwnerChange events of the last step

vars == <<next_id, connections, is_registered, names, reply, changes>>

-----------------------------------------------------------------------------
(* Data *)

None == 0

UniqueNames == 1 .. MaxId

Flags == SUBSET {"allow_replacement", "replace_existing", "do_not_queue"}

QueueEntry == [unique_name : UniqueNames,
               allow_replacement : BOOLEAN,
               do_not_queue : BOOLEAN]

RequestReplies == {"primary_owner", "in_queue", "exists", "already_owner"}

ReleaseReplies == {"released", "non_existent", "not_owner"}

Errors == {"access_denied", "invalid_args", "limits_exceeded", "failed"}

Reply == [to : UniqueNames \cup {None},
          name : Names \cup UniqueNames \cup {None},
          code : RequestReplies \cup ReleaseReplies \cup Errors
                   \cup {"hello", "none"}]

NameOwnerChange == [name : Names \cup UniqueNames,
                    old_owner : UniqueNames \cup {None},
                    new_owner : UniqueNames \cup {None}]

NoReply == [to |-> None, name |-> None, code |-> "none"]

Answer(c, n, code) == [to |-> c, name |-> n, code |-> code]

Change(n, old, new) == [name |-> n, old_owner |-> old, new_owner |-> new]

-----------------------------------------------------------------------------
(* Queues *)

Entry(c, allow, dnq) ==
    [unique_name |-> c, allow_replacement |-> allow, do_not_queue |-> dnq]

InQueue(q, c) == \E i \in 1 .. Len(q) : q[i].unique_name = c

First(q) == IF q = << >> THEN None ELSE q[1].unique_name

\* Vec::retain(|e| e.unique_name != c): the entries of q that are not c's, in
\* their order.  kept[i] is the result for the first i entries.
Retain(q, c) ==
    LET kept[i \in 0 .. Len(q)] ==
            IF i = 0 THEN << >>
            ELSE IF q[i].unique_name # c THEN Append(kept[i - 1], q[i])
            ELSE kept[i - 1]
    IN  kept[Len(q)]

\* The queue of n, or the empty one that or_default() makes for a new name.
Queue(n) == IF n \in DOMAIN names THEN names[n] ELSE << >>

\* names with n's queue set to q.
WithQueue(n, q) ==
    [m \in DOMAIN names \cup {n} |-> IF m = n THEN q ELSE names[m]]

-----------------------------------------------------------------------------
(* What the registry answers *)

get_name_owner(n) ==
    IF n \in UniqueNames
    THEN IF n \in connections THEN n ELSE None
    ELSE First(Queue(n))

\* Mutant: a place in a queue is not counted, only a name the connection owns.
names_held_by_OwnedOnly(c) ==
    Cardinality({n \in DOMAIN names : First(names[n]) = c})

names_held_by(c) == Cardinality({n \in DOMAIN names : InQueue(names[n], c)})

-----------------------------------------------------------------------------
(* The operations *)

Init ==
    /\ next_id = 1
    /\ connections = {}
    /\ is_registered = {}
    /\ names = [n \in {} |-> << >>]
    /\ reply = NoReply
    /\ changes = {}

\* The tail of a step that only answers its caller.
AnswerOnly(c, n, code) ==
    /\ reply' = Answer(c, n, code)
    /\ changes' = {}
    /\ UNCHANGED <<next_id, connections, is_registered, names>>

\* A connection that passed the handshake gets the next unique name and enters
\* the map, not yet registered.
Connect ==
    /\ next_id <= MaxId
    /\ next_id' = next_id + 1
    /\ connections' = connections \cup {next_id}
    /\ reply' = NoReply
    /\ changes' = {}
    /\ UNCHANGED <<is_registered, names>>

\* Any call but Hello from a connection that has not said Hello is refused.
RefuseUnregistered(c, n) ==
    /\ c \in connections \ is_registered
    /\ AnswerOnly(c, n, "access_denied")

Hello(c) ==
    /\ c \in connections
    /\ \/ /\ c \in is_registered
          /\ AnswerOnly(c, c, "failed")
       \/ /\ c \notin is_registered
          /\ is_registered' = is_registered \cup {c}
          /\ reply' = Answer(c, c, "hello")
          /\ changes' = {Change(c, None, c)}
          /\ UNCHANGED <<next_id, connections, names>>

\* Bad arguments, a policy or AppArmor denial, or the connection holds its
\* share.  Arguments and policy are inputs of this module: either may refuse
\* any request.
RefuseRequest(c, n) ==
    /\ c \in connections \cap is_registered
    /\ \/ AnswerOnly(c, n, "invalid_args")
       \/ AnswerOnly(c, n, "access_denied")
       \/ /\ names_held_by(c) >= MaxNames
          /\ AnswerOnly(c, n, "limits_exceeded")

ClaimFreeName(c, n, flags) ==
    /\ Queue(n) = << >>
    /\ names' = WithQueue(n, <<Entry(c, "allow_replacement" \in flags,
                                        "do_not_queue" \in flags)>>)
    /\ reply' = Answer(c, n, "primary_owner")
    /\ changes' = {Change(n, None, c)}
    /\ UNCHANGED <<next_id, connections, is_registered>>

\* The owner asks again: its flags are not updated.
KeepName(c, n) ==
    /\ Queue(n) # << >>
    /\ First(Queue(n)) = c
    /\ AnswerOnly(c, n, "already_owner")

\* Mutant: the owner's consent is not asked for.
CanReplace_NoConsent(n, flags) == "replace_existing" \in flags

CanReplace(n, flags) ==
    "replace_existing" \in flags /\ Queue(n)[1].allow_replacement

\* Mutants of the queue after a replacement: the caller's old place is kept; the
\* displaced owner always waits; the caller is put last instead of first.
ReplacedQueue_KeepsOldPlace(q, c, flags) ==
    LET head == Entry(c, "allow_replacement" \in flags, "do_not_queue" \in flags)
        back == IF q[1].do_not_queue THEN << >> ELSE <<q[1]>>
    IN  <<head>> \o Tail(q) \o back

ReplacedQueue_AlwaysWaits(q, c, flags) ==
    LET head == Entry(c, "allow_replacement" \in flags, "do_not_queue" \in flags)
    IN  <<head>> \o Tail(Retain(q, c)) \o <<q[1]>>

ReplacedQueue_CallerLast(q, c, flags) ==
    LET rest == Retain(q, c)
        head == Entry(c, "allow_replacement" \in flags, "do_not_queue" \in flags)
        back == IF q[1].do_not_queue THEN << >> ELSE <<rest[1]>>
    IN  Tail(rest) \o back \o <<head>>

\* The caller takes the first place; the displaced owner goes to the end of
\* the queue, unless it had asked not to be queued.
ReplacedQueue(q, c, flags) ==
    LET rest == Retain(q, c)
        head == Entry(c, "allow_replacement" \in flags, "do_not_queue" \in flags)
        back == IF q[1].do_not_queue THEN << >> ELSE <<rest[1]>>
    IN  <<head>> \o Tail(rest) \o back

ReplaceOwner(c, n, flags) ==
    /\ Queue(n) # << >>
    /\ First(Queue(n)) # c
    /\ CanReplace(n, flags)
    /\ names' = WithQueue(n, ReplacedQueue(Queue(n), c, flags))
    /\ reply' = Answer(c, n, "primary_owner")
    /\ changes' = {Change(n, First(Queue(n)), c)}
    /\ UNCHANGED <<next_id, connections, is_registered>>

\* DO_NOT_QUEUE: the name is taken, and a place the caller may already have in
\* the queue stays as it is.
RefuseToQueue(c, n, flags) ==
    /\ Queue(n) # << >>
    /\ First(Queue(n)) # c
    /\ ~ CanReplace(n, flags)
    /\ "do_not_queue" \in flags
    /\ AnswerOnly(c, n, "exists")

\* Mutant: asking again moves a waiting connection to the end.
JoinedQueue_MovesToEnd(q, c, flags) ==
    Append(Retain(q, c), Entry(c, "allow_replacement" \in flags, FALSE))

\* A connection that already waits keeps its place and its flags.
JoinedQueue(q, c, flags) ==
    IF InQueue(q, c) THEN q
    ELSE Append(q, Entry(c, "allow_replacement" \in flags, FALSE))

JoinQueue(c, n, flags) ==
    /\ Queue(n) # << >>
    /\ First(Queue(n)) # c
    /\ ~ CanReplace(n, flags)
    /\ "do_not_queue" \notin flags
    /\ names' = WithQueue(n, JoinedQueue(Queue(n), c, flags))
    /\ reply' = Answer(c, n, "in_queue")
    /\ changes' = {}
    /\ UNCHANGED <<next_id, connections, is_registered>>

RequestName(c, n, flags) ==
    /\ c \in connections \cap is_registered
    /\ names_held_by(c) < MaxNames
    /\ \/ ClaimFreeName(c, n, flags)
       \/ KeepName(c, n)
       \/ ReplaceOwner(c, n, flags)
       \/ RefuseToQueue(c, n, flags)
       \/ JoinQueue(c, n, flags)

\* Mutants: a departing connection keeps the places where it only waits; a name
\* its owner gives up is dropped with everybody who waits for it.
ReleasedNames_OwnedOnly(c, S) ==
    LET owned == {n \in S : First(names[n]) = c}
    IN  [n \in {m \in DOMAIN names : m \notin owned
                                       \/ Retain(names[m], c) # << >>} |->
            IF n \in owned THEN Retain(names[n], c) ELSE names[n]]

ReleasedNames_DropsQueue(c, S) ==
    [n \in {m \in DOMAIN names : m \notin S \/ First(names[m]) # c} |->
        IF n \in S THEN Retain(names[n], c) ELSE names[n]]

\* release_name_internal on the names in S, at each of which c has a place:
\* the place is given up and a name whose queue is empty leaves the map.
ReleasedNames(c, S) ==
    [n \in {m \in DOMAIN names : m \notin S \/ Retain(names[m], c) # << >>} |->
        IF n \in S THEN Retain(names[n], c) ELSE names[n]]

\* Mutant: every release is announced, a waiting connection's too.
ReleaseChanges_Waiters(c, S) ==
    {Change(n, c, First(Retain(names[n], c))) : n \in S}

\* Only the owner's release is announced, with the next in the queue as owner.
ReleaseChanges(c, S) ==
    {Change(n, c, First(Retain(names[n], c))) :
        n \in {m \in S : First(names[m]) = c}}

ReleaseName(c, n) ==
    /\ c \in connections \cap is_registered
    /\ \/ /\ n \notin DOMAIN names
          /\ AnswerOnly(c, n, "non_existent")
       \/ /\ n \in DOMAIN names
          /\ ~ InQueue(names[n], c)
          /\ AnswerOnly(c, n, "not_owner")
       \/ /\ n \in DOMAIN names
          /\ InQueue(names[n], c)
          /\ names' = ReleasedNames(c, {n})
          /\ reply' = Answer(c, n, "released")
          /\ changes' = ReleaseChanges(c, {n})
          /\ UNCHANGED <<next_id, connections, is_registered>>

\* Mutant: the connection leaves the map but stays registered.
Disconnect_StaysRegistered(c) ==
    LET held == {n \in DOMAIN names : InQueue(names[n], c)}
    IN  /\ c \in connections
        /\ connections' = connections \ {c}
        /\ names' = ReleasedNames(c, held)
        /\ reply' = NoReply
        /\ changes' = ReleaseChanges(c, held) \cup {Change(c, c, None)}
        /\ UNCHANGED <<next_id, is_registered>>

\* remove_connection: the connection leaves the map and every queue.  The loss
\* of its unique name is announced even when its Hello never was.
Disconnect(c) ==
    LET held == {n \in DOMAIN names : InQueue(names[n], c)}
    IN  /\ c \in connections
        /\ connections' = connections \ {c}
        /\ is_registered' = is_registered \ {c}
        /\ names' = ReleasedNames(c, held)
        /\ reply' = NoReply
        /\ changes' = ReleaseChanges(c, held) \cup {Change(c, c, None)}
        /\ UNCHANGED next_id

Next ==
    \/ Connect
    \/ \E c \in UniqueNames :
          \/ Hello(c)
          \/ Disconnect(c)
          \/ \E n \in Names :
                \/ RefuseUnregistered(c, n)
                \/ RefuseRequest(c, n)
                \/ ReleaseName(c, n)
                \/ \E flags \in Flags : RequestName(c, n, flags)

Spec == Init /\ [][Next]_vars

-----------------------------------------------------------------------------
(* Properties *)

\* Every variable keeps its type: a queue is a sequence of entries of
\* connections, an output is a reply and a set of change events.
TypeOK ==
    /\ next_id \in 1 .. MaxId + 1
    /\ connections \subseteq UniqueNames
    /\ is_registered \subseteq connections
    /\ DOMAIN names \subseteq Names
    /\ \A n \in DOMAIN names : names[n] \in Seq(QueueEntry)
    /\ reply \in Reply
    /\ changes \subseteq NameOwnerChange

\* A name is in the map only while somebody owns it, so "absent" and "no owner"
\* are one thing (registry.rs tests both), and nobody has two places in a
\* queue, which the retain-then-insert of a replacement must not break.
QueuesWellFormed ==
    \A n \in DOMAIN names :
        /\ Len(names[n]) > 0
        /\ \A i, j \in 1 .. Len(names[n]) :
              names[n][i].unique_name = names[n][j].unique_name => i = j

\* Whoever owns or waits for a name is a live connection that said Hello: the
\* "owner vanished" branch of deliver_to_owner is never taken, and a message
\* for a name never goes to the writer of a connection that left.
HoldersAreLive ==
    \A n \in DOMAIN names : \A i \in 1 .. Len(names[n]) :
        names[n][i].unique_name \in is_registered

\* A connection that became owner with DO_NOT_QUEUE is never found waiting:
\* when it is displaced it leaves the queue instead of joining it.
WaitersAgreedToWait ==
    \A n \in DOMAIN names : \A i \in 2 .. Len(names[n]) :
        ~ names[n][i].do_not_queue

\* max_names_per_connection bounds the names a connection owns or waits for,
\* however they came to it: asked for, queued, or handed back by a release.
NamesWithinLimit == \A c \in connections : names_held_by(c) <= MaxNames

\* The answer tells the caller its place: PRIMARY_OWNER and ALREADY_OWNER mean
\* it owns the name, IN_QUEUE that it waits behind another, EXISTS that another
\* owns it, the release codes that it has no place at all.
ReplyTellsPlace ==
    LET q == Queue(reply.name)
    IN  /\ reply.code \in {"primary_owner", "already_owner"} =>
              First(q) = reply.to
        /\ reply.code = "in_queue" =>
              InQueue(q, reply.to) /\ First(q) # reply.to
        /\ reply.code = "exists" => First(q) \notin {None, reply.to}
        /\ reply.code \in ReleaseReplies => ~ InQueue(q, reply.to)

\* The change events of a step say exactly what it did to the owners of the
\* well-known names: one event for each name whose owner changed, with the
\* owner before and the owner after, and none for any other name.
ChangesAreExact ==
    [][\A n \in Names :
          {e \in changes' : e.name = n} =
             IF get_name_owner(n)' = get_name_owner(n) THEN {}
             ELSE {Change(n, get_name_owner(n), get_name_owner(n)')}]_vars

\* An owner loses a name only by its own release or departure, and then to the
\* first in the queue, or to a connection that replaces it with its consent.
OwnerYieldsInTurn ==
    [][\A n \in DOMAIN names :
          LET q == names[n]
          IN  get_name_owner(n)' # q[1].unique_name =>
                 \/ /\ ~ InQueue(Queue(n)', q[1].unique_name)
                    /\ get_name_owner(n)' = First(Tail(q))
                 \/ q[1].allow_replacement]_vars

\* Waiting is first come, first served: of two connections that wait for a name
\* before and after a step, the one that was ahead is still ahead.
WaitersKeepOrder ==
    [][\A n \in DOMAIN names \cap DOMAIN names' :
          \A i, j \in 2 .. Len(names[n]) :
             \A k, l \in 2 .. Len(names[n]') :
                /\ i < j
                /\ names[n]'[k].unique_name = names[n][i].unique_name
                /\ names[n]'[l].unique_name = names[n][j].unique_name
                => k < l]_vars

-----------------------------------------------------------------------------
(* The registry implements its promise *)

owner == [n \in Names |-> get_name_owner(n)]

waiting ==
    [n \in Names |-> {c \in UniqueNames : /\ InQueue(Queue(n), c)
                                          /\ First(Queue(n)) # c}]

willing ==
    [n \in Names |->
        {c \in UniqueNames :
            \E i \in 1 .. Len(Queue(n)) : /\ Queue(n)[i].unique_name = c
                                          /\ Queue(n)[i].allow_replacement}]

Promise == INSTANCE NameOwnership WITH Clients <- UniqueNames

\* Queue order, flags and limits only choose among the steps NameOwnership
\* allows: request_name, release_name and remove_connection never leave a name
\* unowned that somebody waits for, and never take one from an unwilling owner.
ImplementsPromise == Promise!Spec

=============================================================================
