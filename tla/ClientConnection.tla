-------------------------- MODULE ClientConnection --------------------------
(***************************************************************************)
(* A client's Connection after its handshake (oxibus-client connection.rs, *)
(* object_server.rs, proxy.rs): tasks that call over it and wait for the   *)
(* answer, the reader task that hands every answer to its call and runs    *)
(* the handlers of incoming calls itself, and the peer.                    *)
(*                                                                         *)
(* A write is one step here (Wire has its pieces).  The peer is external:  *)
(* it answers every call once, in any order, sends calls and signals,      *)
(* may send something unreadable, and may close.                           *)
(***************************************************************************)
EXTENDS Integers, Sequences, FiniteSets, Functions

CONSTANTS
    Calls,        \* the calls that may be made, each once
    Plan,         \* of a call: who makes it ("task", "handler" or "c"), its method,
                  \* whether it has a timeout, and the answers the peer may give
    Requests,     \* the calls the peer may make: [dest, complete, path, interface,
                  \* no_reply]; a call is complete if it has a path and a member
    Scenarios,    \* which calls and requests there are, what is registered at the
                  \* start, and whether the peer may close or send garbage
    Interfaces, Paths,
    SerialRange,  \* 2^32
    MaxSerials,   \* serials taken in a behaviour
    MaxRefs       \* handles of the connection

ASSUME ClientAssumption ==
    /\ SerialRange \in Nat /\ SerialRange > 2
    /\ \A c \in Calls : /\ Plan[c].by \in {"task", "handler", "c"}
                        /\ Plan[c].timed \in BOOLEAN
                        /\ Plan[c].method \in {"Hello", "RequestName", "AddMatch", "other"}
                        /\ Plan[c].answers \subseteq {"string", "u32", "error"}

VARIABLES
    scenario,
    serials, taken,       \* the next serial; how many were taken
    pending,              \* the sender of the call that waits for a serial, or "none"
    state, serial, nth,   \* of a call; its serial, which was the nth taken
    answer,               \* what the reader sent down a call's channel
    late,                 \* calls registered after the reader task ended
    unique_name,          \* whether it is known
    objects,              \* the interfaces registered at every path
    refs,                 \* handles of the connection
    reader,               \* the reader task
    asked,                \* calls the peer has still to answer
    inbound, peer,        \* what the peer sent and the reader has not read
    told,                 \* whether the peer got a message written with the name known
    sent, due, served     \* requests the peer made; to be answered; answers written

calling == <<serials, taken, pending, state, serial, nth, answer, late, unique_name>>
serving == <<objects, reader, due, served>>
remote  == <<asked, inbound, peer, told, sent>>
clientVars == <<scenario, calling, serving, remote, refs>>

NoAnswer == [of |-> "none", body |-> "none"]
Reading == [at |-> "read", request |-> "none", call |-> "none"]
Ended == [Reading EXCEPT !.at = "ended"]
Over == {"ok", "error", "io", "closed", "timeout"}

ClientInit ==
    /\ scenario \in Scenarios
    /\ serials = 1 /\ taken = 0
    /\ pending = [s \in 1..(SerialRange - 1) |-> "none"]
    /\ state = [c \in Calls |-> "idle"]
    /\ serial = [c \in Calls |-> 0]
    /\ nth = [c \in Calls |-> 0]
    /\ answer = [c \in Calls |-> NoAnswer]
    /\ late = {}
    /\ unique_name = FALSE
    /\ objects = scenario.objects
    /\ refs = 1
    /\ reader = Reading
    /\ asked = {} /\ inbound = <<>> /\ peer = "open" /\ told = FALSE
    /\ sent = {} /\ due = {}
    /\ served = [r \in Requests |-> 0]

----------------------------------------------------------------------------
(* Calling. *)

\* SerialGenerator::next: the counter wraps, and zero is passed over.
fetch_add_Narrow(v) == (v + 1) % 2
fetch_add(v) == (v + 1) % SerialRange
NextSerial == IF serials = 0 THEN 1 ELSE serials
TakeSerial == /\ taken < MaxSerials
              /\ taken' = taken + 1
              /\ serials' = fetch_add(NextSerial)

\* call_method until it has registered its channel.  What waited for the same serial
\* loses its sender.
call_method(c) ==
    /\ c \in scenario.calls /\ state[c] = "idle"
    /\ TakeSerial
    /\ serial' = [serial EXCEPT ![c] = NextSerial]
    /\ nth' = [nth EXCEPT ![c] = taken]
    /\ pending' = [pending EXCEPT ![NextSerial] = c]
    /\ state' = [state EXCEPT ![c] = "registered"]
    /\ late' = IF reader.at = "ended" THEN late \cup {c} ELSE late
    /\ UNCHANGED <<answer, unique_name>>

\* What the peer has got from a client that knows its name.
Tell == told' = (told \/ (unique_name /\ peer = "open"))

\* A write to a peer that has closed fails, and what is registered for the serial goes.
write_message(c) ==
    /\ state[c] = "registered"
    /\ Tell
    /\ IF peer = "open"
       THEN /\ state' = [state EXCEPT ![c] = "written"]
            /\ asked' = asked \cup {c}
            /\ UNCHANGED pending
       ELSE /\ state' = [state EXCEPT ![c] = "io"]
            /\ pending' = [pending EXCEPT ![serial[c]] = "none"]
            /\ UNCHANGED asked
    /\ UNCHANGED <<scenario, serials, taken, serial, nth, answer, late, unique_name,
                   serving, inbound, peer, sent, refs>>

\* What a method makes of its answer: Hello and RequestName insist on a value of their
\* type, the others and those of a Proxy take what comes.
result(method, body) ==
    IF \/ body = "error"
       \/ method = "Hello" /\ body # "string"
       \/ method = "RequestName" /\ body # "u32"
    THEN "error" ELSE "ok"

\* rx.await: the answer, or the error of a channel without a sender.
await_reply(c) ==
    /\ state[c] = "written"
    /\ \/ /\ answer[c] # NoAnswer
          /\ state' = [state EXCEPT ![c] = result(Plan[c].method, answer[c].body)]
       \/ /\ answer[c] = NoAnswer /\ c \notin Range(pending)
          /\ state' = [state EXCEPT ![c] = "closed"]
    /\ UNCHANGED <<scenario, serials, taken, pending, serial, nth, answer, late, unique_name,
                   serving, remote, refs>>

\* The rest of bus_hello: the task that called stores the name, some time after the
\* reader task has read it.
bus_hello(c) ==
    /\ Plan[c].method = "Hello" /\ state[c] = "ok" /\ ~unique_name
    /\ unique_name' = TRUE
    /\ UNCHANGED <<scenario, serials, taken, pending, state, serial, nth, answer, late,
                   serving, remote, refs>>

\* The caller's timeout drops the call where it waits; what is registered stays.
Timeout(c) ==
    /\ Plan[c].timed /\ state[c] \in {"registered", "written"}
    /\ state' = [state EXCEPT ![c] = "timeout"]
    /\ UNCHANGED <<scenario, serials, taken, pending, serial, nth, answer, late, unique_name,
                   serving, remote, refs>>

\* emit_signal and send_no_reply: a serial and a write, and nothing to wait for.
send_no_reply ==
    /\ refs > 0 /\ TakeSerial /\ Tell
    /\ UNCHANGED <<scenario, pending, state, serial, nth, answer, late, unique_name,
                   serving, asked, inbound, peer, sent, refs>>

----------------------------------------------------------------------------
(* Serving. *)

register(p, i) ==
    /\ scenario.registers /\ i \notin objects[p]
    /\ objects' = [objects EXCEPT ![p] = @ \cup {i}]
    /\ UNCHANGED <<scenario, calling, reader, due, served, remote, refs>>
unregister(p, i) ==
    /\ scenario.registers /\ i \in objects[p]
    /\ objects' = [objects EXCEPT ![p] = @ \ {i}]
    /\ UNCHANGED <<scenario, calling, reader, due, served, remote, refs>>

\* A call without a destination, or to the unique name once that is known.
is_for_us_Addressed(r) == r.dest = "unique" /\ unique_name
is_for_us(r) == r.dest = "none" \/ (r.dest = "unique" /\ unique_name)

\* dispatch: whether a handler is found.
dispatch(r) == IF r.interface = "none" THEN Cardinality(objects[r.path]) = 1
               ELSE r.interface \in objects[r.path]

\* The answer to a request; a failing write is ignored.
write_answer(r) ==
    served' = IF r.no_reply \/ peer = "closed" THEN served ELSE [served EXCEPT ![r] = @ + 1]

\* An answer goes to the call that is registered for its serial.
ReadReply(m) ==
    /\ m.type = "reply"
    /\ pending' = [pending EXCEPT ![m.to] = "none"]
    /\ answer' = IF pending[m.to] = "none" THEN answer
                 ELSE [answer EXCEPT ![pending[m.to]] = [of |-> m.of, body |-> m.body]]
    /\ UNCHANGED <<serials, taken, state, serial, nth, late, unique_name, serving>>

ReadSignal(m) == m.type = "signal" /\ UNCHANGED <<calling, serving>>

\* A call that is not for this client, or has no path or no member, is dropped.
ReadCall(m) ==
    /\ m.type = "call"
    /\ LET r == m.request
           taken_up == is_for_us(r) /\ r.complete
       IN  \/ ~taken_up /\ UNCHANGED <<reader, served>>
           \/ taken_up /\ ~dispatch(r) /\ write_answer(r) /\ UNCHANGED reader
           \/ /\ taken_up /\ dispatch(r)
              /\ reader' = [at |-> "handler", request |-> r, call |-> "none"]
              /\ UNCHANGED served
    /\ UNCHANGED <<calling, objects, due>>

\* The reader task takes one message and is done with it before the next.
handle_incoming ==
    /\ reader.at = "read" /\ inbound # <<>> /\ Head(inbound).type # "garbage"
    /\ inbound' = Tail(inbound)
    /\ \/ ReadReply(Head(inbound))
       \/ ReadSignal(Head(inbound))
       \/ ReadCall(Head(inbound))
    /\ UNCHANGED <<scenario, asked, peer, told, sent, refs>>

\* The handler may call over the same connection, and returns when that call has.
HandlerCalls(c) ==
    /\ reader.at = "handler" /\ reader.call = "none" /\ Plan[c].by = "handler"
    /\ call_method(c)
    /\ reader' = [reader EXCEPT !.call = c]
    /\ UNCHANGED <<scenario, objects, due, served, remote, refs>>
HandlerReturns ==
    /\ reader.at = "handler"
    /\ reader.call # "none" => state[reader.call] \in Over
    /\ write_answer(reader.request)
    /\ reader' = Reading
    /\ UNCHANGED <<scenario, calling, objects, due, remote, refs>>

\* read_message fails at the end of the stream or at what it cannot read; every sender
\* is dropped.
clear_Nothing == UNCHANGED pending
clear == pending' = [s \in DOMAIN pending |-> "none"]
ReaderEnds ==
    /\ reader.at = "read"
    /\ \/ inbound = <<>> /\ peer = "closed" /\ UNCHANGED inbound
       \/ inbound # <<>> /\ Head(inbound).type = "garbage" /\ inbound' = Tail(inbound)
    /\ reader' = Ended
    /\ clear
    /\ UNCHANGED <<scenario, serials, taken, state, serial, nth, answer, late, unique_name,
                   objects, due, served, asked, peer, told, sent, refs>>

----------------------------------------------------------------------------
(* The application's handles; a call holds one of its own.  The reader task is not     *)
(* ended with the last of them: dropping its JoinHandle only detaches it.              *)

dbus_connection_ref ==
    /\ scenario.unref /\ refs \in 1..(MaxRefs - 1)
    /\ refs' = refs + 1
    /\ UNCHANGED <<scenario, calling, serving, remote>>
dbus_connection_unref ==
    /\ scenario.unref /\ refs > 0
    /\ refs' = refs - 1
    /\ UNCHANGED <<scenario, calling, serving, remote>>

----------------------------------------------------------------------------
(* The peer. *)

Deliver(m) == inbound' = Append(inbound, m)

PeerAnswers(c) ==
    /\ peer = "open" /\ c \in asked
    /\ \E b \in Plan[c].answers :
          Deliver([type |-> "reply", to |-> serial[c], of |-> c, body |-> b])
    /\ asked' = asked \ {c}
    /\ UNCHANGED <<scenario, calling, serving, peer, told, sent, refs>>

\* The requests that are owed an answer: those that were made to this client, to its
\* unique name once the peer can know that the client knows it.
Owed(r) == /\ r.complete /\ ~r.no_reply
           /\ r.dest = "none" \/ (r.dest = "unique" /\ told)

\* To the unique name only once Hello has been answered with it.
PeerCalls(r) ==
    /\ peer = "open" /\ r \in scenario.requests \ sent
    /\ r.dest = "unique" => \E c \in Calls : Plan[c].method = "Hello" /\
          (answer[c].body = "string" \/ \E i \in DOMAIN inbound :
               inbound[i].type = "reply" /\ inbound[i].of = c /\ inbound[i].body = "string")
    /\ Deliver([type |-> "call", request |-> r])
    /\ sent' = sent \cup {r}
    /\ due' = IF Owed(r) THEN due \cup {r} ELSE due
    /\ UNCHANGED <<scenario, calling, objects, reader, served, asked, peer, told, refs>>

PeerSignals ==
    /\ peer = "open" /\ scenario.signals /\ inbound = <<>>
    /\ Deliver([type |-> "signal"])
    /\ UNCHANGED <<scenario, calling, serving, asked, peer, told, sent, refs>>

PeerBreaks ==
    /\ peer = "open" /\ scenario.garbage /\ reader.at # "ended"
    /\ \A i \in DOMAIN inbound : inbound[i].type # "garbage"
    /\ Deliver([type |-> "garbage"])
    /\ UNCHANGED <<scenario, calling, serving, asked, peer, told, sent, refs>>

PeerCloses ==
    /\ peer = "open" /\ scenario.closes
    /\ peer' = "closed"
    /\ asked' = {}
    /\ UNCHANGED <<scenario, calling, serving, inbound, told, sent, refs>>

----------------------------------------------------------------------------

StartCall(c) == /\ refs > 0 /\ Plan[c].by = "task"
                /\ call_method(c)
                /\ UNCHANGED <<scenario, serving, remote, refs>>

ClientNext ==
    \/ \E c \in Calls : \/ StartCall(c) \/ write_message(c) \/ await_reply(c) \/ Timeout(c)
                        \/ bus_hello(c) \/ HandlerCalls(c) \/ PeerAnswers(c)
    \/ scenario.signals /\ send_no_reply
    \/ \E p \in Paths, i \in Interfaces : register(p, i) \/ unregister(p, i)
    \/ handle_incoming \/ HandlerReturns \/ ReaderEnds
    \/ dbus_connection_ref \/ dbus_connection_unref
    \/ \E r \in Requests : PeerCalls(r)
    \/ PeerSignals \/ PeerBreaks \/ PeerCloses

\* Tasks and the reader are scheduled; timers fire; the peer answers what it was asked.
ClientFairness ==
    /\ \A c \in Calls : WF_clientVars(write_message(c) \/ await_reply(c) \/ Timeout(c)
                                     \/ bus_hello(c))
    /\ WF_clientVars(\E c \in Calls : PeerAnswers(c))
    /\ WF_clientVars(handle_incoming \/ HandlerReturns \/ ReaderEnds)

----------------------------------------------------------------------------
(* Properties. *)

\* An answer reaches the call it answers, whatever is dropped at a timeout, answered late
\* or out of order, or registered meanwhile, unless the serials have come around between
\* the two calls.
AnswerGoesToItsCall ==
    \A c \in Calls : answer[c] # NoAnswer =>
        \/ answer[c].of = c
        \/ nth[c] - nth[answer[c].of] >= SerialRange - 1

\* The reader waits for a handler that waits for an answer only the reader can bring.
Stuck == reader.at = "handler" /\ reader.call # "none" /\ state[reader.call] = "written"

\* Every call returns: with its answer, or with an error when the connection is lost.
\* Those that do not have no timeout, and either wait behind a handler that calls over
\* its own connection, or were made on a connection whose reader had already ended.
CallsReturn ==
    \A c \in Calls :
        state[c] \in {"registered", "written"} ~>
            \/ state[c] \in Over
            \/ ~Plan[c].timed /\ (Stuck \/ c \in late)

\* A call to this client is answered once at most, and one that the peer makes without
\* naming a destination, or to the unique name after a message that tells it that the
\* client knows it, is answered.  It goes unanswered only if the peer closes or breaks the
\* connection, the reader waits for itself, or no handle of the connection is left.
CallsServed ==
    \A r \in Requests :
        /\ [](served[r] <= (IF r.no_reply THEN 0 ELSE 1))
        /\ r \in due ~> \/ served[r] = 1
                        \/ peer = "closed" \/ reader.at = "ended" \/ Stuck \/ refs = 0
=============================================================================
