# OxiBus: TLA+ specifications

OxiBus is a D-Bus daemon, client library and tool set in Rust. These modules
specify the parts of it whose correctness depends on the order of events: who
owns a bus name, what clients are told about it, who is let in, how the two ends
of a new connection authenticate, how the bus carries a message from one client to
another, how messages are encoded and written to a socket that several tasks
share, and how a client, in Rust or through the libdbus functions, calls and is
called. TLC checks them on small instances
(`tlc -config X.cfg M`); TLAPS proves the most important properties for every
value of the constants (`tlapm M.tla`). `PROJECT.json` lists components, runs,
the code behind each definition, findings, hazards and theorems.

## The system

| Component | State | Operations | Modelled in |
|---|---|---|---|
| Name registry (`oxibus-daemon/registry.rs`, driven by `driver.rs`) | connections map, ownership queue per name, next unique name | Hello, RequestName, ReleaseName, departure, queries | `NameRegistry`, `NameOwnership` |
| Driver signals and replies (`dispatch.rs`) | per handler task: changes still to announce, snapshot of connections; match rules per connection | broadcast of NameOwnerChanged, NameAcquired and NameLost, reply | `NameSignals` |
| Admission (`connection_handler.rs`, accept loop in `main.rs`) | handler tasks, counter of incomplete connections, authentication timer | accept, the two limits, handshake, timeout, end of the task | `Admission` |
| SASL (`oxibus-auth`, driven by `connection_handler.rs` and `oxibus-client`) | server and client state machines, lines in flight | AUTH, DATA, CANCEL, ERROR, BEGIN, NEGOTIATE_UNIX_FD | `Sasl` |
| Message routing (`dispatch.rs`, `driver.rs`) | per handler task: the message it works on and where it is with it; what is in each client's socket; monitors | method calls, replies, signals to one and to all, copies for monitors, the bus's own calls, errors | `Routing` |
| Match rules (`match_rules.rs`) | parsed rules per connection | parse, match | `MatchRules`, used by `Routing` |
| Policy (`policy.rs`, reload in `bus.rs`) | rules in four contexts | read directories, can_own, can_send, can_receive, reload | `Policy`, used by `Routing` |
| Activation (`activation.rs`, `driver.rs`) | callers that wait for a service | spawn, poll for the owner, time out | `Routing` |
| Wire framing (`oxibus-transport`) | partly written messages, read buffer, pending descriptors | write in pieces, read a frame, cancel | `Wire`, `Letters` |
| Message format (`oxibus-core`) | none | signatures, marshal, unmarshal, headers, builders, validate | `MessageFormat`, used by `Letters` |
| Client connection (`oxibus-client`) | serials, pending calls, reader task, object server, handles | call, reply, time out, dispatch, register, close | `ClientConnection` |
| libdbus functions (`oxibus-libdbus-compat`) | C messages, the call the program is blocked in | build, append, send, blocking call, unref | `LibDBus`, extends `ClientConnection` |
| Cookie keyring (`oxibus-auth/keyring.rs`) | key file, temporary file, lock | load, best key, add, save, look up | `Keyring` |
| Configuration, start-up, credentials, AppArmor, audit, statistics, tools | | operating-system calls, file formats, output | not modelled (see below) |

How they interact: the accept loop spawns one handler task per socket
(`Admission`), which runs the handshake (`Sasl`), gives the connection a unique
name and enters it into the registry (`NameRegistry!Connect`), then reads
messages one at a time. Calls to `org.freedesktop.DBus` change the registry and
return change events, which the same task broadcasts before it answers
(`NameSignals`). Other messages are routed to the connection that owns their
destination (`Routing`): each handler task asks the policy and the match rules,
may wait for a service to start, and writes into the receiver's socket (`Wire`)
before it takes its own client's next message. At the other end a client's reader
task hands answers to the calls that wait and runs the handlers of calls that come
in (`ClientConnection`, `LibDBus`). Both ends of a cookie handshake read the same
key file (`Keyring`).

What is hard about it:

* The daemon runs on a single-threaded executor (`main.rs`): code between two
  awaits is atomic, and every await, a socket write included, lets any other task
  run. Registry operations have no await; announcing their outcome has many.
* Limits are checked at one moment and used up at another, with a handshake in
  between.
* Peers may be slow, silent, gone, or say anything. A handler waits for the
  receiver's socket while its own client waits for the handler.
* Decisions are taken before an await and carried out after it: permission to send,
  the owner of a name, the snapshot of a broadcast.
* A writer has no lock and a write may be dropped half way; descriptors travel
  beside the bytes they belong to.
* A client's reader task runs user code that may call over the connection it reads.
* The key file is read without the lock that guards its being written.
* A queue of owners has to survive every sequence of requests, replacements,
  releases and departures, with flags remembered from earlier requests.

## Modules

**`NameRegistry`** is the registry with its callers in the driver. Unique name
`:1.k` is the number `k`; `names` maps a bus name to its queue, the owner first,
as `NameOwnership.queue` in the code. One action per operation; `RequestName`
has one disjunct per outcome of `request_name` (free, already owner, replaced,
EXISTS, queued). Each step leaves what the code returns in `reply` and `changes`.
Policy, AppArmor and argument errors may refuse any request (`RefuseRequest`).
`Connect` is bounded by `MaxId` unique names.

**`NameOwnership`** is what the registry promises, without queues: an owner, a
set of waiting clients, and who is willing to be replaced. `NameRegistry`
implements it under the mapping `owner`, `waiting`, `willing`
(`ImplementsPromise`).

**`NameSignals`** extends `NameRegistry` with the handler tasks. A task takes up
a call, runs the registry action as part of the same step, and then goes through
`broadcast_name_owner_changes` and `finish_driver_reply`. `running` is the task
that has the thread; `Await` gives it up at each socket write, `Write` is the
write and the task's resumption. A broadcast walks the snapshot of connections it
started with and looks at each connection's match rules when it gets there. Of
the clients the module keeps what they conclude: `mine`, names they were told they
acquired and not lost, and `belief`, the owner by the last NameOwnerChanged. A
write always succeeds: back-pressure belongs to the routing module. `raced` records
names that changed while an earlier change was still being announced.

**`Admission`** follows a socket through `handle_connection`. Everything up to
the handshake is one step (`Begin`); the handshake is lines, success, failure and
a timer; after it the connection is open until its read loop ends, and the task
ends when the departure is announced. `Guarded` is the set of tasks that hold an
`IncompleteGuard`: the guard is a local of `handle_connection` and so lives to its
end. `overlapped` records users that had two handshakes at a time.

**`Sasl`** is `ServerAuth` with `run_sasl_handshake` on one side and, on the
other, either `ClientAuth` with `handshake` or an arbitrary peer. Each action
reads one line and sends what the code sends. Hex, hashing and the keyring are
abstracted to their outcomes; a cookie response is right for exactly one
challenge.

**`Routing`** has one record `task[c]` per connection: `pc` says at which await
the handler of `c` is, `m` which message it works on, `to`, `todo` and `left` what
that step needs. `dispatch_incoming` is everything up to the first await: the copies
for monitors (each written by a task of its own, `copies`), the sender's policy,
AppArmor, the look-up of the owner, the decision to activate. The other actions go
from await to await: `deliver_to_owner` (the receiver's policy, the one in force by
then), the writes, the connections of a broadcast's snapshot one by one, the turns
of the polling loop. A socket to a client is `got`, everything written, of which the
client has read `nread`; a write needs room or a client that is gone. Names have an
owner or none here; the queues are in `NameRegistry`. `since`, `held`, `now` and
`age` are history the properties need.

**`Policy`** and **`MatchRules`** are operators: reading directories of TOML and XML
files into rules, running them in the order of `applicable`, parsing and matching
rules. Patterns and paths are sequences of the pieces they are compared by.

**`MessageFormat`** is `oxibus-core` on buffers of cells, one cell a byte: a number
is a cell with its width and byte order and fillers, the text of a string is a
token, of which one stands for the texts with a NUL inside, so every offset, length,
padding byte and limit is the code's. Readers return
a value and a position or an error, as in the code.

**`Wire`** is one direction of a socket. What is written are letters: a message as its
reader meets it, in so many pieces, with the length its prefix tells, what it decodes
to, its descriptors, and what its sender meant. A frame is cut where the reader decides:
in the 16-byte prefix, after it, after the fields, after the body. A writer puts as
many pieces as the socket takes; another writer may come in between; a call dropped
at its timeout drops its write. The reader fills its buffer, reads the length,
takes the frame and the descriptors it declares. What bytes of mixed messages decode
to is left open (`Garbled`, `ReadAstray`). `mixed` records that it happened. A reader
that failed keeps the socket open until its owner closes it, which the daemon does and a
client, whose other tasks hold a `Writer`, need not. `Wire`
needs of the format only `IsFrame`; **`Letters`** works out the letters of given messages
with `MessageFormat`, and TLC evaluates `IsFrame` on each of them (`WireAssumption`).

**`Keyring`** follows cookie handshakes through load, `best_key` (with its lock that
is let go before the file is read again), `add_new_key`, the save under the lock, the
client's look-up and the server's second one. `Crash` ends a process with its
handshakes; `SaveFails` is a full disk. `raced` records a save that undid another.

**`ClientConnection`** follows each call through its serial, registration, write and
wait; `reader` is the reader task, which is inside a handler while one runs. The task
that called Hello stores the name in a step of its own (`bus_hello`), after the reader
has gone on; `told` records that the peer got a message written since. The
peer is external: it answers what it was asked once, in any order, and may call,
signal, send something unreadable or close. **`LibDBus`** adds the C program: messages
behind pointers, `take_outgoing`, the two ways to send, and what they return.

The theorems are in **`NameProofs`** (`NameRegistry`, the refinement of `NameOwnership`,
`NameSignals`), **`AdmissionProofs`**, **`SaslProofs`**, **`PolicyProofs`**,
**`RoutingProofs`**, **`WireProofs`**, **`KeyringProofs`** and **`ClientProofs`**
(`ClientConnection` and `LibDBus`).

Definitions named `X_Something` before a definition `X` are plausible faults of
the code behind `X`. Replacing `X` by one of them must break the property
`PROJECT.json` lists with it; nothing else uses them.

## Runs

| Run | Instance | What it shows |
|---|---|---|
| `queue` | 1 name, 4 connections | Queues are well formed, first come first served, nobody waits who asked not to; owners yield only by release, departure or consent; answers tell the caller's place; `NameOwnership` is implemented |
| `names` | 3 names, 2 connections, 2 names each | Departures give up every place, the limit on names holds, change events are exact |
| `signals` | 1 name, 2 connections | Views are right once everything about a name is announced, if its changes are announced one at a time; PRIMARY_OWNER comes after NameAcquired |
| `racing` | as `signals` | **Violated**: without that proviso a client may keep a wrong view |
| `admission` | 4 sockets, 2 users, limits 3 and 2, timeout 2 | The counter balances on every path; users whose handshakes do not overlap stay within their limit; every handshake ends |
| `refusals` | 3 sockets, limit 2 | **Violated**: sockets are refused as "incomplete" because of complete connections |
| `per_user` | 3 sockets, limit 1 | **Violated**: overlapping handshakes exceed the limit per user |
| `sasl` | all configurations, 4 failures | BEGIN is earned, no challenge counts twice, both sides agree, the client settles, EXTERNAL connects |
| `routing` | 3 connections, 2 names, 12 scenarios | A call is delivered once at most, answered once at most and never forgotten (`AnsweredOnce`); a broadcast comes once, also to a connection that becomes a monitor meanwhile (`OneCopyEach`); what arrives was allowed by policies in force while it was under way, and came to an owner of its destination (`DeliveredRightly`); a service that appears in time is found (`PromptServiceIsFound`); the policy in force answers questions of each kind as its files do (`PolicyFollowsPrecedence`); handlers do not wait for each other for ever (`HandlersComeBack`) |
| `wire` | 2 writers, 15 scenarios | Unless writes mix, messages arrive in order, unchanged and with their own descriptors, and the reader fails only at what it must refuse (`UnmixedReadsIntact`); what was accepted can be stamped, encoded anew and read again, but for a missing field, a NUL, fields or a message that outgrow their limit (`ForwardedIntact`); writes end unless the peer keeps its end open and does not read (`WritesEnd`) |
| `keyring` | 3 handshakes, 2 processes | The key file is never torn (`KeyringTypeOK`); a handshake carried through in time succeeds unless a save undid another (`PromptHandshakesSucceed`) |
| `client` | 5 calls, 5 requests, 6 scenarios | Answers reach their calls until serials come around (`AnswerGoesToItsCall`); calls return but for two kinds that hang (`CallsReturn`); requests are answered once at most, and those to this client are answered from when the peer can know that the client knows its name (`CallsServed`); a C message goes out once (`SentOnce`) |

Bounds. Four connections give a name an owner and three waiting, enough for a
replacement by a waiting connection with another ahead of it and one behind it.
Two connections and three names are enough for one departure to release owned and
queued names together and for the limit to be reached in every mix. In `signals`
a second connection that watches, competes and leaves while the first announces
exercises every await; `VIEW` drops the two output variables, which no later step
reads. In `admission` there is one socket more than the limit on incomplete
connections, and one user can reach its limit below it. Four failures in `sasl`
are more than the client has mechanisms, as the six in the code are.

`routing`: each scenario is a set of messages, each sent once, the clients that may
go away, the number of policy reloads and the policy directories. Between them they
have two callers of a service that starts, stops or fails to start while the policy
changes; a broadcast while a receiver subscribes, becomes a monitor or leaves; rules
added to the limit and removed; documents of two policy elements in every
combination. `Room` 1 makes every second write wait; `Timeout` 2 gives a turn that
finds nothing, one that may find the owner, and the deadline. AppArmor lets c1
neither hear nor call c3.

`wire`: a socket of three pieces is smaller than a frame of four, so every message
can be cut anywhere, and two frames can be in it in part. The limits of the format
are small enough for messages on both sides of each. Foreign messages are in the
other byte order and include unknown fields, fields of the wrong type, undeclared
and missing descriptors, strings with a NUL inside in the body, in a field and in a
path, a sender that the bus replaces, fields that are just short enough without a
sender, and a message of exactly the largest size.

`keyring`: keys are handed out for one unit of time and kept for two, two units pass,
and there are as many ids as keys can be in the file at a time. Two handshakes share
a process, hence a temporary file, and a third is in another.

`client`: serials are 1, 2, 3 and then 1 again, and four are taken, so one call can
meet an answer to a call a whole round earlier. Requests come without a destination, to
the unique name before and after the name is stored, to a well-known name, without a
path, and without asking for an answer. Two C messages are enough for one to
be sent twice and for one to answer what came in.

Runs that
hand out a bounded number of unique names, or in which a handshake ends, may stop,
so they do not check for deadlock, and neither do the runs whose scenarios end;
`admission` does.

Fairness. Safety properties assume none. `admission` assumes that time passes,
that spawned tasks run and that expired timers are acted on, which tokio
guarantees as long as no task keeps the thread; nothing is assumed of the peer.
`sasl` assumes that the server and the repository's client go on reading when
there is something to read. In `signals` nothing is assumed about the end of an
announcement, because the code sets no limit on how long a write may take.
`routing` assumes that tasks that can go on do, that timers fire and that clients
keep reading; a client that stops reading blocks every handler that writes to it,
for as long as it keeps its end open. `wire` makes no assumption about the peer and
says so in the property: a write ends, or the peer keeps its end open and does not read
from some time on, because it does not want to or because its reader failed. `client`
assumes that the runtime runs tasks, timers and the reader, and that the peer answers
what it was asked while it is open. `keyring` states safety only.

## Findings

1. `racing`. `broadcast_name_owner_changes` awaits every write. While A's task
   announces that A owns a name, B can replace A, and B's task can be the first to
   reach A's socket: A reads NameLost, then NameAcquired, and believes to own the
   name for good. The reference daemon queues the signals of a change for all
   receivers before it handles the next request.
2. `refusals`. `IncompleteGuard` is meant for connections in the handshake but is
   held to the end of the connection, so `max_incomplete_connections` (64) is the
   limit on all connections, and `max_completed_connections` (100 000) can never
   be reached.
3. `per_user`. The count per user is taken before the handshake and the
   connection enters the map after it, so overlapping handshakes pass together.
4. `client`, `SentOnce`. The refusal of a blocking send promises to cover a message
   that "has already been sent". `take_outgoing` leaves the kind in place, so the
   second send passes that test and fails at the missing path, with NULL and no
   DBusError.

What the properties except, because the code does it and says nothing else:

* A handler that calls over its own connection without a timeout waits for ever,
  since the reader that would bring the answer is waiting for it; a call made after
  the reader has ended waits for ever too (`CallsReturn`).
* A call to the unique name that arrives before the task that called Hello has stored
  the name is dropped without an answer, and so is one to a well-known name, or without
  a path or a member. `CallsServed` asks for an answer to complete calls without a
  destination, and to those to the unique name that the peer makes after it got a message
  written with the name stored.
* A connection whose last handle is dropped goes on reading and serving until the peer
  closes: the reader task owns the transport and is only detached. The comment on
  `dbus_connection_close` says that "the connection tears down when the last reference is
  unref'd". The model does what the code does, and `CallsServed` asserts nothing of calls
  to such a connection but that each is answered once at most.
* A client whose reader task has failed keeps the socket open as long as a task holds its
  `Writer`, so the other end's write waits for ever once the socket is full (`WritesEnd`).
* A message with a NUL inside a string is read and cannot be written again
  (`unmarshal.rs` does not look for it, `marshal.rs` does), and neither can one whose
  fields outgrow an array with the sender added; one that the sender makes larger than
  `max_message_size` is written and refused by its receiver (`ForwardedIntact`).
* Messages whose writes mix, and all that follow them, are garbled; so is everything
  after a write that was dropped half way (`UnmixedReadsIntact`).
* A frame that declares fewer descriptors than it brought leaves them to the next one
  (`HonestUpTo` stops there).
* Two saves of the key file that both started from the same contents lose one key
  (`raced`).

## Theorems

`PROJECT.json` lists them. Each holds for every value of the constants that meets the
assumptions of its module, and TLC evaluates those assumptions on every run:

* `NamesAssumption`, `BoundsAssumption`: bus names are not unique names; the bounds and
  the limit on names are natural numbers.
* `SocketsAssumption`, `LimitsAssumption`: finitely many sockets, limits are numbers,
  the timeout is not zero.
* `MaxFailuresAssumption`: the server tolerates at least one failure.
* `KeyringAssumption`: keys are handed out for a shorter time than they are kept, as the
  code's 300 s and 420 s; a key file found at the start has every id once.
* `ClientAssumption`, `LibAssumption`: there are at least two serials; what the calls of
  the plan are.
* `WireAssumption`: a socket holds something; every letter is one that cannot be encoded
  or a frame: it is cut in two to four pieces, a prefix that can be read tells its length,
  it is refused exactly if its prefix or its contents cannot be read, and otherwise reads
  as it was meant. The last part is what the format promises; on the letters of the run it
  is checked on the real encodings, undeclared and missing descriptors included.
* `RoutingAssumption`: what a scenario may hold: policy files are lists of rules and of
  tags, questions are of one of three kinds; every message has its own id and the
  fields of a message, was stamped with one sender, and calls of StartServiceByName and
  AddMatch have their one argument (without it `arg_str` answers with an error at once;
  such calls are not among the scenarios).

How they are proved:

* **Registry, queues** (`NameProofs`). `TypeOK`, `QueuesWellFormed`,
  `HoldersAreLive` and `WaitersAgreedToWait` are proved together as `IInv` (types, and
  every queue is a `GoodQueue` of registered connections), since each operation needs
  the old queue to be good to produce a good one: `request_name` removes the first entry
  after dropping the caller's, which is right only because the caller has at most one
  place and it is not the first. The work is in `RetainFacts`, what `Vec::retain` does
  to a queue; `Retain` is a recursive function, and its facts are shown by a least
  counterexample (`LeastNat`).
* **Registry, promises** (`NameProofs`). From `IInv`, what each operation does to
  a queue, seen by who is first, who waits and in which order: `RetainExact` and
  `RetainOutside` for a client that goes, `JoinedOutside`, `ClaimOutside` and
  `ReplacedOutside` for the outcomes of a request. From these `ChangesAreExact`, `OwnerYieldsInTurn`,
  `WaitersKeepOrder` and `ReplyTellsPlace` follow step by step, and `ImplementsPromise`:
  an initial state maps to an initial state of `NameOwnership`, and each step to a step
  of it or to a stutter. `NamesWithinLimit` needs `LimitInv`: a connection has a place
  in at most `MaxNames` queues, and only `RequestName` of a name it has no place for
  adds one (`HeldCount`, with the cardinality theorems).
* **Signals** (`NameProofs`). A step of `NameSignals` is a step of the registry or
  leaves it alone (`CallsAreRegistrySteps`), so the registry's theorems carry over.
  `SignalsInv` says where a task can be (`Placed`), that the thread belongs to the one
  task that works and does not wait (`ThreadOK`), that a connection without Hello was
  told nothing (`FreshOK`), and of every name without a race (`NameOK`): at most one
  change of it is to be announced, in one place of one task; without one every view is
  right; with one, the views are what the task has told so far (`Claimants`: who believes
  to own the name at each stage; `Heard`: which watchers know). Without the last part
  `UnracedViewsSettle` is not inductive: the views are wrong while a change is announced.
  `ReplyFollowsSignals` rests on `Answering`: a task that will say PRIMARY_OWNER has that
  change alone to announce, and cannot lose its name in between because only the task
  with the thread writes. `OrdersFacts` shows that any order in which the events may be
  announced has each of them once.
* **Admission** (`AdmissionProofs`). `AdmissionTypeOK`, `GuardsBalance` and
  `SequentialUsersWithinLimit`, for any number of sockets and users and any limits.
  Every action leaves the set of guards alone, adds one below the limit or removes one
  (`GuardStep`), and the counter follows its cardinality. For a user that is not marked
  as overlapping, a step shrinks its claims or adds one to a count below the limit
  (`ClaimStep`).
* **SASL** (`SaslProofs`). `ServerInv` gives `BeginIsEarned` and `NoChallengeTwice`
  against any peer: the mechanism whose data is awaited is one the bus admits, and the
  awaited challenge is not among those an OK was given for. `SaslTypeOK` bounds the
  challenges by the failures, which needs `ChallengesPaid`: each challenge but the one
  awaited or last answered has cost a failure. `BothSidesAgree` rests on `Lockstep`, the
  few combinations of the client's state, the server's and the lines in flight.
* **Routing** (`RoutingProofs`). `RouteInv` says of a handler at each await what it has
  established: whose message it has (`KindAt`), that every owner of the destination since
  is in `held` (`HeldAt`), that a policy in force since let the sender through (`SendAt`),
  and that what is about to be written was let through on both sides (`WriteAt`); of the
  polling loop, that a name that appears grows no older than a poll (`PollAt`).
  `DeliveredRightly` and `PromptServiceIsFound` are consequences. `OneCopyEach` and
  `AnsweredOnce` follow one message: every action is one of nine kinds of steps
  (`MessageStep`), and each kind keeps `BroadcastsOK` (a connection still in the snapshot
  has seen the broadcast only as a monitor) and `CallsOK` (a call is in one place, and
  its ends so far agree with that place). `RoutingTypeOK` adds `LimitsOK`: one owner per
  name and the limit on match rules, which holds for connections that are not monitors
  (BecomeMonitor sets its rules without the check). What `RemoveMatch` leaves of the
  rules, `WithoutRule`, is again a recursive function treated with `LeastNat`.
* **Policy** (`PolicyProofs`, and `PolicyIsItsFiles` in `RoutingProofs`). The files have
  their own reading: the statements of all files, each with its file and its place
  (`AllStatements`), of which the one in the highest context, and there the last, decides
  (`LastWord`). The code gets there in four loops: over the tags of a document with the
  context last opened, over the files, over the rules into four lists by context, and over
  the chain of these lists with the last verdict kept. `Lists(s, W, O)` says that a sequence
  lists the statements W in the order O, each once. Each loop is shown to produce such a
  list (`ParseLists`, `AllFilesList`, `InContextLists`, `ApplicableLists`), by a least
  counterexample over its table, and the last rule that is about the question is then the
  statement that outweighs the others (`VerdictIsLast`, `PermitsIsLastWord`). In `Routing`,
  `LoadedOK` says that the rules in force are those of the directories last loaded; a
  reload that fails keeps both (`LoadedStep`).
* **Wire** (`WireProofs`). `PiecesInv` holds in any case: pieces in the buffer and the
  socket were written by their writer before the place it is at now (`AllWritten`), in its
  order (`Ordered`), no write begins twice (`BegunOK`), and descriptors sit on first pieces
  (`Attached`). `UnmixedInv` adds, while nothing is mixed and the reader reads, that buffer
  and socket together are a `Line`: whole frames in the order in which their writes began,
  from the first that was not read, of which only the last may be cut short, where the
  write in progress is; and that the pending descriptors are those of the frames that start
  in the buffer, if all frames read so far declared theirs (`Pending`). Without `Line` the
  property is not inductive: a reader that has part of a frame knows nothing of the rest.
  A write adds to the end of the line (`WriteLine`), a recvmsg moves the border between
  buffer and socket (`FillLine`, `FillPending`), reading a frame takes it and its
  descriptors off the front (`RestIsLine`, `OwnDescriptors`). The descriptors rest on what
  `FlattenSeq` does to two sequences one after the other (`FlatConcat`).
* **Keyring** (`KeyringProofs`). `KInv`: the lock is held by the one handshake that is
  saving, and the temporary file of its process holds what it wrote (`Saving`), whence
  the file is whole and has each id once; a saver has its new key and all that is young
  of the file it read (`AddingAt`); a key handed out is in the file while it is young
  unless a save undid another (`StillThereAt`), whence `PromptHandshakesSucceed`.
* **Client** (`ClientProofs`). `ClientInv`: the next serial is as far from a call's
  serial as serials have been taken since (`Distance`), so two calls with one serial are
  a whole round apart (`Apart`), and what is registered for a serial is the last call
  that took it (`LastWaits`); `AnswerGoesToItsCall` follows for every range of serials.
  `LibInv`: a C message that still has its contents was never handed over, and no two
  pointers are to one message; `SentOnce` follows.

Checked by TLC only:

* the liveness properties (`HandshakesEnd`, `ClientSettles`, `ExternalConnects`,
  `HandlersComeBack`, `WritesEnd`, `CallsReturn`, `CallsServed`): liveness under
  fairness is out of the prover's reach;
* `ForwardedIntact`, and with it that the format meets `IsFrame`: `MessageFormat` is
  recursive, as the format is; what a recursive definition makes of every value needs an
  induction over data, and the prover cannot be used on a module that reaches a RECURSIVE
  operator. TLC evaluates both on the messages of the run, which are on both sides of each
  limit of the format.

Every other property of a passing run is stated by a theorem.

## Not modelled

* Texts at the level of characters: the tokenizers of match rules and XML, object
  path and UTF-8 syntax, addresses, hex, introspection documents. The modules start
  from what the tokenizers deliver.
* TOML and the configuration: limits are constants.
* Start-up, privileges, pid file, listening sockets, the launch helper: sequences of
  operating-system calls in one process. Of AppArmor and identities, the answers.
* Read-only accessors and iterators of the libdbus functions, `DBusError` moves.
* Broadcast channels from the reader to subscribers of signals: a lagging subscriber
  loses messages by their design.
* Statistics, audit, logging, the command-line tools: output only.
* Clocks that go backward; descriptors that run out.

## What could be added

1. Theorems for the operators of `MatchRules` against a reading of the rule's text, as for
   `Policy`: parsing and matching are used by `Routing` and so far only exercised by its run.
2. The launch helper and systemd activation, once they have state of their own; now they
   are one call of the operating system (`spawn`).
3. A bound on the time a write may take, in the code: `HandlersComeBack` and `WritesEnd`
   could then do without their provisos about peers that stop reading.
