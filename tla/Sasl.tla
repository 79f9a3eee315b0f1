-------------------------------- MODULE Sasl --------------------------------
(***************************************************************************)
(* The handshake before a connection: the server's state machine            *)
(* (oxibus-auth server.rs, driven by run_sasl_handshake) against either the *)
(* repository's own client (client.rs, driven by handshake of               *)
(* oxibus-client) or any other peer, which may send any line at any time.   *)
(*                                                                          *)
(* A line is its command with what the receiver tells apart of the rest: a  *)
(* mechanism, what kind of data it carries, and the number of the challenge *)
(* the data belongs to.  Hex coding and hashing are abstracted to whether   *)
(* they succeed.  A cookie response is right for one challenge only.        *)
(***************************************************************************)
EXTENDS Integers, Sequences, FiniteSets

CONSTANT MAX_FAILURES   \* server.rs, 6 there

ASSUME MaxFailuresAssumption == MAX_FAILURES \in Nat \ {0}

VARIABLES
    \* the configuration of a behaviour, never changed
    allowed,          \* allowed_mechanisms of the bus
    allow_anonymous,
    same_user,        \* the peer's uid is the daemon's
    ours,             \* the peer is the repository's client
    mechs,            \* its mechanisms, in the order it tries them
    want_unix_fd,
    \* ServerAuth
    state, mechanism, challenge, failures, unix_fd_negotiated, uid,
    issued,           \* challenges handed out so far
    \* ClientAuth and the function that drives it
    client, tried, answered,
    \* the socket, and what was said on it
    to_server, to_client,
    verdict,          \* the last of OK and REJECTED the server sent
    spent             \* challenges an OK was given for

config == <<allowed, allow_anonymous, same_user, ours, mechs, want_unix_fd>>

server == <<state, mechanism, challenge, failures, unix_fd_negotiated, uid,
            issued, verdict, spent>>

clientVars == <<client, tried, answered>>

saslVars == <<config, server, clientVars, to_server, to_client>>

-----------------------------------------------------------------------------
(* Lines *)

Mechanisms == {"EXTERNAL", "DBUS_COOKIE_SHA1", "ANONYMOUS"}

Commands == {"NUL", "AUTH", "DATA", "CANCEL", "ERROR", "BEGIN",
             "NEGOTIATE_UNIX_FD", "other"}

\* none: no data at all; junk: not decodable, or neither a uid nor a response.
\* DATA without data is DATA with empty data; only AUTH tells the two apart.
DataKinds == {"none", "empty", "own_uid", "other_text", "junk", "response"}

Line(cmd, m, kind, n) == [cmd |-> cmd, mech |-> m, kind |-> kind, n |-> n]

Word(cmd) == Line(cmd, "unknown", "none", 0)

\* What any peer may say: a response to any challenge it has seen, too.
PeerLines ==
    {Word(cmd) : cmd \in Commands \ {"DATA"}}
      \cup {Line("AUTH", m, k, 0) : m \in Mechanisms, k \in DataKinds \ {"response"}}
      \cup {Line("DATA", "unknown", k, 0) : k \in DataKinds \ {"none", "response"}}
      \cup {Line("DATA", "unknown", "response", n) : n \in 1 .. issued}

\* The lists of mechanisms a client may be given: each at most once.
MechanismLists ==
    {s \in UNION {[1 .. k -> Mechanisms] : k \in 1 .. Cardinality(Mechanisms)} :
        \A i, j \in DOMAIN s : s[i] = s[j] => i = j}

SaslInit ==
    /\ allowed \in SUBSET Mechanisms
    /\ allow_anonymous \in BOOLEAN
    /\ same_user \in BOOLEAN
    /\ \/ /\ ours = TRUE
          /\ mechs \in MechanismLists
          /\ want_unix_fd \in BOOLEAN
       \/ /\ ours = FALSE
          /\ mechs = << >>
          /\ want_unix_fd = FALSE
    /\ state = "nul" /\ mechanism = "unknown" /\ challenge = 0
    /\ failures = 0 /\ unix_fd_negotiated = FALSE /\ uid = "unknown"
    /\ issued = 0 /\ verdict = "none" /\ spent = {}
    /\ client = "start" /\ tried = 0 /\ answered = FALSE
    /\ to_server = << >> /\ to_client = << >>

-----------------------------------------------------------------------------
(* The server *)

\* A line for the client; nobody keeps what another peer does not read.
Send(l) == to_client' = IF ours THEN Append(to_client, l) ELSE <<l>>

Keep == UNCHANGED <<mechanism, challenge, failures, unix_fd_negotiated, uid,
                    issued, verdict, spent>>

\* Mutants: a rejection does not go back to waiting for AUTH; the failures are
\* counted but never too many.
rejected_KeepsState ==
    /\ failures' = failures + 1
    /\ verdict' = "REJECTED"
    /\ IF failures' >= MAX_FAILURES
       THEN state' = "dead" /\ UNCHANGED to_client
       ELSE UNCHANGED state /\ Send(Word("REJECTED"))
    /\ UNCHANGED <<mechanism, challenge, unix_fd_negotiated, uid, issued, spent>>

rejected_NoLimit ==
    /\ failures' = failures + 1
    /\ verdict' = "REJECTED"
    /\ state' = "auth"
    /\ Send(Word("REJECTED"))
    /\ mechanism' = "unknown" /\ challenge' = 0 /\ uid' = "unknown"
    /\ UNCHANGED <<unix_fd_negotiated, issued, spent>>

\* The state, and with it the mechanism, the challenge and the identity it
\* carries, is replaced.
rejected ==
    /\ failures' = failures + 1
    /\ verdict' = "REJECTED"
    /\ IF failures' >= MAX_FAILURES
       THEN state' = "dead" /\ UNCHANGED to_client
       ELSE state' = "auth" /\ Send(Word("REJECTED"))
    /\ mechanism' = "unknown" /\ challenge' = 0 /\ uid' = "unknown"
    /\ UNCHANGED <<unix_fd_negotiated, issued, spent>>

ok(who, how) ==
    /\ state' = "begin"
    /\ uid' = who
    /\ verdict' = "OK"
    /\ spent' = spent \cup how
    /\ mechanism' = "unknown" /\ challenge' = 0
    /\ Send(Word("OK"))
    /\ UNCHANGED <<failures, unix_fd_negotiated, issued>>

error ==
    /\ Send(Word("ERROR"))
    /\ UNCHANGED state
    /\ Keep

OwnUid(l) == l.kind \in {"empty", "own_uid"}

handle_external(l) ==
    \/ OwnUid(l) /\ ok("peer", {})
    \/ ~ OwnUid(l) /\ rejected

\* The keyring may be missing or unusable, whatever the peer says.
cookie_sha1_first_response(l) ==
    \/ /\ OwnUid(l) /\ same_user
       /\ state' = "data" /\ mechanism' = "DBUS_COOKIE_SHA1"
       /\ issued' = issued + 1
       /\ challenge' = issued'
       /\ Send(Line("DATA", "unknown", "challenge", issued'))
       /\ UNCHANGED <<failures, unix_fd_negotiated, uid, verdict, spent>>
    \/ rejected

\* Mutant: a response to any challenge of the connection will do.
RightResponse_AnyChallenge(l) == l.kind = "response" /\ l.n <= issued

\* The hash is over the challenge kept in the state.
RightResponse(l) == l.kind = "response" /\ l.n = challenge

cookie_sha1_second_response(l) ==
    \/ RightResponse(l) /\ ok("peer", {l.n})
    \/ rejected

\* c is the challenge of the state at the time: none right after AUTH.
dispatch_mechanism_data(m, c, l) ==
    \/ m = "EXTERNAL" /\ handle_external(l)
    \/ m = "ANONYMOUS" /\ ok("nobody", {})
    \/ m = "DBUS_COOKIE_SHA1" /\ c = 0 /\ cookie_sha1_first_response(l)
    \/ m = "DBUS_COOKIE_SHA1" /\ c # 0 /\ cookie_sha1_second_response(l)

Usable(m) == m \in allowed /\ (m = "ANONYMOUS" => allow_anonymous)

\* Data that is not hex is refused whatever the mechanism; data that is hex and
\* means nothing is left to the mechanism.  "junk" may be either.
handle_waiting_for_auth(l) ==
    \/ /\ l.cmd = "AUTH"
       /\ \/ ~ Usable(l.mech) /\ rejected
          \/ Usable(l.mech) /\ l.kind = "junk" /\ rejected
          \/ /\ Usable(l.mech)
             /\ l.kind = "none"
             /\ state' = "data" /\ mechanism' = l.mech /\ challenge' = 0
             /\ Send(Line("DATA", "unknown", "empty", 0))
             /\ UNCHANGED <<failures, unix_fd_negotiated, uid, issued, verdict, spent>>
          \/ /\ Usable(l.mech)
             /\ l.kind # "none"
             /\ dispatch_mechanism_data(l.mech, 0, l)
    \/ l.cmd = "ERROR" /\ rejected
    \/ l.cmd \notin {"AUTH", "ERROR"} /\ error

handle_waiting_for_data(l) ==
    \/ /\ l.cmd = "DATA"
       /\ \/ l.kind = "junk" /\ rejected
          \/ dispatch_mechanism_data(mechanism, challenge, l)
    \/ l.cmd \in {"CANCEL", "ERROR"} /\ rejected
    \/ l.cmd \notin {"DATA", "CANCEL", "ERROR"} /\ error

handle_waiting_for_begin(l) ==
    \/ /\ l.cmd = "BEGIN"
       /\ state' = "done"
       /\ UNCHANGED to_client
       /\ Keep
    \/ /\ l.cmd = "NEGOTIATE_UNIX_FD"
       /\ unix_fd_negotiated' = TRUE
       /\ Send(Word("AGREE_UNIX_FD"))
       /\ UNCHANGED <<state, mechanism, challenge, failures, uid, issued, verdict, spent>>
    \/ l.cmd \in {"CANCEL", "ERROR"} /\ rejected
    \/ l.cmd \notin {"BEGIN", "NEGOTIATE_UNIX_FD", "CANCEL", "ERROR"} /\ error

\* The leading NUL byte comes before every line.
read_initial_nul(l) ==
    /\ state' = IF l.cmd = "NUL" THEN "auth" ELSE "dead"
    /\ UNCHANGED to_client
    /\ Keep

ServerReads ==
    /\ to_server # << >>
    /\ to_server' = Tail(to_server)
    /\ LET l == Head(to_server)
       IN  \/ state = "nul" /\ read_initial_nul(l)
           \/ state = "auth" /\ handle_waiting_for_auth(l)
           \/ state = "data" /\ handle_waiting_for_data(l)
           \/ state = "begin" /\ handle_waiting_for_begin(l)
    /\ UNCHANGED <<config, clientVars>>

Talking == state \in {"nul", "auth", "data", "begin"}

\* handle_connection gives up after auth_timeout, or the peer is gone.
ServerGivesUp ==
    /\ Talking
    /\ state' \in IF client = "failed" THEN {"dead", "timeout"} ELSE {"timeout"}
    /\ Keep
    /\ UNCHANGED <<config, clientVars, to_server, to_client>>

-----------------------------------------------------------------------------
(* The repository's client *)

\* Mutant: AUTH carries no initial response.
begin_mechanism_NoData(i) == Line("AUTH", mechs[i], "none", 0)

begin_mechanism(i) ==
    Line("AUTH", mechs[i], IF mechs[i] = "ANONYMOUS" THEN "other_text" ELSE "own_uid", 0)

ClientSays(lines) == to_server' = to_server \o lines

Try(i, before) ==
    /\ client' = "wait"
    /\ tried' = i
    /\ answered' = FALSE
    /\ ClientSays(before \o <<begin_mechanism(i)>>)

ClientStarts ==
    /\ ours /\ client = "start"
    /\ Try(1, <<Word("NUL")>>)
    /\ UNCHANGED <<config, server, to_client>>

\* Mutant: the answer to NEGOTIATE_UNIX_FD is not waited for.
finish_lines_NoWait ==
    /\ client' = "done"
    /\ ClientSays(IF want_unix_fd THEN <<Word("NEGOTIATE_UNIX_FD"), Word("BEGIN")>>
                  ELSE <<Word("BEGIN")>>)
    /\ UNCHANGED <<tried, answered>>

finish_lines ==
    /\ client' = IF want_unix_fd THEN "agree" ELSE "done"
    /\ ClientSays(IF want_unix_fd THEN <<Word("NEGOTIATE_UNIX_FD"), Word("BEGIN")>>
                  ELSE <<Word("BEGIN")>>)
    /\ UNCHANGED <<tried, answered>>

ClientFails == client' = "failed" /\ UNCHANGED <<tried, answered, to_server>>

\* A challenge is answered once; the client's keyring may not know the cookie.
respond_to_cookie_challenge(l) ==
    /\ ~ answered /\ l.kind = "challenge"
    /\ answered' = TRUE
    /\ ClientSays(<<Line("DATA", "unknown", "response", l.n)>>)
    /\ UNCHANGED <<client, tried>>

handle_data(l) ==
    \/ /\ mechs[tried] # "DBUS_COOKIE_SHA1"
       /\ Try(tried, << >>)
    \/ /\ mechs[tried] = "DBUS_COOKIE_SHA1"
       /\ respond_to_cookie_challenge(l) \/ ClientFails

ClientReads ==
    /\ ours /\ client \in {"wait", "agree"}
    /\ to_client # << >>
    /\ to_client' = Tail(to_client)
    /\ LET l == Head(to_client)
       IN  \/ /\ client = "agree"
              /\ client' = "done"
              /\ UNCHANGED <<tried, answered, to_server>>
           \/ /\ client = "wait"
              /\ \/ l.cmd \in {"OK", "AGREE_UNIX_FD"} /\ finish_lines
                 \/ /\ l.cmd = "REJECTED"
                    /\ IF tried < Len(mechs) THEN Try(tried + 1, << >>) ELSE ClientFails
                 \/ l.cmd = "DATA" /\ handle_data(l)
                 \/ l.cmd = "ERROR" /\ ClientFails
    /\ UNCHANGED <<config, server>>

\* Mutant: a server that is gone is not noticed after BEGIN.
ClientLosesServer_NotAfterBegin ==
    /\ ours /\ client = "wait"
    /\ to_client = << >> /\ state \in {"dead", "timeout"}
    /\ ClientFails
    /\ UNCHANGED <<config, server, to_client>>

\* End of file, or a write to a closed socket.
ClientLosesServer ==
    /\ ours /\ client \in {"wait", "agree"}
    /\ to_client = << >> /\ state \in {"dead", "timeout"}
    /\ ClientFails
    /\ UNCHANGED <<config, server, to_client>>

-----------------------------------------------------------------------------
(* Any other peer *)

PeerSends ==
    /\ ~ ours /\ client = "start" /\ Talking
    /\ to_server = << >>
    /\ \E l \in PeerLines : to_server' = <<l>>
    /\ UNCHANGED <<config, server, clientVars, to_client>>

PeerLeaves ==
    /\ ~ ours /\ client = "start"
    /\ client' = "failed"
    /\ UNCHANGED <<config, server, tried, answered, to_server, to_client>>

SaslNext ==
    \/ ServerReads
    \/ ServerGivesUp
    \/ ClientStarts
    \/ ClientReads
    \/ ClientLosesServer
    \/ PeerSends
    \/ PeerLeaves

\* Both programs go on as long as they have something to read.  The timeout may
\* strike at any time, or never: how it is timed is Admission's matter.
SaslFairness ==
    /\ WF_saslVars(ServerReads)
    /\ WF_saslVars(ClientStarts \/ ClientReads \/ ClientLosesServer)

SaslSpec == SaslInit /\ [][SaslNext]_saslVars /\ SaslFairness

-----------------------------------------------------------------------------
(* Properties *)

\* Every variable keeps its type; MAX_FAILURES rejections end the handshake.
SaslTypeOK ==
    /\ state \in {"nul", "auth", "data", "begin", "done", "dead", "timeout"}
    /\ mechanism \in Mechanisms \cup {"unknown"}
    /\ failures \in 0 .. MAX_FAILURES
    /\ failures = MAX_FAILURES => state = "dead"
    /\ challenge \in 0 .. issued
    /\ issued <= MAX_FAILURES
    /\ uid \in {"peer", "nobody", "unknown"}
    /\ verdict \in {"none", "OK", "REJECTED"}
    /\ client \in {"start", "wait", "agree", "done", "failed"}
    /\ tried \in 0 .. Len(mechs)

\* BEGIN is taken only from a peer whose last verdict was OK, with the identity
\* that OK was for: after a CANCEL or ERROR a peer starts over, and nobody but
\* an admitted anonymous peer gets in without an identity.
BeginIsEarned ==
    state \in {"begin", "done"} =>
        /\ verdict = "OK"
        /\ uid = "peer" \/ (uid = "nobody" /\ Usable("ANONYMOUS"))

\* A cookie response is good for one OK, whatever the peer remembers of earlier
\* rounds of the same connection.
NoChallengeTwice ==
    [][(state = "data" /\ mechanism = "DBUS_COOKIE_SHA1" /\ state' = "begin")
          => Head(to_server).n \notin spent]_saslVars

\* When the client takes the handshake for done, the server has accepted it or
\* has all it needs to (unless its timeout struck); when both do, neither
\* direction holds a stray line that would be read as a message, and they agree
\* on passing file descriptors.
BothSidesAgree ==
    (ours /\ client = "done") =>
        /\ state \in {"begin", "done", "timeout"}
        /\ state = "done" => /\ to_server = << >> /\ to_client = << >>
                             /\ unix_fd_negotiated <=> want_unix_fd

\* The client never hangs: it connects or reports a failure, whatever the two
\* sides are configured for, also when the daemon drops it in the middle.
ClientSettles == <>(ours => client \in {"done", "failed"})

\* EXTERNAL works: with it on both lists the client connects, after rejections
\* of what it tries before as well.  A timeout may prevent it, and so may
\* cookie authentication tried earlier, whose errors end the handshake.
ExternalConnects ==
    (/\ ours
     /\ "EXTERNAL" \in allowed
     /\ \E i \in DOMAIN mechs : /\ mechs[i] = "EXTERNAL"
                                /\ \A j \in 1 .. i - 1 : mechs[j] # "DBUS_COOKIE_SHA1")
    ~> (client = "done" \/ state = "timeout")

=============================================================================
