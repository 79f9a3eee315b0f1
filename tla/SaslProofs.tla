----------------------------- MODULE SaslProofs -----------------------------
(***************************************************************************)
(* What the server's side of the handshake guarantees against any peer, for *)
(* any number of failures it tolerates, and how the repository's client and *)
(* the server stay in step.                                                 *)
(***************************************************************************)
EXTENDS Sasl, FiniteSetTheorems, SequenceTheorems, TLAPS

\* The mechanism whose data is awaited was admitted when AUTH named it.
AwaitedIsUsable == state = "data" => Usable(mechanism)

\* Challenges are numbered as they are issued, and the one that is awaited has
\* not been answered.
ChallengesFresh ==
    /\ issued \in Nat
    /\ spent \subseteq 1 .. issued
    /\ challenge \in 0 .. issued
    /\ challenge # 0 => challenge \notin spent

\* The inductive invariant.
ServerInv == BeginIsEarned /\ AwaitedIsUsable /\ ChallengesFresh

\* A rejection ends what the OK before it allowed.
LEMMA RejectedKeeps ==
    ASSUME ServerInv, UNCHANGED config, rejected
    PROVE  ServerInv' /\ state' # "begin"
  BY DEF ServerInv, BeginIsEarned, AwaitedIsUsable, ChallengesFresh, rejected

\* An OK keeps the invariant if it is for the peer or for an admitted anonymous
\* peer, and if it spends at most a challenge that was issued.
LEMMA OkKeeps ==
    ASSUME ServerInv, UNCHANGED config, NEW who, NEW how \in SUBSET (1 .. issued),
           ok(who, how), who = "peer" \/ (who = "nobody" /\ Usable("ANONYMOUS"))
    PROVE  ServerInv'
<1>1. BeginIsEarned' /\ AwaitedIsUsable'
  BY DEF BeginIsEarned, AwaitedIsUsable, ok, config, Usable
<1>2. ChallengesFresh'
  BY DEF ServerInv, ChallengesFresh, ok
<1> QED BY <1>1, <1>2 DEF ServerInv

\* A step that leaves what the server concluded alone keeps the invariant, the
\* end of the handshake included.
LEMMA KeepKeeps ==
    ASSUME ServerInv, UNCHANGED config, Keep,
           \/ state' = state
           \/ state' \in {"auth", "dead", "timeout"}
           \/ state = "begin" /\ state' = "done"
    PROVE  ServerInv'
<1>1. BeginIsEarned'
  BY DEF ServerInv, BeginIsEarned, Keep, config, Usable
<1>2. AwaitedIsUsable'
  BY DEF ServerInv, AwaitedIsUsable, Keep, config, Usable
<1>3. ChallengesFresh'
  BY DEF ServerInv, ChallengesFresh, Keep
<1> QED BY <1>1, <1>2, <1>3 DEF ServerInv

\* Whatever a usable mechanism makes of its data keeps the invariant; a cookie
\* mechanism that says OK does so for the challenge it awaits.
LEMMA DataKeeps ==
    ASSUME ServerInv, UNCHANGED config, NEW m, Usable(m), NEW c, NEW l,
           c = 0 \/ c = challenge, dispatch_mechanism_data(m, c, l)
    PROVE  /\ ServerInv'
           /\ (m = "DBUS_COOKIE_SHA1" /\ state' = "begin") =>
                 /\ c = challenge /\ c # 0 /\ l.n = challenge
<1>1. CASE m = "EXTERNAL" /\ handle_external(l)
  BY <1>1, RejectedKeeps, OkKeeps DEF handle_external
<1>2. CASE m = "ANONYMOUS" /\ ok("nobody", {})
  BY <1>2, OkKeeps
<1>3. CASE m = "DBUS_COOKIE_SHA1" /\ c = 0 /\ cookie_sha1_first_response(l)
  <2>1. CASE rejected
    BY <2>1, RejectedKeeps
  <2>2. CASE ~ rejected
    <3>1. /\ state' = "data" /\ mechanism' = "DBUS_COOKIE_SHA1"
          /\ issued' = issued + 1 /\ challenge' = issued' /\ spent' = spent
      BY <1>3, <2>2 DEF cookie_sha1_first_response
    <3>2. BeginIsEarned' /\ AwaitedIsUsable'
      BY <1>3, <3>1 DEF BeginIsEarned, AwaitedIsUsable, Usable, config
    <3>3. ChallengesFresh'
      BY <3>1 DEF ServerInv, ChallengesFresh
    <3> QED BY <3>1, <3>2, <3>3 DEF ServerInv
  <2> QED BY <2>1, <2>2
<1>4. CASE m = "DBUS_COOKIE_SHA1" /\ c # 0 /\ cookie_sha1_second_response(l)
  <2>1. CASE rejected
    BY <2>1, RejectedKeeps
  <2>2. CASE RightResponse(l) /\ ok("peer", {l.n})
    <3>1. l.n = challenge /\ c = challenge /\ l.n \in 1 .. issued
      BY <1>4, <2>2 DEF RightResponse, ServerInv, ChallengesFresh
    <3> QED BY <1>4, <2>2, <3>1, OkKeeps
  <2> QED BY <1>4, <2>1, <2>2 DEF cookie_sha1_second_response
<1> QED BY <1>1, <1>2, <1>3, <1>4 DEF dispatch_mechanism_data

\* One line read by the server.
LEMMA ServerReadsKeeps ==
    ASSUME ServerInv, ServerReads
    PROVE  /\ ServerInv'
           /\ (state = "data" /\ mechanism = "DBUS_COOKIE_SHA1" /\ state' = "begin")
                => Head(to_server).n \notin spent
<1> DEFINE l == Head(to_server)
<1>0. UNCHANGED config
  BY DEF ServerReads
<1>e. ASSUME error PROVE ServerInv' /\ state' = state
  BY <1>e, <1>0, KeepKeeps DEF error
<1>1. CASE state = "nul" /\ read_initial_nul(l)
  BY <1>0, <1>1, KeepKeeps DEF read_initial_nul
<1>2. CASE state = "auth" /\ handle_waiting_for_auth(l)
  <2>1. CASE rejected
    BY <1>0, <1>2, <2>1, RejectedKeeps
  <2>2. CASE error
    BY <1>2, <1>e, <2>2
  <2>3. CASE Usable(l.mech) /\ dispatch_mechanism_data(l.mech, 0, l)
    BY <1>0, <1>2, <2>3, DataKeeps
  <2>4. CASE /\ Usable(l.mech)
             /\ state' = "data" /\ mechanism' = l.mech /\ challenge' = 0
             /\ UNCHANGED <<failures, unix_fd_negotiated, uid, issued, verdict, spent>>
    <3>1. BeginIsEarned' /\ AwaitedIsUsable'
      BY <1>0, <2>4 DEF BeginIsEarned, AwaitedIsUsable, Usable, config
    <3>2. ChallengesFresh'
      BY <2>4 DEF ServerInv, ChallengesFresh
    <3> QED BY <1>2, <3>1, <3>2 DEF ServerInv
  <2> QED BY <1>2, <2>1, <2>2, <2>3, <2>4 DEF handle_waiting_for_auth
<1>3. CASE state = "data" /\ handle_waiting_for_data(l)
  <2>1. CASE rejected
    BY <1>0, <2>1, RejectedKeeps
  <2>2. CASE error
    BY <1>3, <1>e, <2>2
  <2>3. CASE dispatch_mechanism_data(mechanism, challenge, l)
    <3>1. Usable(mechanism)
      BY <1>3 DEF ServerInv, AwaitedIsUsable
    <3>2. /\ ServerInv'
          /\ (mechanism = "DBUS_COOKIE_SHA1" /\ state' = "begin") =>
                challenge # 0 /\ l.n = challenge
      BY <1>0, <2>3, <3>1, DataKeeps
    <3> QED BY <3>2 DEF ServerInv, ChallengesFresh
  <2> QED BY <1>3, <2>1, <2>2, <2>3 DEF handle_waiting_for_data
<1>4. CASE state = "begin" /\ handle_waiting_for_begin(l)
  <2>1. CASE rejected
    BY <1>0, <1>4, <2>1, RejectedKeeps
  <2>2. CASE error
    BY <1>4, <1>e, <2>2
  <2>3. CASE state' = "done" /\ Keep
    BY <1>0, <1>4, <2>3, KeepKeeps
  <2>4. CASE UNCHANGED <<state, mechanism, challenge, failures, uid, issued, verdict, spent>>
    BY <1>0, <1>4, <2>4 DEF ServerInv, BeginIsEarned, AwaitedIsUsable, ChallengesFresh,
                           config, Usable
  <2> QED BY <1>4, <2>1, <2>2, <2>3, <2>4 DEF handle_waiting_for_begin
<1> QED BY <1>1, <1>2, <1>3, <1>4 DEF ServerReads

\* The invariant is inductive: besides reading a line, the server can only give
\* up, and the peer's steps leave it alone.
LEMMA ServerNext == ServerInv /\ [SaslNext]_saslVars => ServerInv'
<1> SUFFICES ASSUME ServerInv, [SaslNext]_saslVars PROVE ServerInv'
  OBVIOUS
<1>1. ASSUME UNCHANGED <<config, server>> PROVE ServerInv'
  BY <1>1 DEF server, config, ServerInv, BeginIsEarned, AwaitedIsUsable,
             ChallengesFresh, Usable
<1>2. CASE ServerReads
  BY <1>2, ServerReadsKeeps
<1>3. CASE ServerGivesUp
  BY <1>3, KeepKeeps DEF ServerGivesUp
<1>4. CASE ClientStarts \/ ClientReads \/ ClientLosesServer \/ PeerSends \/ PeerLeaves
  BY <1>1, <1>4 DEF ClientStarts, ClientReads, ClientLosesServer, PeerSends, PeerLeaves
<1>5. CASE UNCHANGED saslVars
  BY <1>1, <1>5 DEF saslVars
<1> QED BY <1>2, <1>3, <1>4, <1>5 DEF SaslNext

\* The invariant holds in every state of every handshake.
THEOREM ServerInvariance == SaslSpec => []ServerInv
<1>1. SaslInit => ServerInv
  BY DEF SaslInit, ServerInv, BeginIsEarned, AwaitedIsUsable, ChallengesFresh
<1> QED BY <1>1, ServerNext, PTL DEF SaslSpec

\* BEGIN is accepted only after an OK that was not taken back, for the peer's own
\* identity or for an anonymous peer the bus admits, whatever lines the peer
\* sends and however many failures are tolerated.
THEOREM BeginAlwaysEarned == SaslSpec => []BeginIsEarned
<1>1. ServerInv => BeginIsEarned
  BY DEF ServerInv
<1> QED BY <1>1, ServerInvariance, PTL

\* No cookie challenge is accepted twice within a connection.
THEOREM ChallengesUsedOnce == SaslSpec => NoChallengeTwice
<1>1. ServerInv /\ [SaslNext]_saslVars =>
        [(state = "data" /\ mechanism = "DBUS_COOKIE_SHA1" /\ state' = "begin")
            => Head(to_server).n \notin spent]_saslVars
  <2> SUFFICES ASSUME ServerInv, SaslNext, state = "data",
                      mechanism = "DBUS_COOKIE_SHA1", state' = "begin"
               PROVE  Head(to_server).n \notin spent
    OBVIOUS
  <2>1. ServerReads
    BY DEF SaslNext, ServerGivesUp, ClientStarts, ClientReads, ClientLosesServer,
           PeerSends, PeerLeaves, server
  <2> QED BY <2>1, ServerReadsKeeps
<1> QED BY <1>1, ServerInvariance, PTL DEF SaslSpec, NoChallengeTwice

-----------------------------------------------------------------------------
(* Types and bounds *)

\* A challenge costs a failure, but for the one that is awaited or was answered
\* last.
ChallengesPaid ==
    /\ failures \in 0 .. MAX_FAILURES
    /\ failures = MAX_FAILURES => state = "dead" /\ issued <= failures
    /\ issued <= failures + 1
    /\ state \in {"nul", "auth"} \/ (state = "data" /\ challenge = 0) => issued <= failures

\* The rest of what SaslTypeOK says, with what the configuration is.
Sorts ==
    /\ allowed \subseteq Mechanisms
    /\ state \in {"nul", "auth", "data", "begin", "done", "dead", "timeout"}
    /\ mechanism \in Mechanisms \cup {"unknown"}
    /\ uid \in {"peer", "nobody", "unknown"}
    /\ verdict \in {"none", "OK", "REJECTED"}

ClientSorts ==
    /\ Len(mechs) \in Nat /\ (ours => Len(mechs) >= 1)
    /\ client \in {"start", "wait", "agree", "done", "failed"}
    /\ tried \in 0 .. Len(mechs)

-----------------------------------------------------------------------------
(* The two programs against each other *)

OneOf(q, cmds) == \E l : q = <<l>> /\ l.cmd \in cmds

\* The client waits for an answer: both lines of its start are on their way, or
\* one line, or one answer, or the server has closed without one.
Waiting ==
    /\ unix_fd_negotiated = FALSE
    /\ \/ /\ state \in {"nul", "timeout"} /\ to_client = << >>
          /\ \E l : to_server = <<Word("NUL"), l>> /\ l.cmd = "AUTH"
       \/ /\ state \in {"auth", "data", "timeout"} /\ to_client = << >>
          /\ OneOf(to_server, {"AUTH", "DATA"})
       \/ /\ state \in {"auth", "data", "timeout"} /\ to_server = << >>
          /\ OneOf(to_client, {"REJECTED", "DATA", "ERROR"})
       \/ /\ state \in {"begin", "timeout"} /\ to_server = << >>
          /\ OneOf(to_client, {"OK"})
       \/ state = "dead" /\ to_server = << >> /\ to_client = << >>

\* The client has asked for file descriptors and said BEGIN.
Agreeing ==
    /\ want_unix_fd = TRUE
    /\ \/ /\ state \in {"begin", "timeout"} /\ to_client = << >>
          /\ to_server = <<Word("NEGOTIATE_UNIX_FD"), Word("BEGIN")>>
       \/ /\ state \in {"begin", "timeout"} /\ unix_fd_negotiated = TRUE
          /\ to_server = <<Word("BEGIN")>>
          /\ OneOf(to_client, {"AGREE_UNIX_FD"})
       \/ /\ state = "done" /\ unix_fd_negotiated = TRUE
          /\ to_server = << >>
          /\ OneOf(to_client, {"AGREE_UNIX_FD"})

\* The client is done; the server has read BEGIN or has it to read.
Finished ==
    /\ unix_fd_negotiated = want_unix_fd
    /\ to_client = << >>
    /\ \/ state \in {"begin", "timeout"} /\ to_server = <<Word("BEGIN")>>
       \/ state = "done" /\ to_server = << >>

\* Where the repository's client and the server are with each other.
Lockstep ==
    ours =>
       /\ want_unix_fd \in BOOLEAN
       /\ client = "start" => /\ state \in {"nul", "timeout"} /\ unix_fd_negotiated = FALSE
                              /\ to_server = << >> /\ to_client = << >>
       /\ client = "wait" => Waiting
       /\ client = "agree" => Agreeing
       /\ client = "done" => Finished

-----------------------------------------------------------------------------
(* The server keeps its types and bounds *)

\* A rejection counts a failure, which pays for the challenge before it.
LEMMA RejectedBounds ==
    ASSUME ServerInv, ChallengesPaid, Sorts, UNCHANGED config, state # "dead", rejected
    PROVE  ChallengesPaid' /\ Sorts'
<1>1. /\ MAX_FAILURES \in Nat /\ issued \in Nat /\ failures \in Nat /\ failures < MAX_FAILURES
  BY MaxFailuresAssumption DEF ServerInv, ChallengesFresh, ChallengesPaid
<1>2. /\ failures' = failures + 1 /\ issued' = issued /\ mechanism' = "unknown"
      /\ uid' = "unknown" /\ verdict' = "REJECTED"
      /\ state' = IF failures' >= MAX_FAILURES THEN "dead" ELSE "auth"
  BY DEF rejected
<1>3. ChallengesPaid'
  BY <1>1, <1>2 DEF ChallengesPaid
<1>4. Sorts'
  BY <1>2 DEF Sorts, config
<1> QED
  BY <1>3, <1>4

\* An OK costs nothing.
LEMMA OkBounds ==
    ASSUME ServerInv, ChallengesPaid, Sorts, UNCHANGED config, state # "dead",
           NEW who \in {"peer", "nobody"}, NEW how, ok(who, how)
    PROVE  ChallengesPaid' /\ Sorts'
<1>1. ChallengesPaid'
  BY DEF ChallengesPaid, ok
<1>2. Sorts'
  BY DEF Sorts, ok, config
<1> QED
  BY <1>1, <1>2

\* A mechanism issues a challenge only when none is awaited.
LEMMA DataBounds ==
    ASSUME ServerInv, ChallengesPaid, Sorts, UNCHANGED config, NEW m, NEW c, NEW l,
           \/ state = "auth" /\ c = 0
           \/ state = "data" /\ c = challenge,
           dispatch_mechanism_data(m, c, l)
    PROVE  ChallengesPaid' /\ Sorts'
<1>1. CASE rejected
  BY <1>1, RejectedBounds
<1>2. ASSUME NEW who \in {"peer", "nobody"}, NEW how, ok(who, how)
      PROVE  ChallengesPaid' /\ Sorts'
  BY <1>2, OkBounds
<1>3. CASE m = "DBUS_COOKIE_SHA1" /\ c = 0 /\ cookie_sha1_first_response(l) /\ ~ rejected
  <2>1. /\ state' = "data" /\ mechanism' = "DBUS_COOKIE_SHA1" /\ issued' = issued + 1
        /\ challenge' = issued' /\ UNCHANGED <<failures, uid, verdict>>
    BY <1>3 DEF cookie_sha1_first_response
  <2>2. issued \in Nat /\ issued <= failures /\ failures \in Nat /\ MAX_FAILURES \in Nat
        /\ failures < MAX_FAILURES
    BY <1>3, MaxFailuresAssumption DEF ServerInv, ChallengesFresh, ChallengesPaid
  <2>3. ChallengesPaid'
    BY <2>1, <2>2 DEF ChallengesPaid
  <2>4. Sorts'
    BY <2>1 DEF Sorts, config, Mechanisms
  <2> QED
    BY <2>3, <2>4
<1> QED
  BY <1>1, <1>2, <1>3 DEF dispatch_mechanism_data, handle_external, cookie_sha1_second_response,
                          cookie_sha1_first_response

\* A step that leaves the counters and what was concluded alone.
LEMMA KeepBounds ==
    ASSUME ServerInv, ChallengesPaid, Sorts, UNCHANGED config, state # "dead",
           UNCHANGED <<mechanism, challenge, failures, uid, issued, verdict>>,
           \/ state' = state
           \/ state' \in {"begin", "done", "dead", "timeout"}
           \/ state = "nul" /\ state' = "auth"
    PROVE  ChallengesPaid' /\ Sorts'
<1>1. failures # MAX_FAILURES
  BY DEF ChallengesPaid
<1>2. ChallengesPaid'
  BY <1>1 DEF ChallengesPaid
<1>3. Sorts'
  BY DEF Sorts, config
<1> QED
  BY <1>2, <1>3

\* One line read by the server.
LEMMA ServerReadsBounds ==
    ASSUME ServerInv, ChallengesPaid, Sorts, ServerReads
    PROVE  ChallengesPaid' /\ Sorts'
<1> DEFINE l == Head(to_server)
           Bounds == ChallengesPaid' /\ Sorts'
<1>0. UNCHANGED config /\ state \in {"nul", "auth", "data", "begin"}
  BY DEF ServerReads
<1>1. CASE rejected
  BY <1>0, <1>1, RejectedBounds
<1>2. CASE error
  BY <1>0, <1>2, KeepBounds DEF error, Keep
<1>3. CASE state = "nul" /\ read_initial_nul(l)
  BY <1>0, <1>3, KeepBounds DEF read_initial_nul, Keep
<1>4. CASE state = "auth" /\ handle_waiting_for_auth(l)
  <2>1. CASE dispatch_mechanism_data(l.mech, 0, l)
    BY <1>0, <1>4, <2>1, DataBounds
  <2>2. CASE /\ Usable(l.mech) /\ state' = "data" /\ mechanism' = l.mech /\ challenge' = 0
             /\ UNCHANGED <<failures, uid, issued, verdict>>
    <3>1. ChallengesPaid'
      BY <1>4, <2>2 DEF ChallengesPaid
    <3>2. Sorts'
      BY <1>0, <2>2 DEF Sorts, Usable, config
    <3> QED
      BY <3>1, <3>2
  <2> QED
    BY <1>1, <1>2, <1>4, <2>1, <2>2 DEF handle_waiting_for_auth
<1>5. CASE state = "data" /\ handle_waiting_for_data(l)
  <2>1. CASE dispatch_mechanism_data(mechanism, challenge, l)
    BY <1>0, <1>5, <2>1, DataBounds
  <2> QED
    BY <1>1, <1>2, <1>5, <2>1 DEF handle_waiting_for_data
<1>6. CASE state = "begin" /\ handle_waiting_for_begin(l)
  <2>1. CASE state' = "done" /\ Keep
    BY <1>0, <1>6, <2>1, KeepBounds DEF Keep
  <2>2. CASE UNCHANGED <<state, mechanism, challenge, failures, uid, issued, verdict, spent>>
    BY <1>0, <1>6, <2>2, KeepBounds
  <2> QED
    BY <1>1, <1>2, <1>6, <2>1, <2>2 DEF handle_waiting_for_begin
<1> QED
  BY <1>3, <1>4, <1>5, <1>6 DEF ServerReads

\* The client's variables keep their types: it tries no mechanism it was not given.
LEMMA ClientSortsStep == ClientSorts /\ [SaslNext]_saslVars => ClientSorts'
<1> SUFFICES ASSUME ClientSorts, [SaslNext]_saslVars PROVE ClientSorts'
  OBVIOUS
<1>0. UNCHANGED <<ours, mechs>>
  BY DEF SaslNext, saslVars, config, ServerReads, ServerGivesUp, ClientStarts, ClientReads,
         ClientLosesServer, PeerSends, PeerLeaves
<1>1. CASE UNCHANGED clientVars
  BY <1>0, <1>1 DEF clientVars, ClientSorts
<1>2. ASSUME NEW i \in 1 .. Len(mechs), NEW q, Try(i, q) PROVE ClientSorts'
  BY <1>0, <1>2 DEF Try, ClientSorts
<1>3. CASE client' \in {"wait", "agree", "done", "failed"} /\ tried' = tried
  BY <1>0, <1>3 DEF ClientSorts
<1>4. CASE ClientStarts
  BY <1>2, <1>4 DEF ClientStarts, ClientSorts
<1>5. CASE ClientReads
  <2>1. CASE tried < Len(mechs) /\ Try(tried + 1, << >>)
    BY <1>2, <2>1 DEF ClientSorts
  <2>2. CASE Try(tried, << >>)
    <3>1. client' = "wait" /\ tried' = tried
      BY <2>2 DEF Try
    <3> QED
      BY <1>3, <3>1
  <2>3. CASE client' = "done" /\ UNCHANGED <<tried, answered, to_server>>
    BY <1>3, <2>3
  <2>4. CASE finish_lines \/ ClientFails
    <3>1. client' \in {"agree", "done", "failed"} /\ tried' = tried
      BY <2>4 DEF finish_lines, ClientFails
    <3> QED
      BY <1>3, <3>1
  <2>5. CASE client = "wait" /\ UNCHANGED <<client, tried>>
    BY <1>3, <2>5
  <2> QED
    BY <1>5, <2>1, <2>2, <2>3, <2>4, <2>5 DEF ClientReads, handle_data, respond_to_cookie_challenge
<1>6. CASE ClientLosesServer
  BY <1>3, <1>6 DEF ClientLosesServer, ClientFails
<1>7. CASE PeerLeaves
  BY <1>3, <1>7 DEF PeerLeaves
<1> QED
  BY <1>1, <1>4, <1>5, <1>6, <1>7 DEF SaslNext, saslVars, ServerReads, ServerGivesUp, PeerSends

\* Every step keeps the server's types and bounds.
LEMMA BoundsStep == ServerInv /\ ChallengesPaid /\ Sorts /\ [SaslNext]_saslVars => ChallengesPaid' /\ Sorts'
<1> SUFFICES ASSUME ServerInv, ChallengesPaid, Sorts, [SaslNext]_saslVars
             PROVE  ChallengesPaid' /\ Sorts'
  OBVIOUS
<1>1. CASE UNCHANGED <<config, server>>
  BY <1>1 DEF config, server, ChallengesPaid, Sorts
<1>2. CASE ServerReads
  BY <1>2, ServerReadsBounds
<1>3. CASE ServerGivesUp
  BY <1>3, KeepBounds DEF ServerGivesUp, Talking, Keep
<1> QED
  BY <1>1, <1>2, <1>3 DEF SaslNext, saslVars, ClientStarts, ClientReads, ClientLosesServer,
                          PeerSends, PeerLeaves

\* The lists of mechanisms a client may be given are not empty.
LEMMA ListsAreLists ==
    ASSUME NEW s \in MechanismLists
    PROVE  Len(s) \in Nat /\ Len(s) >= 1
<1>1. IsFiniteSet(Mechanisms)
  <2>1. IsFiniteSet({})
    BY FS_EmptySet
  <2>2. IsFiniteSet({} \cup {"EXTERNAL"})
    BY <2>1, FS_AddElement
  <2>3. IsFiniteSet(({} \cup {"EXTERNAL"}) \cup {"DBUS_COOKIE_SHA1"})
    BY <2>2, FS_AddElement
  <2>4. IsFiniteSet((({} \cup {"EXTERNAL"}) \cup {"DBUS_COOKIE_SHA1"}) \cup {"ANONYMOUS"})
    BY <2>3, FS_AddElement
  <2>5. Mechanisms = (({} \cup {"EXTERNAL"}) \cup {"DBUS_COOKIE_SHA1"}) \cup {"ANONYMOUS"}
    BY DEF Mechanisms
  <2> QED
    BY <2>4, <2>5
<1>2. Cardinality(Mechanisms) \in Nat
  BY <1>1, FS_CardinalityType
<1>3. PICK k \in 1 .. Cardinality(Mechanisms) : s \in [1 .. k -> Mechanisms]
  BY DEF MechanismLists
<1>4. k \in Nat /\ k >= 1
  BY <1>2
<1>5. s \in Seq(Mechanisms) /\ Len(s) = k
  BY <1>3, <1>4
<1> QED
  BY <1>4, <1>5

\* Every variable keeps its type against every peer, and the handshake ends at
\* MAX_FAILURES rejections, with no more challenges handed out than that.
THEOREM SaslTypes == SaslSpec => []SaslTypeOK
<1>1. SaslInit => ChallengesPaid /\ Sorts /\ ClientSorts
  <2> SUFFICES ASSUME SaslInit PROVE ChallengesPaid /\ Sorts /\ ClientSorts
    OBVIOUS
  <2>1. ChallengesPaid
    BY MaxFailuresAssumption DEF SaslInit, ChallengesPaid
  <2>2. Sorts
    BY DEF SaslInit, Sorts
  <2>3. Len(mechs) \in Nat /\ (ours => Len(mechs) >= 1)
    BY ListsAreLists DEF SaslInit
  <2>4. ClientSorts
    BY <2>3 DEF SaslInit, ClientSorts
  <2> QED
    BY <2>1, <2>2, <2>4
<1>2. ServerInv /\ ChallengesPaid /\ Sorts /\ ClientSorts => SaslTypeOK
  <2> SUFFICES ASSUME ServerInv, ChallengesPaid, Sorts, ClientSorts PROVE SaslTypeOK
    OBVIOUS
  <2>1. issued <= MAX_FAILURES
    BY MaxFailuresAssumption DEF ServerInv, ChallengesFresh, ChallengesPaid
  <2> QED
    BY <2>1 DEF ServerInv, ChallengesFresh, ChallengesPaid, Sorts, ClientSorts, SaslTypeOK
<1> QED
  BY <1>1, <1>2, BoundsStep, ClientSortsStep, ServerInvariance, PTL DEF SaslSpec

-----------------------------------------------------------------------------
(* The two programs go in step *)

\* Queues of one and two lines.
LEMMA Queues ==
    ASSUME NEW x, NEW y
    PROVE  /\ Head(<<x>>) = x /\ Tail(<<x>>) = << >> /\ <<x>> # << >>
           /\ Head(<<x, y>>) = x /\ Tail(<<x, y>>) = <<y>> /\ <<x, y>> # << >>
           /\ Append(<< >>, x) = <<x>>
           /\ << >> \o <<x>> = <<x>> /\ << >> \o (<< >> \o <<x>>) = <<x>>
           /\ << >> \o <<x, y>> = <<x, y>>
  OBVIOUS

\* The first two lines of a client, written together.
LEMMA TwoLines ==
    ASSUME NEW x, NEW y
    PROVE  << >> \o (<<x>> \o <<y>>) = <<x, y>>
<1>1. <<x>> \in Seq({x, y}) /\ <<y>> \in Seq({x, y}) /\ <<x, y>> \in Seq({x, y})
  OBVIOUS
<1> DEFINE s == << >> \o (<<x>> \o <<y>>)
           t == <<x, y>>
<1>2. s \in Seq({x, y}) /\ Len(s) = 2 /\ s[1] = x /\ s[2] = y
  BY <1>1
<1>3. t \in Seq({x, y}) /\ Len(t) = 2 /\ t[1] = x /\ t[2] = y
  BY <1>1
<1> HIDE DEF s, t
<1>4. \A i \in 1 .. Len(s) : s[i] = t[i]
  BY <1>2, <1>3
<1>5. s = t
  BY <1>2, <1>3, <1>4, SeqEqual
<1> QED
  BY <1>5 DEF s, t

\* What the server makes of AUTH or DATA: one line goes back, OK exactly when it
\* waits for BEGIN, or it closes without a word.
Answered(q, s) ==
    \/ OneOf(q, {"REJECTED", "DATA", "ERROR"}) /\ s \in {"auth", "data"}
    \/ OneOf(q, {"OK"}) /\ s = "begin"
    \/ q = << >> /\ s = "dead"

\* A rejection, an OK, an error and a line with data are such answers.
LEMMA AnswerForms ==
    ASSUME ours, to_client = << >>, state \in {"auth", "data"}
    PROVE  /\ rejected => Answered(to_client', state') /\ UNCHANGED unix_fd_negotiated
           /\ error => Answered(to_client', state') /\ UNCHANGED unix_fd_negotiated
           /\ \A who, how : ok(who, how) =>
                 Answered(to_client', state') /\ UNCHANGED unix_fd_negotiated
           /\ \A k, n : Send(Line("DATA", "unknown", k, n)) /\ state' = "data" =>
                 Answered(to_client', state')
<1>1. \A l : Send(l) => to_client' = <<l>>
  BY DEF Send
<1>2. \A cmd : Word(cmd).cmd = cmd
  BY DEF Word, Line
<1>3. \A k, n : Line("DATA", "unknown", k, n).cmd = "DATA"
  BY DEF Line
<1>4. rejected => Answered(to_client', state') /\ UNCHANGED unix_fd_negotiated
  BY <1>1, <1>2 DEF rejected, Answered, OneOf
<1>5. error => Answered(to_client', state') /\ UNCHANGED unix_fd_negotiated
  BY <1>1, <1>2 DEF error, Keep, Answered, OneOf
<1>6. ASSUME NEW who, NEW how, ok(who, how)
      PROVE  Answered(to_client', state') /\ UNCHANGED unix_fd_negotiated
  BY <1>1, <1>2, <1>6 DEF ok, Answered, OneOf
<1>7. ASSUME NEW k, NEW n, Send(Line("DATA", "unknown", k, n)), state' = "data"
      PROVE  Answered(to_client', state')
  BY <1>1, <1>3, <1>7 DEF Answered, OneOf
<1> QED
  BY <1>4, <1>5, <1>6, <1>7

\* A line with AUTH or DATA is answered.
LEMMA LineAnswered ==
    ASSUME ours, to_client = << >>, NEW l,
           \/ state = "auth" /\ handle_waiting_for_auth(l)
           \/ state = "data" /\ handle_waiting_for_data(l)
    PROVE  Answered(to_client', state') /\ UNCHANGED unix_fd_negotiated
<1>0. state \in {"auth", "data"}
  OBVIOUS
<1>1. CASE rejected \/ error
  BY <1>0, <1>1, AnswerForms
<1>2. ASSUME NEW who, NEW how, ok(who, how)
      PROVE  Answered(to_client', state') /\ UNCHANGED unix_fd_negotiated
  BY <1>0, <1>2, AnswerForms
<1>3. ASSUME NEW k, NEW n, Send(Line("DATA", "unknown", k, n)), state' = "data",
             UNCHANGED unix_fd_negotiated
      PROVE  Answered(to_client', state') /\ UNCHANGED unix_fd_negotiated
  BY <1>0, <1>3, AnswerForms
<1>4. ASSUME NEW m, NEW c, dispatch_mechanism_data(m, c, l)
      PROVE  Answered(to_client', state') /\ UNCHANGED unix_fd_negotiated
  <2>1. CASE cookie_sha1_first_response(l)
    BY <1>1, <1>3, <2>1 DEF cookie_sha1_first_response
  <2>2. CASE handle_external(l) \/ ok("nobody", {}) \/ cookie_sha1_second_response(l)
    BY <1>1, <1>2, <2>2 DEF handle_external, cookie_sha1_second_response
  <2> QED
    BY <1>4, <2>1, <2>2 DEF dispatch_mechanism_data
<1>5. CASE state = "auth" /\ handle_waiting_for_auth(l)
  BY <1>1, <1>3, <1>4, <1>5 DEF handle_waiting_for_auth
<1>6. CASE state = "data" /\ handle_waiting_for_data(l)
  BY <1>1, <1>4, <1>6 DEF handle_waiting_for_data
<1> QED
  BY <1>5, <1>6

\* The server reads a line of the repository's client.
LEMMA LockstepServer ==
    ASSUME Lockstep, ServerReads
    PROVE  Lockstep'
<1>1. UNCHANGED <<ours, want_unix_fd, client>>
  BY DEF ServerReads, config, clientVars
<1>2. SUFFICES ASSUME ours, client # "failed"
               PROVE  /\ client = "start" => FALSE
                      /\ client = "wait" => Waiting'
                      /\ client = "agree" => Agreeing'
                      /\ client = "done" => Finished'
  BY <1>1 DEF Lockstep
<1> DEFINE l == Head(to_server)
<1>3. /\ to_server # << >> /\ to_server' = Tail(to_server)
      /\ \/ state = "nul" /\ read_initial_nul(l)
         \/ state = "auth" /\ handle_waiting_for_auth(l)
         \/ state = "data" /\ handle_waiting_for_data(l)
         \/ state = "begin" /\ handle_waiting_for_begin(l)
  BY DEF ServerReads
<1>4. client # "start"
  BY <1>2, <1>3 DEF Lockstep
<1>5. \A cmd : Word(cmd).cmd = cmd
  BY DEF Word, Line
<1>6. CASE client = "wait"
  <2>0. Waiting
    BY <1>2, <1>6 DEF Lockstep
  <2>1. CASE state = "nul"
    <3>1. PICK a : to_server = <<Word("NUL"), a>> /\ a.cmd = "AUTH"
      BY <2>0, <2>1 DEF Waiting
    <3>2. l = Word("NUL") /\ to_server' = <<a>>
      BY <1>3, <3>1, Queues
    <3>3. state' = "auth" /\ UNCHANGED <<to_client, unix_fd_negotiated>>
      BY <1>3, <1>5, <2>1, <3>2 DEF read_initial_nul, Keep
    <3> QED
      BY <1>6, <2>0, <2>1, <3>1, <3>2, <3>3 DEF Waiting, OneOf
  <2>2. CASE state \in {"auth", "data"}
    <3>1. PICK a : to_server = <<a>> /\ a.cmd \in {"AUTH", "DATA"}
      BY <1>3, <2>0, <2>2 DEF Waiting, OneOf
    <3>2. to_client = << >> /\ to_server' = << >>
      BY <1>3, <2>0, <2>2, <3>1, Queues DEF Waiting
    <3>3. Answered(to_client', state') /\ UNCHANGED unix_fd_negotiated
      BY <1>2, <1>3, <2>2, <3>2, LineAnswered
    <3> QED
      BY <1>6, <2>0, <3>2, <3>3 DEF Waiting, Answered
  <2> QED
    BY <1>3, <1>6, <2>0, <2>1, <2>2 DEF Waiting
<1>7. CASE client = "agree"
  <2>0. Agreeing /\ state = "begin" /\ handle_waiting_for_begin(l)
    BY <1>2, <1>3, <1>7 DEF Lockstep, Agreeing
  <2>1. CASE to_server = <<Word("NEGOTIATE_UNIX_FD"), Word("BEGIN")>>
    <3>1. l.cmd = "NEGOTIATE_UNIX_FD" /\ to_server' = <<Word("BEGIN")>> /\ to_client = << >>
      BY <1>3, <1>5, <2>0, <2>1, Queues DEF Agreeing
    <3>2. /\ unix_fd_negotiated' = TRUE /\ state' = state
          /\ to_client' = Append(to_client, Word("AGREE_UNIX_FD"))
      BY <1>2, <2>0, <3>1 DEF handle_waiting_for_begin, Send
    <3>3. OneOf(to_client', {"AGREE_UNIX_FD"})
      BY <1>5, <3>1, <3>2, Queues DEF OneOf
    <3> QED
      BY <1>1, <1>7, <2>0, <3>1, <3>2, <3>3 DEF Agreeing
  <2>2. CASE to_server = <<Word("BEGIN")>>
    <3>1. l.cmd = "BEGIN" /\ to_server' = << >>
      BY <1>3, <1>5, <2>0, <2>2, Queues
    <3>2. state' = "done" /\ UNCHANGED <<to_client, unix_fd_negotiated>>
      BY <2>0, <3>1 DEF handle_waiting_for_begin, Keep
    <3> QED
      BY <1>1, <1>7, <2>0, <2>2, <3>1, <3>2, Queues DEF Agreeing, OneOf
  <2> QED
    BY <1>7, <2>0, <2>1, <2>2 DEF Agreeing
<1>8. CASE client = "done"
  <2>0. Finished /\ to_server = <<Word("BEGIN")>> /\ state = "begin"
    BY <1>2, <1>3, <1>8 DEF Lockstep, Finished
  <2>1. l.cmd = "BEGIN" /\ to_server' = << >>
    BY <1>3, <1>5, <2>0, Queues
  <2>2. state' = "done" /\ UNCHANGED <<to_client, unix_fd_negotiated>>
    BY <1>3, <2>0, <2>1 DEF handle_waiting_for_begin, Keep
  <2> QED
    BY <1>1, <1>8, <2>0, <2>1, <2>2 DEF Finished
<1> QED
  BY <1>4, <1>6, <1>7, <1>8

\* The client's steps.
LEMMA LockstepClient ==
    ASSUME Lockstep, ClientStarts \/ ClientReads \/ ClientLosesServer
    PROVE  Lockstep'
<1>1. /\ ours /\ UNCHANGED <<ours, want_unix_fd, state, unix_fd_negotiated>>
      /\ want_unix_fd \in BOOLEAN
  BY DEF ClientStarts, ClientReads, ClientLosesServer, config, server, Lockstep
<1>2. \A cmd : Word(cmd).cmd = cmd
  BY DEF Word, Line
<1>3. \A i : begin_mechanism(i).cmd = "AUTH"
  BY DEF begin_mechanism, Line
<1>4. CASE client' = "failed"
  BY <1>1, <1>4 DEF Lockstep
<1>5. CASE ClientStarts
  <2>1. /\ client = "start" /\ client' = "wait" /\ to_client' = to_client
        /\ to_server' = to_server \o (<<Word("NUL")>> \o <<begin_mechanism(1)>>)
    BY <1>5 DEF ClientStarts, Try, ClientSays
  <2>2. to_server = << >> /\ to_client = << >> /\ state \in {"nul", "timeout"}
        /\ unix_fd_negotiated = FALSE
    BY <1>1, <2>1 DEF Lockstep
  <2>3. to_server' = <<Word("NUL"), begin_mechanism(1)>>
    BY <2>1, <2>2, TwoLines
  <2>4. Waiting'
    BY <1>1, <1>3, <2>1, <2>2, <2>3 DEF Waiting
  <2> QED
    BY <1>1, <2>1, <2>4 DEF Lockstep
<1>6. CASE ClientReads /\ client = "wait" /\ client' # "failed"
  <2> DEFINE l == Head(to_client)
  <2>1. Waiting /\ to_client # << >> /\ to_client' = Tail(to_client)
    BY <1>1, <1>6 DEF Lockstep, ClientReads
  <2>2. PICK x : to_client = <<x>> /\ x.cmd \in {"REJECTED", "DATA", "ERROR", "OK"}
    BY <2>1 DEF Waiting, OneOf
  <2>3. l = x /\ to_client' = << >> /\ to_server = << >>
    BY <2>1, <2>2, Queues DEF Waiting
  <2>4. \/ x.cmd = "OK" /\ finish_lines
        \/ x.cmd # "OK" /\ \E i : Try(i, << >>)
        \/ x.cmd # "OK" /\ respond_to_cookie_challenge(x)
    BY <1>6, <2>2, <2>3 DEF ClientReads, handle_data, ClientFails
  <2>5. CASE x.cmd = "OK" /\ finish_lines
    <3>1. state \in {"begin", "timeout"} /\ unix_fd_negotiated = FALSE
      BY <2>1, <2>2, <2>5, Queues DEF Waiting, OneOf
    <3>2. CASE want_unix_fd = TRUE
      <4>1. /\ client' = "agree"
            /\ to_server' = << >> \o <<Word("NEGOTIATE_UNIX_FD"), Word("BEGIN")>>
        BY <2>3, <2>5, <3>2 DEF finish_lines, ClientSays
      <4>2. to_server' = <<Word("NEGOTIATE_UNIX_FD"), Word("BEGIN")>>
        BY <4>1, Queues
      <4>3. Agreeing'
        BY <1>1, <2>3, <3>1, <3>2, <4>2 DEF Agreeing
      <4> QED
        BY <1>1, <4>1, <4>3 DEF Lockstep
    <3>3. CASE want_unix_fd = FALSE
      <4>1. client' = "done" /\ to_server' = << >> \o <<Word("BEGIN")>>
        BY <2>3, <2>5, <3>3 DEF finish_lines, ClientSays
      <4>2. to_server' = <<Word("BEGIN")>>
        BY <4>1, Queues
      <4>3. Finished'
        BY <1>1, <2>3, <3>1, <3>3, <4>2 DEF Finished
      <4> QED
        BY <1>1, <4>1, <4>3 DEF Lockstep
    <3> QED
      BY <1>1, <3>2, <3>3
  <2>6. ASSUME x.cmd # "OK", client' = "wait", NEW y, y.cmd \in {"AUTH", "DATA"},
               to_server' = <<y>>
        PROVE  Lockstep'
    <3>1. state \in {"auth", "data", "timeout"} /\ unix_fd_negotiated = FALSE
      BY <2>1, <2>2, <2>6, Queues DEF Waiting, OneOf
    <3>2. Waiting'
      BY <1>1, <2>3, <2>6, <3>1 DEF Waiting, OneOf
    <3> QED
      BY <1>1, <2>6, <3>2 DEF Lockstep
  <2>7. ASSUME x.cmd # "OK", NEW i, Try(i, << >>) PROVE Lockstep'
    <3>1. client' = "wait" /\ to_server' = << >> \o (<< >> \o <<begin_mechanism(i)>>)
      BY <2>3, <2>7 DEF Try, ClientSays
    <3>2. to_server' = <<begin_mechanism(i)>>
      BY <3>1, Queues
    <3> QED
      BY <1>3, <2>6, <2>7, <3>1, <3>2
  <2>8. CASE x.cmd # "OK" /\ respond_to_cookie_challenge(x)
    <3> DEFINE y == Line("DATA", "unknown", "response", x.n)
    <3>1. client' = "wait" /\ to_server' = << >> \o <<y>>
      BY <1>6, <2>3, <2>8 DEF respond_to_cookie_challenge, ClientSays
    <3>2. y.cmd = "DATA"
      BY DEF Line
    <3> HIDE DEF y
    <3>3. to_server' = <<y>>
      BY <3>1, Queues
    <3> QED
      BY <2>6, <2>8, <3>1, <3>2, <3>3
  <2> QED
    BY <2>4, <2>5, <2>7, <2>8
<1>7. CASE ClientReads /\ client = "agree"
  <2>1. /\ client' = "done" /\ UNCHANGED to_server /\ to_client # << >>
        /\ to_client' = Tail(to_client) /\ Agreeing
    BY <1>1, <1>7 DEF ClientReads, Lockstep
  <2>2. to_client' = << >>
    BY <2>1, Queues DEF Agreeing, OneOf
  <2>3. Finished'
    BY <1>1, <2>1, <2>2 DEF Agreeing, Finished
  <2> QED
    BY <1>1, <2>1, <2>3 DEF Lockstep
<1> QED
  BY <1>4, <1>5, <1>6, <1>7 DEF ClientReads, ClientLosesServer, ClientFails

\* Every step keeps the two in step.
LEMMA LockstepStep == Lockstep /\ [SaslNext]_saslVars => Lockstep'
<1> SUFFICES ASSUME Lockstep, [SaslNext]_saslVars PROVE Lockstep'
  OBVIOUS
<1>1. CASE ServerReads
  BY <1>1, LockstepServer
<1>2. CASE ClientStarts \/ ClientReads \/ ClientLosesServer
  BY <1>2, LockstepClient
<1>3. CASE ServerGivesUp
  <2>1. /\ UNCHANGED <<ours, want_unix_fd, client, unix_fd_negotiated, to_server, to_client>>
        /\ Talking /\ (client # "failed" => state' = "timeout")
    BY <1>3 DEF ServerGivesUp, Keep, config, clientVars
  <2>2. client = "wait" /\ Waiting /\ state' = "timeout" => Waiting'
    BY <2>1 DEF Waiting, OneOf, Talking, Word, Line
  <2>3. client = "agree" /\ Agreeing /\ state' = "timeout" => Agreeing'
    BY <2>1 DEF Agreeing, OneOf, Talking, Word, Line
  <2>4. client = "done" /\ Finished /\ state' = "timeout" => Finished'
    BY <2>1 DEF Finished, Talking, Word, Line
  <2> QED
    BY <2>1, <2>2, <2>3, <2>4 DEF Lockstep
<1>4. CASE PeerSends \/ PeerLeaves
  BY <1>4 DEF PeerSends, PeerLeaves, config, Lockstep
<1>5. CASE UNCHANGED saslVars
  BY <1>5 DEF saslVars, config, server, clientVars, Lockstep, Waiting, Agreeing, Finished,
             OneOf, Word, Line
<1> QED
  BY <1>1, <1>2, <1>3, <1>4, <1>5 DEF SaslNext

\* Whatever the two sides are configured for, the repository's client takes the
\* handshake for done only when the server has accepted it or has what it needs
\* to; when both are done no line is left on its way, and they agree on passing
\* file descriptors.
THEOREM SidesAgree == SaslSpec => []BothSidesAgree
<1>1. SaslInit => Lockstep
  BY DEF SaslInit, Lockstep
<1>2. Lockstep => BothSidesAgree
  <2> SUFFICES ASSUME Lockstep, ours, client = "done" PROVE BothSidesAgree
    BY DEF BothSidesAgree
  <2>1. Finished
    BY DEF Lockstep
  <2>2. <<Word("BEGIN")>> # << >>
    BY Queues
  <2> QED
    BY <2>1, <2>2 DEF Finished, BothSidesAgree
<1> QED
  BY <1>1, <1>2, LockstepStep, PTL DEF SaslSpec

=============================================================================
