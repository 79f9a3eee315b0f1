------------------------------ MODULE Admission ------------------------------
(***************************************************************************)
(* Who gets in: the life of an accepted socket from accept() to the end of  *)
(* its handler task (connection_handler.rs, the accept loop of main.rs) and *)
(* the two limits that decide about it, max_incomplete_connections and      *)
(* max_connections_per_user.                                                *)
(*                                                                          *)
(* A task runs without a break up to the handshake, so the checks and the   *)
(* start of the handshake are one step.  The handshake awaits the peer line *)
(* by line under one timeout; what the lines say is left to the SASL state  *)
(* machine.  Time is counted in ticks, AuthTimeout of them.                 *)
(***************************************************************************)
EXTENDS Integers, FiniteSets

CONSTANTS
    Sockets,         \* client ends that connect, again and again
    Users,           \* uids the peer credentials may show
    MaxIncomplete,   \* limits.max_incomplete_connections
    MaxPerUser,      \* limits.max_connections_per_user
    AuthTimeout      \* limits.auth_timeout_ms, in ticks

ASSUME SocketsAssumption == IsFiniteSet(Sockets)
ASSUME LimitsAssumption ==
    /\ MaxIncomplete \in Nat
    /\ MaxPerUser \in Nat
    /\ AuthTimeout \in Nat \ {0}

VARIABLES
    phase,       \* per socket: where its handler task is
    uid,         \* per socket: the uid of its credentials
    incomplete,  \* Registry.incomplete
    elapsed,     \* per socket: time since its handshake started
    refused,     \* why the last step turned a socket away, or "no"
    overlapped   \* users that had two handshakes under way at a time

admissionVars == <<phase, uid, incomplete, elapsed, refused, overlapped>>

-----------------------------------------------------------------------------

\* none: no task; accepted: spawned, not yet run; open: in the connections map;
\* closing: removed from it, still announcing that.
Phases == {"none", "accepted", "handshake", "open", "closing"}

Reasons == {"no", "incomplete", "transport", "per_user", "auth", "timeout"}

In(p) == {s \in Sockets : phase[s] = p}

OfUser(p, u) == {s \in In(p) : uid[s] = u}

\* IncompleteGuard lives as long as the handler task after the first check: the
\* guard is a local of handle_connection, and drops when that returns.
Guarded == In("handshake") \cup In("open") \cup In("closing")

connection_count_for_uid(u) == Cardinality(OfUser("open", u))

AdmissionInit ==
    /\ phase = [s \in Sockets |-> "none"]
    /\ uid \in [Sockets -> Users]
    /\ incomplete = 0
    /\ elapsed = [s \in Sockets |-> 0]
    /\ refused = "no"
    /\ overlapped = {}

-----------------------------------------------------------------------------
(* Up to the handshake *)

\* The accept loop spawns a task for the new socket.
Accept(s, u) ==
    /\ phase[s] = "none"
    /\ phase' = [phase EXCEPT ![s] = "accepted"]
    /\ uid' = [uid EXCEPT ![s] = u]
    /\ refused' = "no"
    /\ UNCHANGED <<incomplete, elapsed, overlapped>>

\* The task returns before the handshake: the socket is dropped, the guard, if
\* there is one already, too.
TurnAway(s, why) ==
    /\ phase' = [phase EXCEPT ![s] = "none"]
    /\ refused' = why
    /\ UNCHANGED <<uid, incomplete, elapsed, overlapped>>

try_begin_incomplete == incomplete < MaxIncomplete

\* Mutant: the limit itself is let through.
UserFull_OffByOne(u) == connection_count_for_uid(u) > MaxPerUser

UserFull(u) == connection_count_for_uid(u) >= MaxPerUser

\* Mutant: this early return forgets to give the place back.
RefuseUser_Leaks(s) ==
    /\ phase[s] = "accepted"
    /\ try_begin_incomplete
    /\ UserFull(uid[s])
    /\ phase' = [phase EXCEPT ![s] = "none"]
    /\ incomplete' = incomplete + 1
    /\ refused' = "per_user"
    /\ UNCHANGED <<uid, elapsed, overlapped>>

RefuseUser(s) ==
    /\ phase[s] = "accepted"
    /\ try_begin_incomplete
    /\ UserFull(uid[s])
    /\ TurnAway(s, "per_user")

StartHandshake(s) ==
    /\ phase[s] = "accepted"
    /\ try_begin_incomplete
    /\ ~ UserFull(uid[s])
    /\ phase' = [phase EXCEPT ![s] = "handshake"]
    /\ incomplete' = incomplete + 1
    /\ refused' = "no"
    /\ overlapped' = IF OfUser("handshake", uid[s]) = {} THEN overlapped
                     ELSE overlapped \cup {uid[s]}
    /\ UNCHANGED <<uid, elapsed>>

\* The task's first run: too many guards, no credentials for the socket, the
\* user's share is used up, or the handshake starts.
Begin(s) ==
    \/ /\ phase[s] = "accepted"
       /\ ~ try_begin_incomplete
       /\ TurnAway(s, "incomplete")
    \/ /\ phase[s] = "accepted"
       /\ try_begin_incomplete
       /\ TurnAway(s, "transport")
    \/ RefuseUser(s)
    \/ StartHandshake(s)

-----------------------------------------------------------------------------
(* The handshake *)

Handshaking(s) == phase[s] = "handshake"

\* Mutant: the timeout is for a line instead of the whole handshake.
SaslLine_Rearms(s) ==
    /\ Handshaking(s)
    /\ elapsed' = [elapsed EXCEPT ![s] = 0]
    /\ refused' = "no"
    /\ UNCHANGED <<phase, uid, incomplete, overlapped>>

\* A line of the peer that is answered and does not end the handshake.
SaslLine(s) ==
    /\ Handshaking(s)
    /\ refused' = "no"
    /\ UNCHANGED <<phase, uid, incomplete, elapsed, overlapped>>

\* BEGIN: the connection enters the map.
HandshakeOk(s) ==
    /\ Handshaking(s)
    /\ phase' = [phase EXCEPT ![s] = "open"]
    /\ elapsed' = [elapsed EXCEPT ![s] = 0]
    /\ refused' = "no"
    /\ UNCHANGED <<uid, incomplete, overlapped>>

\* Mutant: the timer of the handshake is not cancelled.
GiveUpHandshake_KeepsTimer(s, why) ==
    /\ Handshaking(s)
    /\ phase' = [phase EXCEPT ![s] = "none"]
    /\ incomplete' = incomplete - 1
    /\ refused' = why
    /\ UNCHANGED <<uid, elapsed, overlapped>>

GiveUpHandshake(s, why) ==
    /\ Handshaking(s)
    /\ phase' = [phase EXCEPT ![s] = "none"]
    /\ elapsed' = [elapsed EXCEPT ![s] = 0]
    /\ incomplete' = incomplete - 1
    /\ refused' = why
    /\ UNCHANGED <<uid, overlapped>>

\* A read or write error, or the SASL state machine gives up.
HandshakeFails(s) == GiveUpHandshake(s, "auth")

HandshakeTimesOut(s) == elapsed[s] = AuthTimeout /\ GiveUpHandshake(s, "timeout")

\* Time passes; the model stops counting at the timeout.
Tick ==
    /\ \E s \in In("handshake") : elapsed[s] < AuthTimeout
    /\ elapsed' = [s \in Sockets |->
                      IF Handshaking(s) /\ elapsed[s] < AuthTimeout
                      THEN elapsed[s] + 1 ELSE elapsed[s]]
    /\ refused' = "no"
    /\ UNCHANGED <<phase, uid, incomplete, overlapped>>

-----------------------------------------------------------------------------
(* After it *)

\* The read loop ends and the connection leaves the map.
ReadLoopEnds(s) ==
    /\ phase[s] = "open"
    /\ phase' = [phase EXCEPT ![s] = "closing"]
    /\ refused' = "no"
    /\ UNCHANGED <<uid, incomplete, elapsed, overlapped>>

\* The departure is announced and the task returns.
TaskEnds(s) ==
    /\ phase[s] = "closing"
    /\ phase' = [phase EXCEPT ![s] = "none"]
    /\ incomplete' = incomplete - 1
    /\ refused' = "no"
    /\ UNCHANGED <<uid, elapsed, overlapped>>

AdmissionNext ==
    \/ Tick
    \/ \E s \in Sockets :
          \/ \E u \in Users : Accept(s, u)
          \/ Begin(s)
          \/ SaslLine(s)
          \/ HandshakeOk(s)
          \/ HandshakeFails(s)
          \/ HandshakeTimesOut(s)
          \/ ReadLoopEnds(s)
          \/ TaskEnds(s)

\* Time passes, a spawned task is run, and a timer that expired is acted on.
\* Nothing is assumed of the peer.
AdmissionFairness ==
    /\ WF_admissionVars(Tick)
    /\ \A s \in Sockets : /\ WF_admissionVars(Begin(s))
                          /\ WF_admissionVars(HandshakeTimesOut(s))

AdmissionSpec == AdmissionInit /\ [][AdmissionNext]_admissionVars

FairAdmissionSpec == AdmissionSpec /\ AdmissionFairness

-----------------------------------------------------------------------------
(* Properties *)

\* Every variable keeps its type, and a timer runs only during a handshake: no
\* way out of the handshake leaves it armed.
AdmissionTypeOK ==
    /\ phase \in [Sockets -> Phases]
    /\ uid \in [Sockets -> Users]
    /\ incomplete \in Nat
    /\ elapsed \in [Sockets -> 0 .. AuthTimeout]
    /\ refused \in Reasons
    /\ overlapped \subseteq Users
    /\ \A s \in Sockets : elapsed[s] # 0 => Handshaking(s)

\* However a handler task ends (six early returns, a timeout, the end of the read
\* loop), its place is given back exactly once: the counter is the number of
\* tasks that hold a guard, never wraps below zero, and stays within the limit.
GuardsBalance ==
    /\ incomplete = Cardinality(Guarded)
    /\ incomplete <= MaxIncomplete

\* The limit per user holds for users whose handshakes never overlap; the count
\* is taken before the handshake and not again after it.
SequentialUsersWithinLimit ==
    \A u \in Users \ overlapped :
        Cardinality(OfUser("open", u) \cup OfUser("handshake", u)) <= MaxPerUser

\* No peer, however slowly it talks and however many lines it sends, keeps a
\* task in the handshake.
HandshakesEnd ==
    \A s \in Sockets :
        phase[s] \in {"accepted", "handshake"} ~> phase[s] \in {"none", "open"}

\* What the log says when a socket is turned away: so many incomplete
\* connections are in flight (tasks whose handshake is not over).
RefusedOnlyWhenHandshakesFull ==
    refused = "incomplete" => Cardinality(In("handshake")) >= MaxIncomplete

\* max_connections_per_user bounds the connections of a user.
UsersWithinLimit ==
    \A u \in Users : connection_count_for_uid(u) <= MaxPerUser

=============================================================================
