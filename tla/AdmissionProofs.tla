--------------------------- MODULE AdmissionProofs ---------------------------
(***************************************************************************)
(* Admission's counter is right for any number of sockets, users and any    *)
(* limits.                                                                  *)
(***************************************************************************)
EXTENDS Admission, FiniteSetTheorems, TLAPS

\* The inductive invariant: the types and the balance of the guards need only
\* each other.
GuardInv == AdmissionTypeOK /\ GuardsBalance

\* What a step may do to the set of tasks that hold a guard, and with it to the
\* counter: leave both, add one while there is room, or take one away.
GuardStep ==
    \/ Guarded' = Guarded /\ incomplete' = incomplete
    \/ \E s \in Sockets \ Guarded :
          /\ Guarded' = Guarded \cup {s}
          /\ incomplete' = incomplete + 1
          /\ incomplete < MaxIncomplete
    \/ \E s \in Guarded : Guarded' = Guarded \ {s} /\ incomplete' = incomplete - 1

\* The counter follows the set through such a step.
LEMMA GuardStepBalances ==
    ASSUME GuardInv, GuardStep
    PROVE  incomplete' \in Nat /\ GuardsBalance'
<1> USE LimitsAssumption DEF GuardInv, GuardsBalance
<1>1. IsFiniteSet(Guarded)
  BY SocketsAssumption, FS_Subset DEF Guarded, In
<1>2. incomplete \in Nat
  BY DEF AdmissionTypeOK
<1>3. CASE Guarded' = Guarded /\ incomplete' = incomplete
  BY <1>2, <1>3
<1>4. CASE \E s \in Sockets \ Guarded :
              /\ Guarded' = Guarded \cup {s}
              /\ incomplete' = incomplete + 1
              /\ incomplete < MaxIncomplete
  <2>1. PICK s \in Sockets \ Guarded :
              /\ Guarded' = Guarded \cup {s}
              /\ incomplete' = incomplete + 1
              /\ incomplete < MaxIncomplete
    BY <1>4
  <2>2. Cardinality(Guarded \cup {s}) = Cardinality(Guarded) + 1
    BY <1>1, <2>1, FS_AddElement
  <2> QED BY <1>2, <2>1, <2>2
<1>5. CASE \E s \in Guarded : Guarded' = Guarded \ {s} /\ incomplete' = incomplete - 1
  <2>1. PICK s \in Guarded : Guarded' = Guarded \ {s} /\ incomplete' = incomplete - 1
    BY <1>5
  <2>2. /\ Cardinality(Guarded \ {s}) = Cardinality(Guarded) - 1
        /\ Cardinality(Guarded \ {s}) \in Nat
    BY <1>1, <2>1, FS_RemoveElement, FS_CardinalityType
  <2> QED BY <1>2, <2>1, <2>2
<1> QED BY <1>3, <1>4, <1>5 DEF GuardStep

\* Initially nobody holds a guard.
LEMMA GuardInit == AdmissionInit => GuardInv
<1> SUFFICES ASSUME AdmissionInit PROVE GuardInv
  OBVIOUS
<1>1. AdmissionTypeOK
  BY LimitsAssumption DEF AdmissionInit, AdmissionTypeOK, Phases, Reasons
<1>2. Guarded = {}
  BY DEF AdmissionInit, Guarded, In
<1>3. GuardsBalance
  BY <1>2, FS_EmptySet, LimitsAssumption DEF AdmissionInit, GuardsBalance
<1> QED BY <1>1, <1>3 DEF GuardInv

\* The part of the type invariant that no step needs the balance for: all of
\* it but the counter.
TypesApart ==
    /\ phase \in [Sockets -> Phases]
    /\ uid \in [Sockets -> Users]
    /\ elapsed \in [Sockets -> 0 .. AuthTimeout]
    /\ refused \in Reasons
    /\ overlapped \subseteq Users
    /\ \A s \in Sockets : elapsed[s] # 0 => phase[s] = "handshake"

\* Each action of a socket, and time, keep those types.
LEMMA TypesKept == ASSUME TypesApart, AdmissionNext PROVE TypesApart'
<1> USE LimitsAssumption DEF TypesApart, Phases, Reasons, Handshaking
<1>1. CASE Tick
  BY <1>1 DEF Tick
<1>2. ASSUME NEW s \in Sockets, NEW u \in Users, Accept(s, u) PROVE TypesApart'
  BY <1>2 DEF Accept
<1>3. ASSUME NEW s \in Sockets, Begin(s) PROVE TypesApart'
  <2>1. CASE RefuseUser(s)
    BY <2>1 DEF RefuseUser, TurnAway
  <2>2. CASE StartHandshake(s)
    BY <2>2 DEF StartHandshake
  <2>3. CASE phase[s] = "accepted" /\ TurnAway(s, "incomplete")
    BY <2>3 DEF TurnAway
  <2>4. CASE phase[s] = "accepted" /\ TurnAway(s, "transport")
    BY <2>4 DEF TurnAway
  <2> QED BY <1>3, <2>1, <2>2, <2>3, <2>4 DEF Begin
<1>4. ASSUME NEW s \in Sockets, SaslLine(s) PROVE TypesApart'
  BY <1>4 DEF SaslLine
<1>5. ASSUME NEW s \in Sockets, HandshakeOk(s) PROVE TypesApart'
  BY <1>5 DEF HandshakeOk
<1>6. ASSUME NEW s \in Sockets, HandshakeFails(s) PROVE TypesApart'
  BY <1>6 DEF HandshakeFails, GiveUpHandshake
<1>7. ASSUME NEW s \in Sockets, HandshakeTimesOut(s) PROVE TypesApart'
  BY <1>7 DEF HandshakeTimesOut, GiveUpHandshake
<1>8. ASSUME NEW s \in Sockets, ReadLoopEnds(s) PROVE TypesApart'
  BY <1>8 DEF ReadLoopEnds
<1>9. ASSUME NEW s \in Sockets, TaskEnds(s) PROVE TypesApart'
  BY <1>9 DEF TaskEnds
<1> QED
  BY <1>1, <1>2, <1>3, <1>4, <1>5, <1>6, <1>7, <1>8, <1>9 DEF AdmissionNext

\* Each action is a GuardStep: only the start of the handshake takes a guard,
\* and whatever ends a task that has one gives it back.
LEMMA ActionsBalance == ASSUME TypesApart, AdmissionNext PROVE GuardStep
<1> USE DEF TypesApart, Phases, Handshaking, Guarded, In
<1>1. ASSUME phase' = phase, incomplete' = incomplete PROVE GuardStep
  BY <1>1 DEF GuardStep
<1>2. ASSUME NEW s \in Sockets, phase[s] \in {"none", "accepted"},
             phase' = [phase EXCEPT ![s] = "none"], incomplete' = incomplete
      PROVE  GuardStep
  BY <1>2 DEF GuardStep
<1>3. ASSUME NEW s \in Sockets, phase[s] \in {"handshake", "open", "closing"},
             phase' = [phase EXCEPT ![s] = "none"], incomplete' = incomplete - 1
      PROVE  GuardStep
  <2>1. s \in Guarded /\ Guarded' = Guarded \ {s}
    BY <1>3
  <2> QED BY <1>3, <2>1 DEF GuardStep
<1>4. CASE Tick
  BY <1>1, <1>4 DEF Tick
<1>5. ASSUME NEW s \in Sockets, NEW u \in Users, Accept(s, u) PROVE GuardStep
  BY <1>5 DEF Accept, GuardStep
<1>6. ASSUME NEW s \in Sockets, Begin(s) PROVE GuardStep
  <2>1. CASE StartHandshake(s)
    <3>1. s \in Sockets \ Guarded /\ Guarded' = Guarded \cup {s}
      BY <2>1 DEF StartHandshake
    <3>2. incomplete' = incomplete + 1 /\ incomplete < MaxIncomplete
      BY <2>1 DEF StartHandshake, try_begin_incomplete
    <3> QED BY <3>1, <3>2 DEF GuardStep
  <2> QED BY <1>2, <1>6, <2>1 DEF Begin, RefuseUser, TurnAway
<1>7. ASSUME NEW s \in Sockets, SaslLine(s) PROVE GuardStep
  BY <1>1, <1>7 DEF SaslLine
<1>8. ASSUME NEW s \in Sockets, HandshakeOk(s) PROVE GuardStep
  BY <1>8 DEF HandshakeOk, GuardStep
<1>9. ASSUME NEW s \in Sockets, HandshakeFails(s) PROVE GuardStep
  BY <1>3, <1>9 DEF HandshakeFails, GiveUpHandshake
<1>10. ASSUME NEW s \in Sockets, HandshakeTimesOut(s) PROVE GuardStep
  BY <1>3, <1>10 DEF HandshakeTimesOut, GiveUpHandshake
<1>11. ASSUME NEW s \in Sockets, ReadLoopEnds(s) PROVE GuardStep
  BY <1>11 DEF ReadLoopEnds, GuardStep
<1>12. ASSUME NEW s \in Sockets, TaskEnds(s) PROVE GuardStep
  BY <1>3, <1>12 DEF TaskEnds
<1> QED
  BY <1>4, <1>5, <1>6, <1>7, <1>8, <1>9, <1>10, <1>11, <1>12 DEF AdmissionNext

\* The invariant is inductive.
LEMMA GuardNext == GuardInv /\ [AdmissionNext]_admissionVars => GuardInv'
<1> SUFFICES ASSUME GuardInv, [AdmissionNext]_admissionVars PROVE GuardInv'
  OBVIOUS
<1>1. CASE AdmissionNext
  <2>1. TypesApart
    BY DEF GuardInv, AdmissionTypeOK, TypesApart, Handshaking
  <2>2. TypesApart'
    BY <1>1, <2>1, TypesKept
  <2>3. incomplete' \in Nat /\ GuardsBalance'
    BY <1>1, <2>1, ActionsBalance, GuardStepBalances
  <2> QED BY <2>2, <2>3 DEF GuardInv, AdmissionTypeOK, TypesApart, Handshaking
<1>2. CASE UNCHANGED admissionVars
  BY <1>2 DEF admissionVars, GuardInv, AdmissionTypeOK, GuardsBalance, Guarded, In,
             Handshaking
<1> QED BY <1>1, <1>2

\* The types and the balance hold in every reachable state.
THEOREM GuardInvariance == AdmissionSpec => []GuardInv
BY GuardInit, GuardNext, PTL DEF AdmissionSpec

\* Every variable of the admission of sockets keeps its type, and the
\* authentication timer runs only during a handshake.
THEOREM AdmissionTypeCorrect == AdmissionSpec => []AdmissionTypeOK
<1>1. GuardInv => AdmissionTypeOK
  BY DEF GuardInv
<1> QED BY <1>1, GuardInvariance, PTL

\* Registry.incomplete is the number of handler tasks past the first check, for
\* every number of sockets and every limit: each path out of handle_connection
\* drops its guard once, and the limit is never exceeded.
THEOREM GuardsAlwaysBalance == AdmissionSpec => []GuardsBalance
<1>1. GuardInv => GuardsBalance
  BY DEF GuardInv
<1> QED BY <1>1, GuardInvariance, PTL

-----------------------------------------------------------------------------
(* The limit per user, where handshakes do not overlap *)

\* The sockets that count for u, now or once their handshake is over.
Claim(u) == OfUser("open", u) \cup OfUser("handshake", u)

\* What a step may do to the claims of a user it does not mark: shrink them, or
\* add one when no handshake is under way and the count is below the limit.
ClaimStep(u) ==
    \/ Claim(u)' \subseteq Claim(u)
    \/ \E s \in Sockets :
          /\ Claim(u)' = OfUser("open", u) \cup {s}
          /\ connection_count_for_uid(u) < MaxPerUser

\* A claim that follows such a step stays within the limit.
LEMMA ClaimStepBounded ==
    ASSUME NEW u \in Users, Cardinality(Claim(u)) <= MaxPerUser, ClaimStep(u)
    PROVE  Cardinality(Claim(u)') <= MaxPerUser
<1>1. IsFiniteSet(Claim(u)) /\ IsFiniteSet(OfUser("open", u))
  BY SocketsAssumption, FS_Subset DEF Claim, OfUser, In
<1>2. CASE Claim(u)' \subseteq Claim(u)
  <2>1. /\ IsFiniteSet(Claim(u)')
        /\ Cardinality(Claim(u)') <= Cardinality(Claim(u))
    BY <1>1, <1>2, FS_Subset
  <2>2. Cardinality(Claim(u)') \in Nat /\ Cardinality(Claim(u)) \in Nat
    BY <1>1, <2>1, FS_CardinalityType
  <2> QED BY <2>1, <2>2, LimitsAssumption
<1>3. ASSUME NEW s \in Sockets, Claim(u)' = OfUser("open", u) \cup {s},
             connection_count_for_uid(u) < MaxPerUser
      PROVE  Cardinality(Claim(u)') <= MaxPerUser
  <2>1. Cardinality(OfUser("open", u)) \in Nat
    BY <1>1, FS_CardinalityType
  <2>2. \/ Cardinality(OfUser("open", u) \cup {s}) = Cardinality(OfUser("open", u))
        \/ Cardinality(OfUser("open", u) \cup {s}) = Cardinality(OfUser("open", u)) + 1
    BY <1>1, FS_AddElement, Zenon
  <2>3. Cardinality(OfUser("open", u) \cup {s}) \in Nat
    BY <1>1, FS_AddElement, FS_CardinalityType
  <2> QED BY <1>3, <2>1, <2>2, <2>3, LimitsAssumption DEF connection_count_for_uid
<1> QED BY <1>2, <1>3 DEF ClaimStep

\* Each action is a ClaimStep for a user whose handshakes have not overlapped,
\* and no user is ever unmarked.
LEMMA ActionsClaim ==
    ASSUME TypesApart, AdmissionNext, NEW u \in Users \ overlapped'
    PROVE  u \notin overlapped /\ ClaimStep(u)
<1> USE DEF TypesApart, Phases, Handshaking, Claim, OfUser, In
<1>1. ASSUME phase' = phase, uid' = uid PROVE Claim(u)' \subseteq Claim(u)
  BY <1>1
<1>2. ASSUME NEW s \in Sockets, NEW p \in {"none", "accepted", "closing"},
             phase' = [phase EXCEPT ![s] = p],
             \A t \in Sockets \ {s} : uid'[t] = uid[t]
      PROVE  Claim(u)' \subseteq Claim(u)
  BY <1>2
<1>3. CASE Tick
  BY <1>1, <1>3 DEF Tick, ClaimStep
<1>4. ASSUME NEW s \in Sockets, NEW v \in Users, Accept(s, v)
      PROVE  u \notin overlapped /\ ClaimStep(u)
  BY <1>2, <1>4 DEF Accept, ClaimStep
<1>5. ASSUME NEW s \in Sockets, Begin(s) PROVE u \notin overlapped /\ ClaimStep(u)
  <2>1. CASE StartHandshake(s)
    <3>1. u \notin overlapped
      BY <2>1 DEF StartHandshake
    <3>2. CASE uid[s] # u
      <4>1. Claim(u)' \subseteq Claim(u)
        BY <2>1, <3>2 DEF StartHandshake
      <4> QED BY <3>1, <4>1 DEF ClaimStep
    <3>3. CASE uid[s] = u
      <4>1. OfUser("handshake", u) = {}
        BY <2>1, <3>3 DEF StartHandshake
      <4>2. Claim(u)' = OfUser("open", u) \cup {s}
        BY <2>1, <3>3, <4>1 DEF StartHandshake
      <4>3. connection_count_for_uid(u) < MaxPerUser
        <5>1. ~ (connection_count_for_uid(u) >= MaxPerUser)
          BY <2>1, <3>3 DEF StartHandshake, UserFull
        <5>2. connection_count_for_uid(u) \in Nat
          BY SocketsAssumption, FS_Subset, FS_CardinalityType
             DEF connection_count_for_uid
        <5> QED BY <5>1, <5>2, LimitsAssumption
      <4> QED BY <3>1, <4>2, <4>3 DEF ClaimStep
    <3> QED BY <3>2, <3>3
  <2> QED BY <1>2, <1>5, <2>1 DEF Begin, RefuseUser, TurnAway, ClaimStep
<1>6. ASSUME NEW s \in Sockets, SaslLine(s) PROVE u \notin overlapped /\ ClaimStep(u)
  BY <1>1, <1>6 DEF SaslLine, ClaimStep
<1>7. ASSUME NEW s \in Sockets, HandshakeOk(s)
      PROVE  u \notin overlapped /\ ClaimStep(u)
  <2>1. Claim(u)' \subseteq Claim(u)
    BY <1>7 DEF HandshakeOk
  <2> QED BY <1>7, <2>1 DEF HandshakeOk, ClaimStep
<1>8. ASSUME NEW s \in Sockets, HandshakeFails(s)
      PROVE  u \notin overlapped /\ ClaimStep(u)
  BY <1>2, <1>8 DEF HandshakeFails, GiveUpHandshake, ClaimStep
<1>9. ASSUME NEW s \in Sockets, HandshakeTimesOut(s)
      PROVE  u \notin overlapped /\ ClaimStep(u)
  BY <1>2, <1>9 DEF HandshakeTimesOut, GiveUpHandshake, ClaimStep
<1>10. ASSUME NEW s \in Sockets, ReadLoopEnds(s)
       PROVE  u \notin overlapped /\ ClaimStep(u)
  BY <1>2, <1>10 DEF ReadLoopEnds, ClaimStep
<1>11. ASSUME NEW s \in Sockets, TaskEnds(s) PROVE u \notin overlapped /\ ClaimStep(u)
  BY <1>2, <1>11 DEF TaskEnds, ClaimStep
<1> QED
  BY <1>3, <1>4, <1>5, <1>6, <1>7, <1>8, <1>9, <1>10, <1>11 DEF AdmissionNext

\* The limit per user holds, for every number of sockets and every limit, for
\* users whose handshakes never overlapped: checking before the handshake is
\* enough then, and only then.
THEOREM SequentialUsersStayWithinLimit == AdmissionSpec => []SequentialUsersWithinLimit
<1>1. AdmissionInit => SequentialUsersWithinLimit
  <2> SUFFICES ASSUME AdmissionInit, NEW u \in Users
               PROVE  Cardinality(Claim(u)) <= MaxPerUser
    BY DEF SequentialUsersWithinLimit, Claim
  <2>1. Claim(u) = {}
    BY DEF AdmissionInit, Claim, OfUser, In
  <2> QED BY <2>1, FS_EmptySet, LimitsAssumption
<1>2. AdmissionTypeOK /\ SequentialUsersWithinLimit /\ [AdmissionNext]_admissionVars
        => SequentialUsersWithinLimit'
  <2> SUFFICES ASSUME AdmissionTypeOK, SequentialUsersWithinLimit,
                      [AdmissionNext]_admissionVars
               PROVE  SequentialUsersWithinLimit'
    OBVIOUS
  <2>1. CASE AdmissionNext
    <3> SUFFICES ASSUME NEW u \in Users \ overlapped'
                 PROVE  Cardinality(Claim(u)') <= MaxPerUser
      BY DEF SequentialUsersWithinLimit, Claim
    <3>1. TypesApart
      BY DEF AdmissionTypeOK, TypesApart, Handshaking
    <3>2. u \notin overlapped /\ ClaimStep(u)
      BY <2>1, <3>1, ActionsClaim
    <3>3. Cardinality(Claim(u)) <= MaxPerUser
      BY <3>2 DEF SequentialUsersWithinLimit, Claim
    <3> QED BY <3>2, <3>3, ClaimStepBounded
  <2>2. CASE UNCHANGED admissionVars
    BY <2>2 DEF admissionVars, SequentialUsersWithinLimit, OfUser, In
  <2> QED BY <2>1, <2>2
<1> QED BY <1>1, <1>2, AdmissionTypeCorrect, PTL DEF AdmissionSpec

==============================================================================
