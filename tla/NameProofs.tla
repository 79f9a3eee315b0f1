----------------------------- MODULE NameProofs -----------------------------
(***************************************************************************)
(* Proofs about the name registry and its signals, for every set of names,  *)
(* every limit and every number of connections.                             *)
(*                                                                          *)
(* First the queues: types, places and owners.  Then what the registry's    *)
(* steps do to the queues, place by place, and what follows from it: the    *)
(* order of the queues, the answers, the events, the limit, and that the    *)
(* registry implements NameOwnership.  Last the signals: a step of          *)
(* NameSignals is a step of the registry or leaves it alone, and SignalsInv *)
(* follows the one announcement an unraced name can have through its task:  *)
(* who has been told, and what everybody else still believes.               *)
(***************************************************************************)
EXTENDS NameSignals, FiniteSetTheorems, WellFoundedInduction, TLAPS

-----------------------------------------------------------------------------
(* Retain *)

\* The least-number principle, stated for a set: what the inductions below rest
\* on.
LEMMA LeastNat ==
    ASSUME NEW S, S \subseteq Nat, S # {}
    PROVE  \E m \in S : \A k \in S : m <= k
<1>1. PICK m \in S : \A k \in S : ~ (<<k, m>> \in OpToRel(<, Nat))
  BY WFMin, NatLessThanWellFounded
<1>2. \A k \in S : ~ (k < m)
  BY <1>1 DEF OpToRel
<1> QED
  BY <1>2

\* The table of Retain's recursion, for the first n entries of q.
IsKept(f, q, c, n) ==
    f = [i \in 0 .. n |->
            IF i = 0 THEN << >>
            ELSE IF q[i].unique_name # c THEN Append(f[i - 1], q[i])
            ELSE f[i - 1]]

\* The table exists: a least n without one cannot be 0, and the table for
\* n - 1 extends to one for n.
LEMMA KeptExists ==
    ASSUME NEW q, NEW c, NEW n \in Nat
    PROVE  \E f : IsKept(f, q, c, n)
<1> DEFINE Bad == {m \in Nat : ~ \E f : IsKept(f, q, c, m)}
<1>1. SUFFICES ASSUME Bad # {} PROVE FALSE
  OBVIOUS
<1>2. PICK m \in Bad : \A k \in Bad : m <= k
  <2>1. Bad \subseteq Nat
    OBVIOUS
  <2> HIDE DEF Bad
  <2> QED
    BY <1>1, <2>1, LeastNat
<1>3. m # 0
  <2>1. IsKept([i \in 0 .. 0 |-> << >>], q, c, 0)
    BY DEF IsKept
  <2> QED
    BY <2>1
<1>4. PICK g : IsKept(g, q, c, m - 1)
  BY <1>2, <1>3
<1> DEFINE f == [i \in 0 .. m |->
                    IF i = m THEN IF q[m].unique_name # c
                                  THEN Append(g[m - 1], q[m])
                                  ELSE g[m - 1]
                    ELSE g[i]]
<1>5. IsKept(f, q, c, m)
  <2>1. \A i \in 0 .. m - 1 :
           g[i] = IF i = 0 THEN << >>
                  ELSE IF q[i].unique_name # c THEN Append(g[i - 1], q[i])
                  ELSE g[i - 1]
    BY <1>4, <1>2, <1>3 DEF IsKept
  <2>2. \A i \in 0 .. m :
           f[i] = IF i = 0 THEN << >>
                  ELSE IF q[i].unique_name # c THEN Append(f[i - 1], q[i])
                  ELSE f[i - 1]
    BY <2>1, <1>2, <1>3
  <2> QED
    BY <2>2 DEF IsKept
<1> QED
  BY <1>2, <1>5

\* What Retain does to the first n entries of q.
KeptFacts(r, q, c, n) ==
    /\ r \in Seq(QueueEntry)
    /\ Len(r) <= n
    /\ \A j \in 1 .. Len(r) : \E i \in 1 .. n : r[j] = q[i] /\ q[i].unique_name # c
    /\ \A i \in 1 .. n :
          q[i].unique_name # c => \E j \in 1 .. Len(r) : r[j] = q[i]
    /\ (\A i, j \in 1 .. n : q[i].unique_name = q[j].unique_name => i = j)
          => \A i, j \in 1 .. Len(r) : r[i].unique_name = r[j].unique_name => i = j
    /\ (n > 0 /\ q[1].unique_name # c) => Len(r) > 0 /\ r[1] = q[1]

\* One step of the recursion keeps the facts.
LEMMA KeptStep ==
    ASSUME NEW q \in Seq(QueueEntry), NEW c, NEW n \in 1 .. Len(q), NEW s,
           KeptFacts(s, q, c, n - 1)
    PROVE  KeptFacts(IF q[n].unique_name # c THEN Append(s, q[n]) ELSE s,
                     q, c, n)
<1>1. q[n] \in QueueEntry /\ s \in Seq(QueueEntry) /\ Len(s) \in Nat
      /\ Len(s) <= n - 1 /\ n \in Nat /\ n >= 1
  BY DEF KeptFacts
<1>2. \A j \in 1 .. Len(s) : \E i \in 1 .. n - 1 : s[j] = q[i] /\ q[i].unique_name # c
  BY DEF KeptFacts
<1>3. \A i \in 1 .. n - 1 :
          q[i].unique_name # c => \E j \in 1 .. Len(s) : s[j] = q[i]
  BY DEF KeptFacts
<1>4. (\A i, j \in 1 .. n - 1 : q[i].unique_name = q[j].unique_name => i = j)
       => \A i, j \in 1 .. Len(s) : s[i].unique_name = s[j].unique_name => i = j
  BY DEF KeptFacts
<1>5. (n > 1 /\ q[1].unique_name # c) => Len(s) > 0 /\ s[1] = q[1]
  BY <1>1 DEF KeptFacts
<1>6. CASE q[n].unique_name = c
  <2>1. \A j \in 1 .. Len(s) : \E i \in 1 .. n : s[j] = q[i] /\ q[i].unique_name # c
    BY <1>1, <1>2
  <2>2. \A i \in 1 .. n :
           q[i].unique_name # c => \E j \in 1 .. Len(s) : s[j] = q[i]
    BY <1>1, <1>3, <1>6
  <2>3. (\A i, j \in 1 .. n : q[i].unique_name = q[j].unique_name => i = j)
        => \A i, j \in 1 .. Len(s) : s[i].unique_name = s[j].unique_name => i = j
    <3>1. 1 .. n - 1 \subseteq 1 .. n
      BY <1>1
    <3> QED
      BY <3>1, <1>4
  <2>4. q[1].unique_name # c => Len(s) > 0 /\ s[1] = q[1]
    BY <1>1, <1>5, <1>6
  <2>5. KeptFacts(s, q, c, n)
    BY <2>1, <2>2, <2>3, <2>4, <1>1 DEF KeptFacts
  <2> QED
    BY <2>5, <1>6
<1>7. CASE q[n].unique_name # c
  <2> DEFINE r == Append(s, q[n])
  <2>1. /\ r \in Seq(QueueEntry)
        /\ Len(r) = Len(s) + 1
        /\ r[Len(s) + 1] = q[n]
        /\ \A j \in 1 .. Len(s) : r[j] = s[j]
    BY <1>1
  <2> HIDE DEF r
  <2>2. ASSUME NEW j \in 1 .. Len(r)
        PROVE  \E i \in 1 .. n : r[j] = q[i] /\ q[i].unique_name # c
    <3>1. CASE j = Len(s) + 1
      BY <3>1, <2>1, <1>1, <1>7, SMTT(30)
    <3>2. CASE j # Len(s) + 1
      BY <3>2, <2>1, <1>1, <1>2, SMTT(30)
    <3> QED
      BY <3>1, <3>2
  <2>3. ASSUME NEW i \in 1 .. n, q[i].unique_name # c
        PROVE  \E j \in 1 .. Len(r) : r[j] = q[i]
    <3>1. CASE i = n
      BY <3>1, <2>1, <1>1
    <3>2. CASE i # n
      <4>1. PICK j \in 1 .. Len(s) : s[j] = q[i]
        BY <3>2, <2>3, <1>1, <1>3
      <4> QED
        BY <4>1, <2>1, <1>1
    <3> QED
      BY <3>1, <3>2
  <2>4. ASSUME \A i, j \in 1 .. n : q[i].unique_name = q[j].unique_name => i = j,
               NEW i \in 1 .. Len(r), NEW j \in 1 .. Len(r),
               r[i].unique_name = r[j].unique_name
        PROVE  i = j
    <3>1. \A k \in 1 .. Len(s) : s[k].unique_name # q[n].unique_name
      <4> SUFFICES ASSUME NEW k \in 1 .. Len(s),
                          s[k].unique_name = q[n].unique_name
                   PROVE  FALSE
        OBVIOUS
      <4>1. PICK l \in 1 .. n - 1 : s[k] = q[l]
        BY <1>2
      <4>2. l \in 1 .. n /\ n \in 1 .. n /\ l # n
        BY <1>1
      <4> QED
        BY <4>1, <4>2, <2>4
    <3>2. \A k, l \in 1 .. Len(s) : s[k].unique_name = s[l].unique_name => k = l
      <4>1. 1 .. n - 1 \subseteq 1 .. n
        BY <1>1
      <4> QED
        BY <4>1, <2>4, <1>4
    <3> QED
      BY <3>1, <3>2, <2>1, <2>4, <1>1, SMTT(30)
  <2>5. q[1].unique_name # c => Len(r) > 0 /\ r[1] = q[1]
    <3>1. CASE n = 1
      BY <3>1, <2>1, <1>1
    <3>2. CASE n # 1
      BY <3>2, <2>1, <1>1, <1>5
    <3> QED
      BY <3>1, <3>2
  <2>6. KeptFacts(r, q, c, n)
    BY <2>1, <2>2, <2>3, <2>4, <2>5, <1>1 DEF KeptFacts
  <2> QED
    BY <2>6, <1>7 DEF r
<1> QED
  BY <1>6, <1>7

\* Retain has such a table, and is its last entry.
LEMMA RetainTable ==
    ASSUME NEW q \in Seq(QueueEntry), NEW c
    PROVE  \E kept :
              /\ Retain(q, c) = kept[Len(q)]
              /\ \A i \in 0 .. Len(q) :
                    kept[i] = IF i = 0 THEN << >>
                              ELSE IF q[i].unique_name # c
                                   THEN Append(kept[i - 1], q[i])
                              ELSE kept[i - 1]
<1> DEFINE kept == CHOOSE f : IsKept(f, q, c, Len(q))
<1>1. IsKept(kept, q, c, Len(q))
  <2>1. Len(q) \in Nat
    OBVIOUS
  <2> QED
    BY <2>1, KeptExists
<1>2. Retain(q, c) = kept[Len(q)]
  <2>1. Retain(q, c) =
          (CHOOSE f : f = [i \in 0 .. Len(q) |->
                              IF i = 0 THEN << >>
                              ELSE IF q[i].unique_name # c
                                   THEN Append(f[i - 1], q[i])
                              ELSE f[i - 1]])[Len(q)]
    BY Zenon DEF Retain
  <2> QED
    BY <2>1, Zenon DEF IsKept
<1>3. \A i \in 0 .. Len(q) :
         kept[i] = IF i = 0 THEN << >>
                   ELSE IF q[i].unique_name # c THEN Append(kept[i - 1], q[i])
                   ELSE kept[i - 1]
  BY <1>1, Zenon DEF IsKept
<1> HIDE DEF kept
<1> QED
  BY <1>2, <1>3

\* Retain drops the entries of c and no others, keeps their order as far as the
\* first place goes, and makes no duplicates.
LEMMA RetainFacts ==
    ASSUME NEW q \in Seq(QueueEntry), NEW c
    PROVE  KeptFacts(Retain(q, c), q, c, Len(q))
<1> DEFINE N == Len(q)
<1>0. N \in Nat
  OBVIOUS
<1>1. PICK kept :
         /\ Retain(q, c) = kept[N]
         /\ \A i \in 0 .. N :
               kept[i] = IF i = 0 THEN << >>
                         ELSE IF q[i].unique_name # c
                              THEN Append(kept[i - 1], q[i])
                         ELSE kept[i - 1]
  BY RetainTable
<1>2. Retain(q, c) = kept[N]
  BY <1>1
<1>3. \A i \in 0 .. N :
         kept[i] = IF i = 0 THEN << >>
                   ELSE IF q[i].unique_name # c THEN Append(kept[i - 1], q[i])
                   ELSE kept[i - 1]
  BY <1>1
<1> DEFINE Bad == {m \in 0 .. N : ~ KeptFacts(kept[m], q, c, m)}
<1>4. SUFFICES ASSUME Bad # {} PROVE FALSE
  BY <1>0, <1>2
<1>5. PICK m \in Bad : \A k \in Bad : m <= k
  <2>1. Bad \subseteq Nat
    BY <1>0
  <2> QED
    BY <1>4, <2>1, LeastNat
<1>6. m # 0
  <2>1. kept[0] = << >>
    BY <1>3, <1>0
  <2>2. KeptFacts(<< >>, q, c, 0)
    BY DEF KeptFacts
  <2> QED
    BY <2>1, <2>2
<1>7. KeptFacts(kept[m - 1], q, c, m - 1)
  BY <1>5, <1>6, <1>0
<1>8. KeptFacts(kept[m], q, c, m)
  BY <1>7, <1>6, <1>5, <1>3, <1>0, KeptStep
<1> QED
  BY <1>8

-----------------------------------------------------------------------------
(* Well-formed queues *)

\* A queue the registry may hold: not empty, one place per connection, nobody
\* waiting who asked not to, and everybody in L.
GoodQueue(q, L) ==
    /\ q \in Seq(QueueEntry)
    /\ Len(q) > 0
    /\ \A i, j \in 1 .. Len(q) : q[i].unique_name = q[j].unique_name => i = j
    /\ \A i \in 2 .. Len(q) : ~ q[i].do_not_queue
    /\ \A i \in 1 .. Len(q) : q[i].unique_name \in L

\* The inductive invariant.  It is the conjunction of the type invariant and
\* the three queue properties, queue by queue: none of them is inductive alone,
\* because a replacement needs all of them of the old queue.
IInv ==
    /\ TypeOK
    /\ \A n \in DOMAIN names : GoodQueue(names[n], is_registered)

\* IInv is what the runs check, said differently.
LEMMA IInvMeaning ==
    IInv <=> TypeOK /\ QueuesWellFormed /\ HoldersAreLive /\ WaitersAgreedToWait
  BY DEF IInv, GoodQueue, TypeOK, QueuesWellFormed, HoldersAreLive,
         WaitersAgreedToWait

\* A connection that leaves a good queue leaves a good queue, if any.
LEMMA RetainGood ==
    ASSUME NEW L, NEW c, NEW q, GoodQueue(q, L), Retain(q, c) # << >>
    PROVE  GoodQueue(Retain(q, c), L \ {c})
<1> DEFINE r == Retain(q, c)
<1>1. KeptFacts(r, q, c, Len(q))
  BY RetainFacts DEF GoodQueue
<1> HIDE DEF r
<1>2. r \in Seq(QueueEntry) /\ q \in Seq(QueueEntry)
  BY <1>1 DEF KeptFacts, GoodQueue
<1>3. \A i, j \in 1 .. Len(r) : r[i].unique_name = r[j].unique_name => i = j
  BY <1>1 DEF KeptFacts, GoodQueue
<1>4. ASSUME NEW i \in 1 .. Len(r) PROVE r[i].unique_name \in L \ {c}
  <2>1. PICK k \in 1 .. Len(q) : r[i] = q[k] /\ q[k].unique_name # c
    BY <1>1 DEF KeptFacts
  <2> QED
    BY <2>1 DEF GoodQueue
<1>5. ASSUME NEW i \in 2 .. Len(r) PROVE ~ r[i].do_not_queue
  <2>1. PICK k \in 1 .. Len(q) : r[i] = q[k] /\ q[k].unique_name # c
    BY <1>1, <1>2 DEF KeptFacts
  <2>2. CASE k = 1
    <3>1. r[1] = q[1] /\ Len(r) > 0
      BY <2>1, <2>2, <1>1, <1>2 DEF KeptFacts, GoodQueue
    <3>2. i = 1
      BY <3>1, <2>1, <2>2, <1>2, <1>3
    <3> QED
      BY <3>2
  <2>3. CASE k # 1
    <3>1. k \in 2 .. Len(q)
      BY <2>3, <1>2
    <3> QED
      BY <3>1, <2>1 DEF GoodQueue
  <2> QED
    BY <2>2, <2>3
<1>6. Len(r) > 0
  BY <1>2 DEF r
<1> QED
  BY <1>2, <1>3, <1>4, <1>5, <1>6 DEF GoodQueue, r

\* A replacement, place by place: the caller, those that waited behind the
\* owner, and last the displaced owner if it agreed to wait.
LEMMA ReplacedPlaces ==
    ASSUME NEW c \in UniqueNames, NEW flags, NEW q \in Seq(QueueEntry),
           Len(q) > 0, q[1].unique_name # c,
           NEW rest, rest = Retain(q, c), NEW new, new = ReplacedQueue(q, c, flags)
    PROVE  /\ rest \in Seq(QueueEntry) /\ Len(rest) > 0 /\ rest[1] = q[1]
           /\ new \in Seq(QueueEntry)
           /\ Len(new) = IF q[1].do_not_queue THEN Len(rest) ELSE Len(rest) + 1
           /\ new[1] = Entry(c, "allow_replacement" \in flags,
                                "do_not_queue" \in flags)
           /\ \A i \in 2 .. Len(rest) : new[i] = rest[i]
           /\ ~ q[1].do_not_queue => new[Len(rest) + 1] = rest[1]
<1> DEFINE head == Entry(c, "allow_replacement" \in flags,
                            "do_not_queue" \in flags)
           back == IF q[1].do_not_queue THEN << >> ELSE <<rest[1]>>
           front == <<head>> \o Tail(rest)
<1>1. new = front \o back
  BY DEF ReplacedQueue
<1>2. head \in QueueEntry
  BY DEF Entry, QueueEntry
<1> HIDE DEF head
<1>3. rest \in Seq(QueueEntry) /\ Len(rest) > 0 /\ rest[1] = q[1]
  BY RetainFacts DEF KeptFacts
<1>4. /\ front \in Seq(QueueEntry)
      /\ Len(front) = Len(rest)
      /\ front[1] = head
      /\ \A i \in 2 .. Len(rest) : front[i] = rest[i]
  BY <1>2, <1>3
<1>5. rest[1] \in QueueEntry
  BY <1>3
<1> HIDE DEF front
<1>6. CASE q[1].do_not_queue
  <2>1. new = front
    BY <1>1, <1>4, <1>6
  <2> QED
    BY <2>1, <1>3, <1>4, <1>6 DEF head
<1>7. CASE ~ q[1].do_not_queue
  <2>1. new = front \o <<rest[1]>>
    BY <1>1, <1>7
  <2>2. /\ new \in Seq(QueueEntry)
        /\ Len(new) = Len(rest) + 1
        /\ \A i \in 1 .. Len(rest) : new[i] = front[i]
        /\ new[Len(rest) + 1] = rest[1]
    BY <2>1, <1>3, <1>4, <1>5, SMTT(30)
  <2> QED
    BY <2>2, <1>3, <1>4, <1>7 DEF head
<1> QED
  BY <1>6, <1>7

\* A replacement makes a good queue of a good queue: the caller's old place is
\* gone, the displaced owner waits only if it agreed to.
LEMMA ReplacedGood ==
    ASSUME NEW L, NEW c \in L, L \subseteq UniqueNames, NEW flags, NEW q,
           GoodQueue(q, L), q[1].unique_name # c
    PROVE  GoodQueue(ReplacedQueue(q, c, flags), L)
<1> DEFINE rest == Retain(q, c)
           head == Entry(c, "allow_replacement" \in flags,
                            "do_not_queue" \in flags)
           new == ReplacedQueue(q, c, flags)
<1>3. head \in QueueEntry /\ head.unique_name = c
  BY DEF Entry, QueueEntry
<1>4. /\ rest \in Seq(QueueEntry) /\ Len(rest) > 0 /\ rest[1] = q[1]
      /\ q \in Seq(QueueEntry) /\ Len(q) > 0
  BY ReplacedPlaces DEF GoodQueue
<1>7. /\ new \in Seq(QueueEntry)
      /\ Len(new) = IF q[1].do_not_queue THEN Len(rest) ELSE Len(rest) + 1
      /\ new[1] = head
      /\ \A i \in 2 .. Len(rest) : new[i] = rest[i]
      /\ ~ q[1].do_not_queue => new[Len(rest) + 1] = rest[1]
  BY ReplacedPlaces DEF GoodQueue
<1>5. rest # << >>
  BY <1>4
<1>6. GoodQueue(rest, L \ {c})
  BY <1>5, RetainGood
<1> HIDE DEF new, rest, head
<1>8. Len(rest) \in Nat /\ Len(new) \in Nat
  BY <1>4, <1>7
<1>9. \A i \in 2 .. Len(new) :
         \E k \in 1 .. Len(rest) :
            /\ new[i] = rest[k]
            /\ k = IF i = Len(rest) + 1 THEN 1 ELSE i
            /\ i = Len(rest) + 1 => ~ q[1].do_not_queue
  BY <1>4, <1>7, <1>8
<1>10. \A i \in 2 .. Len(new) : ~ new[i].do_not_queue
  BY <1>9, <1>8, <1>6, <1>4 DEF GoodQueue
<1>11. \A i \in 2 .. Len(new) : new[i].unique_name \in L \ {c}
  BY <1>9, <1>6, SMTT(30) DEF GoodQueue
<1>12. \A i \in 1 .. Len(new) : new[i].unique_name \in L
  BY <1>11, <1>7, <1>3, <1>8
<1>13. ASSUME NEW i \in 1 .. Len(new), NEW j \in 1 .. Len(new),
              new[i].unique_name = new[j].unique_name
       PROVE  i = j
  <2>1. CASE i = 1 \/ j = 1
    BY <2>1, <1>13, <1>11, <1>7, <1>3, <1>8
  <2>2. CASE i # 1 /\ j # 1
    <3>1. i \in 2 .. Len(new) /\ j \in 2 .. Len(new)
      BY <2>2, <1>8
    <3>2. PICK k \in 1 .. Len(rest) :
             new[i] = rest[k] /\ k = IF i = Len(rest) + 1 THEN 1 ELSE i
      BY <3>1, <1>9
    <3>3. PICK l \in 1 .. Len(rest) :
             new[j] = rest[l] /\ l = IF j = Len(rest) + 1 THEN 1 ELSE j
      BY <3>1, <1>9
    <3>4. k = l
      BY <3>2, <3>3, <1>13, <1>6 DEF GoodQueue
    <3> QED
      BY <3>1, <3>2, <3>3, <3>4, <1>8
  <2> QED
    BY <2>1, <2>2
<1> QED
  BY <1>7, <1>8, <1>10, <1>12, <1>13, <1>4 DEF GoodQueue, new

\* Joining keeps a good queue good.
LEMMA JoinedGood ==
    ASSUME NEW L, NEW c \in L, L \subseteq UniqueNames, NEW flags, NEW q,
           GoodQueue(q, L)
    PROVE  GoodQueue(JoinedQueue(q, c, flags), L)
<1>1. CASE InQueue(q, c)
  BY <1>1 DEF JoinedQueue
<1>2. CASE ~ InQueue(q, c)
  <2> DEFINE e == Entry(c, "allow_replacement" \in flags, FALSE)
             new == Append(q, e)
  <2>1. JoinedQueue(q, c, flags) = new
    BY <1>2 DEF JoinedQueue
  <2>2. e \in QueueEntry /\ e.unique_name = c /\ ~ e.do_not_queue
    BY DEF Entry, QueueEntry
  <2> HIDE DEF e
  <2>3. /\ new \in Seq(QueueEntry)
        /\ Len(new) = Len(q) + 1
        /\ \A i \in 1 .. Len(q) : new[i] = q[i]
        /\ new[Len(q) + 1] = e
        /\ Len(q) \in Nat
    BY <2>2 DEF GoodQueue
  <2> HIDE DEF new
  <2>4. \A i \in 1 .. Len(q) : q[i].unique_name # c
    BY <1>2 DEF InQueue
  <2> QED
    BY <2>1, <2>2, <2>3, <2>4, SMTT(30) DEF GoodQueue
<1> QED
  BY <1>1, <1>2

\* The queue of a name nobody has asked for before.
LEMMA SingletonGood ==
    ASSUME NEW L, NEW c \in L, L \subseteq UniqueNames, NEW flags
    PROVE  GoodQueue(<<Entry(c, "allow_replacement" \in flags,
                                "do_not_queue" \in flags)>>, L)
  BY DEF GoodQueue, Entry, QueueEntry

-----------------------------------------------------------------------------
(* The steps keep the invariant *)

Codes == RequestReplies \cup ReleaseReplies \cup Errors \cup {"hello", "none"}

\* A step that only answers keeps the invariant.
LEMMA AnswerKeeps ==
    ASSUME IInv, NEW c \in UniqueNames, NEW n \in Names \cup UniqueNames,
           NEW code \in Codes, AnswerOnly(c, n, code)
    PROVE  IInv'
<1>1. reply' \in Reply
  BY DEF AnswerOnly, Answer, Reply, Codes
<1>2. UNCHANGED <<next_id, connections, is_registered, names>> /\ changes' = {}
  BY DEF AnswerOnly
<1> QED
  BY <1>1, <1>2 DEF IInv, TypeOK

\* Setting the queue of a name to a good one keeps the invariant.
LEMMA SetQueueKeeps ==
    ASSUME IInv, NEW n \in Names, NEW q, GoodQueue(q, is_registered),
           names' = WithQueue(n, q),
           UNCHANGED <<next_id, connections, is_registered>>,
           reply' \in Reply, changes' \subseteq NameOwnerChange
    PROVE  IInv'
<1>1. DOMAIN names' = DOMAIN names \cup {n}
  BY DEF WithQueue
<1>2. \A m \in DOMAIN names' : names'[m] = IF m = n THEN q ELSE names[m]
  BY DEF WithQueue
<1>3. \A m \in DOMAIN names' : GoodQueue(names'[m], is_registered)
  BY <1>1, <1>2 DEF IInv
<1>4. \A m \in DOMAIN names' : names'[m] \in Seq(QueueEntry)
  BY <1>3 DEF GoodQueue
<1> QED
  BY <1>1, <1>3, <1>4 DEF IInv, TypeOK

\* Giving up places, with the departure of c from the registered set or without.
LEMMA ReleaseKeeps ==
    ASSUME IInv, NEW c, NEW S \in SUBSET DOMAIN names, NEW L,
           names' = ReleasedNames(c, S),
           \/ L = is_registered
           \/ /\ L = is_registered \ {c}
              /\ S = {n \in DOMAIN names : InQueue(names[n], c)}
    PROVE  /\ DOMAIN names' \subseteq Names
           /\ \A n \in DOMAIN names' : GoodQueue(names'[n], L)
           /\ \A n \in DOMAIN names' : names'[n] \in Seq(QueueEntry)
<1>1. DOMAIN names' \subseteq DOMAIN names
  BY DEF ReleasedNames
<1>2. ASSUME NEW n \in DOMAIN names' PROVE GoodQueue(names'[n], L)
  <2>1. GoodQueue(names[n], is_registered)
    BY <1>1 DEF IInv
  <2>2. CASE n \in S
    <3>1. names'[n] = Retain(names[n], c) /\ Retain(names[n], c) # << >>
      BY <2>2 DEF ReleasedNames
    <3>2. GoodQueue(names'[n], is_registered \ {c})
      BY <3>1, <2>1, RetainGood
    <3> QED
      BY <3>2 DEF GoodQueue
  <2>3. CASE n \notin S
    <3>1. names'[n] = names[n]
      BY <2>3, <1>1 DEF ReleasedNames
    <3>2. CASE L = is_registered
      BY <3>1, <3>2, <2>1
    <3>3. CASE L = is_registered \ {c}
                 /\ S = {m \in DOMAIN names : InQueue(names[m], c)}
      <4>1. ~ InQueue(names[n], c)
        BY <3>3, <2>3, <1>1
      <4> QED
        BY <3>1, <3>3, <4>1, <2>1 DEF GoodQueue, InQueue
    <3> QED
      BY <3>2, <3>3
  <2> QED
    BY <2>2, <2>3
<1>3. DOMAIN names' \subseteq Names
  BY <1>1 DEF IInv, TypeOK
<1>4. \A n \in DOMAIN names' : names'[n] \in Seq(QueueEntry)
  BY <1>2 DEF GoodQueue
<1> QED
  BY <1>2, <1>3, <1>4

\* The first of a queue is a connection or nobody.
LEMMA FirstType ==
    ASSUME NEW q \in Seq(QueueEntry)
    PROVE  First(q) \in UniqueNames \cup {None}
<1>1. CASE q = << >>
  BY <1>1 DEF First
<1>2. CASE q # << >>
  <2>1. q[1] \in QueueEntry
    BY <1>2
  <2> QED
    BY <1>2, <2>1 DEF First, QueueEntry
<1> QED
  BY <1>1, <1>2

\* A queue that somebody leaves is still a queue.
LEMMA RetainType ==
    ASSUME NEW q \in Seq(QueueEntry), NEW c
    PROVE  Retain(q, c) \in Seq(QueueEntry)
  BY RetainFacts DEF KeptFacts

\* The events of a release are change events of the names given up.
LEMMA ReleaseChangesType ==
    ASSUME IInv, NEW c \in UniqueNames, NEW S \in SUBSET DOMAIN names
    PROVE  ReleaseChanges(c, S) \subseteq NameOwnerChange
<1>1. ASSUME NEW n \in S
      PROVE  Change(n, c, First(Retain(names[n], c))) \in NameOwnerChange
  <2>1. n \in Names /\ names[n] \in Seq(QueueEntry)
    BY DEF IInv, TypeOK
  <2>2. First(Retain(names[n], c)) \in UniqueNames \cup {None}
    BY <2>1, RetainType, FirstType
  <2> QED
    BY <2>1, <2>2 DEF Change, NameOwnerChange
<1> QED
  BY <1>1 DEF ReleaseChanges

\* The initial registry is empty.
LEMMA InitKeeps == Init => IInv
<1> SUFFICES ASSUME Init PROVE IInv
  OBVIOUS
<1>1. DOMAIN names = {}
  BY DEF Init
<1>2. reply \in Reply
  BY DEF Init, NoReply, Reply
<1>3. next_id \in 1 .. MaxId + 1
  BY BoundsAssumption DEF Init
<1> QED
  BY <1>1, <1>2, <1>3 DEF Init, IInv, TypeOK

\* A new connection gets a number within the bound and holds no name yet.
LEMMA ConnectKeeps == IInv /\ Connect => IInv'
<1> SUFFICES ASSUME IInv, Connect PROVE IInv'
  OBVIOUS
<1>1. next_id \in UniqueNames /\ next_id' \in 1 .. MaxId + 1
  BY BoundsAssumption DEF IInv, TypeOK, Connect, UniqueNames
<1>2. reply' \in Reply
  BY DEF Connect, NoReply, Reply
<1> QED
  BY <1>1, <1>2 DEF IInv, TypeOK, Connect

\* Hello makes a connection registered, which only widens who may hold names.
LEMMA HelloKeeps ==
    ASSUME IInv, NEW c \in UniqueNames, Hello(c)
    PROVE  IInv'
<1>1. CASE AnswerOnly(c, c, "failed")
  BY <1>1, AnswerKeeps DEF Codes, Errors
<1>2. CASE ~ AnswerOnly(c, c, "failed")
  <2>1. /\ c \in connections
        /\ is_registered' = is_registered \cup {c}
        /\ reply' = Answer(c, c, "hello")
        /\ changes' = {Change(c, None, c)}
        /\ UNCHANGED <<next_id, connections, names>>
    BY <1>2 DEF Hello
  <2>2. reply' \in Reply /\ changes' \subseteq NameOwnerChange
    BY <2>1 DEF Answer, Reply, Change, NameOwnerChange
  <2>3. \A n \in DOMAIN names' : GoodQueue(names'[n], is_registered')
    BY <2>1 DEF IInv, GoodQueue
  <2> QED
    BY <2>1, <2>2, <2>3 DEF IInv, TypeOK
<1> QED
  BY <1>1, <1>2

\* request_name: a free name gets a queue of one, a taken one a replaced or a
\* longer queue, and the other answers change nothing.
LEMMA RequestKeeps ==
    ASSUME IInv, NEW c \in UniqueNames, NEW n \in Names, NEW flags \in Flags,
           RequestName(c, n, flags)
    PROVE  IInv'
<1>1. c \in is_registered /\ is_registered \subseteq UniqueNames
  BY DEF RequestName, IInv, TypeOK
<1>2. Queue(n) # << >> => GoodQueue(Queue(n), is_registered)
  BY DEF Queue, IInv
<1>3. \A code \in Codes : Answer(c, n, code) \in Reply
  BY DEF Answer, Reply, Codes
<1>4. \A old \in UniqueNames \cup {None} : {Change(n, old, c)} \subseteq NameOwnerChange
  BY DEF Change, NameOwnerChange
<1>5. First(Queue(n)) \in UniqueNames \cup {None}
  <2>1. Queue(n) \in Seq(QueueEntry)
    <3>1. CASE Queue(n) = << >>
      BY <3>1
    <3>2. CASE Queue(n) # << >>
      BY <3>2, <1>2 DEF GoodQueue
    <3> QED
      BY <3>1, <3>2
  <2> QED
    BY <2>1, FirstType
<1>6. CASE ClaimFreeName(c, n, flags)
  <2> DEFINE q == <<Entry(c, "allow_replacement" \in flags,
                             "do_not_queue" \in flags)>>
  <2>1. GoodQueue(q, is_registered)
    BY <1>1, SingletonGood
  <2> HIDE DEF q
  <2>2. /\ names' = WithQueue(n, q)
        /\ reply' = Answer(c, n, "primary_owner")
        /\ changes' = {Change(n, None, c)}
        /\ UNCHANGED <<next_id, connections, is_registered>>
    BY <1>6 DEF ClaimFreeName, q
  <2>3. reply' \in Reply /\ changes' \subseteq NameOwnerChange
    BY <2>2, <1>3, <1>4 DEF Codes, RequestReplies
  <2> QED
    BY <2>1, <2>2, <2>3, SetQueueKeeps
<1>7. CASE KeepName(c, n)
  BY <1>7, AnswerKeeps DEF KeepName, Codes, RequestReplies
<1>8. CASE ReplaceOwner(c, n, flags)
  <2>1. Queue(n) # << >> /\ Queue(n)[1].unique_name # c
    BY <1>8 DEF ReplaceOwner, First
  <2>2. GoodQueue(ReplacedQueue(Queue(n), c, flags), is_registered)
    BY <1>1, <1>2, <2>1, ReplacedGood
  <2>3. /\ names' = WithQueue(n, ReplacedQueue(Queue(n), c, flags))
        /\ reply' = Answer(c, n, "primary_owner")
        /\ changes' = {Change(n, First(Queue(n)), c)}
        /\ UNCHANGED <<next_id, connections, is_registered>>
    BY <1>8 DEF ReplaceOwner
  <2>4. reply' \in Reply /\ changes' \subseteq NameOwnerChange
    BY <2>3, <1>3, <1>4, <1>5 DEF Codes, RequestReplies
  <2> QED
    BY <2>2, <2>3, <2>4, SetQueueKeeps
<1>9. CASE RefuseToQueue(c, n, flags)
  BY <1>9, AnswerKeeps DEF RefuseToQueue, Codes, RequestReplies
<1>10. CASE JoinQueue(c, n, flags)
  <2>1. GoodQueue(JoinedQueue(Queue(n), c, flags), is_registered)
    BY <1>1, <1>2, <1>10, JoinedGood DEF JoinQueue
  <2>2. /\ names' = WithQueue(n, JoinedQueue(Queue(n), c, flags))
        /\ reply' = Answer(c, n, "in_queue")
        /\ changes' = {}
        /\ UNCHANGED <<next_id, connections, is_registered>>
    BY <1>10 DEF JoinQueue
  <2>3. reply' \in Reply /\ changes' \subseteq NameOwnerChange
    BY <2>2, <1>3 DEF Codes, RequestReplies
  <2> QED
    BY <2>1, <2>2, <2>3, SetQueueKeeps
<1> QED
  BY <1>6, <1>7, <1>8, <1>9, <1>10 DEF RequestName

\* release_name: the caller leaves one queue, or nothing changes.
LEMMA ReleaseNameKeeps ==
    ASSUME IInv, NEW c \in UniqueNames, NEW n \in Names, ReleaseName(c, n)
    PROVE  IInv'
<1>1. CASE AnswerOnly(c, n, "non_existent") \/ AnswerOnly(c, n, "not_owner")
  BY <1>1, AnswerKeeps DEF Codes, ReleaseReplies
<1>2. CASE ~ (AnswerOnly(c, n, "non_existent") \/ AnswerOnly(c, n, "not_owner"))
  <2>1. /\ n \in DOMAIN names
        /\ names' = ReleasedNames(c, {n})
        /\ reply' = Answer(c, n, "released")
        /\ changes' = ReleaseChanges(c, {n})
        /\ UNCHANGED <<next_id, connections, is_registered>>
    BY <1>2 DEF ReleaseName
  <2>2. /\ DOMAIN names' \subseteq Names
        /\ \A m \in DOMAIN names' : GoodQueue(names'[m], is_registered)
        /\ \A m \in DOMAIN names' : names'[m] \in Seq(QueueEntry)
    BY <2>1, ReleaseKeeps
  <2>3. changes' \subseteq NameOwnerChange
    BY <2>1, ReleaseChangesType
  <2>4. reply' \in Reply
    BY <2>1 DEF Answer, Reply, ReleaseReplies
  <2> QED
    BY <2>1, <2>2, <2>3, <2>4 DEF IInv, TypeOK
<1> QED
  BY <1>1, <1>2

\* remove_connection: the connection leaves every queue and the registered set
\* together, so no queue is left with a holder that is gone.
LEMMA DisconnectKeeps ==
    ASSUME IInv, NEW c \in UniqueNames, Disconnect(c)
    PROVE  IInv'
<1> DEFINE held == {n \in DOMAIN names : InQueue(names[n], c)}
<1>1. /\ connections' = connections \ {c}
      /\ is_registered' = is_registered \ {c}
      /\ names' = ReleasedNames(c, held)
      /\ reply' = NoReply
      /\ changes' = ReleaseChanges(c, held) \cup {Change(c, c, None)}
      /\ next_id' = next_id
  BY DEF Disconnect
<1>2. /\ DOMAIN names' \subseteq Names
      /\ \A m \in DOMAIN names' : GoodQueue(names'[m], is_registered \ {c})
      /\ \A m \in DOMAIN names' : names'[m] \in Seq(QueueEntry)
  BY <1>1, ReleaseKeeps
<1>3. ReleaseChanges(c, held) \subseteq NameOwnerChange
  BY ReleaseChangesType
<1>4. Change(c, c, None) \in NameOwnerChange
  BY DEF Change, NameOwnerChange
<1>5. reply' \in Reply
  BY <1>1 DEF NoReply, Reply
<1> HIDE DEF held
<1> QED
  BY <1>1, <1>2, <1>3, <1>4, <1>5 DEF IInv, TypeOK

\* The invariant is inductive: one case per operation.
LEMMA NextKeeps == IInv /\ [Next]_vars => IInv'
<1> SUFFICES ASSUME IInv, [Next]_vars PROVE IInv'
  OBVIOUS
<1>1. CASE Connect
  BY <1>1, ConnectKeeps
<1>2. ASSUME NEW c \in UniqueNames, Hello(c) PROVE IInv'
  BY <1>2, HelloKeeps
<1>3. ASSUME NEW c \in UniqueNames, Disconnect(c) PROVE IInv'
  BY <1>3, DisconnectKeeps
<1>4. ASSUME NEW c \in UniqueNames, NEW n \in Names,
             RefuseUnregistered(c, n) \/ RefuseRequest(c, n)
      PROVE  IInv'
  BY <1>4, AnswerKeeps DEF RefuseUnregistered, RefuseRequest, Codes, Errors
<1>5. ASSUME NEW c \in UniqueNames, NEW n \in Names, ReleaseName(c, n)
      PROVE  IInv'
  BY <1>5, ReleaseNameKeeps
<1>6. ASSUME NEW c \in UniqueNames, NEW n \in Names, NEW flags \in Flags,
             RequestName(c, n, flags)
      PROVE  IInv'
  BY <1>6, RequestKeeps
<1>7. CASE UNCHANGED vars
  BY <1>7 DEF vars, IInv, TypeOK
<1> QED
  BY <1>1, <1>2, <1>3, <1>4, <1>5, <1>6, <1>7 DEF Next

-----------------------------------------------------------------------------
(* The theorems *)

\* The inductive invariant holds in every reachable state of the registry.
THEOREM Invariance == Spec => []IInv
  BY InitKeeps, NextKeeps, PTL DEF Spec

\* Every variable of the registry keeps its type.
THEOREM TypeCorrect == Spec => []TypeOK
<1>1. IInv => TypeOK
  BY DEF IInv
<1> QED
  BY <1>1, Invariance, PTL

\* Names in the map are owned and nobody has two places in a queue, whatever
\* mix of requests, replacements, releases and departures led there.
THEOREM QueuesStayWellFormed == Spec => []QueuesWellFormed
<1>1. IInv => QueuesWellFormed
  BY IInvMeaning
<1> QED
  BY <1>1, Invariance, PTL

\* Whoever owns or waits for a name is connected and registered, so routing by
\* name never finds an owner that left.
THEOREM HoldersStayLive == Spec => []HoldersAreLive
<1>1. IInv => HoldersAreLive
  BY IInvMeaning
<1> QED
  BY <1>1, Invariance, PTL

\* Nobody waits for a name who asked not to be queued.
THEOREM WaitersAlwaysAgreed == Spec => []WaitersAgreedToWait
<1>1. IInv => WaitersAgreedToWait
  BY IInvMeaning
<1> QED
  BY <1>1, Invariance, PTL


-----------------------------------------------------------------------------
(* The queues, place by place *)

\* Only the empty queue has no places.
LEMMA NoPlaces ==
    ASSUME NEW q \in Seq(QueueEntry)
    PROVE  q = << >> <=> Len(q) = 0
  OBVIOUS

\* A count is one or more than one.
LEMMA OneOrMore ==
    ASSUME NEW k \in Nat, k > 0
    PROVE  k = 1 \/ k > 1
  OBVIOUS

\* An entry says who asked and whether it may be replaced.
LEMMA EntryFields ==
    ASSUME NEW c \in UniqueNames, NEW allow \in BOOLEAN, NEW dnq \in BOOLEAN
    PROVE  /\ Entry(c, allow, dnq) \in QueueEntry
           /\ Entry(c, allow, dnq).unique_name = c
           /\ Entry(c, allow, dnq).allow_replacement <=> allow
<1>1. Entry(c, allow, dnq) \in QueueEntry
  BY DEF Entry, QueueEntry
<1>2. Entry(c, allow, dnq).unique_name = c
  BY DEF Entry
<1>3. Entry(c, allow, dnq).allow_replacement <=> allow
  BY Zenon DEF Entry
<1> QED
  BY <1>1, <1>2, <1>3

\* c has place p in q and no other; p = Len(q) + 1 says that it has none.
HasPlace(q, c, p) ==
    /\ p \in 1 .. Len(q) + 1
    /\ \A i \in 1 .. Len(q) : q[i].unique_name = c <=> i = p

\* r is q without place p.
Without(r, q, p) ==
    /\ r \in Seq(QueueEntry)
    /\ Len(r) = IF p <= Len(q) THEN Len(q) - 1 ELSE Len(q)
    /\ \A i \in 1 .. Len(r) : r[i] = IF i < p THEN q[i] ELSE q[i + 1]

\* Retain takes the one place of c out and moves up those behind it.
LEMMA RetainExact ==
    ASSUME NEW q \in Seq(QueueEntry), NEW c, NEW p, HasPlace(q, c, p)
    PROVE  Without(Retain(q, c), q, p)
<1> DEFINE N == Len(q)
<1>0. N \in Nat /\ p \in Nat /\ p >= 1 /\ p <= N + 1
  BY DEF HasPlace
<1>1. PICK kept :
         /\ Retain(q, c) = kept[N]
         /\ \A i \in 0 .. N :
               kept[i] = IF i = 0 THEN << >>
                         ELSE IF q[i].unique_name # c
                              THEN Append(kept[i - 1], q[i])
                         ELSE kept[i - 1]
  BY RetainTable
<1> DEFINE Good(m) == /\ kept[m] \in Seq(QueueEntry)
                      /\ Len(kept[m]) = IF p <= m THEN m - 1 ELSE m
                      /\ \A i \in 1 .. Len(kept[m]) :
                            kept[m][i] = IF i < p THEN q[i] ELSE q[i + 1]
           Bad == {m \in 0 .. N : ~ Good(m)}
<1>2. SUFFICES ASSUME Bad # {} PROVE FALSE
  <2>1. Bad = {} => Good(N)
    BY <1>0
  <2> QED
    BY <2>1, <1>1 DEF Without
<1>3. PICK m \in Bad : \A k \in Bad : m <= k
  <2>1. Bad \subseteq Nat
    BY <1>0
  <2> HIDE DEF Bad
  <2> QED
    BY <1>2, <2>1, LeastNat
<1>4. m \in 0 .. N
  OBVIOUS
<1>5. m # 0
  <2>1. kept[0] = << >>
    BY <1>1, <1>0
  <2>2. Good(0)
    BY <2>1, <1>0
  <2> QED
    BY <2>2
<1>6. Good(m - 1)
  <2>1. m - 1 \in 0 .. N /\ ~ (m <= m - 1)
    BY <1>4, <1>5, <1>0
  <2>2. m - 1 \notin Bad
    BY <2>1, <1>3
  <2> HIDE DEF Good
  <2> QED
    BY <2>1, <2>2
<1>7. q[m] \in QueueEntry /\ (q[m].unique_name = c <=> m = p)
  BY <1>4, <1>5, <1>0 DEF HasPlace
<1>8. kept[m] = IF m # p THEN Append(kept[m - 1], q[m]) ELSE kept[m - 1]
  BY <1>1, <1>4, <1>5, <1>7
<1>9. CASE m = p
  <2>1. kept[m] = kept[m - 1]
    BY <1>8, <1>9
  <2>2. Good(m)
    BY <2>1, <1>6, <1>9, <1>4, <1>0
  <2> QED
    BY <2>2
<1>10. CASE m # p
  <2> DEFINE k == kept[m - 1]
  <2>1. kept[m] = Append(k, q[m])
    BY <1>8, <1>10
  <2>2. /\ k \in Seq(QueueEntry)
        /\ Len(k) = IF p <= m - 1 THEN m - 2 ELSE m - 1
        /\ \A i \in 1 .. Len(k) : k[i] = IF i < p THEN q[i] ELSE q[i + 1]
    BY <1>6
  <2> HIDE DEF k
  <2>3. /\ kept[m] \in Seq(QueueEntry)
        /\ Len(kept[m]) = Len(k) + 1
        /\ kept[m][Len(k) + 1] = q[m]
        /\ \A i \in 1 .. Len(k) : kept[m][i] = k[i]
    BY <2>1, <2>2, <1>7
  <2>4. Good(m)
    BY <2>2, <2>3, <1>10, <1>4, <1>0, SMTT(30)
  <2> QED
    BY <2>4
<1> QED
  BY <1>9, <1>10

\* A connection has at most one place in a good queue.
LEMMA PlaceExists ==
    ASSUME NEW L, NEW q, GoodQueue(q, L), NEW c
    PROVE  /\ \E p : HasPlace(q, c, p)
           /\ \A p : HasPlace(q, c, p) =>
                 /\ InQueue(q, c) <=> p <= Len(q)
                 /\ First(q) = c <=> p = 1
<1>0. q \in Seq(QueueEntry) /\ Len(q) \in Nat /\ Len(q) > 0 /\ q # << >>
  BY DEF GoodQueue
<1>1. CASE InQueue(q, c)
  <2>1. PICK p \in 1 .. Len(q) : q[p].unique_name = c
    BY <1>1 DEF InQueue
  <2>2. HasPlace(q, c, p)
    BY <2>1, <1>0 DEF HasPlace, GoodQueue
  <2> QED
    BY <1>0, <1>1, <2>1, <2>2 DEF HasPlace, First
<1>2. CASE ~ InQueue(q, c)
  <2>1. HasPlace(q, c, Len(q) + 1)
    BY <1>2, <1>0 DEF HasPlace, InQueue
  <2> QED
    BY <1>0, <1>2, <2>1 DEF HasPlace, First, InQueue
<1> QED
  BY <1>1, <1>2

-----------------------------------------------------------------------------
(* What a queue says to the outside *)

\* Those who wait in q, and those in q who may be replaced.
WaitingIn(q) == {c \in UniqueNames : InQueue(q, c) /\ First(q) # c}

WillingIn(q) ==
    {c \in UniqueNames :
        \E i \in 1 .. Len(q) : q[i].unique_name = c /\ q[i].allow_replacement}

\* Of two that wait in q and in r, the one ahead in q is ahead in r.
KeepsOrder(q, r) ==
    \A i, j \in 2 .. Len(q) : \A k, l \in 2 .. Len(r) :
        /\ i < j
        /\ r[k].unique_name = q[i].unique_name
        /\ r[l].unique_name = q[j].unique_name
        => k < l

\* Leaving a queue: the others keep their order, and the second becomes the
\* first when the first leaves.
LEMMA RetainOutside ==
    ASSUME NEW L, L \subseteq UniqueNames, NEW q, GoodQueue(q, L),
           NEW c \in UniqueNames, InQueue(q, c),
           NEW r, r = Retain(q, c)
    PROVE  /\ \A d : InQueue(r, d) <=> InQueue(q, d) /\ d # c
           /\ First(r) = IF First(q) = c THEN First(Tail(q)) ELSE First(q)
           /\ First(q) = c =>
                 IF WaitingIn(q) = {} THEN First(r) = None
                 ELSE First(r) \in WaitingIn(q)
           /\ WaitingIn(r) = WaitingIn(q) \ {c, First(r)}
           /\ WillingIn(r) = WillingIn(q) \ {c}
           /\ KeepsOrder(q, r)
<1>0. q \in Seq(QueueEntry) /\ Len(q) \in Nat /\ Len(q) > 0 /\ q # << >>
  BY DEF GoodQueue
<1>1. PICK p : HasPlace(q, c, p)
  BY PlaceExists
<1>2. p \in 1 .. Len(q) /\ (First(q) = c <=> p = 1)
  BY <1>1, <1>0, PlaceExists DEF HasPlace
<1>3. /\ r \in Seq(QueueEntry)
      /\ Len(r) = Len(q) - 1
      /\ \A i \in 1 .. Len(r) : r[i] = IF i < p THEN q[i] ELSE q[i + 1]
  BY <1>0, <1>1, <1>2, RetainExact DEF Without
<1>4. \A i, j \in 1 .. Len(q) : q[i].unique_name = q[j].unique_name => i = j
  BY DEF GoodQueue
<1>5. \A i \in 1 .. Len(q) : q[i].unique_name = c <=> i = p
  BY <1>1 DEF HasPlace
<1>6. \A i \in 1 .. Len(q) : q[i].unique_name \in UniqueNames
  BY DEF GoodQueue
<1>8. First(q) = q[1].unique_name
  BY <1>0 DEF First
<1>9. First(r) = IF p = 1 THEN First(Tail(q)) ELSE First(q)
  <2>1. CASE p = 1 /\ Len(q) = 1
    <3>1. r = << >>
      BY <2>1, <1>3, NoPlaces
    <3>2. Tail(q) \in Seq(QueueEntry) /\ Len(Tail(q)) = 0
      BY <2>1, <1>0
    <3>3. Tail(q) = << >>
      BY <3>2, NoPlaces
    <3> QED
      BY <3>1, <3>3, <2>1 DEF First
  <2>2. CASE p = 1 /\ Len(q) > 1
    <3>1. r[1] = q[2] /\ r # << >> /\ Tail(q)[1] = q[2] /\ Tail(q) # << >>
      BY <2>2, <1>0, <1>3
    <3> QED
      BY <3>1, <2>2 DEF First
  <2>3. CASE p # 1
    <3>1. r[1] = q[1] /\ r # << >>
      BY <2>3, <1>0, <1>2, <1>3
    <3> QED
      BY <3>1, <2>3, <1>0 DEF First
  <2> QED
    BY <2>1, <2>2, <2>3, <1>0, OneOrMore
<1>10. \A i \in 1 .. Len(q) :
          i # p => \E k \in 1 .. Len(r) : r[k] = q[i] /\ k = IF i < p THEN i ELSE i - 1
  <2> SUFFICES ASSUME NEW i \in 1 .. Len(q), i # p
               PROVE  \E k \in 1 .. Len(r) : r[k] = q[i] /\ k = IF i < p THEN i ELSE i - 1
    OBVIOUS
  <2>1. CASE i < p
    <3>1. i \in 1 .. Len(r) /\ r[i] = q[i]
      BY <2>1, <1>0, <1>2, <1>3
    <3> QED
      BY <3>1, <2>1
  <2>2. CASE ~ (i < p)
    <3>1. i - 1 \in 1 .. Len(r) /\ ~ (i - 1 < p) /\ (i - 1) + 1 = i
      BY <2>2, <1>0, <1>2, <1>3
    <3>2. r[i - 1] = q[i]
      BY <3>1, <1>3
    <3> QED
      BY <3>1, <3>2, <2>2
  <2> QED
    BY <2>1, <2>2
<1>11. \A k \in 1 .. Len(r) :
          \E i \in 1 .. Len(q) : r[k] = q[i] /\ i # p /\ i = IF k < p THEN k ELSE k + 1
  <2> SUFFICES ASSUME NEW k \in 1 .. Len(r)
               PROVE  \E i \in 1 .. Len(q) :
                         r[k] = q[i] /\ i # p /\ i = IF k < p THEN k ELSE k + 1
    OBVIOUS
  <2> DEFINE i == IF k < p THEN k ELSE k + 1
  <2>1. i \in 1 .. Len(q) /\ i # p
    BY <1>0, <1>2, <1>3
  <2>2. r[k] = q[i]
    BY <1>3
  <2> QED
    BY <2>1, <2>2
<1>12. \A d : InQueue(r, d) <=> InQueue(q, d) /\ d # c
  <2>1. ASSUME NEW d, InQueue(r, d) PROVE InQueue(q, d) /\ d # c
    <3>1. PICK k \in 1 .. Len(r) : r[k].unique_name = d
      BY <2>1 DEF InQueue
    <3>2. PICK i \in 1 .. Len(q) : r[k] = q[i] /\ i # p
      BY <1>11
    <3> QED
      BY <3>1, <3>2, <1>5 DEF InQueue
  <2>2. ASSUME NEW d, InQueue(q, d), d # c PROVE InQueue(r, d)
    <3>1. PICK i \in 1 .. Len(q) : q[i].unique_name = d
      BY <2>2 DEF InQueue
    <3>2. i # p
      BY <3>1, <2>2, <1>5
    <3>3. PICK k \in 1 .. Len(r) : r[k] = q[i]
      BY <3>2, <1>10
    <3> QED
      BY <3>1, <3>3 DEF InQueue
  <2> QED
    BY <2>1, <2>2
<1>13. First(q) = c =>
          IF WaitingIn(q) = {} THEN First(r) = None
          ELSE First(r) \in WaitingIn(q)
  <2> SUFFICES ASSUME First(q) = c
               PROVE  IF WaitingIn(q) = {} THEN First(r) = None
                      ELSE First(r) \in WaitingIn(q)
    OBVIOUS
  <2>1. CASE Len(q) = 1
    <3>1. r = << >>
      BY <2>1, <1>3, NoPlaces
    <3>2. WaitingIn(q) = {}
      BY <2>1, <1>8 DEF WaitingIn, InQueue
    <3> QED
      BY <3>1, <3>2 DEF First
  <2>2. CASE Len(q) > 1
    <3>1. r # << >> /\ r[1] = q[2] /\ First(r) = q[2].unique_name
      BY <2>2, <1>0, <1>2, <1>3 DEF First
    <3>2. q[2].unique_name \in WaitingIn(q)
      BY <2>2, <1>0, <1>2, <1>5, <1>6 DEF WaitingIn, InQueue
    <3> QED
      BY <3>1, <3>2
  <2> QED
    BY <2>1, <2>2, <1>0, OneOrMore
<1>14. WaitingIn(r) = WaitingIn(q) \ {c, First(r)}
  <2>1. \A d \in UniqueNames : InQueue(r, d) /\ First(r) # d => First(q) # d
    <3>1. CASE p = 1
      BY <3>1, <1>2, <1>12
    <3>2. CASE p # 1
      BY <3>2, <1>9
    <3> QED
      BY <3>1, <3>2
  <2> QED
    BY <2>1, <1>12 DEF WaitingIn
<1>15. WillingIn(r) = WillingIn(q) \ {c}
  <2>1. ASSUME NEW d \in WillingIn(r) PROVE d \in WillingIn(q) \ {c}
    <3>1. PICK k \in 1 .. Len(r) : r[k].unique_name = d /\ r[k].allow_replacement
      BY DEF WillingIn
    <3>2. PICK i \in 1 .. Len(q) : r[k] = q[i] /\ i # p
      BY <1>11
    <3> QED
      BY <3>1, <3>2, <1>5 DEF WillingIn
  <2>2. ASSUME NEW d \in WillingIn(q) \ {c} PROVE d \in WillingIn(r)
    <3>1. PICK i \in 1 .. Len(q) : q[i].unique_name = d /\ q[i].allow_replacement
      BY DEF WillingIn
    <3>2. i # p
      BY <3>1, <1>5
    <3>3. PICK k \in 1 .. Len(r) : r[k] = q[i]
      BY <3>2, <1>10
    <3> QED
      BY <3>1, <3>3 DEF WillingIn
  <2> QED
    BY <2>1, <2>2
<1>16. KeepsOrder(q, r)
  <2> SUFFICES ASSUME NEW i \in 2 .. Len(q), NEW j \in 2 .. Len(q),
                      NEW k \in 2 .. Len(r), NEW l \in 2 .. Len(r), i < j,
                      r[k].unique_name = q[i].unique_name,
                      r[l].unique_name = q[j].unique_name
               PROVE  k < l
    BY DEF KeepsOrder
  <2>1. PICK x \in 1 .. Len(q) : r[k] = q[x] /\ x # p /\ x = IF k < p THEN k ELSE k + 1
    BY <1>11, <1>3, <1>0
  <2>2. PICK y \in 1 .. Len(q) : r[l] = q[y] /\ y # p /\ y = IF l < p THEN l ELSE l + 1
    BY <1>11, <1>3, <1>0
  <2>3. x = i /\ y = j
    BY <2>1, <2>2, <1>4, <1>0
  <2> QED
    BY <2>1, <2>2, <2>3, <1>2, <1>0, <1>3
<1> QED
  BY <1>2, <1>12, <1>9, <1>13, <1>14, <1>15, <1>16

\* The connection c, if it lets itself be replaced.
Agrees(c, flags) == IF "allow_replacement" \in flags THEN {c} ELSE {}

\* Joining at the end: the owner stays, the caller waits behind the others.
JoinedView(q, r, c, flags) ==
    /\ r # << >> /\ First(r) = First(q)
    /\ WaitingIn(r) = WaitingIn(q) \cup {c}
    /\ WillingIn(r) = WillingIn(q) \cup Agrees(c, flags)
    /\ KeepsOrder(q, r)
    /\ \A d : InQueue(r, d) <=> InQueue(q, d) \/ d = c

\* Joining does what JoinedView says.
LEMMA JoinedOutside ==
    ASSUME NEW L, L \subseteq UniqueNames, NEW q, GoodQueue(q, L),
           NEW c \in UniqueNames, ~ InQueue(q, c), NEW flags,
           NEW r, r = JoinedQueue(q, c, flags)
    PROVE  JoinedView(q, r, c, flags)
<1> DEFINE e == Entry(c, "allow_replacement" \in flags, FALSE)
<1>0. q \in Seq(QueueEntry) /\ Len(q) \in Nat /\ Len(q) > 0 /\ q # << >>
  BY DEF GoodQueue
<1>1. /\ e \in QueueEntry /\ e.unique_name = c
      /\ e.allow_replacement <=> "allow_replacement" \in flags
  <2>1. ("allow_replacement" \in flags) \in BOOLEAN /\ FALSE \in BOOLEAN
    OBVIOUS
  <2> QED
    BY <2>1, EntryFields, Zenon
<1>2. r = Append(q, e)
  BY DEF JoinedQueue
<1> HIDE DEF e
<1>3. /\ r \in Seq(QueueEntry) /\ r # << >>
      /\ Len(r) = Len(q) + 1
      /\ \A i \in 1 .. Len(q) : r[i] = q[i]
      /\ r[Len(q) + 1] = e
  BY <1>0, <1>1, <1>2
<1>4. r[1] = q[1]
  BY <1>0, <1>3
<1>5. First(r) = First(q)
  BY <1>0, <1>3, <1>4 DEF First
<1>6. \A d : InQueue(r, d) <=> InQueue(q, d) \/ d = c
  <2>1. ASSUME NEW d, InQueue(r, d) PROVE InQueue(q, d) \/ d = c
    <3>1. PICK k \in 1 .. Len(r) : r[k].unique_name = d
      BY <2>1 DEF InQueue
    <3>2. CASE k = Len(q) + 1
      BY <3>1, <3>2, <1>1, <1>3
    <3>3. CASE k # Len(q) + 1
      <4>1. k \in 1 .. Len(q)
        BY <3>3, <1>0, <1>3
      <4> QED
        BY <4>1, <3>1, <1>3 DEF InQueue
    <3> QED
      BY <3>2, <3>3
  <2>2. ASSUME NEW d, InQueue(q, d) PROVE InQueue(r, d)
    <3>1. PICK k \in 1 .. Len(q) : q[k].unique_name = d
      BY <2>2 DEF InQueue
    <3>2. k \in 1 .. Len(r) /\ r[k] = q[k]
      BY <1>0, <1>3
    <3> QED
      BY <3>1, <3>2 DEF InQueue
  <2>3. InQueue(r, c)
    <3>1. Len(q) + 1 \in 1 .. Len(r)
      BY <1>0, <1>3
    <3> QED
      BY <3>1, <1>1, <1>3 DEF InQueue
  <2> QED
    BY <2>1, <2>2, <2>3
<1>7. First(q) # c
  BY <1>0 DEF First, InQueue
<1>8. WaitingIn(r) = WaitingIn(q) \cup {c}
  BY <1>5, <1>6, <1>7 DEF WaitingIn
<1>9. WillingIn(r) = WillingIn(q) \cup Agrees(c, flags)
  <2>1. ASSUME NEW d \in WillingIn(r)
        PROVE  d \in WillingIn(q) \/ (d = c /\ "allow_replacement" \in flags)
    <3>1. PICK k \in 1 .. Len(r) : r[k].unique_name = d /\ r[k].allow_replacement
      BY DEF WillingIn
    <3>2. CASE k = Len(q) + 1
      BY <3>1, <3>2, <1>1, <1>3
    <3>3. CASE k # Len(q) + 1
      <4>1. k \in 1 .. Len(q)
        BY <3>3, <1>0, <1>3
      <4> QED
        BY <4>1, <3>1, <1>3 DEF WillingIn
    <3> QED
      BY <3>2, <3>3
  <2>2. ASSUME NEW d \in WillingIn(q) PROVE d \in WillingIn(r)
    <3>1. PICK k \in 1 .. Len(q) : q[k].unique_name = d /\ q[k].allow_replacement
      BY DEF WillingIn
    <3>2. k \in 1 .. Len(r) /\ r[k] = q[k]
      BY <1>0, <1>3
    <3> QED
      BY <3>1, <3>2 DEF WillingIn
  <2>3. ASSUME "allow_replacement" \in flags PROVE c \in WillingIn(r)
    <3>1. Len(q) + 1 \in 1 .. Len(r)
      BY <1>0, <1>3
    <3> QED
      BY <2>3, <3>1, <1>1, <1>3 DEF WillingIn
  <2> QED
    BY <2>1, <2>2, <2>3 DEF Agrees
<1>10. KeepsOrder(q, r)
  <2> SUFFICES ASSUME NEW i \in 2 .. Len(q), NEW j \in 2 .. Len(q),
                      NEW k \in 2 .. Len(r), NEW l \in 2 .. Len(r), i < j,
                      r[k].unique_name = q[i].unique_name,
                      r[l].unique_name = q[j].unique_name
               PROVE  k < l
    BY DEF KeepsOrder
  <2>1. i \in 1 .. Len(q) /\ j \in 1 .. Len(q)
    BY <1>0
  <2>2. q[i].unique_name # c /\ q[j].unique_name # c
    BY <2>1 DEF InQueue
  <2>3. ASSUME NEW x \in 2 .. Len(r), r[x].unique_name # c PROVE x \in 1 .. Len(q)
    <3>1. x # Len(q) + 1
      BY <2>3, <1>1, <1>3
    <3> QED
      BY <3>1, <1>0, <1>3
  <2>4. k = i /\ l = j
    BY <2>1, <2>2, <2>3, <1>3 DEF GoodQueue
  <2> QED
    BY <2>4
<1> QED
  BY <1>3, <1>5, <1>6, <1>8, <1>9, <1>10 DEF JoinedView

\* Claiming a free name: the caller owns it and nobody waits.
LEMMA ClaimOutside ==
    ASSUME NEW c \in UniqueNames, NEW flags,
           NEW r, r = <<Entry(c, "allow_replacement" \in flags,
                                 "do_not_queue" \in flags)>>
    PROVE  /\ First(r) = c
           /\ WaitingIn(r) = {}
           /\ WillingIn(r) = Agrees(c, flags)
<1> DEFINE head == Entry(c, "allow_replacement" \in flags,
                            "do_not_queue" \in flags)
<1>1. /\ head.unique_name = c
      /\ head.allow_replacement <=> "allow_replacement" \in flags
  <2>1. /\ ("allow_replacement" \in flags) \in BOOLEAN
        /\ ("do_not_queue" \in flags) \in BOOLEAN
    OBVIOUS
  <2> QED
    BY <2>1, EntryFields, Zenon
<1>2. r = <<head>>
  OBVIOUS
<1> HIDE DEF head
<1>3. r # << >> /\ Len(r) = 1 /\ r[1] = head
  BY <1>2
<1>4. \A i : i \in 1 .. Len(r) <=> i = 1
  BY <1>3
<1>5. First(r) = c
  BY <1>1, <1>3 DEF First
<1>6. \A d : InQueue(r, d) <=> d = c
  BY <1>1, <1>3, <1>4 DEF InQueue
<1>7. WillingIn(r) = Agrees(c, flags)
  BY <1>1, <1>3, <1>4 DEF WillingIn, Agrees
<1> QED
  BY <1>5, <1>6, <1>7 DEF WaitingIn

\* The displaced owner, if it agreed to wait.
Stays(q) == IF q[1].do_not_queue THEN {} ELSE {First(q)}

\* A replacement: the caller owns the name, the displaced owner waits behind
\* all others or is gone, and those between keep their order.
ReplacedView(q, r, c, flags) ==
    /\ r # << >> /\ First(r) = c
    /\ WaitingIn(r) = (WaitingIn(q) \ {c}) \cup Stays(q)
    /\ WillingIn(r) = (WillingIn(q) \ {c, First(q)}) \cup Stays(q)
                          \cup Agrees(c, flags)
    /\ KeepsOrder(q, r)
    /\ \A d : InQueue(r, d) => InQueue(q, d) \/ d = c

\* A replacement does what ReplacedView says.
LEMMA ReplacedOutside ==
    ASSUME NEW L, L \subseteq UniqueNames, NEW q, GoodQueue(q, L),
           NEW c \in UniqueNames, First(q) # c, q[1].allow_replacement,
           NEW flags, NEW r, r = ReplacedQueue(q, c, flags)
    PROVE  ReplacedView(q, r, c, flags)
<1> DEFINE rest == Retain(q, c)
           stays == Stays(q)
<1>0. q \in Seq(QueueEntry) /\ Len(q) \in Nat /\ Len(q) > 0 /\ q # << >>
  BY DEF GoodQueue
<1>1. First(q) = q[1].unique_name /\ q[1].unique_name \in UniqueNames
  BY <1>0 DEF First, GoodQueue
<1>2. PICK p : HasPlace(q, c, p)
  BY PlaceExists
<1>3. p \in 2 .. Len(q) + 1 /\ \A i \in 1 .. Len(q) : q[i].unique_name = c <=> i = p
  BY <1>0, <1>1, <1>2 DEF HasPlace
<1>4. /\ Len(rest) = IF p <= Len(q) THEN Len(q) - 1 ELSE Len(q)
      /\ \A i \in 1 .. Len(rest) : rest[i] = IF i < p THEN q[i] ELSE q[i + 1]
  BY <1>0, <1>2, RetainExact DEF Without
<1>5. /\ rest \in Seq(QueueEntry) /\ Len(rest) > 0 /\ rest[1] = q[1]
      /\ r \in Seq(QueueEntry)
      /\ Len(r) = IF q[1].do_not_queue THEN Len(rest) ELSE Len(rest) + 1
      /\ r[1] = Entry(c, "allow_replacement" \in flags, "do_not_queue" \in flags)
      /\ \A i \in 2 .. Len(rest) : r[i] = rest[i]
      /\ ~ q[1].do_not_queue => r[Len(rest) + 1] = rest[1]
  BY <1>0, <1>1, ReplacedPlaces
<1> HIDE DEF rest
<1>6. /\ Len(rest) \in Nat /\ Len(r) \in Nat /\ Len(r) > 0 /\ r # << >>
      /\ r[1].unique_name = c
      /\ r[1].allow_replacement <=> "allow_replacement" \in flags
  <2>1. Len(rest) \in Nat /\ Len(r) \in Nat /\ Len(r) > 0 /\ r # << >>
    BY <1>5
  <2>2. /\ ("allow_replacement" \in flags) \in BOOLEAN
        /\ ("do_not_queue" \in flags) \in BOOLEAN
    OBVIOUS
  <2> DEFINE head == Entry(c, "allow_replacement" \in flags,
                              "do_not_queue" \in flags)
  <2>3. /\ head.unique_name = c
        /\ head.allow_replacement <=> "allow_replacement" \in flags
    BY <2>2, EntryFields, Zenon
  <2>4. r[1] = head
    BY <1>5
  <2> HIDE DEF head
  <2>5. /\ r[1].unique_name = c
        /\ r[1].allow_replacement <=> "allow_replacement" \in flags
    BY <2>3, <2>4, Zenon
  <2> QED
    BY <2>1, <2>5
<1>7. First(r) = c
  BY <1>6 DEF First
<1>8. \A i, j \in 1 .. Len(q) : q[i].unique_name = q[j].unique_name => i = j
  BY DEF GoodQueue
\* Where the places of r come from, and where those of q go.
<1>9. ASSUME NEW k \in 2 .. Len(r)
      PROVE  \E i \in 1 .. Len(q) :
                /\ r[k] = q[i] /\ i # p
                /\ \/ i = 1 /\ k = Len(rest) + 1 /\ ~ q[1].do_not_queue
                   \/ i > 1 /\ k <= Len(rest) /\ i = IF k < p THEN k ELSE k + 1
  <2>1. CASE k = Len(rest) + 1
    <3>1. ~ q[1].do_not_queue
      BY <2>1, <1>5, <1>6
    <3>2. r[k] = q[1] /\ 1 \in 1 .. Len(q) /\ 1 # p
      BY <2>1, <3>1, <1>0, <1>3, <1>5
    <3> QED
      BY <2>1, <3>1, <3>2
  <2>2. CASE k # Len(rest) + 1
    <3>1. k \in 2 .. Len(rest) /\ k \in 1 .. Len(rest)
      BY <2>2, <1>5, <1>6
    <3>2. r[k] = IF k < p THEN q[k] ELSE q[k + 1]
      BY <3>1, <1>4, <1>5
    <3>3. PICK i : i = IF k < p THEN k ELSE k + 1
      OBVIOUS
    <3>4. i \in 1 .. Len(q) /\ i # p /\ i > 1
      BY <3>1, <3>3, <1>0, <1>3, <1>4
    <3> QED
      BY <3>1, <3>2, <3>3, <3>4
  <2> QED
    BY <2>1, <2>2
<1>10. ASSUME NEW i \in 2 .. Len(q), i # p
       PROVE  \E k \in 2 .. Len(r) : r[k] = q[i]
  <2>1. PICK k : k = IF i < p THEN i ELSE i - 1
    OBVIOUS
  <2>2. k \in 2 .. Len(rest) /\ k \in 1 .. Len(rest) /\ k \in 2 .. Len(r)
    BY <2>1, <1>10, <1>0, <1>3, <1>4, <1>5, <1>6
  <2>3. rest[k] = q[i]
    BY <2>1, <2>2, <1>10, <1>0, <1>3, <1>4
  <2> QED
    BY <2>2, <2>3, <1>5
<1>11. ASSUME ~ q[1].do_not_queue
       PROVE  \E k \in 2 .. Len(r) : r[k] = q[1]
  <2>1. Len(rest) + 1 \in 2 .. Len(r) /\ r[Len(rest) + 1] = q[1]
    BY <1>11, <1>5, <1>6
  <2> QED
    BY <2>1
<1>12. WaitingIn(r) = (WaitingIn(q) \ {c}) \cup stays
  <2>1. ASSUME NEW d \in WaitingIn(r) PROVE d \in (WaitingIn(q) \ {c}) \cup stays
    <3>1. PICK k \in 1 .. Len(r) : r[k].unique_name = d
      BY DEF WaitingIn, InQueue
    <3>2. d \in UniqueNames /\ d # c /\ k # 1
      BY <3>1, <1>6, <1>7 DEF WaitingIn
    <3>3. k \in 2 .. Len(r)
      BY <3>2, <1>6
    <3>4. PICK i \in 1 .. Len(q) :
             r[k] = q[i] /\ ((i = 1 /\ ~ q[1].do_not_queue) \/ i > 1)
      BY <3>3, <1>9
    <3>5. CASE i = 1
      BY <3>1, <3>4, <3>5, <1>1 DEF Stays
    <3>6. CASE i # 1
      <4>1. q[i].unique_name # q[1].unique_name
        BY <3>6, <1>0, <1>8
      <4> QED
        BY <4>1, <3>1, <3>2, <3>4, <1>1 DEF WaitingIn, InQueue
    <3> QED
      BY <3>5, <3>6
  <2>2. ASSUME NEW d \in WaitingIn(q) \ {c} PROVE d \in WaitingIn(r)
    <3>1. PICK i \in 1 .. Len(q) : q[i].unique_name = d
      BY DEF WaitingIn, InQueue
    <3>2. d \in UniqueNames /\ d # c /\ i # 1 /\ i # p
      BY <3>1, <1>1, <1>3 DEF WaitingIn
    <3>3. i \in 2 .. Len(q)
      BY <3>2, <1>0
    <3>4. PICK k \in 2 .. Len(r) : r[k] = q[i]
      BY <3>2, <3>3, <1>10
    <3>5. k \in 1 .. Len(r)
      BY <1>6
    <3> QED
      BY <3>1, <3>2, <3>4, <3>5, <1>7 DEF WaitingIn, InQueue
  <2>3. ASSUME NEW d \in stays PROVE d \in WaitingIn(r)
    <3>1. d = q[1].unique_name /\ ~ q[1].do_not_queue /\ d \in UniqueNames
      BY <1>1 DEF Stays
    <3>2. PICK k \in 2 .. Len(r) : r[k] = q[1]
      BY <3>1, <1>11
    <3>3. k \in 1 .. Len(r)
      BY <1>6
    <3> QED
      BY <3>1, <3>2, <3>3, <1>1, <1>7 DEF WaitingIn, InQueue
  <2> QED
    BY <2>1, <2>2, <2>3
<1>13. WillingIn(r) = (WillingIn(q) \ {c, First(q)}) \cup stays
                          \cup Agrees(c, flags)
  <2>1. ASSUME NEW d \in WillingIn(r)
        PROVE  \/ d \in WillingIn(q) \ {c, First(q)}
               \/ d \in stays
               \/ d = c /\ "allow_replacement" \in flags
    <3>1. PICK k \in 1 .. Len(r) : r[k].unique_name = d /\ r[k].allow_replacement
      BY DEF WillingIn
    <3>2. d \in UniqueNames
      BY DEF WillingIn
    <3>3. CASE k = 1
      BY <3>1, <3>3, <1>6
    <3>4. CASE k # 1
      <4>1. k \in 2 .. Len(r)
        BY <3>4, <1>6
      <4>2. PICK i \in 1 .. Len(q) :
               r[k] = q[i] /\ i # p /\ ((i = 1 /\ ~ q[1].do_not_queue) \/ i > 1)
        BY <4>1, <1>9
      <4>3. CASE i = 1
        BY <4>2, <4>3, <3>1, <1>1 DEF Stays
      <4>4. CASE i # 1
        <5>1. q[i].unique_name # q[1].unique_name
          BY <4>4, <1>0, <1>8
        <5>2. d # c
          BY <4>2, <3>1, <1>3
        <5> QED
          BY <5>1, <5>2, <4>2, <3>1, <3>2, <1>1 DEF WillingIn
      <4> QED
        BY <4>3, <4>4
    <3> QED
      BY <3>3, <3>4
  <2>2. ASSUME NEW d \in WillingIn(q) \ {c, First(q)} PROVE d \in WillingIn(r)
    <3>1. PICK i \in 1 .. Len(q) : q[i].unique_name = d /\ q[i].allow_replacement
      BY DEF WillingIn
    <3>2. d \in UniqueNames /\ i # 1 /\ i # p
      BY <3>1, <1>1, <1>3 DEF WillingIn
    <3>3. i \in 2 .. Len(q)
      BY <3>2, <1>0
    <3>4. PICK k \in 2 .. Len(r) : r[k] = q[i]
      BY <3>2, <3>3, <1>10
    <3>5. k \in 1 .. Len(r)
      BY <1>6
    <3> QED
      BY <3>1, <3>2, <3>4, <3>5 DEF WillingIn
  <2>3. ASSUME NEW d \in stays PROVE d \in WillingIn(r)
    <3>1. d = q[1].unique_name /\ ~ q[1].do_not_queue /\ d \in UniqueNames
      BY <1>1 DEF Stays
    <3>2. PICK k \in 2 .. Len(r) : r[k] = q[1]
      BY <3>1, <1>11
    <3>3. k \in 1 .. Len(r)
      BY <1>6
    <3> QED
      BY <3>1, <3>2, <3>3 DEF WillingIn
  <2>4. ASSUME "allow_replacement" \in flags PROVE c \in WillingIn(r)
    <3>1. 1 \in 1 .. Len(r)
      BY <1>6
    <3> QED
      BY <2>4, <3>1, <1>6 DEF WillingIn
  <2> QED
    BY <2>1, <2>2, <2>3, <2>4 DEF Agrees
<1>14. KeepsOrder(q, r)
  <2> SUFFICES ASSUME NEW i \in 2 .. Len(q), NEW j \in 2 .. Len(q),
                      NEW k \in 2 .. Len(r), NEW l \in 2 .. Len(r), i < j,
                      r[k].unique_name = q[i].unique_name,
                      r[l].unique_name = q[j].unique_name
               PROVE  k < l
    BY DEF KeepsOrder
  <2>1. PICK x \in 1 .. Len(q) :
           r[k] = q[x] /\ (x = 1 \/ x = IF k < p THEN k ELSE k + 1)
    BY <1>9
  <2>2. PICK y \in 1 .. Len(q) :
           r[l] = q[y] /\ (y = 1 \/ y = IF l < p THEN l ELSE l + 1)
    BY <1>9
  <2>3. x = i /\ y = j
    BY <2>1, <2>2, <1>0, <1>8
  <2> QED
    BY <2>1, <2>2, <2>3, <1>0, <1>3, <1>6
<1>15. ASSUME NEW d, InQueue(r, d) PROVE InQueue(q, d) \/ d = c
  <2>1. PICK k \in 1 .. Len(r) : r[k].unique_name = d
    BY <1>15 DEF InQueue
  <2>2. CASE k = 1
    BY <2>1, <2>2, <1>6
  <2>3. CASE k # 1
    <3>1. k \in 2 .. Len(r)
      BY <2>3, <1>6
    <3>2. PICK i \in 1 .. Len(q) : r[k] = q[i]
      BY <3>1, <1>9
    <3> QED
      BY <2>1, <3>2 DEF InQueue
  <2> QED
    BY <2>2, <2>3
<1> QED
  BY <1>6, <1>7, <1>12, <1>13, <1>14, <1>15 DEF ReplacedView

-----------------------------------------------------------------------------
(* What a step does to the queue of each name *)

\* Setting one queue leaves the others alone.
LEMMA SetQueue ==
    ASSUME NEW n, NEW q, names' = WithQueue(n, q)
    PROVE  Queue(n)' = q /\ \A m : m # n => Queue(m)' = Queue(m)
<1>1. DOMAIN names' = DOMAIN names \cup {n}
  BY DEF WithQueue
<1>2. \A m \in DOMAIN names' : names'[m] = IF m = n THEN q ELSE names[m]
  BY DEF WithQueue
<1> QED
  BY <1>1, <1>2 DEF Queue

\* Releasing the names in S leaves the others alone; a queue that empties reads
\* the same whether or not its name is still in the map.
LEMMA ReleasedQueues ==
    ASSUME NEW c, NEW S \in SUBSET DOMAIN names, names' = ReleasedNames(c, S)
    PROVE  \A n : Queue(n)' = IF n \in S THEN Retain(Queue(n), c) ELSE Queue(n)
<1> SUFFICES ASSUME NEW n
             PROVE  Queue(n)' = IF n \in S THEN Retain(Queue(n), c) ELSE Queue(n)
  OBVIOUS
<1>1. DOMAIN names' = {m \in DOMAIN names : m \notin S \/ Retain(names[m], c) # << >>}
  BY DEF ReleasedNames
<1>2. n \in DOMAIN names' =>
         names'[n] = IF n \in S THEN Retain(names[n], c) ELSE names[n]
  BY DEF ReleasedNames
<1> QED
  BY <1>1, <1>2 DEF Queue

\* The queue of a name that has one is good.
LEMMA QueueGood ==
    ASSUME IInv, NEW n
    PROVE  /\ n \in DOMAIN names <=> Queue(n) # << >>
           /\ n \in DOMAIN names => /\ Queue(n) = names[n]
                                    /\ GoodQueue(Queue(n), is_registered)
           /\ is_registered \subseteq UniqueNames
           /\ Queue(n) \in Seq(QueueEntry)
<1>1. n \in DOMAIN names => GoodQueue(names[n], is_registered) /\ names[n] # << >>
  BY DEF IInv, GoodQueue
<1>2. is_registered \subseteq UniqueNames
  BY DEF IInv, TypeOK
<1>3. n \in DOMAIN names => names[n] \in Seq(QueueEntry)
  BY <1>1 DEF GoodQueue
<1> QED
  BY <1>1, <1>2, <1>3 DEF Queue

Claimed(q, r, c, flags) ==
    q = << >> /\ r = <<Entry(c, "allow_replacement" \in flags,
                                "do_not_queue" \in flags)>>

Replaced(q, r, c, flags) ==
    /\ q # << >> /\ First(q) # c /\ q[1].allow_replacement
    /\ r = ReplacedQueue(q, c, flags)

Joined(q, r, c, flags) ==
    q # << >> /\ ~ InQueue(q, c) /\ r = JoinedQueue(q, c, flags)

Left(q, r, c) == q # << >> /\ InQueue(q, c) /\ r = Retain(q, c)

\* From the queue q to the queue r in one operation.
QueueStep(q, r) ==
    \/ r = q
    \/ \E c \in UniqueNames, flags \in Flags :
          Claimed(q, r, c, flags) \/ Replaced(q, r, c, flags) \/ Joined(q, r, c, flags)
    \/ \E c \in UniqueNames : Left(q, r, c)

\* What an operation says of the owner, and to the waiters.
LEMMA QueueStepMeaning ==
    ASSUME NEW L, L \subseteq UniqueNames, NEW q, q # << >> => GoodQueue(q, L),
           NEW r, QueueStep(q, r)
    PROVE  /\ KeepsOrder(q, r)
           /\ q # << >> /\ First(r) # First(q) =>
                 \/ ~ InQueue(r, First(q)) /\ First(r) = First(Tail(q))
                 \/ q[1].allow_replacement
<1>1. CASE r = q
  <2>1. q # << >> => KeepsOrder(q, q)
    <3> SUFFICES ASSUME GoodQueue(q, L) PROVE KeepsOrder(q, q)
      OBVIOUS
    <3>1. \A i, j \in 1 .. Len(q) : q[i].unique_name = q[j].unique_name => i = j
      BY DEF GoodQueue
    <3>2. \A i \in 2 .. Len(q) : i \in 1 .. Len(q)
      BY DEF GoodQueue
    <3> QED
      BY <3>1, <3>2 DEF KeepsOrder
  <2>2. q = << >> => KeepsOrder(q, q)
    BY DEF KeepsOrder
  <2> QED
    BY <1>1, <2>1, <2>2
<1>2. ASSUME NEW c \in UniqueNames, NEW flags \in Flags, Claimed(q, r, c, flags)
      PROVE  q = << >> /\ KeepsOrder(q, r)
  BY <1>2 DEF Claimed, KeepsOrder
<1>3. ASSUME NEW c \in UniqueNames, NEW flags \in Flags, Replaced(q, r, c, flags)
      PROVE  q[1].allow_replacement /\ KeepsOrder(q, r)
  <2>1. GoodQueue(q, L) /\ First(q) # c /\ q[1].allow_replacement
        /\ r = ReplacedQueue(q, c, flags)
    BY <1>3 DEF Replaced
  <2>2. ReplacedView(q, r, c, flags)
    BY <2>1, ReplacedOutside
  <2> QED
    BY <2>1, <2>2 DEF ReplacedView
<1>4. ASSUME NEW c \in UniqueNames, NEW flags \in Flags, Joined(q, r, c, flags)
      PROVE  First(r) = First(q) /\ KeepsOrder(q, r)
  <2>1. GoodQueue(q, L) /\ ~ InQueue(q, c) /\ r = JoinedQueue(q, c, flags)
    BY <1>4 DEF Joined
  <2>2. JoinedView(q, r, c, flags)
    BY <2>1, JoinedOutside
  <2> QED
    BY <2>2 DEF JoinedView
<1>5. ASSUME NEW c \in UniqueNames, Left(q, r, c)
      PROVE  /\ First(r) # First(q) => ~ InQueue(r, First(q)) /\ First(r) = First(Tail(q))
             /\ KeepsOrder(q, r)
  <2>1. GoodQueue(q, L) /\ InQueue(q, c) /\ r = Retain(q, c)
    BY <1>5 DEF Left
  <2>2. /\ \A d : InQueue(r, d) <=> InQueue(q, d) /\ d # c
        /\ First(r) = IF First(q) = c THEN First(Tail(q)) ELSE First(q)
        /\ KeepsOrder(q, r)
    BY <2>1, RetainOutside
  <2> QED
    BY <2>2
<1> QED
  BY <1>1, <1>2, <1>3, <1>4, <1>5 DEF QueueStep

\* A well-known name is no unique name, so its owner is the first in its queue.
LEMMA OwnerIsFirst ==
    ASSUME NEW n \in Names
    PROVE  /\ n \notin UniqueNames
           /\ get_name_owner(n) = First(Queue(n))
           /\ get_name_owner(n)' = First(Queue(n)')
<1>1. n \notin UniqueNames
  BY NamesAssumption, BoundsAssumption DEF UniqueNames
<1> QED
  BY <1>1 DEF get_name_owner

\* The events of a step about n, given the first of its queue before and after.
Announced(events, n, old, new) ==
    {e \in events : e.name = n} = IF new = old THEN {} ELSE {Change(n, old, new)}

\* No event, and one event of another name, announce nothing of n.
LEMMA NothingAnnounced ==
    ASSUME NEW n, NEW old
    PROVE  /\ Announced({}, n, old, old)
           /\ \A m, x, y : m # n => Announced({Change(m, x, y)}, n, old, old)
  BY DEF Announced, Change

\* One event of n announces its change of owner.
LEMMA OneAnnounced ==
    ASSUME NEW n, NEW old, NEW new, new # old
    PROVE  Announced({Change(n, old, new)}, n, old, new)
  BY DEF Announced, Change

\* The one who leaves is not the next owner.
LEMMA NextOwnerIsAnother ==
    ASSUME NEW q, NEW r, NEW c \in UniqueNames, ~ InQueue(r, c),
           r \in Seq(QueueEntry)
    PROVE  First(r) # c
<1>1. CASE r = << >>
  BY <1>1, BoundsAssumption DEF First, None, UniqueNames
<1>2. CASE r # << >>
  <2>1. 1 \in 1 .. Len(r)
    BY <1>2
  <2> QED
    BY <2>1, <1>2 DEF First, InQueue
<1> QED
  BY <1>1, <1>2

\* A release is announced for the names whose owner leaves, and for no others.
LEMMA ReleaseAnnounced ==
    ASSUME IInv, NEW c \in UniqueNames, NEW S \in SUBSET DOMAIN names,
           \A n \in S : InQueue(names[n], c), names' = ReleasedNames(c, S),
           NEW n \in Names
    PROVE  /\ QueueStep(Queue(n), Queue(n)')
           /\ Announced(ReleaseChanges(c, S), n, First(Queue(n)), First(Queue(n)'))
<1> DEFINE q == Queue(n)
           r == Retain(q, c)
<1>1. Queue(n)' = IF n \in S THEN r ELSE q
  BY ReleasedQueues
<1>2. \A e \in ReleaseChanges(c, S) :
         e.name \in S /\ First(names[e.name]) = c
           /\ e = Change(e.name, c, First(Retain(names[e.name], c)))
  BY DEF ReleaseChanges, Change
<1>3. ASSUME n \in S, First(names[n]) = c
      PROVE  Change(n, c, First(Retain(names[n], c))) \in ReleaseChanges(c, S)
  BY <1>3 DEF ReleaseChanges
<1>4. CASE n \notin S
  <2>1. {e \in ReleaseChanges(c, S) : e.name = n} = {}
    BY <1>4, <1>2
  <2> QED
    BY <2>1, <1>1, <1>4 DEF QueueStep, Announced
<1>5. CASE n \in S
  <2>1. /\ q = names[n] /\ q # << >> /\ GoodQueue(q, is_registered)
        /\ is_registered \subseteq UniqueNames /\ InQueue(q, c)
    BY <1>5, QueueGood
  <2>2. /\ \A d : InQueue(r, d) <=> InQueue(q, d) /\ d # c
        /\ First(r) = IF First(q) = c THEN First(Tail(q)) ELSE First(q)
    BY <2>1, RetainOutside
  <2>3. r \in Seq(QueueEntry)
    BY <2>1, RetainType DEF GoodQueue
  <2>4. Queue(n)' = r
    BY <1>1, <1>5
  <2>5. QueueStep(q, Queue(n)')
    BY <2>1, <2>4 DEF QueueStep, Left
  <2> HIDE DEF r, q
  <2>6. CASE First(q) = c
    <3>1. First(r) # First(q)
      BY <2>6, <2>2, <2>3, NextOwnerIsAnother
    <3>2. {e \in ReleaseChanges(c, S) : e.name = n} = {Change(n, c, First(r))}
      <4>1. r = Retain(names[n], c)
        BY <2>1 DEF r
      <4>2. Change(n, c, First(r)).name = n
        BY DEF Change
      <4> QED
        BY <4>1, <4>2, <2>1, <2>6, <1>2, <1>3, <1>5
    <3> QED
      BY <3>1, <3>2, <2>4, <2>5, <2>6 DEF Announced, q
  <2>7. CASE First(q) # c
    <3>1. {e \in ReleaseChanges(c, S) : e.name = n} = {}
      BY <2>7, <2>1, <1>2
    <3> QED
      BY <3>1, <2>2, <2>4, <2>5, <2>7 DEF Announced, q
  <2> QED
    BY <2>6, <2>7
<1> QED
  BY <1>4, <1>5

\* Every step takes each queue one operation further and announces exactly the
\* owners it changed.
StepEffect(n) ==
    /\ QueueStep(Queue(n), Queue(n)')
    /\ Announced(changes', n, First(Queue(n)), First(Queue(n)'))

\* A step that changes no queue.
LEMMA QuietEffect ==
    ASSUME UNCHANGED names, NEW n \in Names,
           \A e \in changes' : e.name # n
    PROVE  StepEffect(n)
<1>1. Queue(n)' = Queue(n)
  BY DEF Queue
<1>2. {e \in changes' : e.name = n} = {}
  OBVIOUS
<1> QED
  BY <1>1, <1>2 DEF StepEffect, QueueStep, Announced

\* A request takes the name's queue one operation further.
LEMMA RequestEffect ==
    ASSUME IInv, NEW c \in UniqueNames, NEW m \in Names, NEW flags \in Flags,
           RequestName(c, m, flags), NEW n \in Names
    PROVE  StepEffect(n)
<1> DEFINE q == Queue(m)
<1>1. ASSUME NEW code, AnswerOnly(c, m, code) PROVE StepEffect(n)
  BY <1>1, QuietEffect DEF AnswerOnly
<1>2. q # << >> => GoodQueue(q, is_registered)
  BY QueueGood
<1>3. is_registered \subseteq UniqueNames
  BY QueueGood
\* One queue is set to r, and the change of owner announced if there is one.
<1>4. ASSUME NEW r, names' = WithQueue(m, r), QueueStep(q, r),
             Announced(changes', m, First(q), First(r)),
             \A e \in changes' : e.name = m
      PROVE  StepEffect(n)
  <2>1. Queue(m)' = r /\ \A k : k # m => Queue(k)' = Queue(k)
    BY <1>4, SetQueue
  <2>2. CASE n = m
    BY <2>1, <2>2, <1>4 DEF StepEffect
  <2>3. CASE n # m
    <3>1. Queue(n)' = Queue(n) /\ {e \in changes' : e.name = n} = {}
      BY <2>1, <2>3, <1>4
    <3> QED
      BY <3>1 DEF StepEffect, QueueStep, Announced
  <2> QED
    BY <2>2, <2>3
<1>5. \A x, y : \A e \in {Change(m, x, y)} : e.name = m
  BY DEF Change
<1>6. CASE ClaimFreeName(c, m, flags)
  <2> DEFINE r == <<Entry(c, "allow_replacement" \in flags,
                             "do_not_queue" \in flags)>>
  <2>1. q = << >> /\ names' = WithQueue(m, r) /\ changes' = {Change(m, None, c)}
    BY <1>6 DEF ClaimFreeName
  <2>2. First(r) = c /\ First(q) = None /\ c # None
    BY <2>1, BoundsAssumption DEF First, Entry, None, UniqueNames
  <2>3. QueueStep(q, r)
    BY <2>1 DEF QueueStep, Claimed
  <2> HIDE DEF r
  <2>4. Announced(changes', m, First(q), First(r))
    BY <2>1, <2>2, OneAnnounced
  <2>5. \A e \in changes' : e.name = m
    BY <2>1, <1>5
  <2> QED
    BY <2>1, <2>3, <2>4, <2>5, <1>4
<1>7. CASE KeepName(c, m) \/ RefuseToQueue(c, m, flags)
  BY <1>7, <1>1 DEF KeepName, RefuseToQueue
<1>8. CASE ReplaceOwner(c, m, flags)
  <2> DEFINE r == ReplacedQueue(q, c, flags)
  <2>1. /\ q # << >> /\ First(q) # c /\ q[1].allow_replacement
        /\ names' = WithQueue(m, r) /\ changes' = {Change(m, First(q), c)}
    BY <1>8 DEF ReplaceOwner, CanReplace
  <2>2. ReplacedView(q, r, c, flags)
    BY <2>1, <1>2, <1>3, ReplacedOutside
  <2>3. QueueStep(q, r)
    BY <2>1 DEF QueueStep, Replaced
  <2> HIDE DEF r
  <2>4. Announced(changes', m, First(q), First(r))
    BY <2>1, <2>2, OneAnnounced DEF ReplacedView
  <2>5. \A e \in changes' : e.name = m
    BY <2>1, <1>5
  <2> QED
    BY <2>1, <2>3, <2>4, <2>5, <1>4
<1>9. CASE JoinQueue(c, m, flags)
  <2> DEFINE r == JoinedQueue(q, c, flags)
  <2>1. q # << >> /\ names' = WithQueue(m, r) /\ changes' = {}
    BY <1>9 DEF JoinQueue
  <2>2. QueueStep(q, r) /\ First(r) = First(q)
    <3>1. CASE InQueue(q, c)
      <4>1. r = q
        BY <3>1 DEF JoinedQueue
      <4> QED
        BY <4>1 DEF QueueStep
    <3>2. CASE ~ InQueue(q, c)
      <4>1. JoinedView(q, r, c, flags)
        BY <3>2, <2>1, <1>2, <1>3, JoinedOutside
      <4>2. Joined(q, r, c, flags)
        BY <3>2, <2>1 DEF Joined
      <4> QED
        BY <4>1, <4>2 DEF JoinedView, QueueStep
    <3> QED
      BY <3>1, <3>2
  <2> HIDE DEF r
  <2>3. Announced(changes', m, First(q), First(r))
    BY <2>1, <2>2, NothingAnnounced
  <2> QED
    BY <2>1, <2>2, <2>3, <1>4
<1> QED
  BY <1>6, <1>7, <1>8, <1>9 DEF RequestName

\* The effect of every step on every name.
LEMMA NextEffect ==
    ASSUME IInv, Next, NEW n \in Names
    PROVE  StepEffect(n)
<1>0. \A c \in UniqueNames : c # n
  BY OwnerIsFirst
<1>1. CASE Connect
  BY <1>1, QuietEffect DEF Connect
<1>2. ASSUME NEW c \in UniqueNames, NEW m, NEW code, AnswerOnly(c, m, code)
      PROVE  StepEffect(n)
  BY <1>2, QuietEffect DEF AnswerOnly
<1>3. ASSUME NEW c \in UniqueNames, Hello(c) PROVE StepEffect(n)
  <2>1. CASE AnswerOnly(c, c, "failed")
    BY <2>1, <1>2
  <2>2. CASE ~ AnswerOnly(c, c, "failed")
    <3>1. UNCHANGED names /\ changes' = {Change(c, None, c)}
      BY <2>2, <1>3 DEF Hello
    <3>2. \A e \in changes' : e.name # n
      BY <3>1, <1>0 DEF Change
    <3> QED
      BY <3>1, <3>2, QuietEffect
  <2> QED
    BY <2>1, <2>2
<1>4. ASSUME NEW c \in UniqueNames, Disconnect(c) PROVE StepEffect(n)
  <2> DEFINE held == {k \in DOMAIN names : InQueue(names[k], c)}
  <2>1. /\ names' = ReleasedNames(c, held)
        /\ changes' = ReleaseChanges(c, held) \cup {Change(c, c, None)}
    BY <1>4 DEF Disconnect
  <2>2. /\ QueueStep(Queue(n), Queue(n)')
        /\ Announced(ReleaseChanges(c, held), n, First(Queue(n)), First(Queue(n)'))
    <3>1. held \in SUBSET DOMAIN names /\ \A k \in held : InQueue(names[k], c)
      OBVIOUS
    <3> HIDE DEF held
    <3> QED
      BY <3>1, <2>1, ReleaseAnnounced
  <2>3. Change(c, c, None).name # n
    BY <1>0 DEF Change
  <2>4. {e \in changes' : e.name = n} = {e \in ReleaseChanges(c, held) : e.name = n}
    BY <2>1, <2>3
  <2> HIDE DEF held
  <2> QED
    BY <2>2, <2>4 DEF StepEffect, Announced
<1>5. ASSUME NEW c \in UniqueNames, NEW m \in Names,
             RefuseUnregistered(c, m) \/ RefuseRequest(c, m)
      PROVE  StepEffect(n)
  BY <1>5, <1>2 DEF RefuseUnregistered, RefuseRequest
<1>6. ASSUME NEW c \in UniqueNames, NEW m \in Names, ReleaseName(c, m)
      PROVE  StepEffect(n)
  <2>1. CASE AnswerOnly(c, m, "non_existent") \/ AnswerOnly(c, m, "not_owner")
    BY <2>1, <1>2
  <2>2. CASE ~ (AnswerOnly(c, m, "non_existent") \/ AnswerOnly(c, m, "not_owner"))
    <3>1. /\ m \in DOMAIN names /\ InQueue(names[m], c)
          /\ names' = ReleasedNames(c, {m})
          /\ changes' = ReleaseChanges(c, {m})
      BY <2>2, <1>6 DEF ReleaseName
    <3>2. {m} \in SUBSET DOMAIN names /\ \A k \in {m} : InQueue(names[k], c)
      BY <3>1
    <3> QED
      BY <3>1, <3>2, ReleaseAnnounced DEF StepEffect
  <2> QED
    BY <2>1, <2>2
<1>7. ASSUME NEW c \in UniqueNames, NEW m \in Names, NEW flags \in Flags,
             RequestName(c, m, flags)
      PROVE  StepEffect(n)
  BY <1>7, RequestEffect
<1> QED
  BY <1>1, <1>3, <1>4, <1>5, <1>6, <1>7 DEF Next

-----------------------------------------------------------------------------
(* What a step may do *)

\* The events handed to dispatch.rs are exactly the owner changes of the step,
\* for every mix of requests, replacements, releases and departures.
THEOREM ChangesStayExact == Spec => ChangesAreExact
<1> DEFINE A == \A n \in Names :
                   {e \in changes' : e.name = n} =
                      IF get_name_owner(n)' = get_name_owner(n) THEN {}
                      ELSE {Change(n, get_name_owner(n), get_name_owner(n)')}
<1>1. IInv /\ [Next]_vars => [A]_vars
  <2> SUFFICES ASSUME IInv, Next, NEW n \in Names
               PROVE  {e \in changes' : e.name = n} =
                         IF get_name_owner(n)' = get_name_owner(n) THEN {}
                         ELSE {Change(n, get_name_owner(n), get_name_owner(n)')}
    OBVIOUS
  <2>1. Announced(changes', n, First(Queue(n)), First(Queue(n)'))
    BY NextEffect DEF StepEffect
  <2> QED
    BY <2>1, OwnerIsFirst DEF Announced
<1> QED
  BY <1>1, Invariance, PTL DEF Spec, ChangesAreExact

\* No owner loses a name but by leaving its queue, to the next in turn, or with
\* the consent it gave when it asked for the name.
THEOREM OwnersYieldInTurn == Spec => OwnerYieldsInTurn
<1> DEFINE A == \A n \in DOMAIN names :
                   LET q == names[n]
                   IN  get_name_owner(n)' # q[1].unique_name =>
                          \/ /\ ~ InQueue(Queue(n)', q[1].unique_name)
                             /\ get_name_owner(n)' = First(Tail(q))
                          \/ q[1].allow_replacement
<1>1. IInv /\ [Next]_vars => [A]_vars
  <2> SUFFICES ASSUME IInv, Next, NEW n \in DOMAIN names,
                      get_name_owner(n)' # names[n][1].unique_name
               PROVE  \/ /\ ~ InQueue(Queue(n)', names[n][1].unique_name)
                         /\ get_name_owner(n)' = First(Tail(names[n]))
                      \/ names[n][1].allow_replacement
    OBVIOUS
  <2>1. n \in Names
    BY DEF IInv, TypeOK
  <2>2. /\ Queue(n) = names[n] /\ Queue(n) # << >>
        /\ GoodQueue(Queue(n), is_registered) /\ is_registered \subseteq UniqueNames
    BY QueueGood
  <2>3. First(Queue(n)) = names[n][1].unique_name
    BY <2>2 DEF First
  <2>4. QueueStep(Queue(n), Queue(n)')
    BY <2>1, NextEffect DEF StepEffect
  <2>5. get_name_owner(n)' = First(Queue(n)')
    BY <2>1, OwnerIsFirst
  <2> QED
    BY <2>2, <2>3, <2>4, <2>5, QueueStepMeaning
<1> QED
  BY <1>1, Invariance, PTL DEF Spec, OwnerYieldsInTurn

\* Waiting is first come, first served in every queue, over every step.
THEOREM WaitersStayInOrder == Spec => WaitersKeepOrder
<1> DEFINE A == \A n \in DOMAIN names \cap DOMAIN names' :
                   \A i, j \in 2 .. Len(names[n]) :
                      \A k, l \in 2 .. Len(names[n]') :
                         /\ i < j
                         /\ names[n]'[k].unique_name = names[n][i].unique_name
                         /\ names[n]'[l].unique_name = names[n][j].unique_name
                         => k < l
<1>1. IInv /\ [Next]_vars => [A]_vars
  <2> SUFFICES ASSUME IInv, Next, NEW n \in DOMAIN names \cap DOMAIN names'
               PROVE  KeepsOrder(names[n], names'[n])
    BY DEF KeepsOrder
  <2>1. n \in Names
    BY DEF IInv, TypeOK
  <2>2. /\ Queue(n) = names[n]
        /\ GoodQueue(Queue(n), is_registered) /\ is_registered \subseteq UniqueNames
    BY QueueGood
  <2>3. Queue(n)' = names'[n]
    BY DEF Queue
  <2>4. QueueStep(Queue(n), Queue(n)')
    BY <2>1, NextEffect DEF StepEffect
  <2>5. KeepsOrder(Queue(n), Queue(n)')
    BY <2>2, <2>4, QueueStepMeaning
  <2> QED
    BY <2>2, <2>3, <2>5
<1> QED
  BY <1>1, Invariance, PTL DEF Spec, WaitersKeepOrder

-----------------------------------------------------------------------------
(* The answers *)

\* ReplyTellsPlace for the queue q of the name, the caller c and the answer.
TellsPlace(q, c, code) ==
    /\ code \in {"primary_owner", "already_owner"} => First(q) = c
    /\ code = "in_queue" => InQueue(q, c) /\ First(q) # c
    /\ code = "exists" => First(q) \notin {None, c}
    /\ code \in ReleaseReplies => ~ InQueue(q, c)

\* An answer that says nothing of a place tells nothing wrong.
LEMMA OtherAnswers ==
    ASSUME NEW q, NEW c, NEW code \in Errors \cup {"hello", "none"}
    PROVE  TellsPlace(q, c, code)
  BY DEF TellsPlace, Errors, ReleaseReplies

\* Each step answers with the place the caller has after it.
LEMMA NextTells == IInv /\ Next => ReplyTellsPlace'
<1> SUFFICES ASSUME IInv, Next PROVE ReplyTellsPlace'
  OBVIOUS
<1>0. ASSUME NEW c, NEW n, NEW code, reply' = Answer(c, n, code),
             TellsPlace(Queue(n)', c, code)
      PROVE  ReplyTellsPlace'
  BY <1>0 DEF ReplyTellsPlace, TellsPlace, Answer, Queue, ReleaseReplies
<1>1. ASSUME NEW c, NEW n, NEW code, AnswerOnly(c, n, code),
             TellsPlace(Queue(n), c, code)
      PROVE  ReplyTellsPlace'
  <2>1. reply' = Answer(c, n, code) /\ Queue(n)' = Queue(n)
    BY <1>1 DEF AnswerOnly, Queue
  <2> QED
    BY <2>1, <1>1, <1>0
<1>2. CASE reply' = NoReply
  <2>1. NoReply = Answer(None, None, "none")
    BY DEF NoReply, Answer
  <2> QED
    BY <2>1, <1>2, <1>0, OtherAnswers
<1>3. CASE Connect
  BY <1>3, <1>2 DEF Connect
<1>4. ASSUME NEW c \in UniqueNames, Hello(c) PROVE ReplyTellsPlace'
  <2>1. reply' = Answer(c, c, "failed") \/ reply' = Answer(c, c, "hello")
    BY <1>4 DEF Hello, AnswerOnly
  <2> QED
    BY <2>1, <1>0, OtherAnswers DEF Errors
<1>5. ASSUME NEW c \in UniqueNames, Disconnect(c) PROVE ReplyTellsPlace'
  BY <1>5, <1>2 DEF Disconnect
<1>6. ASSUME NEW c \in UniqueNames, NEW n \in Names,
             RefuseUnregistered(c, n) \/ RefuseRequest(c, n)
      PROVE  ReplyTellsPlace'
  BY <1>6, <1>1, OtherAnswers DEF RefuseUnregistered, RefuseRequest, Errors
<1>7. ASSUME NEW c \in UniqueNames, NEW n \in Names, ReleaseName(c, n)
      PROVE  ReplyTellsPlace'
  <2>0. ASSUME NEW code \in ReleaseReplies, NEW q, ~ InQueue(q, c)
        PROVE  TellsPlace(q, c, code)
    BY <2>0 DEF TellsPlace, ReleaseReplies
  <2>1. CASE n \notin DOMAIN names /\ AnswerOnly(c, n, "non_existent")
    <3>1. ~ InQueue(Queue(n), c)
      BY <2>1 DEF Queue, InQueue
    <3> QED
      BY <3>1, <2>0, <2>1, <1>1 DEF ReleaseReplies
  <2>2. CASE /\ n \in DOMAIN names /\ ~ InQueue(names[n], c)
             /\ AnswerOnly(c, n, "not_owner")
    <3>1. ~ InQueue(Queue(n), c)
      BY <2>2 DEF Queue
    <3> QED
      BY <3>1, <2>0, <2>2, <1>1 DEF ReleaseReplies
  <2>3. CASE /\ n \in DOMAIN names /\ InQueue(names[n], c)
             /\ names' = ReleasedNames(c, {n})
             /\ reply' = Answer(c, n, "released")
    <3>1. /\ Queue(n) = names[n] /\ GoodQueue(Queue(n), is_registered)
          /\ is_registered \subseteq UniqueNames
      BY <2>3, QueueGood
    <3>2. Queue(n)' = Retain(Queue(n), c)
      BY <2>3, ReleasedQueues
    <3>3. ~ InQueue(Queue(n)', c)
      BY <3>1, <3>2, <2>3, RetainOutside
    <3> QED
      BY <3>3, <2>0, <2>3, <1>0 DEF ReleaseReplies
  <2> QED
    BY <2>1, <2>2, <2>3, <1>7 DEF ReleaseName
<1>8. ASSUME NEW c \in UniqueNames, NEW n \in Names, NEW flags \in Flags,
             RequestName(c, n, flags)
      PROVE  ReplyTellsPlace'
  <2> DEFINE q == Queue(n)
  <2>0. /\ q # << >> => GoodQueue(q, is_registered)
        /\ is_registered \subseteq UniqueNames
    BY QueueGood
  <2>1. ASSUME NEW r, First(r) = c
        PROVE  TellsPlace(r, c, "primary_owner") /\ TellsPlace(r, c, "already_owner")
    BY <2>1 DEF TellsPlace, ReleaseReplies
  <2>2. ASSUME NEW r, InQueue(r, c), First(r) # c
        PROVE  TellsPlace(r, c, "in_queue")
    BY <2>2 DEF TellsPlace, ReleaseReplies
  <2>3. CASE ClaimFreeName(c, n, flags)
    <3> DEFINE r == <<Entry(c, "allow_replacement" \in flags,
                               "do_not_queue" \in flags)>>
    <3>1. names' = WithQueue(n, r) /\ reply' = Answer(c, n, "primary_owner")
      BY <2>3 DEF ClaimFreeName
    <3>2. First(r) = c
      BY DEF First, Entry
    <3> HIDE DEF r
    <3>3. Queue(n)' = r
      BY <3>1, SetQueue
    <3> QED
      BY <3>1, <3>2, <3>3, <2>1, <1>0
  <2>4. CASE KeepName(c, n)
    BY <2>4, <2>1, <1>1 DEF KeepName
  <2>5. CASE ReplaceOwner(c, n, flags)
    <3> DEFINE r == ReplacedQueue(q, c, flags)
    <3>1. /\ q # << >> /\ First(q) # c /\ q[1].allow_replacement
          /\ names' = WithQueue(n, r) /\ reply' = Answer(c, n, "primary_owner")
      BY <2>5 DEF ReplaceOwner, CanReplace
    <3>2. First(r) = c
      <4>1. ReplacedView(q, r, c, flags)
        BY <3>1, <2>0, ReplacedOutside
      <4> QED
        BY <4>1 DEF ReplacedView
    <3> HIDE DEF r
    <3>3. Queue(n)' = r
      BY <3>1, SetQueue
    <3> QED
      BY <3>1, <3>2, <3>3, <2>1, <1>0
  <2>6. CASE RefuseToQueue(c, n, flags)
    <3>1. q # << >> /\ First(q) # c /\ AnswerOnly(c, n, "exists")
      BY <2>6 DEF RefuseToQueue
    <3>2. First(q) # None
      <4>1. q[1].unique_name \in UniqueNames
        BY <3>1, <2>0 DEF GoodQueue
      <4> QED
        BY <4>1, <3>1, BoundsAssumption DEF First, UniqueNames, None
    <3>3. TellsPlace(q, c, "exists")
      BY <3>1, <3>2 DEF TellsPlace, ReleaseReplies
    <3> QED
      BY <3>1, <3>3, <1>1
  <2>7. CASE JoinQueue(c, n, flags)
    <3> DEFINE r == JoinedQueue(q, c, flags)
    <3>1. /\ q # << >> /\ First(q) # c /\ names' = WithQueue(n, r)
          /\ reply' = Answer(c, n, "in_queue")
      BY <2>7 DEF JoinQueue
    <3>2. InQueue(r, c) /\ First(r) # c
      <4>1. CASE InQueue(q, c)
        BY <4>1, <3>1 DEF JoinedQueue
      <4>2. CASE ~ InQueue(q, c)
        <5>1. JoinedView(q, r, c, flags)
          BY <4>2, <3>1, <2>0, JoinedOutside
        <5> QED
          BY <5>1, <3>1 DEF JoinedView
      <4> QED
        BY <4>1, <4>2
    <3> HIDE DEF r
    <3>3. Queue(n)' = r
      BY <3>1, SetQueue
    <3> QED
      BY <3>1, <3>2, <3>3, <2>2, <1>0
  <2> QED
    BY <2>3, <2>4, <2>5, <2>6, <2>7, <1>8 DEF RequestName
<1> QED
  BY <1>3, <1>4, <1>5, <1>6, <1>7, <1>8 DEF Next

\* Every answer of request_name and release_name tells the caller the place it
\* has when the step is over.
THEOREM RepliesTellPlace == Spec => []ReplyTellsPlace
<1>1. Init => ReplyTellsPlace
  BY DEF Init, NoReply, ReplyTellsPlace, ReleaseReplies
<1>2. IInv /\ ReplyTellsPlace /\ [Next]_vars => ReplyTellsPlace'
  <2>1. UNCHANGED vars /\ ReplyTellsPlace => ReplyTellsPlace'
    BY DEF vars, ReplyTellsPlace, Queue
  <2> QED
    BY <2>1, NextTells
<1> QED
  BY <1>1, <1>2, Invariance, PTL DEF Spec

-----------------------------------------------------------------------------
(* The limit *)

\* Where c has a place.
Held(c) == {n \in DOMAIN names : InQueue(names[n], c)}

\* The inductive form of NamesWithinLimit: only finitely many names are in the
\* map, and nobody, connected or not, holds more than the limit.
LimitInv ==
    /\ IsFiniteSet(DOMAIN names)
    /\ \A c \in UniqueNames : Cardinality(Held(c)) <= MaxNames

\* Holding part of a finite set of names, or one name more.
LEMMA HeldCount ==
    ASSUME NEW S, IsFiniteSet(S), NEW T, NEW n
    PROVE  /\ T \subseteq S => Cardinality(T) <= Cardinality(S)
           /\ T \subseteq S \cup {n} => Cardinality(T) <= Cardinality(S) + 1
           /\ Cardinality(S) \in Nat
<1>1. Cardinality(S) \in Nat
  BY FS_CardinalityType
<1>2. T \subseteq S => Cardinality(T) <= Cardinality(S)
  BY FS_Subset
<1>3. ASSUME T \subseteq S \cup {n} PROVE Cardinality(T) <= Cardinality(S) + 1
  <2>1. /\ IsFiniteSet(S \cup {n})
        /\ Cardinality(S \cup {n}) = IF n \in S THEN Cardinality(S)
                                     ELSE Cardinality(S) + 1
    BY FS_AddElement
  <2>2. Cardinality(T) <= Cardinality(S \cup {n})
    BY <2>1, <1>3, FS_Subset
  <2>3. Cardinality(T) \in Nat
    BY <2>1, <1>3, FS_Subset, FS_CardinalityType
  <2> QED
    BY <2>1, <2>2, <2>3, <1>1
<1> QED
  BY <1>1, <1>2, <1>3

\* A step that gives nobody a new place keeps the limit.
LEMMA NoNewPlace ==
    ASSUME LimitInv, DOMAIN names' \subseteq DOMAIN names,
           \A c \in UniqueNames, n \in DOMAIN names' :
              InQueue(names'[n], c) => InQueue(names[n], c)
    PROVE  LimitInv'
<1>1. IsFiniteSet(DOMAIN names')
  BY FS_Subset DEF LimitInv
<1>2. ASSUME NEW c \in UniqueNames PROVE Cardinality(Held(c)') <= MaxNames
  <2>1. IsFiniteSet(Held(c)) /\ Held(c) \subseteq DOMAIN names
    BY FS_Subset DEF LimitInv, Held
  <2>2. Held(c)' \subseteq Held(c)
    BY DEF Held
  <2>3. /\ Cardinality(Held(c)') <= Cardinality(Held(c))
        /\ Cardinality(Held(c)) \in Nat /\ Cardinality(Held(c)') \in Nat
    BY <2>1, <2>2, FS_Subset, FS_CardinalityType
  <2>4. Cardinality(Held(c)) <= MaxNames
    BY DEF LimitInv
  <2> QED
    BY <2>3, <2>4, BoundsAssumption
<1> QED
  BY <1>1, <1>2 DEF LimitInv

\* A step that gives c, which is below the limit, a place at n and nobody else
\* a new place keeps the limit.
LEMMA OneNewPlace ==
    ASSUME IInv, LimitInv, NEW c \in UniqueNames, NEW n \in Names, NEW r,
           names' = WithQueue(n, r),
           \A d : InQueue(r, d) => InQueue(Queue(n), d) \/ d = c,
           names_held_by(c) < MaxNames
    PROVE  LimitInv'
<1>1. DOMAIN names' = DOMAIN names \cup {n}
  BY DEF WithQueue
<1>2. IsFiniteSet(DOMAIN names')
  BY <1>1, FS_AddElement DEF LimitInv
<1>3. ASSUME NEW d \in UniqueNames, NEW m \in Held(d)'
      PROVE  m \in Held(d) \/ (d = c /\ m = n)
  <2>1. m \in DOMAIN names \cup {n} /\ InQueue(names'[m], d)
    BY <1>1 DEF Held
  <2>2. names'[m] = IF m = n THEN r ELSE names[m]
    BY <2>1 DEF WithQueue
  <2>3. InQueue(Queue(n), d) => n \in Held(d)
    BY DEF Queue, InQueue, Held
  <2> QED
    BY <2>1, <2>2, <2>3 DEF Held
<1>4. ASSUME NEW d \in UniqueNames PROVE Cardinality(Held(d)') <= MaxNames
  <2>1. IsFiniteSet(Held(d)) /\ Held(d) \subseteq DOMAIN names
    BY FS_Subset DEF LimitInv, Held
  <2>2. Held(d)' \subseteq DOMAIN names'
    BY DEF Held
  <2>3. Cardinality(Held(d)) \in Nat /\ Cardinality(Held(d)') \in Nat
    BY <2>1, <2>2, <1>2, FS_Subset, FS_CardinalityType
  <2>4. CASE d = c
    <3>1. Held(d)' \subseteq Held(d) \cup {n}
      BY <1>3
    <3>2. Cardinality(Held(d)') <= Cardinality(Held(d)) + 1
      BY <3>1, <2>1, HeldCount
    <3>3. Cardinality(Held(d)) < MaxNames
      BY <2>4 DEF names_held_by, Held
    <3> QED
      BY <3>2, <3>3, <2>3, BoundsAssumption
  <2>5. CASE d # c
    <3>1. Held(d)' \subseteq Held(d)
      BY <2>5, <1>3
    <3>2. Cardinality(Held(d)') <= Cardinality(Held(d))
      BY <3>1, <2>1, HeldCount
    <3>3. Cardinality(Held(d)) <= MaxNames
      BY DEF LimitInv
    <3> QED
      BY <3>2, <3>3, <2>3, BoundsAssumption
  <2> QED
    BY <2>4, <2>5
<1> QED
  BY <1>2, <1>4 DEF LimitInv

\* A release gives nobody a new place.
LEMMA ReleaseWithinLimit ==
    ASSUME IInv, LimitInv, NEW c \in UniqueNames, NEW S \in SUBSET DOMAIN names,
           \A n \in S : InQueue(names[n], c), names' = ReleasedNames(c, S)
    PROVE  LimitInv'
<1>1. DOMAIN names' \subseteq DOMAIN names
  BY DEF ReleasedNames
<1>2. ASSUME NEW d \in UniqueNames, NEW n \in DOMAIN names', InQueue(names'[n], d)
      PROVE  InQueue(names[n], d)
  <2>1. names'[n] = IF n \in S THEN Retain(names[n], c) ELSE names[n]
    BY DEF ReleasedNames
  <2>2. CASE n \in S
    <3>1. /\ Queue(n) = names[n] /\ GoodQueue(names[n], is_registered)
          /\ is_registered \subseteq UniqueNames
      BY <1>1, QueueGood
    <3>2. \A e : InQueue(Retain(names[n], c), e) <=> InQueue(names[n], e) /\ e # c
      BY <2>2, <3>1, RetainOutside
    <3> QED
      BY <3>2, <2>1, <2>2, <1>2
  <2>3. CASE n \notin S
    BY <2>1, <2>3, <1>2
  <2> QED
    BY <2>2, <2>3
<1> QED
  BY <1>1, <1>2, NoNewPlace

\* The limit is checked before a place is given and never passed by any other
\* step.
LEMMA NextWithinLimit == IInv /\ LimitInv /\ [Next]_vars => LimitInv'
<1> SUFFICES ASSUME IInv, LimitInv, [Next]_vars PROVE LimitInv'
  OBVIOUS
<1>1. CASE UNCHANGED names
  BY <1>1 DEF LimitInv, Held
<1>2. CASE Connect \/ UNCHANGED vars
  BY <1>2, <1>1 DEF Connect, vars
<1>3. ASSUME NEW c \in UniqueNames, NEW n \in Names,
             RefuseUnregistered(c, n) \/ RefuseRequest(c, n)
      PROVE  LimitInv'
  BY <1>3, <1>1 DEF RefuseUnregistered, RefuseRequest, AnswerOnly
<1>4. ASSUME NEW c \in UniqueNames, Hello(c) PROVE LimitInv'
  BY <1>4, <1>1 DEF Hello, AnswerOnly
<1>5. ASSUME NEW c \in UniqueNames, Disconnect(c) PROVE LimitInv'
  <2>1. names' = ReleasedNames(c, Held(c))
    BY <1>5 DEF Disconnect, Held
  <2>2. Held(c) \in SUBSET DOMAIN names /\ \A n \in Held(c) : InQueue(names[n], c)
    BY DEF Held
  <2> QED
    BY <2>1, <2>2, ReleaseWithinLimit
<1>6. ASSUME NEW c \in UniqueNames, NEW n \in Names, ReleaseName(c, n)
      PROVE  LimitInv'
  <2>1. CASE names' = ReleasedNames(c, {n}) /\ n \in DOMAIN names
               /\ InQueue(names[n], c)
    <3>1. {n} \in SUBSET DOMAIN names /\ \A m \in {n} : InQueue(names[m], c)
      BY <2>1
    <3> QED
      BY <3>1, <2>1, ReleaseWithinLimit
  <2> QED
    BY <2>1, <1>6, <1>1 DEF ReleaseName, AnswerOnly
<1>7. ASSUME NEW c \in UniqueNames, NEW n \in Names, NEW flags \in Flags,
             RequestName(c, n, flags)
      PROVE  LimitInv'
  <2> DEFINE q == Queue(n)
  <2>0. /\ q # << >> => GoodQueue(q, is_registered)
        /\ is_registered \subseteq UniqueNames
    BY QueueGood
  <2>1. names_held_by(c) < MaxNames
    BY <1>7 DEF RequestName
  <2>2. CASE ClaimFreeName(c, n, flags)
    <3> DEFINE r == <<Entry(c, "allow_replacement" \in flags,
                               "do_not_queue" \in flags)>>
    <3>1. names' = WithQueue(n, r)
      BY <2>2 DEF ClaimFreeName
    <3>2. \A d : InQueue(r, d) => d = c
      BY DEF InQueue, Entry
    <3> HIDE DEF r
    <3> QED
      BY <3>1, <3>2, <2>1, OneNewPlace
  <2>3. CASE KeepName(c, n) \/ RefuseToQueue(c, n, flags)
    BY <2>3, <1>1 DEF KeepName, RefuseToQueue, AnswerOnly
  <2>4. CASE ReplaceOwner(c, n, flags)
    <3> DEFINE r == ReplacedQueue(q, c, flags)
    <3>1. /\ q # << >> /\ First(q) # c /\ q[1].allow_replacement
          /\ names' = WithQueue(n, r)
      BY <2>4 DEF ReplaceOwner, CanReplace
    <3>2. ReplacedView(q, r, c, flags)
      BY <3>1, <2>0, ReplacedOutside
    <3>3. \A d : InQueue(r, d) => InQueue(q, d) \/ d = c
      BY <3>2 DEF ReplacedView
    <3> HIDE DEF r
    <3> QED
      BY <3>1, <3>3, <2>1, OneNewPlace
  <2>5. CASE JoinQueue(c, n, flags)
    <3> DEFINE r == JoinedQueue(q, c, flags)
    <3>1. q # << >> /\ names' = WithQueue(n, r)
      BY <2>5 DEF JoinQueue
    <3>2. \A d : InQueue(r, d) => InQueue(q, d) \/ d = c
      <4>1. CASE InQueue(q, c)
        BY <4>1 DEF JoinedQueue
      <4>2. CASE ~ InQueue(q, c)
        <5>1. JoinedView(q, r, c, flags)
          BY <4>2, <3>1, <2>0, JoinedOutside
        <5> QED
          BY <5>1 DEF JoinedView
      <4> QED
        BY <4>1, <4>2
    <3> HIDE DEF r
    <3> QED
      BY <3>1, <3>2, <2>1, OneNewPlace
  <2> QED
    BY <2>2, <2>3, <2>4, <2>5, <1>7 DEF RequestName
<1> QED
  BY <1>2, <1>3, <1>4, <1>5, <1>6, <1>7 DEF Next

\* No name, no place.
LEMMA InitWithinLimit == Init => LimitInv
<1> SUFFICES ASSUME Init PROVE LimitInv
  OBVIOUS
<1>1. DOMAIN names = {}
  BY DEF Init
<1>2. \A c : Held(c) = {}
  BY <1>1 DEF Held
<1> QED
  BY <1>1, <1>2, FS_EmptySet, BoundsAssumption DEF LimitInv

\* max_names_per_connection holds for every number of names and connections,
\* whatever replacements and releases move between the queues.
THEOREM LimitHolds == Spec => []NamesWithinLimit
<1>1. IInv /\ LimitInv => NamesWithinLimit
  BY DEF IInv, TypeOK, LimitInv, NamesWithinLimit, names_held_by, Held
<1> QED
  BY <1>1, InitWithinLimit, NextWithinLimit, Invariance, PTL DEF Spec

-----------------------------------------------------------------------------
(* The registry implements NameOwnership *)

\* The refinement mapping, name by name.
LEMMA View ==
    ASSUME NEW n \in Names
    PROVE  /\ owner[n] = First(Queue(n)) /\ owner'[n] = First(Queue(n)')
           /\ waiting[n] = WaitingIn(Queue(n)) /\ waiting'[n] = WaitingIn(Queue(n)')
           /\ willing[n] = WillingIn(Queue(n)) /\ willing'[n] = WillingIn(Queue(n)')
<1>1. owner[n] = First(Queue(n)) /\ owner'[n] = First(Queue(n)')
  BY OwnerIsFirst DEF owner
<1>2. waiting[n] = WaitingIn(Queue(n)) /\ waiting'[n] = WaitingIn(Queue(n)')
  BY DEF waiting, WaitingIn
<1>3. willing[n] = WillingIn(Queue(n)) /\ willing'[n] = WillingIn(Queue(n)')
  BY DEF willing, WillingIn
<1> QED
  BY <1>1, <1>2, <1>3

\* The mapped variables are functions on the names.
LEMMA ViewShape ==
    /\ owner = [n \in Names |-> owner[n]] /\ owner' = [n \in Names |-> owner'[n]]
    /\ waiting = [n \in Names |-> waiting[n]]
    /\ waiting' = [n \in Names |-> waiting'[n]]
    /\ willing = [n \in Names |-> willing[n]]
    /\ willing' = [n \in Names |-> willing'[n]]
  BY DEF owner, waiting, willing

\* A step that changes no queue is invisible.
LEMMA QuietView ==
    ASSUME \A n \in Names : Queue(n)' = Queue(n)
    PROVE  UNCHANGED <<owner, waiting, willing>>
<1>1. \A n \in Names : /\ owner'[n] = owner[n]
                       /\ waiting'[n] = waiting[n]
                       /\ willing'[n] = willing[n]
  BY View
<1> QED
  BY <1>1, ViewShape

\* Setting one queue changes the view at that name.
LEMMA SetView ==
    ASSUME NEW n \in Names, NEW r, names' = WithQueue(n, r)
    PROVE  /\ owner' = [owner EXCEPT ![n] = First(r)]
           /\ waiting' = [waiting EXCEPT ![n] = WaitingIn(r)]
           /\ willing' = [willing EXCEPT ![n] = WillingIn(r)]
<1>1. Queue(n)' = r /\ \A m : m # n => Queue(m)' = Queue(m)
  BY SetQueue
<1>2. \A m \in Names :
         /\ owner'[m] = IF m = n THEN First(r) ELSE owner[m]
         /\ waiting'[m] = IF m = n THEN WaitingIn(r) ELSE waiting[m]
         /\ willing'[m] = IF m = n THEN WillingIn(r) ELSE willing[m]
  BY <1>1, View
<1> QED
  BY <1>2, ViewShape

\* Leaving the queues of the names in S is GiveUp.
LEMMA ReleaseView ==
    ASSUME IInv, NEW c \in UniqueNames, NEW S \in SUBSET DOMAIN names,
           \A n \in S : InQueue(names[n], c), names' = ReleasedNames(c, S)
    PROVE  S \in SUBSET Names /\ Promise!GiveUp(c, S)
<1>1. S \in SUBSET Names
  BY DEF IInv, TypeOK
<1>2. \A n \in Names : Queue(n)' = IF n \in S THEN Retain(Queue(n), c) ELSE Queue(n)
  BY ReleasedQueues
<1>3. ASSUME NEW n \in S
      PROVE  LET q == Queue(n)
                 r == Retain(q, c)
             IN  /\ InQueue(q, c)
                 /\ First(r) = IF First(q) = c THEN First(Tail(q)) ELSE First(q)
                 /\ First(q) = c =>
                       IF WaitingIn(q) = {} THEN First(r) = None
                       ELSE First(r) \in WaitingIn(q)
                 /\ WaitingIn(r) = WaitingIn(q) \ {c, First(r)}
                 /\ WillingIn(r) = WillingIn(q) \ {c}
  <2>1. /\ Queue(n) = names[n] /\ GoodQueue(Queue(n), is_registered)
        /\ is_registered \subseteq UniqueNames /\ InQueue(Queue(n), c)
    BY QueueGood
  <2> QED
    BY <2>1, RetainOutside
<1>4. ASSUME NEW n \in S PROVE c = owner[n] \/ c \in waiting[n]
  BY <1>1, <1>3, View DEF WaitingIn
<1>5. owner' \in [Names -> UniqueNames \cup {None}]
  <2>1. ASSUME NEW n \in Names PROVE owner'[n] \in UniqueNames \cup {None}
    <3>1. Queue(n) \in Seq(QueueEntry)
      BY QueueGood
    <3>2. Queue(n)' \in Seq(QueueEntry)
      BY <3>1, <1>2, RetainType
    <3> QED
      BY <3>2, View, FirstType
  <2> QED
    BY <2>1, ViewShape
<1>6. ASSUME NEW n \in Names
      PROVE  /\ IF n \notin S \/ owner[n] # c THEN owner'[n] = owner[n]
                ELSE IF waiting[n] = {} THEN owner'[n] = None
                ELSE owner'[n] \in waiting[n]
             /\ waiting'[n] = IF n \in S THEN waiting[n] \ {c, owner'[n]}
                              ELSE waiting[n]
             /\ willing'[n] = IF n \in S THEN willing[n] \ {c} ELSE willing[n]
  <2>1. CASE n \notin S
    BY <2>1, <1>2, View
  <2>2. CASE n \in S
    <3>1. Queue(n)' = Retain(Queue(n), c)
      BY <2>2, <1>2
    <3> QED
      BY <2>2, <3>1, <1>3, View
  <2> QED
    BY <2>1, <2>2
<1>7. /\ waiting' = [n \in Names |-> IF n \in S THEN waiting[n] \ {c, owner'[n]}
                                     ELSE waiting[n]]
      /\ willing' = [n \in Names |-> IF n \in S THEN willing[n] \ {c}
                                     ELSE willing[n]]
  BY <1>6, ViewShape
<1> QED
  BY <1>1, <1>4, <1>5, <1>6, <1>7 DEF Promise!GiveUp

\* request_name is Acquire, Wait, Replace, or invisible.
LEMMA RequestView ==
    ASSUME IInv, NEW c \in UniqueNames, NEW n \in Names, NEW flags \in Flags,
           RequestName(c, n, flags)
    PROVE  \/ Promise!Acquire(c, n) \/ Promise!Wait(c, n) \/ Promise!Replace(c, n)
           \/ UNCHANGED <<owner, waiting, willing>>
<1> DEFINE q == Queue(n)
<1>0. /\ q # << >> => GoodQueue(q, is_registered)
      /\ is_registered \subseteq UniqueNames
  BY QueueGood
<1>1. owner[n] = First(q) /\ waiting[n] = WaitingIn(q) /\ willing[n] = WillingIn(q)
  BY View
<1>2. q # << >> => First(q) # None
  <2> SUFFICES ASSUME q # << >> PROVE First(q) # None
    OBVIOUS
  <2>1. q[1].unique_name \in UniqueNames
    BY <1>0 DEF GoodQueue
  <2> QED
    BY <2>1, BoundsAssumption DEF First, UniqueNames, None
<1>3. Agrees(c, flags) \in SUBSET {c}
  BY DEF Agrees
<1>4. CASE ClaimFreeName(c, n, flags)
  <2> DEFINE r == <<Entry(c, "allow_replacement" \in flags,
                             "do_not_queue" \in flags)>>
  <2>1. q = << >> /\ names' = WithQueue(n, r)
    BY <1>4 DEF ClaimFreeName
  <2>2. First(r) = c /\ WaitingIn(r) = {} /\ WillingIn(r) = Agrees(c, flags)
    BY ClaimOutside
  <2> HIDE DEF r
  <2>3. First(q) = None /\ WaitingIn(q) = {} /\ WillingIn(q) = {}
    BY <2>1 DEF First, WaitingIn, WillingIn, InQueue
  <2>4. /\ owner' = [owner EXCEPT ![n] = c]
        /\ waiting' = [waiting EXCEPT ![n] = {}]
        /\ willing' = [willing EXCEPT ![n] = Agrees(c, flags)]
    BY <2>1, <2>2, SetView
  <2>5. waiting' = waiting
    BY <2>3, <2>4, <1>1, ViewShape
  <2>6. willing' \in {willing, [willing EXCEPT ![n] = @ \cup {c}]}
    <3>1. CASE "allow_replacement" \in flags
      BY <3>1, <2>3, <2>4, <1>1 DEF Agrees
    <3>2. CASE "allow_replacement" \notin flags
      <4>1. Agrees(c, flags) = willing[n]
        BY <3>2, <2>3, <1>1 DEF Agrees
      <4> QED
        BY <4>1, <2>4, ViewShape
    <3> QED
      BY <3>1, <3>2
  <2> QED
    BY <2>3, <2>4, <2>5, <2>6, <1>1 DEF Promise!Acquire
<1>5. CASE KeepName(c, n) \/ RefuseToQueue(c, n, flags)
  <2>1. \A m \in Names : Queue(m)' = Queue(m)
    BY <1>5 DEF KeepName, RefuseToQueue, AnswerOnly, Queue
  <2> QED
    BY <2>1, QuietView
<1>6. CASE ReplaceOwner(c, n, flags)
  <2> DEFINE r == ReplacedQueue(q, c, flags)
  <2>1. /\ q # << >> /\ First(q) # c /\ q[1].allow_replacement
        /\ names' = WithQueue(n, r)
    BY <1>6 DEF ReplaceOwner, CanReplace
  <2>2. ReplacedView(q, r, c, flags)
    BY <2>1, <1>0, ReplacedOutside
  <2> HIDE DEF r
  <2>3. First(q) \in WillingIn(q)
    <3>1. First(q) = q[1].unique_name /\ q[1].unique_name \in UniqueNames
          /\ 1 \in 1 .. Len(q)
      BY <2>1, <1>0 DEF First, GoodQueue
    <3> QED
      BY <3>1, <2>1 DEF WillingIn
  <2>4. Stays(q) \in SUBSET {First(q)}
    BY DEF Stays
  <2>5. /\ owner' = [owner EXCEPT ![n] = First(r)]
        /\ waiting' = [waiting EXCEPT ![n] = WaitingIn(r)]
        /\ willing' = [willing EXCEPT ![n] = WillingIn(r)]
    BY <2>1, SetView
  <2>6. /\ owner' = [owner EXCEPT ![n] = c]
        /\ waiting' = [waiting EXCEPT ![n] = (@ \ {c}) \cup Stays(q)]
        /\ willing' = [willing EXCEPT ![n] = (@ \ {c, owner[n]})
                                               \cup Stays(q) \cup Agrees(c, flags)]
    BY <2>2, <2>5, <1>1 DEF ReplacedView
  <2> QED
    BY <2>1, <2>3, <2>4, <2>6, <1>1, <1>2, <1>3 DEF Promise!Replace
<1>7. CASE JoinQueue(c, n, flags)
  <2> DEFINE r == JoinedQueue(q, c, flags)
  <2>1. q # << >> /\ First(q) # c /\ names' = WithQueue(n, r)
    BY <1>7 DEF JoinQueue
  <2>2. CASE InQueue(q, c)
    <3>1. r = q
      BY <2>2 DEF JoinedQueue
    <3>2. \A m \in Names : Queue(m)' = Queue(m)
      BY <2>1, <3>1, SetQueue
    <3> QED
      BY <3>2, QuietView
  <2>3. CASE ~ InQueue(q, c)
    <3>1. JoinedView(q, r, c, flags)
      BY <2>1, <2>3, <1>0, JoinedOutside
    <3> HIDE DEF r
    <3>2. /\ owner' = [owner EXCEPT ![n] = First(r)]
          /\ waiting' = [waiting EXCEPT ![n] = WaitingIn(r)]
          /\ willing' = [willing EXCEPT ![n] = WillingIn(r)]
      BY <2>1, SetView
    <3>3. owner' = owner
      BY <3>1, <3>2, <1>1, ViewShape DEF JoinedView
    <3>4. waiting' = [waiting EXCEPT ![n] = @ \cup {c}]
      BY <3>1, <3>2, <1>1 DEF JoinedView
    <3>5. willing' \in {willing, [willing EXCEPT ![n] = @ \cup {c}]}
      <4>1. CASE "allow_replacement" \in flags
        BY <4>1, <3>1, <3>2, <1>1 DEF JoinedView, Agrees
      <4>2. CASE "allow_replacement" \notin flags
        <5>1. WillingIn(r) = willing[n]
          BY <4>2, <3>1, <1>1 DEF JoinedView, Agrees
        <5> QED
          BY <5>1, <3>2, ViewShape
      <4> QED
        BY <4>1, <4>2
    <3>6. c \notin waiting[n]
      BY <2>3, <1>1 DEF WaitingIn
    <3> QED
      BY <3>3, <3>4, <3>5, <3>6, <2>1, <1>1, <1>2 DEF Promise!Wait
  <2> QED
    BY <2>2, <2>3
<1> QED
  BY <1>4, <1>5, <1>6, <1>7 DEF RequestName

\* Every step of the registry is a step of its promise, or invisible.
LEMMA NextView == IInv /\ [Next]_vars => [Promise!Next]_(Promise!vars)
<1> SUFFICES ASSUME IInv, [Next]_vars
             PROVE  Promise!Next \/ UNCHANGED <<owner, waiting, willing>>
  BY DEF Promise!vars
<1>1. ASSUME UNCHANGED names PROVE UNCHANGED <<owner, waiting, willing>>
  <2>1. \A n \in Names : Queue(n)' = Queue(n)
    BY <1>1 DEF Queue
  <2> QED
    BY <2>1, QuietView
<1>2. CASE Connect \/ UNCHANGED vars
  BY <1>2, <1>1 DEF Connect, vars
<1>3. ASSUME NEW c \in UniqueNames, Hello(c)
      PROVE  UNCHANGED <<owner, waiting, willing>>
  BY <1>3, <1>1 DEF Hello, AnswerOnly
<1>4. ASSUME NEW c \in UniqueNames, NEW n \in Names,
             RefuseUnregistered(c, n) \/ RefuseRequest(c, n)
      PROVE  UNCHANGED <<owner, waiting, willing>>
  BY <1>4, <1>1 DEF RefuseUnregistered, RefuseRequest, AnswerOnly
<1>5. ASSUME NEW c \in UniqueNames, Disconnect(c) PROVE Promise!Next
  <2>1. names' = ReleasedNames(c, Held(c))
    BY <1>5 DEF Disconnect, Held
  <2>2. Held(c) \in SUBSET DOMAIN names /\ \A n \in Held(c) : InQueue(names[n], c)
    BY DEF Held
  <2>3. Held(c) \in SUBSET Names /\ Promise!GiveUp(c, Held(c))
    BY <2>1, <2>2, ReleaseView
  <2> QED
    BY <2>3 DEF Promise!Next
<1>6. ASSUME NEW c \in UniqueNames, NEW n \in Names, ReleaseName(c, n)
      PROVE  Promise!Next \/ UNCHANGED <<owner, waiting, willing>>
  <2>1. CASE names' = ReleasedNames(c, {n}) /\ n \in DOMAIN names
               /\ InQueue(names[n], c)
    <3>1. {n} \in SUBSET DOMAIN names /\ \A m \in {n} : InQueue(names[m], c)
      BY <2>1
    <3>2. {n} \in SUBSET Names /\ Promise!GiveUp(c, {n})
      BY <3>1, <2>1, ReleaseView
    <3> QED
      BY <3>2 DEF Promise!Next
  <2> QED
    BY <2>1, <1>6, <1>1 DEF ReleaseName, AnswerOnly
<1>7. ASSUME NEW c \in UniqueNames, NEW n \in Names, NEW flags \in Flags,
             RequestName(c, n, flags)
      PROVE  Promise!Next \/ UNCHANGED <<owner, waiting, willing>>
  BY <1>7, RequestView DEF Promise!Next
<1> QED
  BY <1>2, <1>3, <1>4, <1>5, <1>6, <1>7 DEF Next

\* registry.rs implements the promise of NameOwnership, for every set of names,
\* every limit and every number of connections.
THEOREM RegistryKeepsPromise == Spec => ImplementsPromise
<1>1. Init => Promise!Init
  <2> SUFFICES ASSUME Init PROVE Promise!Init
    OBVIOUS
  <2>1. \A n \in Names : Queue(n) = << >>
    BY DEF Init, Queue
  <2>2. \A n \in Names : /\ First(Queue(n)) = None
                         /\ WaitingIn(Queue(n)) = {}
                         /\ WillingIn(Queue(n)) = {}
    BY <2>1 DEF First, WaitingIn, WillingIn, InQueue
  <2> QED
    BY <2>2, View, ViewShape DEF Promise!Init
<1> QED
  BY <1>1, NextView, Invariance, PTL DEF Spec, ImplementsPromise, Promise!Spec


-----------------------------------------------------------------------------
(* The invariant *)

AnyTask ==
    [stage : Stages, todo : Seq(NameOwnerChange), visit : SUBSET UniqueNames,
     target : UniqueNames \cup {None}, answer : Reply]

SignalsTypes ==
    /\ running \in UniqueNames \cup {None}
    /\ task \in [UniqueNames -> AnyTask]
    /\ watches \subseteq UniqueNames
    /\ mine \in [UniqueNames -> SUBSET Names]
    /\ belief \in [UniqueNames -> [Names -> 0 .. MaxId + 1]]
    /\ raced \subseteq Names

\* Where a task can be: with a change at hand while it announces, without any
\* when it answers, and waiting only for the write of its stage.
Placed(t) ==
    /\ t.stage = "idle" => t = Idle
    /\ t.stage \in {"visit", "acquired", "lost"} => t.todo # << >>
    /\ t.stage = "reply" => t.todo = << >>
    /\ t.target # None => t.stage \in {"visit", "acquired", "lost", "reply"}
    /\ t.stage = "acquired" /\ t.target # None => t.target = t.todo[1].new_owner
    /\ t.stage = "lost" /\ t.target # None => t.target = t.todo[1].old_owner

\* A task that will answer PRIMARY_OWNER announces that change and no other, and by the
\* time it answers its client has been told.
Answering(c, t) ==
    t.answer.code = "primary_owner" =>
        /\ c \in is_registered /\ t.answer.name \in Names
        /\ \/ t.stage = "reply"
           \/ t.answer.name \in raced
           \/ t.stage = "next" /\ t.todo = << >> /\ t.answer.name \in mine[c]
           \/ /\ Len(t.todo) = 1
              /\ t.todo[1].name = t.answer.name /\ t.todo[1].new_owner = c

\* The thread belongs to the one task that is at work and not waiting.
ThreadOK ==
    \A c \in UniqueNames :
        (task[c].stage # "idle" /\ task[c].target = None) <=> running = c

TasksOK == ThreadOK /\ \A c \in UniqueNames : Placed(task[c]) /\ Answering(c, task[c])

\* A connection that has not said Hello has been told nothing, subscribes to
\* nothing and has never owned a name.
Fresh(d) == d >= next_id \/ d \in connections \ is_registered

FreshOK ==
    /\ \A d \in connections : d < next_id
    /\ \A d \in UniqueNames : Fresh(d) =>
          /\ mine[d] = {} /\ d \notin watches
          /\ \A c \in UniqueNames : \A i \in 1 .. Len(task[c].todo) :
                task[c].todo[i].name \in Names =>
                    d \notin {task[c].todo[i].new_owner, task[c].todo[i].old_owner}

\* The i-th change that c's task has to announce is one of n.
Item(c, i, n) == i \in 1 .. Len(task[c].todo) /\ task[c].todo[i].name = n

\* Whoever believes that it owns the name, by how far the task has come with
\* NameAcquired and NameLost.
Claimants(t, i) ==
    LET e == t.todo[i]
    IN  IF i = 1 /\ (\/ t.stage = "acquired" /\ t.target = None
                     \/ t.stage = "lost" /\ t.target # None)
        THEN {e.old_owner, e.new_owner}
        ELSE IF i = 1 /\ t.stage = "lost" THEN {e.new_owner}
        ELSE {e.old_owner}

\* The watchers have heard of the change, but for those still to be visited.
Heard(t, n) ==
    \A d \in is_registered \cap watches :
        \/ belief[d][n] \in {Unknown, t.todo[1].new_owner}
        \/ t.stage = "visit" /\ d \in t.visit \cup {t.target}

\* The i-th change of the task t is the last of n, and the clients know what t has told.
Told(t, i, n) ==
    /\ t.todo[i].new_owner = get_name_owner(n)
    /\ t.todo[i].old_owner # t.todo[i].new_owner
    /\ \A d \in is_registered : n \in mine[d] <=> d \in Claimants(t, i)
    /\ i = 1 /\ t.stage \in {"visit", "acquired", "lost"} => Heard(t, n)

\* At most one change of n is to be announced; the clients' views are right but for it.
NameOK(n) ==
    /\ ~ Announcing(n) => ViewsAreRight(n)
    /\ \A c, d \in UniqueNames, i, j \in Nat :
          Item(c, i, n) /\ Item(d, j, n) => c = d /\ i = j
    /\ \A c \in UniqueNames, i \in Nat : Item(c, i, n) => Told(task[c], i, n)

NamesOK == \A n \in Names \ raced : NameOK(n)

SignalsInv == IInv /\ LimitInv /\ SignalsTypes /\ TasksOK /\ FreshOK /\ NamesOK

-----------------------------------------------------------------------------
(* The order of the events *)

\* s has every element of the set T once.
Lists(s, T) ==
    /\ s \in Seq(T)
    /\ \A e \in T : \E i \in 1 .. Len(s) : s[i] = e
    /\ \A i, j \in 1 .. Len(s) : s[i] = s[j] => i = j

\* A sequence without repetitions, as long as a finite set, has all of it.
LEMMA Enumerates ==
    ASSUME NEW T, IsFiniteSet(T), NEW s \in Arrangements(T)
    PROVE  Lists(s, T)
<1> DEFINE k == Cardinality(T)
<1>1. k \in Nat
  BY FS_CardinalityType
<1>2. IsFiniteSet(1 .. k) /\ Cardinality(1 .. k) = k
  BY <1>1, FS_Interval
<1>3. s \in Injection(1 .. k, T)
  BY DEF Injection, IsInjective, Arrangements
<1>4. s \in Surjection(1 .. k, T)
  BY <1>2, <1>3, FS_Injection
<1>5. s \in [1 .. k -> T]
  BY DEF Arrangements
<1>6. s \in Seq(T) /\ Len(s) = k /\ DOMAIN s = 1 .. k
  BY <1>1, <1>5
<1> QED
  BY <1>4, <1>6 DEF Surjection, Arrangements, Lists

\* The elements of two sequences one after the other.
LEMMA ConcatPlaces ==
    ASSUME NEW T, NEW s \in Seq(T), NEW t \in Seq(T), NEW q, q = s \o t
    PROVE  /\ q \in Seq(T) /\ Len(q) = Len(s) + Len(t)
           /\ Len(s) \in Nat /\ Len(t) \in Nat
           /\ \A i \in 1 .. Len(s) : q[i] = s[i]
           /\ \A i \in 1 .. Len(t) : q[i + Len(s)] = t[i]
           /\ \A i \in 1 .. Len(q) : i \in 1 .. Len(s) \/ i - Len(s) \in 1 .. Len(t)
  OBVIOUS

\* Two parts of a set one after the other are the set, each element once.
LEMMA TwoParts ==
    ASSUME NEW A, NEW B, A \cap B = {}, NEW s, Lists(s, A), NEW t, Lists(t, B),
           NEW q, q = s \o t
    PROVE  Lists(q, A \cup B)
<1>1. s \in Seq(A) /\ t \in Seq(B) /\ s \in Seq(A \cup B) /\ t \in Seq(A \cup B)
  BY DEF Lists
<1>2. /\ q \in Seq(A \cup B) /\ Len(q) = Len(s) + Len(t)
      /\ Len(s) \in Nat /\ Len(t) \in Nat
      /\ \A i \in 1 .. Len(s) : q[i] = s[i]
      /\ \A i \in 1 .. Len(t) : q[i + Len(s)] = t[i]
      /\ \A i \in 1 .. Len(q) : i \in 1 .. Len(s) \/ i - Len(s) \in 1 .. Len(t)
  BY <1>1, ConcatPlaces
<1>3. \A i \in 1 .. Len(s) : s[i] \in A
  BY <1>1
<1>4. \A i \in 1 .. Len(t) : t[i] \in B
  BY <1>1
<1>5. ASSUME NEW e \in A PROVE \E i \in 1 .. Len(q) : q[i] = e
  <2>1. PICK i \in 1 .. Len(s) : s[i] = e
    BY DEF Lists
  <2>2. i \in 1 .. Len(q) /\ q[i] = e
    BY <2>1, <1>2
  <2> QED
    BY <2>2
<1>6. ASSUME NEW e \in B PROVE \E i \in 1 .. Len(q) : q[i] = e
  <2>1. PICK i \in 1 .. Len(t) : t[i] = e
    BY DEF Lists
  <2>2. i + Len(s) \in 1 .. Len(q) /\ q[i + Len(s)] = e
    BY <2>1, <1>2
  <2> QED
    BY <2>2
<1>7. ASSUME NEW i \in 1 .. Len(q), NEW j \in 1 .. Len(q), q[i] = q[j] PROVE i = j
  <2>1. ASSUME NEW k \in 1 .. Len(q), k - Len(s) \in 1 .. Len(t)
        PROVE  q[k] = t[k - Len(s)] /\ q[k] \in B
    <3>1. (k - Len(s)) + Len(s) = k
      BY <1>2
    <3> QED
      BY <3>1, <2>1, <1>2, <1>4
  <2>2. ASSUME NEW k \in 1 .. Len(q), k \in 1 .. Len(s)
        PROVE  q[k] = s[k] /\ q[k] \in A
    BY <2>2, <1>2, <1>3, SMTT(30)
  <2>3. CASE i \in 1 .. Len(s) /\ j \in 1 .. Len(s)
    BY <2>2, <2>3, <1>7 DEF Lists
  <2>4. CASE i - Len(s) \in 1 .. Len(t) /\ j - Len(s) \in 1 .. Len(t)
    <3>1. t[i - Len(s)] = t[j - Len(s)]
      BY <2>1, <2>4, <1>7
    <3>2. i - Len(s) = j - Len(s)
      BY <3>1, <2>4, Zenon DEF Lists
    <3> QED
      BY <3>2, <1>2
  <2> QED
    BY <2>1, <2>2, <2>3, <2>4, <1>2, <1>7
<1> QED
  BY <1>2, <1>5, <1>6, <1>7 DEF Lists

\* The announcements of a finite set of events are all of it, each once.
LEMMA OrdersFacts ==
    ASSUME NEW S, IsFiniteSet(S), NEW q \in Orders(S)
    PROVE  Lists(q, S)
<1> DEFINE own == {e \in S : e.name \in UniqueNames}
           rest == S \ own
<1>1. \E x \in Arrangements(rest) \X Arrangements(own) : q = x[1] \o x[2]
  BY DEF Orders
<1>2. IsFiniteSet(own) /\ IsFiniteSet(rest)
  BY FS_Subset
<1>3. rest \cup own = S /\ rest \cap own = {}
  OBVIOUS
<1> HIDE DEF own, rest
<1>4. PICK x \in Arrangements(rest) \X Arrangements(own) : q = x[1] \o x[2]
  BY <1>1
<1>5. x[1] \in Arrangements(rest) /\ x[2] \in Arrangements(own)
  OBVIOUS
<1>6. Lists(x[1], rest) /\ Lists(x[2], own)
  BY <1>2, <1>5, Enumerates
<1>7. Lists(q, rest \cup own)
  BY <1>3, <1>4, <1>6, TwoParts
<1> QED
  BY <1>3, <1>7

-----------------------------------------------------------------------------
(* What the tasks see of the registry *)

\* A call or the departure of c: who is registered, and the events, which are exact.
RegistryStep(c) ==
    /\ next_id' = next_id
    /\ \/ UNCHANGED <<connections, is_registered>>
       \/ /\ c \in connections \ is_registered /\ UNCHANGED <<connections, names>>
          /\ is_registered' = is_registered \cup {c}
       \/ connections' = connections \ {c} /\ is_registered' = is_registered \ {c}
    /\ \A n \in Names : Announced(changes', n, get_name_owner(n), get_name_owner(n)')
    /\ IsFiniteSet(changes') /\ changes' \subseteq NameOwnerChange /\ reply' \in Reply
    /\ reply'.code = "primary_owner" =>
          /\ c \in is_registered' /\ reply'.name \in Names
          /\ \E old : changes' = {Change(reply'.name, old, c)}

\* Giving up places makes finitely many events.
LEMMA ReleaseFinite ==
    ASSUME NEW c, NEW S, IsFiniteSet(S)
    PROVE  IsFiniteSet(ReleaseChanges(c, S))
<1> DEFINE T == {m \in S : First(names[m]) = c}
           f == [n \in T |-> Change(n, c, First(Retain(names[n], c)))]
<1>1. IsFiniteSet(T)
  BY FS_Subset
<1>2. ReleaseChanges(c, S) = {f[n] : n \in T}
  BY DEF ReleaseChanges
<1>3. f \in [T -> {f[n] : n \in T}]
  OBVIOUS
<1>4. f \in Surjection(T, {f[n] : n \in T})
  <2> HIDE DEF T, f
  <2> QED
    BY <1>3 DEF Surjection
<1> QED
  BY <1>1, <1>2, <1>4, FS_Surjection

\* The events of a step are finitely many.
LEMMA ChangesFinite ==
    ASSUME LimitInv, NEW c \in UniqueNames,
           \/ Hello(c) \/ Disconnect(c)
           \/ \E n \in Names :
                 \/ RefuseUnregistered(c, n) \/ RefuseRequest(c, n) \/ ReleaseName(c, n)
                 \/ \E flags \in Flags : RequestName(c, n, flags)
    PROVE  IsFiniteSet(changes')
<1>1. IsFiniteSet({}) /\ \A x : IsFiniteSet({x})
  BY FS_EmptySet, FS_Singleton
<1>2. IsFiniteSet(DOMAIN names)
  BY DEF LimitInv
<1>3. CASE Hello(c)
  BY <1>1, <1>3 DEF Hello, AnswerOnly
<1>4. CASE Disconnect(c)
  <2> DEFINE held == {n \in DOMAIN names : InQueue(names[n], c)}
  <2>1. IsFiniteSet(held)
    BY <1>2, FS_Subset
  <2>2. changes' = ReleaseChanges(c, held) \cup {Change(c, c, None)}
    BY <1>4 DEF Disconnect
  <2> QED
    BY <2>1, <2>2, ReleaseFinite, FS_AddElement
<1>5. ASSUME NEW n \in Names, RefuseUnregistered(c, n) \/ RefuseRequest(c, n)
      PROVE  IsFiniteSet(changes')
  BY <1>1, <1>5 DEF RefuseUnregistered, RefuseRequest, AnswerOnly
<1>6. ASSUME NEW n \in Names, ReleaseName(c, n)
      PROVE  IsFiniteSet(changes')
  <2>1. changes' = {} \/ changes' = ReleaseChanges(c, {n})
    BY <1>6 DEF ReleaseName, AnswerOnly
  <2> QED
    BY <1>1, <2>1, ReleaseFinite
<1>7. ASSUME NEW n \in Names, NEW flags \in Flags, RequestName(c, n, flags)
      PROVE  IsFiniteSet(changes')
  <2>1. changes' = {} \/ \E x : changes' = {x}
    BY <1>7 DEF RequestName, ClaimFreeName, KeepName, ReplaceOwner, RefuseToQueue, JoinQueue,
                AnswerOnly
  <2> QED
    BY <1>1, <2>1
<1> QED
  BY <1>3, <1>4, <1>5, <1>6, <1>7

\* Only the request that makes the caller the owner is answered PRIMARY_OWNER.
LEMMA PrimaryOwner ==
    ASSUME IInv, NEW c \in UniqueNames, reply'.code = "primary_owner",
           \/ Hello(c) \/ Disconnect(c)
           \/ \E n \in Names :
                 \/ RefuseUnregistered(c, n) \/ RefuseRequest(c, n) \/ ReleaseName(c, n)
                 \/ \E flags \in Flags : RequestName(c, n, flags)
    PROVE  /\ c \in is_registered' /\ reply'.name \in Names
           /\ \E old : changes' = {Change(reply'.name, old, c)}
<1>1. ~ Hello(c)
  BY DEF Hello, AnswerOnly, Answer
<1>2. ~ Disconnect(c)
  BY DEF Disconnect, NoReply
<1>3. ASSUME NEW n \in Names PROVE ~ RefuseUnregistered(c, n) /\ ~ RefuseRequest(c, n)
  BY DEF RefuseUnregistered, RefuseRequest, AnswerOnly, Answer
<1>4. ASSUME NEW n \in Names PROVE ~ ReleaseName(c, n)
  BY DEF ReleaseName, AnswerOnly, Answer
<1>5. PICK n \in Names, flags \in Flags : RequestName(c, n, flags)
  BY <1>1, <1>2, <1>3, <1>4
<1>6. c \in is_registered /\ (ClaimFreeName(c, n, flags) \/ ReplaceOwner(c, n, flags))
  BY <1>5 DEF RequestName, KeepName, RefuseToQueue, JoinQueue, AnswerOnly, Answer
<1>7. is_registered' = is_registered /\ reply' = Answer(c, n, "primary_owner")
  BY <1>6 DEF ClaimFreeName, ReplaceOwner
<1>8. reply'.name = n
  BY <1>7 DEF Answer
<1>9. \E old : changes' = {Change(n, old, c)}
  BY <1>6 DEF ClaimFreeName, ReplaceOwner
<1> QED
  BY <1>6, <1>7, <1>8, <1>9

\* Calls and departures are steps of the registry that the tasks see as above.
LEMMA CallsAreRegistrySteps ==
    ASSUME IInv, LimitInv, NEW c \in UniqueNames,
           \/ Hello(c) \/ Disconnect(c)
           \/ \E n \in Names :
                 \/ RefuseUnregistered(c, n) \/ RefuseRequest(c, n) \/ ReleaseName(c, n)
                 \/ \E flags \in Flags : RequestName(c, n, flags)
    PROVE  IInv' /\ LimitInv' /\ RegistryStep(c)
<1>1. Next
  BY DEF Next
<1>2. IInv' /\ LimitInv'
  BY <1>1, NextKeeps, NextWithinLimit
<1>3. ASSUME NEW n \in Names
      PROVE  Announced(changes', n, get_name_owner(n), get_name_owner(n)')
  BY <1>1, NextEffect, OwnerIsFirst DEF StepEffect
<1>4. /\ next_id' = next_id
      /\ \/ UNCHANGED <<connections, is_registered>>
         \/ /\ c \in connections \ is_registered /\ UNCHANGED <<connections, names>>
            /\ is_registered' = is_registered \cup {c}
         \/ connections' = connections \ {c} /\ is_registered' = is_registered \ {c}
  <2>1. ASSUME NEW n \in Names, NEW flags \in Flags, RequestName(c, n, flags)
        PROVE  UNCHANGED <<next_id, connections, is_registered>>
    BY <2>1 DEF RequestName, ClaimFreeName, KeepName, ReplaceOwner, RefuseToQueue, JoinQueue,
                AnswerOnly
  <2>2. ASSUME NEW n \in Names,
               RefuseUnregistered(c, n) \/ RefuseRequest(c, n) \/ ReleaseName(c, n)
        PROVE  UNCHANGED <<next_id, connections, is_registered>>
    BY <2>2 DEF RefuseUnregistered, RefuseRequest, ReleaseName, AnswerOnly
  <2>3. CASE Hello(c)
    BY <2>3 DEF Hello, AnswerOnly
  <2>4. CASE Disconnect(c)
    BY <2>4 DEF Disconnect
  <2> QED
    BY <2>1, <2>2, <2>3, <2>4
<1>5. changes' \subseteq NameOwnerChange /\ reply' \in Reply
  BY <1>2 DEF IInv, TypeOK
<1> QED
  BY <1>2, <1>3, <1>4, <1>5, ChangesFinite, PrimaryOwner DEF RegistryStep

-----------------------------------------------------------------------------
(* A task moves on *)

\* The tasks after a step of c's.
LEMMA OneTask ==
    ASSUME SignalsTypes, NEW c \in UniqueNames, NEW t \in AnyTask,
           task' = [task EXCEPT ![c] = t]
    PROVE  /\ task'[c] = t /\ \A d \in UniqueNames : d # c => task'[d] = task[d]
           /\ task' \in [UniqueNames -> AnyTask]
  BY DEF SignalsTypes

\* Announcing is having an item.
LEMMA AnnouncingItem ==
    ASSUME NEW n
    PROVE  /\ Announcing(n) <=> \E c \in UniqueNames, i \in Nat : Item(c, i, n)
           /\ Announcing(n)' <=> \E c \in UniqueNames, i \in Nat : Item(c, i, n)'
  BY DEF Announcing, Item

\* A step of c's task that leaves the registry, the clients and what is to be announced alone
\* keeps the names right if it tells c's first change as its new stage says.
LEMMA MovesKeepNames ==
    ASSUME SignalsTypes, FreshOK, NamesOK, NEW c \in UniqueNames, NEW t \in AnyTask,
           task' = [task EXCEPT ![c] = t], t.todo = task[c].todo,
           UNCHANGED <<next_id, connections, is_registered, names, watches, mine, belief, raced>>,
           \A n \in Names \ raced : Item(c, 1, n) =>
              /\ \A d \in is_registered : d \in Claimants(task[c], 1) <=> d \in Claimants(t, 1)
              /\ t.stage \in {"visit", "acquired", "lost"} => Heard(t, n)
    PROVE  FreshOK' /\ NamesOK'
<1>1. /\ task'[c] = t /\ \A d \in UniqueNames : d # c => task'[d] = task[d]
      /\ \A d \in UniqueNames : task'[d].todo = task[d].todo
  BY OneTask
<1>2. FreshOK'
  BY <1>1 DEF FreshOK, Fresh
<1>3. \A n : \A d \in UniqueNames, i \in Nat : Item(d, i, n)' <=> Item(d, i, n)
  BY <1>1 DEF Item
<1>4. ASSUME NEW n \in Names \ raced
      PROVE  NameOK(n)'
  <2>1. NameOK(n)
    BY DEF NamesOK
  <2>2. Announcing(n)' <=> Announcing(n)
    BY <1>3, AnnouncingItem
  <2>3. get_name_owner(n)' = get_name_owner(n) /\ (ViewsAreRight(n)' <=> ViewsAreRight(n))
    BY DEF get_name_owner, Queue, ViewsAreRight
  <2>4. ASSUME NEW d \in UniqueNames, NEW i \in Nat, Item(d, i, n)
        PROVE  Told(task[d], i, n)'
    <3>1. Told(task[d], i, n)
      BY <2>1, <2>4 DEF NameOK
    <3>2. CASE d # c
      BY <3>1, <3>2, <2>3, <1>1 DEF Told, Heard
    <3>3. CASE d = c /\ i # 1
      <4>1. Claimants(t, i) = Claimants(task[c], i)
        BY <3>3 DEF Claimants
      <4>2. Told(t, i, n)
        BY <4>1, <3>1, <3>3 DEF Told
      <4> QED
        BY <4>2, <3>3, <2>3, <1>1 DEF Told, Heard
    <3>4. CASE d = c /\ i = 1
      <4>1. /\ \A x \in is_registered : x \in Claimants(task[c], 1) <=> x \in Claimants(t, 1)
            /\ t.stage \in {"visit", "acquired", "lost"} => Heard(t, n)
        BY <2>4, <3>4
      <4>2. Told(t, i, n)
        BY <4>1, <3>1, <3>4 DEF Told
      <4> QED
        BY <4>2, <3>4, <2>3, <1>1 DEF Told, Heard
    <3> QED
      BY <3>2, <3>3, <3>4
  <2> QED
    BY <1>3, <2>1, <2>2, <2>3, <2>4 DEF NameOK
<1> QED
  BY <1>2, <1>4 DEF NamesOK

\* A task at work on a change goes on with it.
LEMMA MovesKeep ==
    ASSUME SignalsInv, NEW c \in UniqueNames, NEW t \in AnyTask,
           task' = [task EXCEPT ![c] = t], t.todo = task[c].todo, t.answer = task[c].answer,
           UNCHANGED <<next_id, connections, is_registered, names, reply, changes,
                       watches, mine, belief, raced>>,
           \A n \in Names \ raced : Item(c, 1, n) =>
              /\ \A d \in is_registered : d \in Claimants(task[c], 1) <=> d \in Claimants(t, 1)
              /\ t.stage \in {"visit", "acquired", "lost"} => Heard(t, n),
           t.todo # << >>, t.stage # "idle", Placed(t),
           running = c, running' = IF t.target = None THEN c ELSE None
    PROVE  SignalsInv'
<1>1. IInv' /\ LimitInv'
  <2>1. UNCHANGED vars
    BY DEF vars
  <2> QED
    BY <2>1, NextKeeps, NextWithinLimit DEF SignalsInv
<1>2. FreshOK' /\ NamesOK'
  BY MovesKeepNames DEF SignalsInv
<1>3. /\ task'[c] = t /\ \A d \in UniqueNames : d # c => task'[d] = task[d]
      /\ task' \in [UniqueNames -> AnyTask]
  BY OneTask DEF SignalsInv
<1>4. SignalsTypes'
  BY <1>3 DEF SignalsInv, SignalsTypes
<1>5. ThreadOK'
  <2>1. None \notin UniqueNames
    BY DEF None, UniqueNames
  <2> QED
    BY <1>3, <2>1 DEF SignalsInv, TasksOK, ThreadOK
<1>6. ASSUME NEW d \in UniqueNames PROVE Placed(task[d])' /\ Answering(d, task[d])'
  <2>1. Placed(task[d]) /\ Answering(d, task[d])
    BY DEF SignalsInv, TasksOK
  <2>2. CASE d # c
    BY <2>1, <2>2, <1>3 DEF Placed, Answering
  <2>3. CASE d = c
    BY <2>1, <2>3, <1>3 DEF Placed, Answering
  <2> QED
    BY <2>2, <2>3
<1> QED
  BY <1>1, <1>2, <1>4, <1>5, <1>6 DEF SignalsInv, TasksOK

\* What a task with the thread is.
LEMMA AtWork ==
    ASSUME SignalsInv, NEW c \in UniqueNames, NEW s, Stage(c, s)
    PROVE  /\ running = c /\ task[c] \in AnyTask /\ task[c].target = None /\ task[c].stage = s
           /\ Placed(task[c]) /\ None \notin UniqueNames
           /\ is_registered \subseteq connections /\ connections \subseteq UniqueNames
           /\ \A n \in Names \ raced : Item(c, 1, n) => Told(task[c], 1, n)
<1>1. running = c /\ task[c].target = None /\ task[c].stage = s
  BY DEF Stage
<1>2. task[c] \in AnyTask /\ Placed(task[c])
  BY DEF SignalsInv, SignalsTypes, TasksOK
<1>3. is_registered \subseteq connections /\ connections \subseteq UniqueNames
  BY DEF SignalsInv, IInv, TypeOK
<1>4. ASSUME NEW n \in Names \ raced, Item(c, 1, n) PROVE Told(task[c], 1, n)
  BY <1>4 DEF SignalsInv, NamesOK, NameOK
<1>5. None \notin UniqueNames
  BY DEF None, UniqueNames
<1> QED
  BY <1>1, <1>2, <1>3, <1>4, <1>5

\* A task and its parts.
Parts(t, s, q, v, d, a) ==
    /\ t \in AnyTask
    /\ t.stage = s /\ t.todo = q /\ t.visit = v /\ t.target = d /\ t.answer = a

\* The task with some of its parts replaced.
LEMMA TaskForms ==
    ASSUME NEW t \in AnyTask
    PROVE  /\ Parts(t, t.stage, t.todo, t.visit, t.target, t.answer)
           /\ t.todo \in Seq(NameOwnerChange) /\ t.visit \in SUBSET UniqueNames
           /\ t.answer \in Reply
           /\ \A s \in Stages :
                 Parts([t EXCEPT !.stage = s], s, t.todo, t.visit, t.target, t.answer)
           /\ \A d \in UniqueNames \cup {None} :
                 Parts([t EXCEPT !.target = d], t.stage, t.todo, t.visit, d, t.answer)
           /\ \A v \in SUBSET UniqueNames :
                 Parts([t EXCEPT !.visit = v], t.stage, t.todo, v, t.target, t.answer)
           /\ \A s \in Stages, v \in SUBSET UniqueNames :
                 Parts([t EXCEPT !.stage = s, !.visit = v],
                       s, t.todo, v, t.target, t.answer)
           /\ \A s \in Stages, d \in UniqueNames :
                 Parts([t EXCEPT !.stage = s, !.target = d],
                       s, t.todo, t.visit, d, t.answer)
           /\ \A s \in Stages, q \in Seq(NameOwnerChange) :
                 Parts([t EXCEPT !.stage = s, !.todo = q],
                       s, q, t.visit, t.target, t.answer)
           /\ \A s \in Stages, a \in Reply :
                 Parts([t EXCEPT !.stage = s, !.answer = a],
                       s, t.todo, t.visit, t.target, a)
<1>1. /\ Parts(t, t.stage, t.todo, t.visit, t.target, t.answer)
      /\ t.todo \in Seq(NameOwnerChange) /\ t.visit \in SUBSET UniqueNames
      /\ t.answer \in Reply
  BY DEF AnyTask, Parts
<1>2. ASSUME NEW s \in Stages
      PROVE  Parts([t EXCEPT !.stage = s], s, t.todo, t.visit, t.target, t.answer)
  BY DEF AnyTask, Parts
<1>3. ASSUME NEW d \in UniqueNames \cup {None}
      PROVE  Parts([t EXCEPT !.target = d], t.stage, t.todo, t.visit, d, t.answer)
  BY DEF AnyTask, Parts
<1>4. ASSUME NEW v \in SUBSET UniqueNames
      PROVE  Parts([t EXCEPT !.visit = v], t.stage, t.todo, v, t.target, t.answer)
  BY DEF AnyTask, Parts
<1>5. ASSUME NEW s \in Stages, NEW v \in SUBSET UniqueNames
      PROVE  Parts([t EXCEPT !.stage = s, !.visit = v], s, t.todo, v, t.target, t.answer)
  BY DEF AnyTask, Parts
<1>6. ASSUME NEW s \in Stages, NEW d \in UniqueNames
      PROVE  Parts([t EXCEPT !.stage = s, !.target = d], s, t.todo, t.visit, d, t.answer)
  BY DEF AnyTask, Parts
<1>7. ASSUME NEW s \in Stages, NEW q \in Seq(NameOwnerChange)
      PROVE  Parts([t EXCEPT !.stage = s, !.todo = q], s, q, t.visit, t.target, t.answer)
  BY DEF AnyTask, Parts
<1>8. ASSUME NEW s \in Stages, NEW a \in Reply
      PROVE  Parts([t EXCEPT !.stage = s, !.answer = a], s, t.todo, t.visit, t.target, a)
  BY DEF AnyTask, Parts
<1> QED
  BY <1>1, <1>2, <1>3, <1>4, <1>5, <1>6, <1>7, <1>8

\* The broadcast starts with all connections: nobody has to have heard.
LEMMA StartBroadcastKeeps ==
    ASSUME SignalsInv, NEW c \in UniqueNames, StartBroadcast(c)
    PROVE  SignalsInv'
<1> DEFINE t == task[c]
           u == [t EXCEPT !.stage = "visit", !.visit = connections]
<1>1. Stage(c, "next") /\ t.todo # << >> /\ GoOn(u, c)
  BY DEF StartBroadcast
<1>2. /\ running = c /\ t \in AnyTask /\ t.target = None /\ t.stage = "next" /\ Placed(t)
      /\ is_registered \subseteq connections /\ connections \subseteq UniqueNames
  BY <1>1, AtWork, Zenon
<1>3. Parts(u, "visit", t.todo, connections, None, t.answer)
  BY <1>2, TaskForms, Zenon DEF Stages
<1> HIDE DEF u
<1>4. Placed(u)
  BY <1>1, <1>3 DEF Placed, Parts
<1>5. ASSUME NEW n \in Names \ raced, Item(c, 1, n)
      PROVE  /\ \A d \in is_registered : d \in Claimants(t, 1) <=> d \in Claimants(u, 1)
             /\ Heard(u, n)
  BY <1>2, <1>3 DEF Claimants, Heard, Parts
<1> QED
  BY <1>1, <1>2, <1>3, <1>4, <1>5, MovesKeep, Zenon DEF GoOn, Parts

\* A connection is passed over or is written to next.
LEMMA VisitKeeps ==
    ASSUME SignalsInv, NEW c \in UniqueNames, Visit(c)
    PROVE  SignalsInv'
<1> DEFINE t == task[c]
<1>1. Stage(c, "visit")
  BY DEF Visit
<1>2. PICK d \in t.visit :
         \/ d \notin watches /\ GoOn([t EXCEPT !.visit = t.visit \ {d}], c)
         \/ d \in watches /\ Await([[t EXCEPT !.visit = t.visit \ {d}] EXCEPT !.target = d], c)
  BY DEF Visit
<1> DEFINE w == [t EXCEPT !.visit = t.visit \ {d}]
<1>3. /\ running = c /\ t \in AnyTask /\ t.target = None /\ t.stage = "visit" /\ Placed(t)
      /\ None \notin UniqueNames /\ is_registered \subseteq UniqueNames
      /\ \A n \in Names \ raced : Item(c, 1, n) => Told(t, 1, n)
  BY <1>1, AtWork, Zenon
<1>4. d \in UniqueNames /\ t.visit \ {d} \in SUBSET UniqueNames /\ t.todo # << >>
  BY <1>3, TaskForms DEF Placed
<1>5. Parts(w, "visit", t.todo, t.visit \ {d}, None, t.answer)
  BY <1>3, <1>4, TaskForms
<1> DEFINE u == IF d \in watches THEN [w EXCEPT !.target = d] ELSE w
           e == IF d \in watches THEN d ELSE None
<1>6. Parts(u, "visit", t.todo, t.visit \ {d}, e, t.answer)
  <2> HIDE DEF w
  <2>1. w \in AnyTask
    BY <1>5 DEF Parts
  <2>2. Parts([w EXCEPT !.target = d], w.stage, w.todo, w.visit, d, w.answer)
    BY <1>4, <2>1, TaskForms, Zenon
  <2>3. Parts([w EXCEPT !.target = d], "visit", t.todo, t.visit \ {d}, d, t.answer)
    BY <1>5, <2>2 DEF Parts
  <2> QED
    BY <1>5, <2>3
<1>7. task' = [task EXCEPT ![c] = u] /\ running' = IF e = None THEN c ELSE None
  <2>1. \/ d \notin watches /\ GoOn(w, c)
        \/ d \in watches /\ Await([w EXCEPT !.target = d], c)
    BY <1>2
  <2> HIDE DEF w
  <2>2. CASE d \in watches
    <3>1. u = [w EXCEPT !.target = d] /\ e = d /\ d # None
      BY <2>2, <1>3, <1>4
    <3>2. Await(u, c)
      BY <3>1, <2>1, <2>2
    <3> HIDE DEF u, e
    <3> QED
      BY <3>1, <3>2 DEF Await
  <2>3. CASE d \notin watches
    <3>1. u = w /\ e = None
      BY <2>3
    <3>2. GoOn(u, c)
      BY <3>1, <2>1, <2>3
    <3> HIDE DEF u, e
    <3> QED
      BY <3>1, <3>2, <1>3 DEF GoOn
  <2> QED
    BY <2>2, <2>3
<1>8. UNCHANGED <<next_id, connections, is_registered, names, reply, changes,
                  watches, mine, belief, raced>>
  BY <1>2 DEF GoOn, Await
<1> HIDE DEF u, w
<1>9. Placed(u)
  BY <1>4, <1>6 DEF Placed, Parts
<1>10. ASSUME NEW n \in Names \ raced, Item(c, 1, n)
       PROVE  /\ \A x \in is_registered : x \in Claimants(t, 1) <=> x \in Claimants(u, 1)
              /\ Heard(u, n)
  <2>1. Heard(t, n)
    BY <1>3, <1>10 DEF Told
  <2>2. Heard(u, n)
    BY <2>1, <1>3, <1>6 DEF Heard, Parts
  <2> QED
    BY <2>2, <1>3, <1>6 DEF Claimants, Parts
<1> HIDE DEF e
<1> QED
  BY <1>3, <1>4, <1>6, <1>7, <1>8, <1>9, <1>10, MovesKeep DEF Parts
\* The task goes on as w, waiting to write to d if d is in X.
LEMMA SendsTo ==
    ASSUME NEW c \in UniqueNames, running = c, NEW w \in AnyTask, w.target = None,
           NEW X, X \subseteq UniqueNames, NEW d,
           \/ d \in X /\ Await([w EXCEPT !.target = d], c)
           \/ d \notin X /\ GoOn(w, c)
    PROVE  \E u, e :
              /\ Parts(u, w.stage, w.todo, w.visit, e, w.answer)
              /\ e = IF d \in X THEN d ELSE None
              /\ task' = [task EXCEPT ![c] = u]
              /\ running' = IF e = None THEN c ELSE None
              /\ UNCHANGED <<next_id, connections, is_registered, names, reply, changes,
                             watches, mine, belief, raced>>
<1>1. None \notin UniqueNames
  BY DEF None, UniqueNames
<1>2. CASE d \in X
  <2> DEFINE u == [w EXCEPT !.target = d]
  <2>1. Parts(u, w.stage, w.todo, w.visit, d, w.answer) /\ d # None
    BY <1>1, <1>2, TaskForms
  <2>2. Await(u, c)
    BY <1>2
  <2> HIDE DEF u
  <2> QED
    BY <1>2, <2>1, <2>2 DEF Await
<1>3. CASE d \notin X
  <2>1. Parts(w, w.stage, w.todo, w.visit, None, w.answer)
    BY TaskForms
  <2>2. GoOn(w, c)
    BY <1>3
  <2> QED
    BY <1>3, <2>1, <2>2 DEF GoOn
<1> QED
  BY <1>2, <1>3

\* All the watchers have heard; the new owner is told next, if it is there.
LEMMA EndBroadcastKeeps ==
    ASSUME SignalsInv, NEW c \in UniqueNames, EndBroadcast(c)
    PROVE  SignalsInv'
<1> DEFINE t == task[c]
           w == [t EXCEPT !.stage = "acquired"]
           d == t.todo[1].new_owner
<1>1. Stage(c, "visit") /\ t.visit = {}
  BY DEF EndBroadcast
<1>2. \/ d \in connections /\ Await([w EXCEPT !.target = d], c)
      \/ d \notin connections /\ GoOn(w, c)
  BY DEF EndBroadcast, Change1
<1>3. /\ running = c /\ t \in AnyTask /\ t.target = None /\ t.stage = "visit" /\ Placed(t)
      /\ None \notin UniqueNames /\ is_registered \subseteq connections
      /\ connections \subseteq UniqueNames
      /\ \A n \in Names \ raced : Item(c, 1, n) => Told(t, 1, n)
  BY <1>1, AtWork, Zenon
<1>4. Parts(w, "acquired", t.todo, t.visit, None, t.answer) /\ t.todo # << >>
  BY <1>3, TaskForms, Zenon DEF Stages, Placed
<1> HIDE DEF w
<1>5. PICK u, e :
         /\ Parts(u, "acquired", t.todo, t.visit, e, t.answer)
         /\ e = IF d \in connections THEN d ELSE None
         /\ task' = [task EXCEPT ![c] = u]
         /\ running' = IF e = None THEN c ELSE None
         /\ UNCHANGED <<next_id, connections, is_registered, names, reply, changes,
                        watches, mine, belief, raced>>
  <2>1. w \in AnyTask /\ w.target = None
    BY <1>4 DEF Parts
  <2>2. /\ w.stage = "acquired" /\ w.todo = t.todo /\ w.visit = t.visit
        /\ w.answer = t.answer
    BY <1>4 DEF Parts
  <2>3. \E u, e :
           /\ Parts(u, w.stage, w.todo, w.visit, e, w.answer)
           /\ e = IF d \in connections THEN d ELSE None
           /\ task' = [task EXCEPT ![c] = u]
           /\ running' = IF e = None THEN c ELSE None
           /\ UNCHANGED <<next_id, connections, is_registered, names, reply, changes,
                          watches, mine, belief, raced>>
    BY <1>2, <1>3, <2>1, SendsTo
  <2> QED
    BY <2>2, <2>3
<1>6. Placed(u)
  BY <1>4, <1>5 DEF Placed, Parts
<1>7. ASSUME NEW n \in Names \ raced, Item(c, 1, n)
      PROVE  /\ \A x \in is_registered : x \in Claimants(t, 1) <=> x \in Claimants(u, 1)
             /\ Heard(u, n)
  <2>1. Heard(t, n)
    BY <1>3, <1>7 DEF Told
  <2>2. Heard(u, n)
    BY <2>1, <1>1, <1>3, <1>5 DEF Heard, Parts
  <2>3. Claimants(t, 1) = {t.todo[1].old_owner}
    BY <1>3 DEF Claimants
  <2>4. CASE d \in connections
    <3>1. u.target # None /\ u.stage = "acquired" /\ u.todo = t.todo
      BY <2>4, <1>3, <1>5 DEF Parts
    <3>2. Claimants(u, 1) = {t.todo[1].old_owner}
      BY <3>1 DEF Claimants
    <3> QED
      BY <2>2, <2>3, <3>2
  <2>5. CASE d \notin connections
    <3>1. u.target = None /\ u.stage = "acquired" /\ u.todo = t.todo
      BY <2>5, <1>5 DEF Parts
    <3>2. Claimants(u, 1) = {t.todo[1].old_owner, t.todo[1].new_owner}
      BY <3>1 DEF Claimants
    <3> QED
      BY <2>2, <2>3, <2>5, <3>2, <1>3
  <2> QED
    BY <2>4, <2>5
<1> QED
  BY <1>3, <1>4, <1>5, <1>6, <1>7, MovesKeep DEF Parts

\* The new owner knows; the old one is told next, if it is there.
LEMMA TellLoserKeeps ==
    ASSUME SignalsInv, NEW c \in UniqueNames, TellLoser(c)
    PROVE  SignalsInv'
<1> DEFINE t == task[c]
           w == [t EXCEPT !.stage = "lost"]
           d == t.todo[1].old_owner
<1>1. Stage(c, "acquired")
  BY DEF TellLoser
<1>2. \/ d \in connections /\ Await([w EXCEPT !.target = d], c)
      \/ d \notin connections /\ GoOn(w, c)
  BY DEF TellLoser, Change1
<1>3. /\ running = c /\ t \in AnyTask /\ t.target = None /\ t.stage = "acquired" /\ Placed(t)
      /\ None \notin UniqueNames /\ is_registered \subseteq connections
      /\ connections \subseteq UniqueNames
      /\ \A n \in Names \ raced : Item(c, 1, n) => Told(t, 1, n)
  BY <1>1, AtWork, Zenon
<1>4. Parts(w, "lost", t.todo, t.visit, None, t.answer) /\ t.todo # << >>
  BY <1>3, TaskForms, Zenon DEF Stages, Placed
<1> HIDE DEF w
<1>5. PICK u, e :
         /\ Parts(u, "lost", t.todo, t.visit, e, t.answer)
         /\ e = IF d \in connections THEN d ELSE None
         /\ task' = [task EXCEPT ![c] = u]
         /\ running' = IF e = None THEN c ELSE None
         /\ UNCHANGED <<next_id, connections, is_registered, names, reply, changes,
                        watches, mine, belief, raced>>
  <2>1. w \in AnyTask /\ w.target = None
    BY <1>4 DEF Parts
  <2>2. w.stage = "lost" /\ w.todo = t.todo /\ w.visit = t.visit /\ w.answer = t.answer
    BY <1>4 DEF Parts
  <2>3. \E u, e :
           /\ Parts(u, w.stage, w.todo, w.visit, e, w.answer)
           /\ e = IF d \in connections THEN d ELSE None
           /\ task' = [task EXCEPT ![c] = u]
           /\ running' = IF e = None THEN c ELSE None
           /\ UNCHANGED <<next_id, connections, is_registered, names, reply, changes,
                          watches, mine, belief, raced>>
    BY <1>2, <1>3, <2>1, SendsTo
  <2> QED
    BY <2>2, <2>3
<1>6. Placed(u)
  BY <1>4, <1>5 DEF Placed, Parts
<1>7. ASSUME NEW n \in Names \ raced, Item(c, 1, n)
      PROVE  /\ \A x \in is_registered : x \in Claimants(t, 1) <=> x \in Claimants(u, 1)
             /\ Heard(u, n)
  <2>1. Heard(t, n)
    BY <1>3, <1>7 DEF Told
  <2>2. Heard(u, n)
    BY <2>1, <1>3, <1>5 DEF Heard, Parts
  <2>3. Claimants(t, 1) = {t.todo[1].old_owner, t.todo[1].new_owner}
    BY <1>3 DEF Claimants
  <2>4. CASE d \in connections
    <3>1. u.target # None /\ u.stage = "lost" /\ u.todo = t.todo
      BY <2>4, <1>3, <1>5 DEF Parts
    <3>2. Claimants(u, 1) = {t.todo[1].old_owner, t.todo[1].new_owner}
      BY <3>1 DEF Claimants
    <3> QED
      BY <2>2, <2>3, <3>2
  <2>5. CASE d \notin connections
    <3>1. u.target = None /\ u.stage = "lost" /\ u.todo = t.todo
      BY <2>5, <1>5 DEF Parts
    <3>2. Claimants(u, 1) = {t.todo[1].new_owner}
      BY <3>1 DEF Claimants
    <3> QED
      BY <2>2, <2>3, <2>5, <3>2, <1>3
  <2> QED
    BY <2>4, <2>5
<1> QED
  BY <1>3, <1>4, <1>5, <1>6, <1>7, MovesKeep DEF Parts

\* A step that leaves the registry alone keeps its invariants and what is read of it.
LEMMA RegistryAlone ==
    ASSUME SignalsInv,
           UNCHANGED <<next_id, connections, is_registered, names, reply, changes>>
    PROVE  /\ IInv' /\ LimitInv'
           /\ \A n : get_name_owner(n)' = get_name_owner(n)
<1>1. UNCHANGED vars
  BY DEF vars
<1>2. IInv' /\ LimitInv'
  BY <1>1, NextKeeps, NextWithinLimit DEF SignalsInv
<1> QED
  BY <1>2 DEF get_name_owner, Queue

\* What is left of a list of changes when the first one is done.
LEMMA AfterFirst ==
    ASSUME NEW T, NEW s \in Seq(T), s # << >>
    PROVE  /\ Tail(s) \in Seq(T) /\ Len(s) \in Nat \ {0} /\ Len(Tail(s)) = Len(s) - 1
           /\ \A i \in 1 .. Len(Tail(s)) : i + 1 \in 1 .. Len(s) /\ Tail(s)[i] = s[i + 1]
  OBVIOUS

\* Both owners know: the first change is done, and its name is right for everyone.
LEMMA EndChangeKeeps ==
    ASSUME SignalsInv, NEW c \in UniqueNames, EndChange(c)
    PROVE  SignalsInv'
<1> DEFINE t == task[c]
           q == Tail(t.todo)
           u == [t EXCEPT !.stage = "next", !.todo = q]
<1>1. Stage(c, "lost") /\ GoOn(u, c)
  BY DEF EndChange
<1>2. /\ running = c /\ t \in AnyTask /\ t.target = None /\ t.stage = "lost" /\ Placed(t)
      /\ None \notin UniqueNames /\ is_registered \subseteq connections
      /\ connections \subseteq UniqueNames
      /\ \A n \in Names \ raced : Item(c, 1, n) => Told(t, 1, n)
  BY <1>1, AtWork, Zenon
<1>3. t.todo # << >> /\ t.todo \in Seq(NameOwnerChange)
  BY <1>2, TaskForms DEF Placed
<1>4. /\ q \in Seq(NameOwnerChange) /\ Len(t.todo) \in Nat \ {0} /\ Len(q) = Len(t.todo) - 1
      /\ \A i \in 1 .. Len(q) : i + 1 \in 1 .. Len(t.todo) /\ q[i] = t.todo[i + 1]
  BY <1>3, AfterFirst
<1> HIDE DEF q
<1>5. Parts(u, "next", q, t.visit, None, t.answer)
  BY <1>2, <1>4, TaskForms, Zenon DEF Stages
<1> HIDE DEF u
<1>6. /\ task' = [task EXCEPT ![c] = u] /\ running' = c
      /\ UNCHANGED <<next_id, connections, is_registered, names, reply, changes,
                     watches, mine, belief, raced>>
  BY <1>1, <1>2 DEF GoOn
<1>7. IInv' /\ LimitInv' /\ \A n : get_name_owner(n)' = get_name_owner(n)
  BY <1>6, RegistryAlone
<1>8. /\ task'[c] = u /\ \A d \in UniqueNames : d # c => task'[d] = task[d]
      /\ task' \in [UniqueNames -> AnyTask]
  BY <1>5, <1>6, OneTask DEF SignalsInv, Parts
<1>9. SignalsTypes'
  BY <1>6, <1>8 DEF SignalsInv, SignalsTypes
<1>10. ThreadOK'
  BY <1>2, <1>5, <1>6, <1>8 DEF SignalsInv, TasksOK, ThreadOK, Parts
<1>11. u.todo = q /\ u.stage = "next" /\ u.target = None /\ u.answer = t.answer
  BY <1>5 DEF Parts
<1>12. FreshOK'
  <2>1. ASSUME NEW d \in UniqueNames, NEW i \in 1 .. Len(task'[d].todo)
        PROVE  \E j \in 1 .. Len(task[d].todo) : task'[d].todo[i] = task[d].todo[j]
    <3>1. CASE d # c
      BY <3>1, <1>8
    <3>2. CASE d = c
      <4>1. i \in 1 .. Len(q) /\ task'[d].todo[i] = q[i]
        BY <3>2, <1>8, <1>11
      <4> QED
        BY <4>1, <3>2, <1>4
    <3> QED
      BY <3>1, <3>2
  <2>2. \A d \in UniqueNames : Fresh(d)' <=> Fresh(d)
    BY <1>6 DEF Fresh
  <2> QED
    BY <2>1, <2>2, <1>6 DEF SignalsInv, FreshOK
<1>13. \A n : \A d \in UniqueNames, i \in Nat : d # c => (Item(d, i, n)' <=> Item(d, i, n))
  BY <1>8 DEF Item
<1>14. ASSUME NEW i \in Nat, NEW n, Item(c, i, n)'
       PROVE  Item(c, i + 1, n) /\ i # 0 /\ u.todo[i] = t.todo[i + 1]
  <2>1. i \in 1 .. Len(q) /\ q[i].name = n
    BY <1>14, <1>8, <1>11 DEF Item
  <2> QED
    BY <2>1, <1>4, <1>11 DEF Item
<1>15. ASSUME NEW i \in Nat, NEW n, Item(c, i, n), i # 1
       PROVE  i - 1 \in Nat /\ Item(c, i - 1, n)'
  <2>1. i \in 1 .. Len(t.todo) /\ t.todo[i].name = n
    BY <1>15 DEF Item
  <2>2. i - 1 \in 1 .. Len(q) /\ (i - 1) + 1 = i
    BY <2>1, <1>15, <1>4
  <2>3. q[i - 1].name = n
    BY <2>1, <2>2, <1>4
  <2> QED
    BY <2>2, <2>3, <1>8, <1>11 DEF Item
<1>16. ASSUME NEW n \in Names \ raced
       PROVE  NameOK(n)'
  <2>1. NameOK(n)
    BY DEF SignalsInv, NamesOK
  <2>2. \A x, y \in UniqueNames, i, j \in Nat :
           Item(x, i, n)' /\ Item(y, j, n)' => x = y /\ i = j
    <3>1. ASSUME NEW x \in UniqueNames, NEW y \in UniqueNames, NEW i \in Nat, NEW j \in Nat,
                 Item(x, i, n)', Item(y, j, n)'
          PROVE  x = y /\ i = j
      <4> DEFINE k == IF x = c THEN i + 1 ELSE i
                 l == IF y = c THEN j + 1 ELSE j
      <4>1. k \in Nat /\ l \in Nat /\ Item(x, k, n) /\ Item(y, l, n)
        BY <3>1, <1>13, <1>14
      <4>2. x = y /\ k = l
        BY <4>1, <2>1, Zenon DEF NameOK
      <4> QED
        BY <4>2
    <3> QED
      BY <3>1
  <2>3. ASSUME NEW x \in UniqueNames, NEW i \in Nat, Item(x, i, n)'
        PROVE  Told(task[x], i, n)'
    <3>1. CASE x # c
      <4>1. Told(task[x], i, n)
        BY <2>1, <2>3, <3>1, <1>13 DEF NameOK
      <4>2. task'[x] = task[x]
        BY <3>1, <1>8
      <4> QED
        BY <4>1, <4>2, <1>6, <1>7 DEF Told, Heard
    <3>2. CASE x = c
      <4>1. Item(c, i + 1, n) /\ i + 1 \in Nat /\ u.todo[i] = t.todo[i + 1] /\ i # 0
        BY <2>3, <3>2, <1>14
      <4>2. Told(t, i + 1, n)
        BY <2>1, <4>1 DEF NameOK
      <4>3. Claimants(t, i + 1) = {t.todo[i + 1].old_owner}
        BY <4>1 DEF Claimants
      <4>4. Claimants(u, i) = {u.todo[i].old_owner}
        BY <1>11 DEF Claimants
      <4>5. task'[x] = u
        BY <3>2, <1>8
      <4> QED
        BY <4>1, <4>2, <4>3, <4>4, <4>5, <1>6, <1>7, <1>11 DEF Told
    <3> QED
      BY <3>1, <3>2
  <2>4. ASSUME ~ Announcing(n)'
        PROVE  ViewsAreRight(n)'
    <3>1. CASE Item(c, 1, n)
      <4>1. Told(t, 1, n)
        BY <3>1, <1>2
      <4>2. Claimants(t, 1) = {t.todo[1].new_owner}
        BY <1>2 DEF Claimants
      <4>3. Heard(t, n)
        BY <4>1, <1>2 DEF Told
      <4> QED
        BY <4>1, <4>2, <4>3, <1>2, <1>6, <1>7 DEF Told, Heard, ViewsAreRight
    <3>2. CASE ~ Item(c, 1, n)
      <4>1. ~ Announcing(n)
        BY <3>2, <2>4, <1>13, <1>15, AnnouncingItem
      <4>2. ViewsAreRight(n)
        BY <4>1, <2>1 DEF NameOK
      <4> QED
        BY <4>2, <1>6, <1>7 DEF ViewsAreRight
    <3> QED
      BY <3>1, <3>2
  <2> QED
    BY <2>2, <2>3, <2>4 DEF NameOK
<1>17. ASSUME NEW d \in UniqueNames PROVE Placed(task[d])' /\ Answering(d, task[d])'
  <2>1. Placed(task[d]) /\ Answering(d, task[d])
    BY DEF SignalsInv, TasksOK
  <2>2. CASE d # c
    BY <2>1, <2>2, <1>6, <1>8 DEF Placed, Answering
  <2>3. CASE d = c
    <3>1. Placed(u)
      BY <1>11 DEF Placed
    <3>2. ASSUME u.answer.code = "primary_owner", u.answer.name \notin raced
          PROVE  u.todo = << >> /\ u.answer.name \in mine[c]
      <4> DEFINE n == t.answer.name
      <4>1. /\ c \in is_registered /\ n \in Names /\ Len(t.todo) = 1
            /\ t.todo[1].name = n /\ t.todo[1].new_owner = c
        BY <2>1, <2>3, <3>2, <1>2, <1>11 DEF Answering
      <4>2. q = << >>
        BY <4>1, <1>4
      <4>3. n \in Names \ raced /\ Item(c, 1, n)
        BY <4>1, <3>2, <1>11 DEF Item
      <4>4. Told(t, 1, n) /\ Claimants(t, 1) = {t.todo[1].new_owner}
        BY <4>3, <1>2 DEF Claimants
      <4> QED
        BY <4>1, <4>2, <4>4, <1>11, Zenon DEF Told
    <3>3. Answering(c, u)
      BY <2>1, <2>3, <3>2, <1>11 DEF Answering
    <3> QED
      BY <2>3, <3>1, <3>3, <1>6, <1>8 DEF Placed, Answering
  <2> QED
    BY <2>2, <2>3
<1> QED
  BY <1>6, <1>7, <1>9, <1>10, <1>12, <1>16, <1>17 DEF SignalsInv, TasksOK, NamesOK

\* What Idle is.
LEMMA IdleFacts ==
    /\ Idle \in AnyTask /\ Idle.stage = "idle" /\ Idle.todo = << >> /\ Idle.visit = {}
    /\ Idle.target = None /\ Idle.answer.code = "none"
<1>1. NoReply \in Reply /\ NoReply.code = "none"
  BY DEF NoReply, Reply
<1> HIDE DEF NoReply
<1> QED
  BY <1>1 DEF Idle, AnyTask, Stages

\* A task with nothing to announce answers or is done.
LEMMA EndsKeep ==
    ASSUME SignalsInv, NEW c \in UniqueNames, running = c, NEW t \in AnyTask, Await(t, c),
           task[c].todo = << >>, t.todo = << >>, Placed(t),
           \/ t = Idle
           \/ t.stage = "reply" /\ t.target # None /\ t.answer = task[c].answer
    PROVE  SignalsInv'
<1>1. /\ task' = [task EXCEPT ![c] = t] /\ running' = None
      /\ UNCHANGED <<next_id, connections, is_registered, names, reply, changes,
                     watches, mine, belief, raced>>
  BY DEF Await
<1>2. IInv' /\ LimitInv'
  BY <1>1, RegistryAlone
<1>3. \A n : ~ Item(c, 1, n)
  BY DEF Item
<1>4. FreshOK' /\ NamesOK'
  BY <1>1, <1>3, MovesKeepNames DEF SignalsInv
<1>5. /\ task'[c] = t /\ \A d \in UniqueNames : d # c => task'[d] = task[d]
      /\ task' \in [UniqueNames -> AnyTask]
  BY <1>1, OneTask DEF SignalsInv
<1>6. SignalsTypes'
  BY <1>1, <1>5 DEF SignalsInv, SignalsTypes
<1>7. ThreadOK'
  <2>1. None \notin UniqueNames
    BY DEF None, UniqueNames
  <2> QED
    BY <1>1, <1>5, <2>1, IdleFacts DEF SignalsInv, TasksOK, ThreadOK
<1>8. ASSUME NEW d \in UniqueNames PROVE Placed(task[d])' /\ Answering(d, task[d])'
  <2>1. Placed(task[d]) /\ Answering(d, task[d])
    BY DEF SignalsInv, TasksOK
  <2>2. CASE d # c
    BY <2>1, <2>2, <1>1, <1>5 DEF Placed, Answering
  <2>3. CASE d = c
    BY <2>1, <2>3, <1>1, <1>5, IdleFacts DEF Placed, Answering
  <2> QED
    BY <2>2, <2>3
<1> QED
  BY <1>2, <1>4, <1>6, <1>7, <1>8 DEF SignalsInv, TasksOK

\* The caller is answered when everything is announced.
LEMMA SendReplyKeeps ==
    ASSUME SignalsInv, NEW c \in UniqueNames, SendReply(c) \/ Done(c)
    PROVE  SignalsInv'
<1> DEFINE t == task[c]
           u == [t EXCEPT !.stage = "reply", !.target = c]
<1>1. /\ Stage(c, "next") \/ Stage(c, "reply")
      /\ \/ Stage(c, "next") /\ t.todo = << >> /\ Await(u, c)
         \/ Stage(c, "next") /\ t.todo = << >> /\ Await(Idle, c)
         \/ Stage(c, "reply") /\ Await(Idle, c)
  BY DEF SendReply, Done
<1>2. /\ running = c /\ t \in AnyTask /\ t.target = None /\ Placed(t)
      /\ None \notin UniqueNames
  BY <1>1, AtWork, Zenon
<1>3. t.todo = << >>
  BY <1>1, <1>2 DEF Placed, Stage
<1>4. CASE Await(Idle, c)
  <2>1. Placed(Idle)
    BY IdleFacts DEF Placed
  <2> QED
    BY <1>2, <1>3, <1>4, <2>1, IdleFacts, EndsKeep
<1>5. CASE Await(u, c)
  <2>1. Parts(u, "reply", t.todo, t.visit, c, t.answer)
    BY <1>2, TaskForms, Zenon DEF Stages
  <2> HIDE DEF u
  <2>2. /\ u \in AnyTask /\ u.stage = "reply" /\ u.todo = << >> /\ u.target = c
        /\ u.answer = t.answer /\ c # None
    BY <2>1, <1>2, <1>3 DEF Parts
  <2>3. Placed(u)
    BY <2>2 DEF Placed
  <2> QED
    BY <1>2, <1>3, <1>5, <2>2, <2>3, EndsKeep
<1> QED
  BY <1>1, <1>4, <1>5

\* Matches are added and removed without an opinion about the owners.
LEMMA SetWatchKeeps ==
    ASSUME SignalsInv, NEW c \in UniqueNames, NEW w, SetWatch(c, w),
           w = watches \cup {c} \/ w = watches \ {c}
    PROVE  SignalsInv'
<1> DEFINE u == [task[c] EXCEPT !.stage = "next", !.answer = OtherAnswer(c)]
<1>1. running = None /\ task[c] = Idle /\ c \in is_registered
  BY DEF SetWatch, CanTakeUp
<1>2. OtherAnswer(c) \in Reply /\ OtherAnswer(c).code = "none"
  BY DEF OtherAnswer, Answer, Reply
<1>3. Parts(u, "next", << >>, {}, None, OtherAnswer(c))
  BY <1>1, <1>2, IdleFacts, TaskForms, Zenon DEF Stages
<1>4. /\ task' = [task EXCEPT ![c] = u] /\ running' = c /\ watches' = w
      /\ UNCHANGED <<next_id, connections, is_registered, names, reply, changes, mine, raced>>
  BY DEF SetWatch
<1>5. /\ belief' \in [UniqueNames -> [Names -> 0 .. MaxId + 1]]
      /\ \A d \in UniqueNames \ {c} : belief'[d] = belief[d] /\ (d \in w <=> d \in watches)
      /\ \/ belief' = belief /\ w = watches
         \/ \A n \in Names : belief'[c][n] = Unknown
  <2>1. belief \in [UniqueNames -> [Names -> 0 .. MaxId + 1]]
    BY DEF SignalsInv, SignalsTypes
  <2>2. Unknown \in 0 .. MaxId + 1
    BY BoundsAssumption DEF Unknown
  <2>3. belief' = IF w = watches THEN belief
                  ELSE [belief EXCEPT ![c] = [n \in Names |-> Unknown]]
    BY DEF SetWatch
  <2> HIDE DEF Unknown
  <2> QED
    BY <2>1, <2>2, <2>3
<1> HIDE DEF u
<1>6. IInv' /\ LimitInv' /\ \A n : get_name_owner(n)' = get_name_owner(n)
  BY <1>4, RegistryAlone
<1>7. u \in AnyTask /\ u.stage = "next" /\ u.todo = << >> /\ u.target = None
      /\ u.answer.code = "none"
  BY <1>2, <1>3 DEF Parts
<1>8. /\ task'[c] = u /\ \A d \in UniqueNames : d # c => task'[d] = task[d]
      /\ task' \in [UniqueNames -> AnyTask]
  BY <1>4, <1>7, OneTask DEF SignalsInv
<1>9. SignalsTypes'
  BY <1>4, <1>5, <1>8 DEF SignalsInv, SignalsTypes
<1>10. ThreadOK'
  <2>1. None \notin UniqueNames
    BY DEF None, UniqueNames
  <2> QED
    BY <1>1, <1>4, <1>7, <1>8, <2>1 DEF SignalsInv, TasksOK, ThreadOK
<1>11. ASSUME NEW d \in UniqueNames PROVE Placed(task[d])' /\ Answering(d, task[d])'
  <2>1. Placed(task[d]) /\ Answering(d, task[d])
    BY DEF SignalsInv, TasksOK
  <2>2. CASE d # c
    BY <2>1, <2>2, <1>4, <1>8 DEF Placed, Answering
  <2>3. CASE d = c
    BY <2>3, <1>7, <1>8 DEF Placed, Answering
  <2> QED
    BY <2>2, <2>3
<1>12. \A d \in UniqueNames : task'[d].todo = task[d].todo
  BY <1>1, <1>7, <1>8, IdleFacts
<1>13. FreshOK'
  <2>1. FreshOK /\ is_registered \subseteq connections /\ \A d \in connections : d \in Nat
    BY DEF SignalsInv, IInv, TypeOK, UniqueNames
  <2>2. next_id \in Nat
    BY BoundsAssumption DEF SignalsInv, IInv, TypeOK
  <2>3. ~ Fresh(c)
    BY <1>1, <2>1, <2>2 DEF FreshOK, Fresh
  <2>4. \A d \in UniqueNames : Fresh(d)' <=> Fresh(d)
    BY <1>4 DEF Fresh
  <2> QED
    BY <1>4, <1>5, <1>12, <2>1, <2>3, <2>4 DEF FreshOK
<1>14. \A n : \A d \in UniqueNames, i \in Nat : Item(d, i, n)' <=> Item(d, i, n)
  BY <1>12 DEF Item
<1>15. \A n : \A i \in Nat : ~ Item(c, i, n)
  BY <1>1, IdleFacts DEF Item
<1>16. is_registered \subseteq UniqueNames
  BY DEF SignalsInv, IInv, TypeOK
<1>17. ASSUME NEW n \in Names \ raced
       PROVE  NameOK(n)'
  <2>1. NameOK(n)
    BY DEF SignalsInv, NamesOK
  <2>2. Announcing(n)' <=> Announcing(n)
    BY <1>14, AnnouncingItem
  <2>3. ViewsAreRight(n) => ViewsAreRight(n)'
    BY <1>4, <1>5, <1>6, <1>16 DEF ViewsAreRight
  <2>4. ASSUME NEW d \in UniqueNames, NEW i \in Nat, Item(d, i, n)
        PROVE  Told(task[d], i, n)'
    <3>1. Told(task[d], i, n) /\ d # c
      BY <2>1, <2>4, <1>15 DEF NameOK
    <3>2. task'[d] = task[d]
      BY <3>1, <1>8
    <3>3. Heard(task[d], n) => Heard(task[d], n)'
      BY <3>2, <1>4, <1>5, <1>16 DEF Heard
    <3> QED
      BY <3>1, <3>2, <3>3, <1>4, <1>6 DEF Told
  <2> QED
    BY <2>1, <2>2, <2>3, <2>4, <1>14 DEF NameOK
<1> QED
  BY <1>4, <1>6, <1>9, <1>10, <1>11, <1>13, <1>17 DEF SignalsInv, TasksOK, NamesOK

\* A new connection has been told nothing.
LEMMA ArriveKeeps ==
    ASSUME SignalsInv, Arrive
    PROVE  SignalsInv'
<1>1. Connect /\ UNCHANGED taskVars
  BY DEF Arrive
<1>2. Next
  BY <1>1 DEF Next
<1>3. IInv' /\ LimitInv'
  BY <1>2, NextKeeps, NextWithinLimit DEF SignalsInv
<1>4. /\ next_id' = next_id + 1 /\ connections' = connections \cup {next_id}
      /\ UNCHANGED <<is_registered, names, running, task, watches, mine, belief, raced>>
  BY <1>1 DEF Connect, taskVars
<1>5. next_id \in Nat /\ \A d \in connections \cup UniqueNames : d \in Nat
  BY BoundsAssumption DEF SignalsInv, IInv, TypeOK, UniqueNames
<1>6. FreshOK'
  <2>1. \A d \in UniqueNames : Fresh(d)' => Fresh(d)
    BY <1>4, <1>5 DEF Fresh
  <2>2. \A d \in connections' : d < next_id'
    BY <1>4, <1>5 DEF SignalsInv, FreshOK
  <2> QED
    BY <1>4, <2>1, <2>2 DEF SignalsInv, FreshOK
<1>7. SignalsTypes' /\ TasksOK'
  BY <1>4 DEF SignalsInv, SignalsTypes, TasksOK, ThreadOK, Placed, Answering
<1>8. ASSUME NEW n \in Names \ raced PROVE NameOK(n)'
  <2>1. NameOK(n)
    BY DEF SignalsInv, NamesOK
  <2>2. get_name_owner(n)' = get_name_owner(n)
    BY <1>4, OwnerIsFirst DEF Queue
  <2>3. Announcing(n)' <=> Announcing(n)
    BY <1>4 DEF Announcing
  <2>4. \A d, i : /\ Item(d, i, n)' <=> Item(d, i, n)
                  /\ Told(task[d], i, n)' <=> Told(task[d], i, n)
    BY <1>4, <2>2 DEF Item, Told, Heard
  <2> QED
    BY <1>4, <2>1, <2>2, <2>3, <2>4 DEF NameOK, ViewsAreRight
<1> QED
  BY <1>3, <1>4, <1>6, <1>7, <1>8 DEF SignalsInv, NamesOK

\* A signal reaches its client, which concludes from it.
LEMMA WriteKeeps ==
    ASSUME SignalsInv, NEW c \in UniqueNames, Write(c)
    PROVE  SignalsInv'
<1> DEFINE t == task[c]
           d == t.target
           e == t.todo[1]
           u == [t EXCEPT !.target = None]
           Speaks == t.stage \in {"visit", "acquired", "lost"}
<1>1. /\ running = None /\ t.target # None /\ running' = c
      /\ task' = [task EXCEPT ![c].target = None]
      /\ UNCHANGED <<next_id, connections, is_registered, names, reply, changes,
                     watches, raced>>
  BY DEF Write
<1>2. t \in AnyTask /\ Placed(t) /\ None \notin UniqueNames
  BY DEF SignalsInv, SignalsTypes, TasksOK, None, UniqueNames
<1>3. d \in UniqueNames /\ t.stage \in {"visit", "acquired", "lost", "reply"}
  BY <1>1, <1>2 DEF Placed, AnyTask
<1>4. Parts(u, t.stage, t.todo, t.visit, None, t.answer)
  BY <1>2, TaskForms
<1>5. task' = [task EXCEPT ![c] = u]
  BY <1>1
<1>6. Speaks => /\ t.todo # << >> /\ t.todo \in Seq(NameOwnerChange)
                /\ e \in NameOwnerChange /\ Item(c, 1, e.name)
  <2> SUFFICES ASSUME Speaks PROVE /\ t.todo # << >> /\ t.todo \in Seq(NameOwnerChange)
                                   /\ e \in NameOwnerChange /\ Item(c, 1, e.name)
    OBVIOUS
  <2>1. t.todo # << >> /\ t.todo \in Seq(NameOwnerChange)
    BY <1>2, TaskForms DEF Placed
  <2>2. 1 \in 1 .. Len(t.todo) /\ t.todo[1] \in NameOwnerChange
    BY <2>1
  <2> QED
    BY <2>1, <2>2 DEF Item
<1>7. /\ belief \in [UniqueNames -> [Names -> 0 .. MaxId + 1]]
      /\ mine \in [UniqueNames -> SUBSET Names]
  BY DEF SignalsInv, SignalsTypes
<1>8. /\ belief' \in [UniqueNames -> [Names -> 0 .. MaxId + 1]]
      /\ \A x \in UniqueNames, n \in Names :
            belief'[x][n] = IF t.stage = "visit" /\ x = d /\ n = e.name
                            THEN e.new_owner ELSE belief[x][n]
  <2>1. belief' = IF t.stage = "visit" /\ e.name \in Names
                  THEN [belief EXCEPT ![d][e.name] = e.new_owner] ELSE belief
    BY DEF Write, Change1
  <2>2. t.stage = "visit" => e.new_owner \in 0 .. MaxId + 1
    BY <1>6, BoundsAssumption DEF NameOwnerChange, None, UniqueNames
  <2> HIDE DEF d, e
  <2>3. CASE t.stage = "visit" /\ e.name \in Names
    BY <2>1, <2>2, <2>3, <1>3, <1>7
  <2>4. CASE ~ (t.stage = "visit" /\ e.name \in Names)
    BY <2>1, <2>4, <1>3, <1>7
  <2> QED
    BY <2>3, <2>4
<1>9. /\ mine' \in [UniqueNames -> SUBSET Names]
      /\ \A x \in UniqueNames : x # d => mine'[x] = mine[x]
      /\ mine'[d] = IF t.stage = "acquired" THEN mine[d] \cup ({e.name} \cap Names)
                    ELSE IF t.stage = "lost" THEN mine[d] \ {e.name}
                    ELSE mine[d]
  <2>1. mine' = [mine EXCEPT ![d] =
                    IF t.stage = "acquired" THEN mine[d] \cup ({e.name} \cap Names)
                    ELSE IF t.stage = "lost" THEN mine[d] \ {e.name}
                    ELSE mine[d]]
    BY DEF Write, Change1
  <2> HIDE DEF d, e
  <2> QED
    BY <2>1, <1>3, <1>7
<1>10. /\ u \in AnyTask /\ u.stage = t.stage /\ u.todo = t.todo /\ u.visit = t.visit
       /\ u.target = None /\ u.answer = t.answer
  BY <1>4 DEF Parts
<1> HIDE DEF u
<1>11. /\ task'[c] = u /\ \A x \in UniqueNames : x # c => task'[x] = task[x]
       /\ task' \in [UniqueNames -> AnyTask]
  BY <1>5, <1>10, OneTask DEF SignalsInv
<1>12. \A x \in UniqueNames : task'[x].todo = task[x].todo
  BY <1>10, <1>11
<1>13. IInv' /\ LimitInv' /\ \A n : get_name_owner(n)' = get_name_owner(n)
  BY <1>1, RegistryAlone
<1>14. SignalsTypes'
  BY <1>1, <1>8, <1>9, <1>11 DEF SignalsInv, SignalsTypes
<1>15. ThreadOK'
  BY <1>1, <1>2, <1>3, <1>10, <1>11 DEF SignalsInv, TasksOK, ThreadOK
<1>16. ASSUME NEW x \in UniqueNames PROVE Placed(task[x])' /\ Answering(x, task[x])'
  <2>1. Placed(task[x]) /\ Answering(x, task[x])
    BY DEF SignalsInv, TasksOK
  <2>2. task[x].stage # "next"
    BY <2>1, <1>1, <1>2 DEF SignalsInv, TasksOK, ThreadOK, Placed
  <2>3. CASE x # c
    BY <2>1, <2>2, <2>3, <1>1, <1>11 DEF Placed, Answering
  <2>4. CASE x = c
    <3>1. Placed(u)
      BY <1>2, <1>3, <1>10 DEF Placed
    <3> QED
      BY <3>1, <2>1, <2>2, <2>4, <1>1, <1>10, <1>11 DEF Placed, Answering
  <2> QED
    BY <2>3, <2>4
<1>17. FreshOK'
  <2>1. \A x \in UniqueNames : Fresh(x)' <=> Fresh(x)
    BY <1>1 DEF Fresh
  <2>2. ASSUME NEW x \in UniqueNames, Fresh(x) PROVE mine'[x] = {}
    <3>1. mine[x] = {}
      BY <2>2 DEF SignalsInv, FreshOK
    <3>2. CASE x # d
      BY <3>1, <3>2, <1>9
    <3>3. CASE x = d /\ t.stage = "acquired" /\ e.name \in Names
      <4>1. 1 \in 1 .. Len(t.todo) /\ d = e.new_owner
        BY <3>3, <1>1, <1>2, <1>6 DEF Item, Placed
      <4>2. x \notin {e.new_owner, e.old_owner}
        BY <2>2, <3>3, <4>1 DEF SignalsInv, FreshOK
      <4> QED
        BY <4>1, <4>2, <3>3
    <3>4. CASE x = d /\ ~ (t.stage = "acquired" /\ e.name \in Names)
      BY <3>1, <3>4, <1>9
    <3> QED
      BY <3>2, <3>3, <3>4
  <2> QED
    BY <2>1, <2>2, <1>1, <1>12 DEF SignalsInv, FreshOK
<1>18. \A n : \A x \in UniqueNames, i \in Nat : Item(x, i, n)' <=> Item(x, i, n)
  BY <1>12 DEF Item
<1>19. is_registered \subseteq UniqueNames
  BY DEF SignalsInv, IInv, TypeOK
<1>20. ASSUME NEW n \in Names \ raced
       PROVE  NameOK(n)'
  <2>1. NameOK(n)
    BY DEF SignalsInv, NamesOK
  <2>2. Announcing(n)' <=> Announcing(n)
    BY <1>18, AnnouncingItem
  <2>3. CASE ~ (Speaks /\ e.name = n)
    <3>1. \A x \in is_registered : /\ n \in mine'[x] <=> n \in mine[x]
                                   /\ belief'[x][n] = belief[x][n]
      BY <2>3, <1>8, <1>9, <1>19
    <3>2. ASSUME NEW x \in UniqueNames, NEW i \in Nat, Item(x, i, n)
          PROVE  Told(task[x], i, n)'
      <4>1. Told(task[x], i, n)
        BY <2>1, <3>2 DEF NameOK
      <4>2. i = 1 /\ task[x].stage \in {"visit", "acquired", "lost"} => x # c
        BY <2>3, <3>2 DEF Item
      <4>3. task'[x].todo[i] = task[x].todo[i]
        BY <1>12
      <4>4. Claimants(task[x], i)' = Claimants(task[x], i)
        <5>1. CASE x # c
          BY <5>1, <1>11 DEF Claimants
        <5>2. CASE x = c
          <6>1. i # 1 \/ t.stage = "reply"
            BY <5>2, <4>2, <1>3
          <6> QED
            BY <6>1, <5>2, <1>10, <1>11 DEF Claimants
        <5> QED
          BY <5>1, <5>2
      <4>5. ASSUME i = 1, task'[x].stage \in {"visit", "acquired", "lost"}
            PROVE  Heard(task[x], n)'
        <5>1. x # c /\ task'[x] = task[x]
          BY <4>5, <4>2, <1>10, <1>11
        <5>2. Heard(task[x], n)
          BY <4>1, <4>5, <5>1 DEF Told
        <5> QED
          BY <5>1, <5>2, <3>1, <1>1 DEF Heard
      <4> QED
        BY <4>1, <4>3, <4>4, <4>5, <3>1, <1>1, <1>13 DEF Told
    <3>3. ViewsAreRight(n) => ViewsAreRight(n)'
      BY <3>1, <1>1, <1>13 DEF ViewsAreRight
    <3> QED
      BY <2>1, <2>2, <3>2, <3>3, <1>18 DEF NameOK
  <2>4. CASE Speaks /\ e.name = n
    <3>1. Item(c, 1, n)
      BY <2>4, <1>6
    <3>2. Told(t, 1, n)
      BY <3>1, <2>1 DEF NameOK
    <3>3. \A x \in UniqueNames, i \in Nat : Item(x, i, n) => x = c /\ i = 1
      BY <3>1, <2>1 DEF NameOK
    <3>4. Announcing(n)
      BY <3>1, AnnouncingItem
    <3>5. ASSUME NEW x \in is_registered
          PROVE  n \in mine'[x] <=> x \in Claimants(u, 1)
      <4>1. n \in mine[x] <=> x \in Claimants(t, 1)
        BY <3>2 DEF Told
      <4>2. e.old_owner # e.new_owner
        BY <3>2 DEF Told
      <4>3. CASE t.stage = "visit"
        <5>1. Claimants(t, 1) = {e.old_owner} /\ Claimants(u, 1) = {e.old_owner}
          BY <4>3, <1>10 DEF Claimants
        <5>2. mine'[x] = mine[x]
          BY <4>3, <1>9, <1>19
        <5> QED
          BY <4>1, <5>1, <5>2
      <4>4. CASE t.stage = "acquired"
        <5>1. Claimants(t, 1) = {e.old_owner}
          BY <4>4, <1>1 DEF Claimants
        <5>2. Claimants(u, 1) = {e.old_owner, e.new_owner}
          BY <4>4, <1>10 DEF Claimants
        <5>3. d = e.new_owner
          BY <4>4, <1>1, <1>2 DEF Placed
        <5>4. CASE x = d
          BY <5>4, <5>2, <5>3, <4>4, <2>4, <1>9
        <5>5. CASE x # d
          BY <5>5, <5>1, <5>2, <5>3, <4>1, <1>9, <1>19
        <5> QED
          BY <5>4, <5>5
      <4>5. CASE t.stage = "lost"
        <5>1. Claimants(t, 1) = {e.old_owner, e.new_owner}
          BY <4>5, <1>1 DEF Claimants
        <5>2. Claimants(u, 1) = {e.new_owner}
          BY <4>5, <1>10 DEF Claimants
        <5>3. d = e.old_owner
          BY <4>5, <1>1, <1>2 DEF Placed
        <5>4. CASE x = d
          BY <5>4, <5>2, <5>3, <4>2, <4>5, <2>4, <1>9
        <5>5. CASE x # d
          BY <5>5, <5>1, <5>2, <5>3, <4>1, <1>9, <1>19
        <5> QED
          BY <5>4, <5>5
      <4> QED
        BY <4>3, <4>4, <4>5, <2>4
    <3>6. Heard(task[c], n)'
      <4>1. Heard(t, n)
        BY <3>2, <2>4 DEF Told
      <4>2. ASSUME NEW x \in is_registered \cap watches
            PROVE  \/ belief'[x][n] \in {Unknown, e.new_owner}
                   \/ t.stage = "visit" /\ x \in t.visit
        <5>1. x \in UniqueNames /\ (belief'[x][n] = e.new_owner \/ belief'[x][n] = belief[x][n])
          BY <1>8, <1>19
        <5>2. x = d /\ t.stage = "visit" => belief'[x][n] = e.new_owner
          BY <5>1, <2>4, <1>8
        <5>3. \/ belief[x][n] \in {Unknown, e.new_owner}
              \/ t.stage = "visit" /\ x \in t.visit \cup {d}
          BY <4>1 DEF Heard
        <5> QED
          BY <5>1, <5>2, <5>3
      <4> HIDE DEF Unknown
      <4> QED
        BY <4>2, <1>1, <1>10, <1>11 DEF Heard
    <3>7. Told(task[c], 1, n)'
      BY <3>2, <3>5, <3>6, <1>1, <1>10, <1>11, <1>13 DEF Told
    <3> QED
      BY <2>1, <2>2, <3>3, <3>4, <3>7, <1>18 DEF NameOK
  <2> QED
    BY <2>3, <2>4
<1> QED
  BY <1>1, <1>13, <1>14, <1>15, <1>16, <1>17, <1>20 DEF SignalsInv, TasksOK, NamesOK

-----------------------------------------------------------------------------
(* A call is taken up *)

\* An owner is registered, before and after a step.
LEMMA OwnersLive ==
    ASSUME NEW n \in Names
    PROVE  /\ IInv => get_name_owner(n) \in is_registered \cup {None}
           /\ IInv' => get_name_owner(n)' \in is_registered' \cup {None}
<1>1. ASSUME NEW q, NEW L, GoodQueue(q, L) PROVE First(q) \in L
  BY <1>1 DEF GoodQueue, First
<1>2. First(<< >>) = None
  BY DEF First
<1>3. ASSUME IInv PROVE First(Queue(n)) \in is_registered \cup {None}
  BY <1>1, <1>2, <1>3 DEF IInv, Queue
<1>4. ASSUME IInv' PROVE First(Queue(n)') \in is_registered' \cup {None}
  BY <1>1, <1>2, <1>4 DEF IInv, Queue
<1> QED
  BY <1>3, <1>4, OwnerIsFirst

\* The task goes on with all the events of the registry's step, and nothing else.
LEMMA CarryOnKeeps ==
    ASSUME SignalsInv, NEW c \in UniqueNames, CanTakeUp(c), IInv', LimitInv', RegistryStep(c),
           CarryOn(c), UNCHANGED <<watches, mine, belief>>
    PROVE  SignalsInv'
<1> DEFINE a == IF reply'.code = "primary_owner" \/ reply' = NoReply
                THEN reply' ELSE OtherAnswer(c)
<1>1. running = None /\ task[c] = Idle
  BY DEF CanTakeUp
<1>2. PICK s \in Orders(changes') :
         task' = [task EXCEPT ![c] = [stage |-> "next", todo |-> s, visit |-> {},
                                      target |-> None, answer |-> a]]
  BY DEF CarryOn
<1>3. /\ running' = c
      /\ raced' = raced \cup {n \in Names : Announcing(n) /\ \E e \in changes' : e.name = n}
  BY DEF CarryOn
<1>4. Lists(s, changes') /\ changes' \subseteq NameOwnerChange
  BY OrdersFacts DEF RegistryStep
<1>5. /\ s \in Seq(NameOwnerChange) /\ Len(s) \in Nat
      /\ \A i \in 1 .. Len(s) : s[i] \in changes'
  <2>1. s \in Seq(changes')
    BY <1>4 DEF Lists
  <2> QED
    BY <2>1, <1>4
<1>6. a \in Reply /\ (a.code = "primary_owner" => a = reply')
  <2>1. OtherAnswer(c) \in Reply /\ OtherAnswer(c).code = "none"
    BY DEF OtherAnswer, Answer, Reply
  <2>2. reply' \in Reply
    BY DEF RegistryStep
  <2> HIDE DEF OtherAnswer
  <2> QED
    BY <2>1, <2>2
<1> HIDE DEF a
<1> DEFINE u == [stage |-> "next", todo |-> s, visit |-> {}, target |-> None, answer |-> a]
<1>7. Parts(u, "next", s, {}, None, a)
  BY <1>5, <1>6 DEF Parts, AnyTask, Stages
<1>8. task' = [task EXCEPT ![c] = u]
  BY <1>2
<1> HIDE DEF u
<1>9. u \in AnyTask /\ u.stage = "next" /\ u.todo = s /\ u.target = None /\ u.answer = a
  BY <1>7 DEF Parts
<1>10. /\ task'[c] = u /\ \A d \in UniqueNames : d # c => task'[d] = task[d]
       /\ task' \in [UniqueNames -> AnyTask]
  BY <1>8, <1>9, OneTask DEF SignalsInv
<1>11. SignalsTypes'
  BY <1>3, <1>10 DEF SignalsInv, SignalsTypes
<1>12. ThreadOK'
  <2>1. None \notin UniqueNames
    BY DEF None, UniqueNames
  <2> QED
    BY <1>1, <1>3, <1>9, <1>10, <2>1 DEF SignalsInv, TasksOK, ThreadOK
<1>13. raced \subseteq raced' /\ \A d \in is_registered : d # c => d \in is_registered'
  BY <1>3 DEF RegistryStep
<1>14. ASSUME NEW d \in UniqueNames PROVE Placed(task[d])' /\ Answering(d, task[d])'
  <2>1. Placed(task[d]) /\ Answering(d, task[d])
    BY DEF SignalsInv, TasksOK
  <2>2. CASE d # c
    BY <2>1, <2>2, <1>10, <1>13 DEF Placed, Answering
  <2>3. CASE d = c
    <3>1. Placed(u)
      BY <1>9 DEF Placed
    <3>2. ASSUME a.code = "primary_owner"
          PROVE  /\ c \in is_registered' /\ a.name \in Names
                 /\ Len(s) = 1 /\ s[1].name = a.name /\ s[1].new_owner = c
      <4>1. c \in is_registered' /\ a.name \in Names
        BY <3>2, <1>6 DEF RegistryStep
      <4>2. PICK old : changes' = {Change(a.name, old, c)}
        BY <3>2, <1>6 DEF RegistryStep
      <4>3. PICK i \in 1 .. Len(s) : s[i] = Change(a.name, old, c)
        BY <4>2, <1>4 DEF Lists
      <4>4. \A j \in 1 .. Len(s) : s[j] = s[i]
        BY <4>2, <4>3, <1>5
      <4>5. \A j \in 1 .. Len(s) : j = i
        BY <4>4, <1>4 DEF Lists
      <4>6. Len(s) = 1
        <5>1. 1 \in 1 .. Len(s) /\ Len(s) \in 1 .. Len(s)
          BY <1>5
        <5> QED
          BY <5>1, <4>5
      <4>7. s[1] = Change(a.name, old, c)
        BY <4>3, <4>6
      <4> QED
        BY <4>1, <4>6, <4>7 DEF Change
    <3> QED
      BY <2>3, <3>1, <3>2, <1>9, <1>10 DEF Placed, Answering
  <2> QED
    BY <2>2, <2>3
<1>15. /\ is_registered \subseteq connections /\ connections \subseteq UniqueNames
       /\ is_registered' \subseteq connections' /\ None \notin UniqueNames
       /\ next_id \in Nat /\ \A d \in UniqueNames : d \in Nat
  BY BoundsAssumption DEF SignalsInv, IInv, TypeOK, None, UniqueNames
<1>16. \A d \in UniqueNames : Fresh(d)' => Fresh(d)
  BY DEF Fresh, RegistryStep
<1>17. ASSUME NEW d \in UniqueNames, Fresh(d)'
       PROVE  d \notin is_registered \cup {None} /\ d \notin is_registered' \cup {None}
  <2>1. Fresh(d)
    BY <1>16, <1>17
  <2>2. d \notin is_registered
    BY <2>1, <1>15 DEF SignalsInv, FreshOK, Fresh
  <2>3. connections' \subseteq connections /\ next_id' = next_id
    BY DEF RegistryStep
  <2>4. d \notin is_registered'
    BY <1>15, <1>17, <2>3 DEF SignalsInv, FreshOK, Fresh
  <2> QED
    BY <2>2, <2>4, <1>15
<1>18. ASSUME NEW n \in Names, NEW i \in 1 .. Len(s), s[i].name = n
       PROVE  /\ s[i] = Change(n, get_name_owner(n), get_name_owner(n)')
              /\ get_name_owner(n)' # get_name_owner(n)
  <2>1. Announced(changes', n, get_name_owner(n), get_name_owner(n)')
    BY DEF RegistryStep
  <2>2. s[i] \in {e \in changes' : e.name = n}
    BY <1>5, <1>18
  <2> QED
    BY <2>1, <2>2 DEF Announced
<1>19. ASSUME NEW n \in Names
       PROVE  /\ get_name_owner(n) \in is_registered \cup {None}
              /\ get_name_owner(n)' \in is_registered' \cup {None}
  BY OwnersLive DEF SignalsInv
<1>20. FreshOK'
  <2>1. \A d \in connections' : d < next_id'
    BY DEF SignalsInv, FreshOK, RegistryStep
  <2>2. ASSUME NEW d \in UniqueNames, Fresh(d)', NEW x \in UniqueNames,
               NEW i \in 1 .. Len(task'[x].todo), task'[x].todo[i].name \in Names
        PROVE  d \notin {task'[x].todo[i].new_owner, task'[x].todo[i].old_owner}
    <3>1. CASE x # c
      BY <2>2, <3>1, <1>10, <1>16 DEF SignalsInv, FreshOK
    <3>2. CASE x = c
      <4> DEFINE n == s[i].name
      <4>1. i \in 1 .. Len(s) /\ n \in Names /\ task'[x].todo[i] = s[i]
        BY <2>2, <3>2, <1>9, <1>10
      <4>2. s[i] = Change(n, get_name_owner(n), get_name_owner(n)')
        BY <4>1, <1>18
      <4>3. s[i].old_owner = get_name_owner(n) /\ s[i].new_owner = get_name_owner(n)'
        BY <4>2 DEF Change
      <4> QED
        BY <4>1, <4>3, <1>17, <1>19, <2>2
    <3> QED
      BY <3>1, <3>2
  <2>3. \A d \in UniqueNames : Fresh(d)' => mine'[d] = {} /\ d \notin watches'
    BY <1>16 DEF SignalsInv, FreshOK
  <2> QED
    BY <2>1, <2>2, <2>3 DEF FreshOK
<1>21. \A n : \A d \in UniqueNames, i \in Nat : d # c => (Item(d, i, n)' <=> Item(d, i, n))
  BY <1>10 DEF Item
<1>22. \A n : \A i \in Nat :
          /\ ~ Item(c, i, n)
          /\ Item(c, i, n)' <=> i \in 1 .. Len(s) /\ s[i].name = n
  BY <1>1, <1>9, <1>10, IdleFacts DEF Item
<1>23. ASSUME NEW n \in Names \ raced'
       PROVE  NameOK(n)'
  <2>1. NameOK(n) /\ n \in Names
    BY <1>13 DEF SignalsInv, NamesOK
  <2>2. Announced(changes', n, get_name_owner(n), get_name_owner(n)')
    BY DEF RegistryStep
  <2>3. CASE get_name_owner(n)' = get_name_owner(n)
    <3>1. \A d \in UniqueNames, i \in Nat : Item(d, i, n)' <=> Item(d, i, n)
      BY <2>1, <2>3, <1>18, <1>21, <1>22
    <3>2. Announcing(n)' <=> Announcing(n)
      BY <3>1, AnnouncingItem
    <3>3. \A d \in is_registered' : d \in is_registered \/ (d = c /\ Fresh(c))
      BY DEF RegistryStep, Fresh
    <3>4. Fresh(c) => /\ n \notin mine[c] /\ c \notin watches
                      /\ get_name_owner(n) # c
      <4>1. Fresh(c) => c \notin is_registered
        BY <1>15 DEF SignalsInv, FreshOK, Fresh
      <4> QED
        BY <4>1, <1>15, <1>19, <2>1 DEF SignalsInv, FreshOK
    <3>5. ViewsAreRight(n) => ViewsAreRight(n)'
      BY <2>3, <3>3, <3>4 DEF ViewsAreRight
    <3>6. ASSUME NEW d \in UniqueNames, NEW i \in Nat, Item(d, i, n)
          PROVE  Told(task[d], i, n)'
      <4>1. Told(task[d], i, n) /\ d # c
        BY <2>1, <3>6, <1>22 DEF NameOK
      <4>2. task'[d] = task[d]
        BY <4>1, <1>10
      <4>3. Heard(task[d], n) => Heard(task[d], n)'
        BY <4>2, <3>3, <3>4 DEF Heard
      <4>4. Fresh(c) => c \notin Claimants(task[d], i)
        <5>1. Fresh(c) => c \notin {task[d].todo[i].new_owner, task[d].todo[i].old_owner}
          BY <2>1, <3>6 DEF SignalsInv, FreshOK, Item
        <5> QED
          BY <5>1 DEF Claimants
      <4>5. \A x \in is_registered' : n \in mine[x] <=> x \in Claimants(task[d], i)
        BY <4>1, <4>4, <3>3, <3>4 DEF Told
      <4> QED
        BY <4>1, <4>2, <4>3, <4>5, <2>3 DEF Told
    <3> QED
      BY <2>1, <3>1, <3>2, <3>5, <3>6 DEF NameOK
  <2>4. CASE get_name_owner(n)' # get_name_owner(n)
    <3> DEFINE e == Change(n, get_name_owner(n), get_name_owner(n)')
    <3>1. e \in changes' /\ e.name = n
      BY <2>2, <2>4 DEF Announced
    <3>2. ~ Announcing(n)
      BY <3>1, <2>1, <1>3
    <3>3. ViewsAreRight(n)
      BY <3>2, <2>1 DEF NameOK
    <3>4. \A d \in UniqueNames, i \in Nat : ~ Item(d, i, n)
      BY <3>2, AnnouncingItem
    <3>5. \A d \in UniqueNames, i \in Nat : Item(d, i, n)' => d = c /\ i \in 1 .. Len(s) /\ s[i] = e
      BY <3>4, <2>1, <1>18, <1>21, <1>22
    <3>6. Announcing(n)'
      <4>1. PICK i \in 1 .. Len(s) : s[i] = e
        BY <3>1, <1>4 DEF Lists
      <4>2. i \in Nat /\ Item(c, i, n)'
        BY <4>1, <3>1, <1>22
      <4> QED
        BY <4>2, AnnouncingItem
    <3>7. is_registered' \subseteq is_registered
      <4>1. ~ UNCHANGED names
        BY <2>4, <2>1, OwnerIsFirst DEF Queue
      <4> QED
        BY <4>1 DEF RegistryStep
    <3>8. ASSUME NEW i \in Nat, Item(c, i, n)'
          PROVE  Told(task[c], i, n)'
      <4>1. i \in 1 .. Len(s) /\ s[i] = e
        BY <3>5, <3>8
      <4>2. s[i].new_owner = get_name_owner(n)' /\ s[i].old_owner = get_name_owner(n)
        BY <4>1 DEF Change
      <4> HIDE DEF e
      <4>3. Claimants(u, i) = {get_name_owner(n)}
        BY <4>2, <1>9 DEF Claimants
      <4>4. \A d \in is_registered' : n \in mine[d] <=> d \in {get_name_owner(n)}
        BY <3>3, <3>7 DEF ViewsAreRight
      <4> QED
        BY <4>2, <4>3, <4>4, <2>4, <1>9, <1>10 DEF Told
    <3> HIDE DEF e
    <3>9. \A x, y \in UniqueNames, i, j \in Nat : Item(x, i, n)' /\ Item(y, j, n)' => x = y /\ i = j
      BY <3>5, <1>4 DEF Lists
    <3> QED
      BY <3>5, <3>6, <3>8, <3>9 DEF NameOK
  <2> QED
    BY <2>3, <2>4
<1> QED
  BY <1>11, <1>12, <1>14, <1>20, <1>23 DEF SignalsInv, TasksOK, NamesOK

-----------------------------------------------------------------------------
(* Every step *)

\* Nobody is connected, nothing is to be announced.
LEMMA SignalsInitEstablishes == SignalsInit => SignalsInv
<1> SUFFICES ASSUME SignalsInit PROVE SignalsInv
  OBVIOUS
<1>1. Init /\ running = None /\ task = [c \in UniqueNames |-> Idle] /\ watches = {}
      /\ mine = [c \in UniqueNames |-> {}]
      /\ belief = [c \in UniqueNames |-> [n \in Names |-> Unknown]] /\ raced = {}
  BY DEF SignalsInit
<1>2. IInv /\ LimitInv
  BY <1>1, InitKeeps, InitWithinLimit
<1>3. SignalsTypes
  <2>1. Unknown \in 0 .. MaxId + 1
    BY BoundsAssumption DEF Unknown
  <2> HIDE DEF Unknown
  <2> QED
    BY <1>1, <2>1, IdleFacts DEF SignalsTypes
<1>4. \A c \in UniqueNames : task[c] = Idle
  BY <1>1
<1>5. TasksOK
  <2>1. None \notin UniqueNames
    BY DEF None, UniqueNames
  <2> QED
    BY <1>1, <1>4, <2>1, IdleFacts DEF TasksOK, ThreadOK, Placed, Answering
<1>6. connections = {} /\ is_registered = {} /\ names = [n \in {} |-> << >>]
  BY <1>1 DEF Init
<1>7. FreshOK
  BY <1>1, <1>4, <1>6, IdleFacts DEF FreshOK
<1>8. \A n : \A c \in UniqueNames, i \in Nat : ~ Item(c, i, n)
  BY <1>4, IdleFacts DEF Item
<1>9. NamesOK
  BY <1>6, <1>8 DEF NamesOK, NameOK, ViewsAreRight
<1> QED
  BY <1>2, <1>3, <1>5, <1>7, <1>9 DEF SignalsInv

\* The invariant is of these variables only.
LEMMA SignalsStutter ==
    ASSUME SignalsInv, UNCHANGED allVars
    PROVE  SignalsInv'
<1>1. UNCHANGED <<next_id, connections, is_registered, names, reply, changes>>
      /\ UNCHANGED <<running, task, watches, mine, belief, raced>>
  BY DEF allVars
<1>2. IInv' /\ LimitInv' /\ \A n : get_name_owner(n)' = get_name_owner(n)
  BY <1>1, RegistryAlone
<1>3. SignalsTypes' /\ TasksOK'
  BY <1>1 DEF SignalsInv, SignalsTypes, TasksOK, ThreadOK, Placed, Answering
<1>4. FreshOK'
  BY <1>1 DEF SignalsInv, FreshOK, Fresh
<1>5. NamesOK'
  BY <1>1, <1>2 DEF SignalsInv, NamesOK, NameOK, Announcing, Item, Told, Heard, ViewsAreRight
<1> QED
  BY <1>2, <1>3, <1>4, <1>5 DEF SignalsInv

\* Action by action.
LEMMA SignalsNextKeeps == SignalsInv /\ [SignalsNext]_allVars => SignalsInv'
<1> SUFFICES ASSUME SignalsInv, [SignalsNext]_allVars PROVE SignalsInv'
  OBVIOUS
<1>1. CASE UNCHANGED allVars
  BY <1>1, SignalsStutter
<1>2. CASE Arrive
  BY <1>2, ArriveKeeps
<1>3. ASSUME NEW c \in UniqueNames, Serve(c) \/ Leave(c)
      PROVE  SignalsInv'
  <2>1. /\ CanTakeUp(c) /\ CarryOn(c) /\ UNCHANGED <<watches, mine, belief>>
        /\ \/ Hello(c) \/ Disconnect(c)
           \/ \E n \in Names :
                 \/ RefuseUnregistered(c, n) \/ RefuseRequest(c, n) \/ ReleaseName(c, n)
                 \/ \E flags \in Flags : RequestName(c, n, flags)
    BY <1>3 DEF Serve, Leave
  <2>2. IInv' /\ LimitInv' /\ RegistryStep(c)
    BY <2>1, CallsAreRegistrySteps DEF SignalsInv
  <2> QED
    BY <2>1, <2>2, CarryOnKeeps
<1>4. ASSUME NEW c \in UniqueNames, AddMatch(c) \/ RemoveMatch(c)
      PROVE  SignalsInv'
  BY <1>4, SetWatchKeeps DEF AddMatch, RemoveMatch
<1>5. ASSUME NEW c \in UniqueNames, StartBroadcast(c) \/ Visit(c) \/ EndBroadcast(c)
      PROVE  SignalsInv'
  BY <1>5, StartBroadcastKeeps, VisitKeeps, EndBroadcastKeeps
<1>6. ASSUME NEW c \in UniqueNames, TellLoser(c) \/ EndChange(c)
      PROVE  SignalsInv'
  BY <1>6, TellLoserKeeps, EndChangeKeeps
<1>7. ASSUME NEW c \in UniqueNames, SendReply(c) \/ Done(c) \/ Write(c)
      PROVE  SignalsInv'
  BY <1>7, SendReplyKeeps, WriteKeeps
<1> QED
  BY <1>1, <1>2, <1>3, <1>4, <1>5, <1>6, <1>7 DEF SignalsNext

\* The invariant holds throughout.
LEMMA SignalsInvariant == SignalsSpec => []SignalsInv
  BY SignalsInitEstablishes, SignalsNextKeeps, PTL DEF SignalsSpec

-----------------------------------------------------------------------------
(* The properties *)

\* Every variable keeps its type; the one thread (main.rs) belongs to a task with work to
\* do that awaits nothing.
THEOREM SignalsTypeCorrect == SignalsSpec => []SignalsTypeOK
<1>1. SignalsInv => SignalsTypeOK
  <2> SUFFICES ASSUME SignalsInv PROVE SignalsTypeOK
    OBVIOUS
  <2>1. TypeOK /\ SignalsTypes /\ ThreadOK
    BY DEF SignalsInv, IInv, TasksOK
  <2>2. ASSUME NEW c \in UniqueNames
        PROVE  /\ task[c].stage \in Stages
               /\ task[c].visit \subseteq UniqueNames
               /\ task[c].target \in UniqueNames \cup {None}
               /\ task[c].answer \in Reply
               /\ \A i \in 1 .. Len(task[c].todo) : task[c].todo[i] \in NameOwnerChange
    <3>1. task[c] \in AnyTask
      BY <2>1 DEF SignalsTypes
    <3>2. task[c].todo \in Seq(NameOwnerChange)
      BY <3>1, TaskForms
    <3> QED
      BY <3>1, <3>2 DEF AnyTask
  <2>3. running # None => task[running].stage # "idle" /\ task[running].target = None
    BY <2>1 DEF SignalsTypes, ThreadOK
  <2> QED
    BY <2>1, <2>2, <2>3 DEF SignalsTypeOK, SignalsTypes
<1> QED
  BY <1>1, SignalsInvariant, PTL

\* Once nothing about a name is left to announce, everyone has it right, unless two changes
\* of the name were under way at a time: broadcast_signal's snapshot, the writes it awaits
\* and the calls served in between make no client miss the last change.
THEOREM ViewsSettleUnraced == SignalsSpec => []UnracedViewsSettle
<1>1. SignalsInv => UnracedViewsSettle
  BY DEF SignalsInv, NamesOK, NameOK, UnracedViewsSettle
<1> QED
  BY <1>1, SignalsInvariant, PTL

\* finish_driver_reply announces before it answers: when PRIMARY_OWNER is about to be
\* written, NameAcquired has been, unless another task changed the owner meanwhile.
THEOREM SignalsBeforeReply == SignalsSpec => ReplyFollowsSignals
<1>1. ASSUME SignalsInv, [SignalsNext]_allVars, NEW c \in UniqueNames,
             task[c].stage = "next", task'[c].stage = "reply",
             task[c].answer.code = "primary_owner"
      PROVE  task[c].answer.name \in mine[c] \/ task[c].answer.name \in raced
  <2>1. task \in [UniqueNames -> AnyTask] /\ task[c] \in AnyTask
    BY <1>1 DEF SignalsInv, SignalsTypes
  <2>2. task[c].todo = << >>
    <3> SUFFICES ASSUME task[c].todo # << >> PROVE FALSE
      OBVIOUS
    <3>1. SignalsNext
      BY <1>1 DEF allVars
    <3>2. ~ Arrive
      BY <1>1 DEF Arrive, taskVars
    <3>3. PICK d \in UniqueNames :
             \/ Serve(d) \/ AddMatch(d) \/ RemoveMatch(d) \/ Leave(d) \/ StartBroadcast(d)
             \/ Visit(d) \/ EndBroadcast(d) \/ TellLoser(d) \/ EndChange(d) \/ SendReply(d)
             \/ Done(d) \/ Write(d)
      BY <3>1, <3>2 DEF SignalsNext
    <3>4. \E t : task' = [task EXCEPT ![d] = t]
      <4>1. CASE Serve(d) \/ Leave(d)
        BY <4>1 DEF Serve, Leave, CarryOn
      <4>2. CASE AddMatch(d) \/ RemoveMatch(d)
        BY <4>2 DEF AddMatch, RemoveMatch, SetWatch
      <4>3. CASE StartBroadcast(d) \/ Visit(d) \/ EndBroadcast(d)
        BY <4>3 DEF StartBroadcast, Visit, EndBroadcast, GoOn, Await
      <4>4. CASE TellLoser(d) \/ EndChange(d) \/ SendReply(d) \/ Done(d)
        BY <4>4 DEF TellLoser, EndChange, SendReply, Done, GoOn, Await
      <4>5. CASE Write(d)
        BY <4>5 DEF Write
      <4> QED
        BY <3>3, <4>1, <4>2, <4>3, <4>4, <4>5
    <3>5. d = c
      BY <3>4, <2>1, <1>1
    <3>6. ~ CanTakeUp(c) /\ task[c].target = None
      BY <1>1, IdleFacts DEF CanTakeUp, SignalsInv, TasksOK, Placed
    <3>7. StartBroadcast(c)
      BY <3>3, <3>5, <3>6, <1>1 DEF Serve, AddMatch, RemoveMatch, SetWatch, Leave, Visit,
         EndBroadcast, TellLoser, EndChange, SendReply, Done, Write, Stage
    <3> DEFINE v == [task[c] EXCEPT !.stage = "visit", !.visit = connections]
    <3>8. task' = [task EXCEPT ![c] = v]
      BY <3>7 DEF StartBroadcast, GoOn
    <3>9. connections \subseteq UniqueNames
      BY <1>1 DEF SignalsInv, IInv, TypeOK
    <3>10. Parts(v, "visit", task[c].todo, connections, task[c].target, task[c].answer)
      BY <2>1, <3>9, TaskForms, Zenon DEF Stages
    <3> HIDE DEF v
    <3>11. v.stage = "visit"
      BY <3>10 DEF Parts
    <3> QED
      BY <3>8, <3>11, <2>1, <1>1
  <2>3. Answering(c, task[c])
    BY <1>1 DEF SignalsInv, TasksOK
  <2> QED
    BY <2>2, <2>3, <1>1 DEF Answering
<1>2. SignalsInv /\ [SignalsNext]_allVars =>
         [\A c \in UniqueNames :
             LET a == task[c].answer
             IN  (task[c].stage = "next" /\ task'[c].stage = "reply"
                    /\ a.code = "primary_owner") =>
                    \/ a.name \in mine[c]
                    \/ a.name \in raced]_allVars
  BY <1>1
<1> QED
  BY <1>2, SignalsInvariant, PTL DEF SignalsSpec, ReplyFollowsSignals
=============================================================================
