---------------------------- MODULE KeyringProofs ----------------------------
(***************************************************************************)
(* Proofs about the cookie keyring: for every number of handshakes and of  *)
(* processes, every choice of ids and timeouts, the key file is never torn *)
(* and prompt handshakes succeed unless a save undid another.              *)
(***************************************************************************)
EXTENDS Keyring, WellFoundedInduction, FiniteSetTheorems, TLAPS

-----------------------------------------------------------------------------
(* The inductive invariant *)

Pcs == {"load", "memory", "wait", "reread", "add", "save", "write", "rename",
        "challenged", "answered", "accepted", "refused", "failed", "crashed"}

Holds(ks, k) == \E i \in DOMAIN ks : ks[i] = k

Young(k) == now - k.created < EXPIRE_KEYS_TIMEOUT

\* The variables that every handshake has one of are functions on them.
PerHandshake ==
    /\ pc = [h \in Handshakes |-> pc[h]] /\ keys = [h \in Handshakes |-> keys[h]]
    /\ key = [h \in Handshakes |-> key[h]] /\ since = [h \in Handshakes |-> since[h]]
    /\ basis = [h \in Handshakes |-> basis[h]]

\* The file is whole and has every id once.
Shape ==
    /\ now \in 0 .. MaxTime /\ raced \in BOOLEAN
    /\ PerHandshake
    /\ DOMAIN tmp = Processes
    /\ file = Whole(file.keys) /\ file.keys \in Seq(Key) /\ DifferentIds(file.keys)

\* One handshake at most is saving, and what it renames is what it wrote.
Saving ==
    /\ lock = {h \in Handshakes : pc[h] \in {"write", "rename"}}
    /\ \A g, h \in lock : g = h
    /\ \A h \in Handshakes : pc[h] = "rename" => tmp[process[h]] = Whole(keys[h])

TypeAt(h) ==
    /\ pc[h] \in Pcs /\ since[h] \in Int
    /\ keys[h] \in Seq(Key) /\ basis[h] \in Seq(Key) /\ DifferentIds(keys[h])

\* A handshake about to save holds its new key and what is young of the file it
\* read.
AddingAt(h) ==
    /\ pc[h] = "add" => basis[h] = keys[h]
    /\ pc[h] \in {"save", "write", "rename"} =>
          /\ Holds(keys[h], key[h])
          /\ \A i \in DOMAIN basis[h] : Young(basis[h][i]) => Holds(keys[h], basis[h][i])

\* A key was recent when it was handed out.
HandedOutAt(h) ==
    pc[h] \in {"save", "write", "rename", "challenged", "answered"} =>
        /\ key[h] \in Key
        /\ since[h] <= now
        /\ since[h] - key[h].created < NEW_KEY_TIMEOUT

\* The young keys that a handshake remembers are in the file, and in the file
\* its client read, unless a save undid another.
StillThereAt(h) ==
    /\ pc[h] = "memory" =>
          \A i \in DOMAIN keys[h] :
             Young(keys[h][i]) => raced \/ Holds(file.keys, keys[h][i])
    /\ pc[h] \in {"challenged", "answered"} /\ Young(key[h]) =>
          raced \/ Holds(file.keys, key[h])
    /\ pc[h] = "answered" /\ Young(key[h]) => raced \/ Holds(keys[h], key[h])

PromptAt(h) ==
    pc[h] = "refused" => raced \/ now - since[h] > EXPIRE_KEYS_TIMEOUT - NEW_KEY_TIMEOUT

Local(h) == TypeAt(h) /\ AddingAt(h) /\ HandedOutAt(h) /\ StillThereAt(h) /\ PromptAt(h)

KInv == Shape /\ Saving /\ \A h \in Handshakes : Local(h)

-----------------------------------------------------------------------------
(* Lists of keys *)

\* The least-number principle for a set of numbers.
LEMMA LeastNat ==
    ASSUME NEW S, S \subseteq Nat, S # {}
    PROVE  \E m \in S : \A k \in S : m <= k
<1>1. PICK m \in S : \A k \in S : ~ (<<k, m>> \in OpToRel(<, Nat))
  BY WFMin, NatLessThanWellFounded
<1>2. \A k \in S : ~ (k < m)
  BY <1>1 DEF OpToRel
<1> QED
  BY <1>2

\* The table of Retain's recursion for the first n keys.
IsKept(f, ks, age, n) ==
    f = [i \in 0 .. n |->
            IF i = 0 THEN <<>>
            ELSE IF now - ks[i].created < age THEN Append(f[i - 1], ks[i])
            ELSE f[i - 1]]

\* There is such a table for every n: the least n without one is not 0, and the
\* table for n - 1 extends to one for n.
LEMMA KeptExists ==
    ASSUME NEW ks, NEW age, NEW n \in Nat
    PROVE  \E f : IsKept(f, ks, age, n)
<1> DEFINE Bad == {m \in Nat : ~ \E f : IsKept(f, ks, age, m)}
<1>1. SUFFICES ASSUME Bad # {} PROVE FALSE
  OBVIOUS
<1>2. PICK m \in Bad : \A k \in Bad : m <= k
  <2>1. Bad \subseteq Nat
    OBVIOUS
  <2> HIDE DEF Bad
  <2> QED
    BY <1>1, <2>1, LeastNat
<1>3. m # 0
  <2>1. IsKept([i \in 0 .. 0 |-> <<>>], ks, age, 0)
    BY DEF IsKept
  <2> QED
    BY <2>1
<1>4. PICK g : IsKept(g, ks, age, m - 1)
  BY <1>2, <1>3
<1> DEFINE f == [i \in 0 .. m |->
                    IF i = m THEN IF now - ks[m].created < age
                                  THEN Append(g[m - 1], ks[m])
                                  ELSE g[m - 1]
                    ELSE g[i]]
<1>5. IsKept(f, ks, age, m)
  <2>1. \A i \in 0 .. m - 1 :
           g[i] = IF i = 0 THEN <<>>
                  ELSE IF now - ks[i].created < age THEN Append(g[i - 1], ks[i])
                  ELSE g[i - 1]
    BY <1>4, <1>2, <1>3 DEF IsKept
  <2>2. \A i \in 0 .. m :
           f[i] = IF i = 0 THEN <<>>
                  ELSE IF now - ks[i].created < age THEN Append(f[i - 1], ks[i])
                  ELSE f[i - 1]
    BY <2>1, <1>2, <1>3
  <2> QED
    BY <2>2 DEF IsKept
<1> QED
  BY <1>2, <1>5

\* What is left of the first n keys: some of them, all that are younger than
\* age, and no id twice.
KeptFacts(r, ks, age, n) ==
    /\ r \in Seq(Key)
    /\ \A j \in 1 .. Len(r) : \E i \in 1 .. n : r[j] = ks[i]
    /\ \A i \in 1 .. n : now - ks[i].created < age => \E j \in 1 .. Len(r) : r[j] = ks[i]
    /\ \A i, j \in 1 .. Len(r) : r[i].id = r[j].id => i = j

\* One turn of the recursion.
LEMMA KeptStep ==
    ASSUME NEW ks \in Seq(Key), DifferentIds(ks), NEW age, NEW n \in 1 .. Len(ks),
           NEW s, KeptFacts(s, ks, age, n - 1)
    PROVE  KeptFacts(IF now - ks[n].created < age THEN Append(s, ks[n]) ELSE s,
                     ks, age, n)
<1>1. /\ ks[n] \in Key /\ n \in Nat /\ n >= 1 /\ Len(ks) \in Nat
      /\ s \in Seq(Key) /\ Len(s) \in Nat
  BY DEF KeptFacts
<1>2. \A j \in 1 .. Len(s) : \E i \in 1 .. n - 1 : s[j] = ks[i]
  BY DEF KeptFacts
<1>3. \A i \in 1 .. n - 1 :
         now - ks[i].created < age => \E j \in 1 .. Len(s) : s[j] = ks[i]
  BY DEF KeptFacts
<1>4. \A i, j \in 1 .. Len(s) : s[i].id = s[j].id => i = j
  BY DEF KeptFacts
<1>5. \A i, j \in 1 .. Len(ks) : ks[i].id = ks[j].id => i = j
  BY DEF DifferentIds
<1>6. CASE ~ (now - ks[n].created < age)
  <2>1. \A j \in 1 .. Len(s) : \E i \in 1 .. n : s[j] = ks[i]
    BY <1>1, <1>2
  <2>2. \A i \in 1 .. n :
           now - ks[i].created < age => \E j \in 1 .. Len(s) : s[j] = ks[i]
    BY <1>1, <1>3, <1>6
  <2>3. KeptFacts(s, ks, age, n)
    BY <2>1, <2>2, <1>1, <1>4 DEF KeptFacts
  <2> QED
    BY <2>3, <1>6
<1>7. CASE now - ks[n].created < age
  <2> DEFINE r == Append(s, ks[n])
  <2>1. /\ r \in Seq(Key)
        /\ Len(r) = Len(s) + 1
        /\ r[Len(s) + 1] = ks[n]
        /\ \A j \in 1 .. Len(s) : r[j] = s[j]
    BY <1>1
  <2> HIDE DEF r
  <2>2. ASSUME NEW j \in 1 .. Len(r) PROVE \E i \in 1 .. n : r[j] = ks[i]
    <3>1. CASE j = Len(s) + 1
      BY <3>1, <2>1, <1>1
    <3>2. CASE j # Len(s) + 1
      <4>1. j \in 1 .. Len(s)
        BY <3>2, <2>1, <1>1
      <4>2. PICK l \in 1 .. n - 1 : s[j] = ks[l]
        BY <4>1, <1>2
      <4>3. l \in 1 .. n
        BY <1>1
      <4> QED
        BY <4>1, <4>2, <4>3, <2>1
    <3> QED
      BY <3>1, <3>2
  <2>3. ASSUME NEW i \in 1 .. n, now - ks[i].created < age
        PROVE  \E j \in 1 .. Len(r) : r[j] = ks[i]
    <3>1. CASE i = n
      BY <3>1, <2>1, <1>1
    <3>2. CASE i # n
      <4>1. PICK j \in 1 .. Len(s) : s[j] = ks[i]
        BY <3>2, <2>3, <1>1, <1>3
      <4>2. j \in 1 .. Len(r)
        BY <2>1, <1>1
      <4>3. r[j] = ks[i]
        BY <4>1, <2>1
      <4> QED
        BY <4>2, <4>3
    <3> QED
      BY <3>1, <3>2
  <2>4. ASSUME NEW i \in 1 .. Len(r), NEW j \in 1 .. Len(r), r[i].id = r[j].id
        PROVE  i = j
    <3>1. \A k \in 1 .. Len(s) : s[k].id # ks[n].id
      <4> SUFFICES ASSUME NEW k \in 1 .. Len(s), s[k].id = ks[n].id
                   PROVE  FALSE
        OBVIOUS
      <4>1. PICK l \in 1 .. n - 1 : s[k] = ks[l]
        BY <1>2
      <4>2. l \in 1 .. Len(ks) /\ n \in 1 .. Len(ks) /\ l # n
        BY <1>1
      <4> QED
        BY <4>1, <4>2, <1>5
    <3> QED
      BY <3>1, <2>1, <2>4, <1>1, <1>4, SMTT(30)
  <2>5. KeptFacts(r, ks, age, n)
    BY <2>1, <2>2, <2>3, <2>4 DEF KeptFacts
  <2> QED
    BY <2>5, <1>7 DEF r
<1> QED
  BY <1>6, <1>7

\* Retain keeps what is younger than age, and no id twice.
LEMMA RetainFacts ==
    ASSUME NEW ks \in Seq(Key), DifferentIds(ks), NEW age
    PROVE  KeptFacts(Retain(ks, age), ks, age, Len(ks))
<1> DEFINE N == Len(ks)
           kept == CHOOSE f : IsKept(f, ks, age, N)
<1>0. N \in Nat
  OBVIOUS
<1>1. IsKept(kept, ks, age, N)
  BY <1>0, KeptExists
<1>2. Retain(ks, age) = kept[N]
  <2>1. Retain(ks, age) =
          (CHOOSE f : f = [i \in 0 .. Len(ks) |->
                              IF i = 0 THEN <<>>
                              ELSE IF now - ks[i].created < age
                                   THEN Append(f[i - 1], ks[i])
                              ELSE f[i - 1]])[Len(ks)]
    BY Zenon DEF Retain
  <2> QED
    BY <2>1, Zenon DEF IsKept
<1>3. \A i \in 0 .. N :
         kept[i] = IF i = 0 THEN <<>>
                   ELSE IF now - ks[i].created < age THEN Append(kept[i - 1], ks[i])
                   ELSE kept[i - 1]
  BY <1>1, Zenon DEF IsKept
<1> HIDE DEF kept
<1> DEFINE Bad == {m \in 0 .. N : ~ KeptFacts(kept[m], ks, age, m)}
<1>4. SUFFICES ASSUME Bad # {} PROVE FALSE
  BY <1>0, <1>2
<1>5. PICK m \in Bad : \A k \in Bad : m <= k
  <2>1. Bad \subseteq Nat
    BY <1>0
  <2> HIDE DEF Bad
  <2> QED
    BY <1>4, <2>1, LeastNat
<1>6. m # 0
  <2>1. kept[0] = <<>>
    BY <1>3, <1>0
  <2>2. KeptFacts(<<>>, ks, age, 0)
    BY DEF KeptFacts
  <2> QED
    BY <2>1, <2>2
<1>7. KeptFacts(kept[m - 1], ks, age, m - 1)
  BY <1>5, <1>6, <1>0
<1>8. KeptFacts(kept[m], ks, age, m)
  BY <1>7, <1>6, <1>5, <1>3, <1>0, KeptStep
<1> QED
  BY <1>8

\* A key that is found is in the list and recent.
LEMMA FoundIsRecent ==
    ASSUME NEW ks \in Seq(Key), NEW k \in find_recent(ks)
    PROVE  k \in Key /\ Holds(ks, k) /\ now - k.created < NEW_KEY_TIMEOUT
<1>1. PICK i \in DOMAIN ks : ks[i] = k /\ now - ks[i].created < NEW_KEY_TIMEOUT
  BY DEF find_recent
<1> QED
  BY <1>1 DEF Holds

\* In a list with different ids a key is found by its id.
LEMMA HexKeyIsSecret ==
    ASSUME NEW ks \in Seq(Key), DifferentIds(ks), NEW k, Holds(ks, k)
    PROVE  hex_key(ks, k.id) = {k.secret}
<1>1. PICK i \in DOMAIN ks : ks[i] = k
  BY DEF Holds
<1>2. DOMAIN ks = 1 .. Len(ks) /\ Len(ks) \in Nat
  OBVIOUS
<1>3. \A j \in DOMAIN ks : ks[j].id = k.id <=> j = i
  BY <1>1 DEF DifferentIds
<1>4. \A j \in 1 .. i - 1 : ks[j].id # k.id
  BY <1>1, <1>2, <1>3
<1>5. {j \in DOMAIN ks : ks[j].id = k.id /\ \A l \in 1 .. (j - 1) : ks[l].id # k.id} = {i}
  BY <1>3, <1>4
<1> QED
  BY <1>1, <1>5 DEF hex_key

-----------------------------------------------------------------------------
(* What a step of one handshake leaves alone *)

\* The file is whole: reading it gives its keys.
LEMMA FileIsRead ==
    ASSUME Shape
    PROVE  /\ parse_file(file) = {file.keys} /\ file.torn = FALSE
           /\ file.keys \in Seq(Key) /\ DifferentIds(file.keys)
  BY DEF Shape, Whole, parse_file

\* A handshake that has not moved.
Still(g) ==
    /\ pc'[g] = pc[g] /\ keys'[g] = keys[g] /\ key'[g] = key[g]
    /\ since'[g] = since[g] /\ basis'[g] = basis[g]

OnlyMoves(h) == \A g \in Handshakes \ {h} : Still(g)

\* A handshake that stays where it was keeps its part of the invariant while the
\* clock, the file and the mark of a race stay.
LEMMA StillLocal ==
    ASSUME NEW g \in Handshakes, Local(g), Still(g), UNCHANGED <<now, file, raced>>
    PROVE  Local(g)'
<1>1. TypeAt(g)'
  BY DEF Local, Still, TypeAt, DifferentIds
<1>2. AddingAt(g)'
  BY DEF Local, Still, AddingAt, Holds, Young
<1>3. HandedOutAt(g)'
  BY DEF Local, Still, HandedOutAt
<1>4. StillThereAt(g)'
  BY DEF Local, Still, StillThereAt, Holds, Young
<1>5. PromptAt(g)'
  BY DEF Local, Still, PromptAt
<1> QED
  BY <1>1, <1>2, <1>3, <1>4, <1>5 DEF Local

\* What one handshake does outside save: the shared state stays, and it is not
\* between opening and renaming before or after.
Quiet(h) ==
    /\ UNCHANGED <<now, file, tmp, lock, raced>>
    /\ PerHandshake'
    /\ OnlyMoves(h)
    /\ pc[h] \notin {"write", "rename"} /\ pc'[h] \notin {"write", "rename"}

\* A quiet step keeps the invariant when the handshake keeps its own part.
LEMMA QuietStep ==
    ASSUME KInv, NEW h \in Handshakes, Quiet(h), Local(h)'
    PROVE  KInv'
<1>1. Shape'
  BY DEF KInv, Shape, Quiet, DifferentIds, Whole
<1>2. Saving'
  <2>1. \A g \in Handshakes : pc'[g] \in {"write", "rename"} <=> pc[g] \in {"write", "rename"}
    BY DEF Quiet, OnlyMoves, Still
  <2>2. lock' = {g \in Handshakes : pc'[g] \in {"write", "rename"}}
    BY <2>1 DEF KInv, Saving, Quiet
  <2>3. \A g \in Handshakes : pc'[g] = "rename" => tmp'[process[g]] = Whole(keys'[g])
    BY DEF KInv, Saving, Quiet, OnlyMoves, Still
  <2> QED
    BY <2>2, <2>3 DEF KInv, Saving, Quiet, Whole
<1>3. \A g \in Handshakes : Local(g)'
  <2> SUFFICES ASSUME NEW g \in Handshakes, g # h PROVE Local(g)'
    OBVIOUS
  <2>1. Local(g) /\ Still(g) /\ UNCHANGED <<now, file, raced>>
    BY DEF KInv, Quiet, OnlyMoves
  <2> QED
    BY <2>1, StillLocal
<1> QED
  BY <1>1, <1>2, <1>3 DEF KInv

\* The empty list of keys.
LEMMA NoKeys == <<>> \in Seq(Key) /\ DifferentIds(<<>>)
  BY DEF DifferentIds

\* A handshake within the time is given a key that is still young.
LEMMA InTimeIsYoung ==
    ASSUME KInv, NEW h \in Handshakes, HandedOutAt(h), since[h] \in Int,
           pc[h] \in {"save", "write", "rename", "challenged", "answered"},
           ~ (now - since[h] > EXPIRE_KEYS_TIMEOUT - NEW_KEY_TIMEOUT)
    PROVE  Young(key[h])
<1>1. key[h].created \in Int /\ since[h] - key[h].created < NEW_KEY_TIMEOUT
  BY DEF HandedOutAt, Key
<1>2. now \in Int /\ EXPIRE_KEYS_TIMEOUT \in Int /\ NEW_KEY_TIMEOUT \in Int
  BY KeyringAssumption DEF KInv, Shape
<1> QED
  BY <1>1, <1>2 DEF Young

-----------------------------------------------------------------------------
(* One lemma per action *)

\* load: what is read is in the file.
LEMMA LoadStep ==
    ASSUME KInv, NEW h \in Handshakes, load(h)
    PROVE  KInv'
<1>1. Shape /\ Local(h) /\ PerHandshake
  BY DEF KInv, Shape
<1>2. /\ pc' = [pc EXCEPT ![h] = "memory"] /\ keys' = [keys EXCEPT ![h] = file.keys]
      /\ pc[h] = "load"
      /\ UNCHANGED <<now, file, tmp, lock, key, since, basis, raced>>
  BY <1>1, FileIsRead DEF load, Go
<1>3. /\ pc'[h] = "memory" /\ keys'[h] = file.keys
      /\ PerHandshake' /\ OnlyMoves(h)
  BY <1>1, <1>2 DEF PerHandshake, OnlyMoves, Still
<1>4. Quiet(h)
  BY <1>2, <1>3 DEF Quiet
<1>5. TypeAt(h)'
  BY <1>1, <1>2, <1>3, FileIsRead DEF Local, TypeAt, Pcs, DifferentIds
<1>6. AddingAt(h)' /\ HandedOutAt(h)' /\ PromptAt(h)'
  BY <1>3 DEF AddingAt, HandedOutAt, PromptAt
<1>7. StillThereAt(h)'
  BY <1>2, <1>3 DEF StillThereAt, Holds
<1> QED
  BY <1>4, <1>5, <1>6, <1>7, QuietStep DEF Local

\* A handshake that hands out a recent key, one that is in the file unless a save
\* undid another.
LEMMA ChallengeStep ==
    ASSUME KInv, NEW h \in Handshakes, pc[h] \notin {"write", "rename"},
           NEW k \in Key, Challenge(h, k, now), UNCHANGED <<now, file, tmp, lock, raced>>,
           now - k.created < NEW_KEY_TIMEOUT,
           Young(k) => raced \/ Holds(file.keys, k)
    PROVE  KInv'
<1>1. Shape /\ Local(h) /\ PerHandshake /\ now \in Int
  BY KeyringAssumption DEF KInv, Shape
<1>2. /\ pc'[h] = "challenged" /\ keys'[h] = <<>> /\ basis'[h] = <<>>
      /\ key'[h] = k /\ since'[h] = now
      /\ PerHandshake' /\ OnlyMoves(h)
  BY <1>1 DEF PerHandshake, OnlyMoves, Still, Challenge, Forget, Go
<1>3. Quiet(h)
  BY <1>2 DEF Quiet
<1>4. TypeAt(h)'
  BY <1>1, <1>2, NoKeys DEF TypeAt, Pcs, DifferentIds
<1>5. AddingAt(h)' /\ PromptAt(h)'
  BY <1>2 DEF AddingAt, PromptAt
<1>6. HandedOutAt(h)'
  BY <1>1, <1>2 DEF HandedOutAt
<1>7. StillThereAt(h)'
  BY <1>2 DEF StillThereAt, Holds, Young
<1> QED
  BY <1>3, <1>4, <1>5, <1>6, <1>7, QuietStep DEF Local

\* best_key: a recent key in memory is still in the file.
LEMMA BestKeyStep ==
    ASSUME KInv, NEW h \in Handshakes, best_key(h)
    PROVE  KInv'
<1>1. Shape /\ Local(h) /\ PerHandshake /\ pc[h] = "memory"
  BY DEF KInv, Shape, best_key
<1>2. UNCHANGED <<now, file, tmp, lock, raced>>
  BY DEF best_key
<1>3. CASE Go(h, "wait") /\ Forget(h) /\ UNCHANGED <<key, since>>
  <2>1. /\ pc'[h] = "wait" /\ keys'[h] = <<>> /\ basis'[h] = <<>>
        /\ since'[h] = since[h]
        /\ PerHandshake' /\ OnlyMoves(h)
    BY <1>1, <1>3 DEF PerHandshake, OnlyMoves, Still, Forget, Go
  <2>2. Quiet(h)
    BY <1>1, <1>2, <2>1 DEF Quiet
  <2>3. TypeAt(h)'
    BY <1>1, <2>1, NoKeys DEF Local, TypeAt, Pcs, DifferentIds
  <2>4. AddingAt(h)' /\ HandedOutAt(h)' /\ PromptAt(h)' /\ StillThereAt(h)'
    BY <2>1 DEF AddingAt, HandedOutAt, PromptAt, StillThereAt
  <2> QED
    BY <2>2, <2>3, <2>4, QuietStep DEF Local
<1>4. ASSUME NEW k \in find_recent(keys[h]), Challenge(h, k, now)
      PROVE  KInv'
  <2>1. k \in Key /\ Holds(keys[h], k) /\ now - k.created < NEW_KEY_TIMEOUT
    BY <1>1, <1>4, FoundIsRecent DEF Local, TypeAt
  <2>2. Young(k) => raced \/ Holds(file.keys, k)
    BY <1>1, <2>1 DEF Local, StillThereAt, Holds
  <2> QED
    BY <1>1, <1>2, <1>4, <2>1, <2>2, ChallengeStep
<1> QED
  BY <1>3, <1>4 DEF best_key

\* Waiting for the lock and letting go of it changes nothing that is remembered.
LEMMA LockAndUnlockStep ==
    ASSUME KInv, NEW h \in Handshakes, LockAndUnlock(h)
    PROVE  KInv'
<1>1. Shape /\ Local(h) /\ PerHandshake /\ pc[h] = "wait"
  BY DEF KInv, Shape, LockAndUnlock
<1>2. /\ pc'[h] = "reread" /\ UNCHANGED <<now, file, tmp, lock, keys, key, since, basis, raced>>
      /\ PerHandshake' /\ OnlyMoves(h)
  BY <1>1 DEF PerHandshake, OnlyMoves, Still, LockAndUnlock, Go
<1>3. Quiet(h)
  BY <1>1, <1>2 DEF Quiet
<1>4. TypeAt(h)'
  BY <1>1, <1>2 DEF Local, TypeAt, Pcs, DifferentIds
<1>5. AddingAt(h)' /\ HandedOutAt(h)' /\ PromptAt(h)' /\ StillThereAt(h)'
  BY <1>2 DEF AddingAt, HandedOutAt, PromptAt, StillThereAt
<1> QED
  BY <1>3, <1>4, <1>5, QuietStep DEF Local

\* The file read again.
LEMMA RereadStep ==
    ASSUME KInv, NEW h \in Handshakes, Reread(h)
    PROVE  KInv'
<1>1. Shape /\ Local(h) /\ PerHandshake /\ pc[h] = "reread"
  BY DEF KInv, Shape, Reread
<1>2. UNCHANGED <<now, file, tmp, lock, raced>>
  BY DEF Reread
<1>3. \/ /\ keys' = [keys EXCEPT ![h] = file.keys]
         /\ basis' = [basis EXCEPT ![h] = file.keys]
         /\ Go(h, "add")
         /\ UNCHANGED <<key, since>>
      \/ \E k \in find_recent(file.keys) : Challenge(h, k, now)
  BY <1>1, FileIsRead DEF Reread
<1>4. CASE /\ keys' = [keys EXCEPT ![h] = file.keys]
           /\ basis' = [basis EXCEPT ![h] = file.keys]
           /\ Go(h, "add")
           /\ UNCHANGED <<key, since>>
  <2>1. /\ pc'[h] = "add" /\ keys'[h] = file.keys /\ basis'[h] = file.keys
        /\ since'[h] = since[h]
        /\ PerHandshake' /\ OnlyMoves(h)
    BY <1>1, <1>4 DEF PerHandshake, OnlyMoves, Still, Go
  <2>2. Quiet(h)
    BY <1>1, <1>2, <2>1 DEF Quiet
  <2>3. TypeAt(h)'
    BY <1>1, <2>1, FileIsRead DEF Local, TypeAt, Pcs, DifferentIds
  <2>4. AddingAt(h)' /\ HandedOutAt(h)' /\ PromptAt(h)' /\ StillThereAt(h)'
    BY <2>1 DEF AddingAt, HandedOutAt, PromptAt, StillThereAt
  <2> QED
    BY <2>2, <2>3, <2>4, QuietStep DEF Local
<1>5. ASSUME NEW k \in find_recent(file.keys), Challenge(h, k, now)
      PROVE  KInv'
  <2>1. k \in Key /\ Holds(file.keys, k) /\ now - k.created < NEW_KEY_TIMEOUT
    BY <1>1, <1>5, FileIsRead, FoundIsRecent
  <2> QED
    BY <1>1, <1>2, <1>5, <2>1, ChallengeStep
<1> QED
  BY <1>3, <1>4, <1>5

\* add_new_key: the new key is added to what is young of the file that was read.
LEMMA AddNewKeyStep ==
    ASSUME KInv, NEW h \in Handshakes, add_new_key(h)
    PROVE  KInv'
<1> DEFINE ks == prune_expired(keys[h])
<1>1. Shape /\ Local(h) /\ PerHandshake /\ pc[h] = "add" /\ now \in Int
  BY KeyringAssumption DEF KInv, Shape, add_new_key
<1>2. PICK id \in Ids \ {ks[i].id : i \in DOMAIN ks} :
         /\ keys' = [keys EXCEPT ![h] = Append(ks, [id |-> id, created |-> now, secret |-> h])]
         /\ key' = [key EXCEPT ![h] = [id |-> id, created |-> now, secret |-> h]]
  BY DEF add_new_key
<1> DEFINE k == [id |-> id, created |-> now, secret |-> h]
<1>3. k \in Key
  BY <1>1 DEF Key
<1>4. KeptFacts(ks, keys[h], EXPIRE_KEYS_TIMEOUT, Len(keys[h]))
  BY <1>1, RetainFacts DEF Local, TypeAt, prune_expired
<1>5. /\ ks \in Seq(Key) /\ Len(ks) \in Nat /\ DOMAIN ks = 1 .. Len(ks)
      /\ DOMAIN keys[h] = 1 .. Len(keys[h])
  BY <1>1, <1>4 DEF KeptFacts, Local, TypeAt
<1>6. \A i \in DOMAIN ks : ks[i].id # k.id
  BY <1>2
<1>7. \A i \in DOMAIN keys[h] : Young(keys[h][i]) => \E j \in 1 .. Len(ks) : ks[j] = keys[h][i]
  BY <1>4, <1>5 DEF KeptFacts, Young
<1>8. \A i, j \in 1 .. Len(ks) : ks[i].id = ks[j].id => i = j
  BY <1>4 DEF KeptFacts
<1> DEFINE new == Append(ks, k)
<1> HIDE DEF ks, k
<1>9. /\ new \in Seq(Key) /\ DOMAIN new = 1 .. Len(ks) + 1
      /\ new[Len(ks) + 1] = k /\ \A i \in 1 .. Len(ks) : new[i] = ks[i]
  BY <1>3, <1>5
<1> HIDE DEF new
<1>10. /\ UNCHANGED <<now, file, tmp, lock, raced>>
       /\ pc'[h] = "save" /\ keys'[h] = new /\ key'[h] = k /\ since'[h] = now
       /\ basis'[h] = basis[h]
       /\ PerHandshake' /\ OnlyMoves(h)
  BY <1>1, <1>2 DEF PerHandshake, OnlyMoves, Still, add_new_key, Go, new, k
<1>11. Quiet(h)
  BY <1>1, <1>10 DEF Quiet
<1>12. DifferentIds(new)
  BY <1>5, <1>6, <1>8, <1>9 DEF DifferentIds
<1>13. TypeAt(h)'
  BY <1>1, <1>9, <1>10, <1>12 DEF Local, TypeAt, Pcs, DifferentIds
<1>14. AddingAt(h)'
  <2>1. Holds(new, k)
    BY <1>5, <1>9 DEF Holds
  <2>2. \A i \in DOMAIN keys[h] : Young(keys[h][i]) => Holds(new, keys[h][i])
    <3> SUFFICES ASSUME NEW i \in DOMAIN keys[h], Young(keys[h][i])
                 PROVE  Holds(new, keys[h][i])
      OBVIOUS
    <3>1. PICK j \in 1 .. Len(ks) : ks[j] = keys[h][i]
      BY <1>7
    <3>2. j \in DOMAIN new /\ new[j] = keys[h][i]
      BY <1>5, <1>9, <3>1
    <3> QED
      BY <3>2 DEF Holds
  <2>3. basis[h] = keys[h]
    BY <1>1 DEF Local, AddingAt
  <2> QED
    BY <1>10, <2>1, <2>2, <2>3 DEF AddingAt, Holds, Young
<1>15. HandedOutAt(h)'
  <2>1. k.created = now
    BY DEF k
  <2> QED
    BY <1>1, <1>3, <1>10, <2>1, KeyringAssumption DEF HandedOutAt
<1>16. PromptAt(h)' /\ StillThereAt(h)'
  BY <1>10 DEF PromptAt, StillThereAt
<1> QED
  BY <1>11, <1>13, <1>14, <1>15, <1>16, QuietStep DEF Local

\* A step of save that leaves the file alone keeps the invariant when the
\* handshake keeps its part and the lock and the temporary file stay right.
LEMMA SaveStep ==
    ASSUME KInv, NEW h \in Handshakes, UNCHANGED <<now, file, raced>>, OnlyMoves(h),
           PerHandshake', DOMAIN tmp' = Processes, Saving', Local(h)'
    PROVE  KInv'
<1>1. Shape'
  BY DEF KInv, Shape, DifferentIds, Whole
<1>2. \A g \in Handshakes : Local(g)'
  <2> SUFFICES ASSUME NEW g \in Handshakes, g # h PROVE Local(g)'
    OBVIOUS
  <2>1. Local(g) /\ Still(g)
    BY DEF KInv, OnlyMoves
  <2> QED
    BY <2>1, StillLocal
<1> QED
  BY <1>1, <1>2 DEF KInv

\* The lock is taken when nobody holds it, so that no other handshake is saving.
LEMMA OpenTemporaryStep ==
    ASSUME KInv, NEW h \in Handshakes, OpenTemporary(h)
    PROVE  KInv'
<1>1. Shape /\ Local(h) /\ PerHandshake /\ pc[h] = "save"
  BY DEF KInv, Shape, OpenTemporary
<1>2. lock = {} /\ lock' = {h}
  BY DEF OpenTemporary, acquire
<1>3. /\ pc'[h] = "write" /\ UNCHANGED <<now, file, keys, key, since, basis, raced>>
      /\ PerHandshake' /\ OnlyMoves(h)
  BY <1>1 DEF PerHandshake, OnlyMoves, Still, OpenTemporary, Go
<1>4. DOMAIN tmp' = Processes
  BY <1>1 DEF Shape, OpenTemporary
<1>5. Saving'
  <2>1. \A g \in Handshakes \ {h} : pc'[g] \notin {"write", "rename"}
    BY <1>2, <1>3 DEF KInv, Saving, OnlyMoves, Still
  <2> QED
    BY <1>2, <1>3, <2>1 DEF Saving
<1>6. Local(h)'
  <2>1. TypeAt(h)'
    BY <1>1, <1>3 DEF Local, TypeAt, Pcs, DifferentIds
  <2>2. AddingAt(h)'
    BY <1>1, <1>3 DEF Local, AddingAt, Holds, Young
  <2>3. HandedOutAt(h)'
    BY <1>1, <1>3 DEF Local, HandedOutAt
  <2>4. PromptAt(h)' /\ StillThereAt(h)'
    BY <1>3 DEF PromptAt, StillThereAt
  <2> QED
    BY <2>1, <2>2, <2>3, <2>4 DEF Local
<1> QED
  BY <1>3, <1>4, <1>5, <1>6, SaveStep

\* The holder of the lock is the only one that will rename what it wrote.
LEMMA WriteTemporaryStep ==
    ASSUME KInv, NEW h \in Handshakes, WriteTemporary(h)
    PROVE  KInv'
<1>1. Shape /\ Local(h) /\ PerHandshake /\ pc[h] = "write"
  BY DEF KInv, Shape, WriteTemporary
<1>2. lock = {h}
  BY <1>1 DEF KInv, Saving
<1>3. /\ pc'[h] = "rename" /\ UNCHANGED <<now, file, lock, keys, key, since, basis, raced>>
      /\ PerHandshake' /\ OnlyMoves(h)
  BY <1>1 DEF PerHandshake, OnlyMoves, Still, WriteTemporary, Go
<1>4. DOMAIN tmp' = Processes /\ tmp'[process[h]] = Whole(keys[h])
  BY <1>1 DEF Shape, WriteTemporary, Processes
<1>5. Saving'
  <2>1. \A g \in Handshakes \ {h} : pc'[g] \notin {"write", "rename"}
    BY <1>2, <1>3 DEF KInv, Saving, OnlyMoves, Still
  <2> QED
    BY <1>2, <1>3, <1>4, <2>1 DEF Saving, Whole
<1>6. Local(h)'
  <2>1. TypeAt(h)'
    BY <1>1, <1>3 DEF Local, TypeAt, Pcs, DifferentIds
  <2>2. AddingAt(h)'
    BY <1>1, <1>3 DEF Local, AddingAt, Holds, Young
  <2>3. HandedOutAt(h)'
    BY <1>1, <1>3 DEF Local, HandedOutAt
  <2>4. PromptAt(h)' /\ StillThereAt(h)'
    BY <1>3 DEF PromptAt, StillThereAt
  <2> QED
    BY <2>1, <2>2, <2>3, <2>4 DEF Local
<1> QED
  BY <1>3, <1>4, <1>5, <1>6, SaveStep

\* A save that fails lets go of the lock.
LEMMA SaveFailsStep ==
    ASSUME KInv, NEW h \in Handshakes, SaveFails(h)
    PROVE  KInv'
<1>1. Shape /\ Local(h) /\ PerHandshake /\ pc[h] \in {"write", "rename"}
  BY DEF KInv, Shape, SaveFails
<1>2. lock = {h} /\ lock' = {}
  <2>1. lock = {h}
    BY <1>1 DEF KInv, Saving
  <2> QED
    BY <2>1 DEF SaveFails
<1>3. /\ pc'[h] = "failed" /\ keys'[h] = <<>> /\ basis'[h] = <<>>
      /\ UNCHANGED <<now, file, tmp, key, since, raced>>
      /\ PerHandshake' /\ OnlyMoves(h)
  BY <1>1 DEF PerHandshake, OnlyMoves, Still, SaveFails, Forget, Go
<1>4. DOMAIN tmp' = Processes
  BY <1>1, <1>3 DEF Shape
<1>5. Saving'
  <2>1. \A g \in Handshakes : pc'[g] \notin {"write", "rename"}
    BY <1>2, <1>3 DEF KInv, Saving, OnlyMoves, Still
  <2> QED
    BY <1>2, <2>1 DEF Saving
<1>6. Local(h)'
  <2>1. TypeAt(h)'
    BY <1>1, <1>3, NoKeys DEF Local, TypeAt, Pcs, DifferentIds
  <2>2. AddingAt(h)' /\ HandedOutAt(h)' /\ PromptAt(h)' /\ StillThereAt(h)'
    BY <1>3 DEF AddingAt, HandedOutAt, PromptAt, StillThereAt
  <2> QED
    BY <2>1, <2>2 DEF Local
<1> QED
  BY <1>3, <1>4, <1>5, <1>6, SaveStep

\* rename: the new file holds the saver's key and every young key of the file it
\* read; when that is not the file it replaces, a save was undone.
LEMMA RenameStep ==
    ASSUME KInv, NEW h \in Handshakes, Rename(h)
    PROVE  KInv'
<1>1. Shape /\ Local(h) /\ PerHandshake /\ pc[h] = "rename"
  BY DEF KInv, Shape, Rename
<1>2. lock = {h} /\ lock' = {}
  <2>1. lock = {h}
    BY <1>1 DEF KInv, Saving
  <2> QED
    BY <2>1 DEF Rename
<1>3. /\ pc'[h] = "challenged" /\ keys'[h] = <<>> /\ basis'[h] = <<>>
      /\ key'[h] = key[h] /\ since'[h] = since[h] /\ now' = now
      /\ PerHandshake' /\ OnlyMoves(h)
  BY <1>1 DEF PerHandshake, OnlyMoves, Still, Rename, Challenge, Forget, Go
<1>4. DOMAIN tmp' = Processes
  BY <1>1 DEF Shape, Rename
<1>5. /\ file' = Whole(keys[h]) /\ file'.keys = keys[h]
      /\ keys[h] \in Seq(Key) /\ DifferentIds(keys[h])
  <2>1. file' = Whole(keys[h])
    BY <1>1 DEF KInv, Saving, Rename
  <2>2. file'.keys = keys[h]
    BY <2>1 DEF Whole
  <2> QED
    BY <1>1, <2>1, <2>2 DEF Local, TypeAt
<1>6. raced \in BOOLEAN /\ raced' \in BOOLEAN /\ (raced => raced')
      /\ (~ raced' => file.keys = basis[h])
  BY <1>1 DEF Shape, Rename
<1>7. Shape'
  BY <1>1, <1>3, <1>4, <1>5, <1>6 DEF Shape, Whole, DifferentIds
<1>8. Saving'
  <2>1. \A g \in Handshakes : pc'[g] \notin {"write", "rename"}
    BY <1>2, <1>3 DEF KInv, Saving, OnlyMoves, Still
  <2> QED
    BY <1>2, <2>1 DEF Saving
<1>9. \A k : Young(k) /\ Holds(file.keys, k) => raced' \/ Holds(file'.keys, k)
  <2> SUFFICES ASSUME NEW k, Young(k), Holds(file.keys, k), ~ raced'
               PROVE  Holds(keys[h], k)
    BY <1>5
  <2>1. PICK i \in DOMAIN basis[h] : basis[h][i] = k
    BY <1>6 DEF Holds
  <2> QED
    BY <1>1, <2>1 DEF Local, AddingAt
<1>10. Local(h)'
  <2>1. TypeAt(h)'
    BY <1>1, <1>3, NoKeys DEF Local, TypeAt, Pcs, DifferentIds
  <2>2. AddingAt(h)' /\ PromptAt(h)'
    BY <1>3 DEF AddingAt, PromptAt
  <2>3. HandedOutAt(h)'
    BY <1>1, <1>3 DEF Local, HandedOutAt
  <2>4. Holds(file'.keys, key[h])
    BY <1>1, <1>5 DEF Local, AddingAt
  <2>5. StillThereAt(h)'
    BY <1>3, <2>4 DEF StillThereAt, Holds
  <2> QED
    BY <2>1, <2>2, <2>3, <2>5 DEF Local
<1>11. ASSUME NEW g \in Handshakes, g # h PROVE Local(g)'
  <2>1. Local(g) /\ Still(g)
    BY <1>3, <1>11 DEF KInv, OnlyMoves
  <2>2. TypeAt(g)'
    BY <2>1 DEF Local, Still, TypeAt, DifferentIds
  <2>3. AddingAt(g)'
    BY <1>3, <2>1 DEF Local, Still, AddingAt, Holds, Young
  <2>4. HandedOutAt(g)'
    BY <1>3, <2>1 DEF Local, Still, HandedOutAt
  <2>5. PromptAt(g)'
    BY <1>3, <1>6, <2>1 DEF Local, Still, PromptAt
  <2>6. StillThereAt(g)'
    <3>1. pc[g] = "memory" =>
            \A i \in DOMAIN keys[g] :
               Young(keys[g][i]) => raced' \/ Holds(file'.keys, keys[g][i])
      BY <2>1, <1>6, <1>9 DEF Local, StillThereAt
    <3>2. pc[g] \in {"challenged", "answered"} /\ Young(key[g]) =>
             raced' \/ Holds(file'.keys, key[g])
      BY <2>1, <1>6, <1>9 DEF Local, StillThereAt
    <3>3. pc[g] = "answered" /\ Young(key[g]) => raced' \/ Holds(keys[g], key[g])
      BY <2>1, <1>6 DEF Local, StillThereAt
    <3> QED
      BY <3>1, <3>2, <3>3, <2>1, <1>3 DEF Still, StillThereAt, Holds, Young
  <2> QED
    BY <2>2, <2>3, <2>4, <2>5, <2>6 DEF Local
<1> QED
  BY <1>7, <1>8, <1>10, <1>11 DEF KInv

\* The client finds the key of the challenge in the file while it is young.
LEMMA RespondStep ==
    ASSUME KInv, NEW h \in Handshakes, respond_to_cookie_challenge(h)
    PROVE  KInv'
<1>1. Shape /\ Local(h) /\ PerHandshake /\ pc[h] = "challenged"
  BY DEF KInv, Shape, respond_to_cookie_challenge
<1>2. UNCHANGED <<now, file, tmp, lock, key, since, basis, raced>>
  BY DEF respond_to_cookie_challenge
<1>3. \/ hex_key(file.keys, key[h].id) = {} /\ Go(h, "refused") /\ UNCHANGED keys
      \/ Go(h, "answered") /\ keys' = [keys EXCEPT ![h] = file.keys]
  BY <1>1, FileIsRead DEF respond_to_cookie_challenge
<1>4. CASE hex_key(file.keys, key[h].id) = {} /\ Go(h, "refused") /\ UNCHANGED keys
  <2>1. pc'[h] = "refused" /\ PerHandshake' /\ OnlyMoves(h)
    BY <1>1, <1>2, <1>4 DEF PerHandshake, OnlyMoves, Still, Go
  <2>2. Quiet(h)
    BY <1>1, <1>2, <2>1 DEF Quiet
  <2>3. TypeAt(h)'
    BY <1>1, <1>2, <1>4, <2>1 DEF Local, TypeAt, Pcs, DifferentIds
  <2>4. raced \/ now - since[h] > EXPIRE_KEYS_TIMEOUT - NEW_KEY_TIMEOUT
    <3> SUFFICES ASSUME ~ raced, ~ (now - since[h] > EXPIRE_KEYS_TIMEOUT - NEW_KEY_TIMEOUT)
                 PROVE  FALSE
      OBVIOUS
    <3>1. Young(key[h])
      BY <1>1, InTimeIsYoung DEF Local, TypeAt
    <3>2. Holds(file.keys, key[h])
      BY <1>1, <3>1 DEF Local, StillThereAt
    <3>3. hex_key(file.keys, key[h].id) = {key[h].secret}
      BY <1>1, <3>2, FileIsRead, HexKeyIsSecret
    <3> QED
      BY <1>4, <3>3
  <2>5. PromptAt(h)'
    BY <1>2, <2>4 DEF PromptAt
  <2>6. AddingAt(h)' /\ HandedOutAt(h)' /\ StillThereAt(h)'
    BY <2>1 DEF AddingAt, HandedOutAt, StillThereAt
  <2> QED
    BY <2>2, <2>3, <2>5, <2>6, QuietStep DEF Local
<1>5. CASE Go(h, "answered") /\ keys' = [keys EXCEPT ![h] = file.keys]
  <2>1. pc'[h] = "answered" /\ keys'[h] = file.keys /\ PerHandshake' /\ OnlyMoves(h)
    BY <1>1, <1>2, <1>5 DEF PerHandshake, OnlyMoves, Still, Go
  <2>2. Quiet(h)
    BY <1>1, <1>2, <2>1 DEF Quiet
  <2>3. TypeAt(h)'
    BY <1>1, <1>2, <2>1, FileIsRead DEF Local, TypeAt, Pcs, DifferentIds
  <2>4. AddingAt(h)' /\ PromptAt(h)'
    BY <2>1 DEF AddingAt, PromptAt
  <2>5. HandedOutAt(h)'
    BY <1>1, <1>2 DEF Local, HandedOutAt
  <2>6. StillThereAt(h)'
    BY <1>1, <1>2, <2>1 DEF Local, StillThereAt, Holds, Young
  <2> QED
    BY <2>2, <2>3, <2>4, <2>5, <2>6, QuietStep DEF Local
<1> QED
  BY <1>3, <1>4, <1>5

\* The server finds the same secret as its client did while the key is young.
LEMMA CheckStep ==
    ASSUME KInv, NEW h \in Handshakes, cookie_sha1_second_response(h)
    PROVE  KInv'
<1>1. Shape /\ Local(h) /\ PerHandshake /\ pc[h] = "answered"
  BY DEF KInv, Shape, cookie_sha1_second_response
<1>2. UNCHANGED <<now, file, tmp, lock, key, since, raced>> /\ Forget(h)
  BY DEF cookie_sha1_second_response
<1> DEFINE mine == hex_key(file.keys, key[h].id)
           his  == hex_key(keys[h], key[h].id)
<1>3. \/ Go(h, "accepted")
      \/ Go(h, "refused") /\ ~ (mine # {} /\ mine = his)
  BY <1>1, FileIsRead DEF cookie_sha1_second_response
<1>4. /\ pc'[h] \in {"accepted", "refused"} /\ keys'[h] = <<>> /\ basis'[h] = <<>>
      /\ PerHandshake' /\ OnlyMoves(h)
      /\ pc'[h] = "refused" => ~ (mine # {} /\ mine = his)
  <2> HIDE DEF mine, his
  <2> QED
    BY <1>1, <1>2, <1>3 DEF PerHandshake, OnlyMoves, Still, Go, Forget
<1>5. Quiet(h)
  BY <1>1, <1>2, <1>4 DEF Quiet
<1>6. TypeAt(h)'
  BY <1>1, <1>2, <1>4, NoKeys DEF Local, TypeAt, Pcs, DifferentIds
<1>7. pc'[h] = "refused" => raced \/ now - since[h] > EXPIRE_KEYS_TIMEOUT - NEW_KEY_TIMEOUT
  <2> SUFFICES ASSUME pc'[h] = "refused", ~ raced,
                      ~ (now - since[h] > EXPIRE_KEYS_TIMEOUT - NEW_KEY_TIMEOUT)
               PROVE  FALSE
    OBVIOUS
  <2>1. Young(key[h])
    BY <1>1, InTimeIsYoung DEF Local, TypeAt
  <2>2. Holds(file.keys, key[h]) /\ Holds(keys[h], key[h])
    BY <1>1, <2>1 DEF Local, StillThereAt
  <2>3. mine = {key[h].secret}
    BY <1>1, <2>2, FileIsRead, HexKeyIsSecret
  <2>4. his = {key[h].secret}
    BY <1>1, <2>2, HexKeyIsSecret DEF Local, TypeAt
  <2> QED
    BY <1>4, <2>3, <2>4
<1>8. PromptAt(h)'
  BY <1>2, <1>7 DEF PromptAt
<1>9. AddingAt(h)' /\ HandedOutAt(h)' /\ StillThereAt(h)'
  BY <1>4 DEF AddingAt, HandedOutAt, StillThereAt
<1> QED
  BY <1>5, <1>6, <1>8, <1>9, QuietStep DEF Local

\* A process that dies lets go of its lock; the file is what it was.
LEMMA CrashStep ==
    ASSUME KInv, NEW p \in Processes, Crash(p)
    PROVE  KInv'
<1> DEFINE Dead == {h \in Handshakes : process[h] = p /\ pc[h] \notin
                                      {"load", "accepted", "refused", "failed", "crashed"}}
<1>1. /\ pc' = [h \in Handshakes |-> IF h \in Dead THEN "crashed" ELSE pc[h]]
      /\ lock' = lock \ Dead
      /\ UNCHANGED <<now, file, tmp, keys, key, since, basis, raced>>
  BY DEF Crash
<1> HIDE DEF Dead
<1>2. Shape'
  BY <1>1 DEF KInv, Shape, PerHandshake, DifferentIds, Whole
<1>3. Saving'
  BY <1>1 DEF KInv, Saving, Whole
<1>4. ASSUME NEW h \in Handshakes PROVE Local(h)'
  <2>1. CASE h \in Dead
    <3>1. pc'[h] = "crashed"
      BY <1>1, <2>1
    <3>2. TypeAt(h)'
      BY <1>1, <3>1 DEF KInv, Local, TypeAt, Pcs, DifferentIds
    <3>3. AddingAt(h)' /\ HandedOutAt(h)' /\ StillThereAt(h)' /\ PromptAt(h)'
      BY <3>1 DEF AddingAt, HandedOutAt, StillThereAt, PromptAt
    <3> QED
      BY <3>2, <3>3 DEF Local
  <2>2. CASE h \notin Dead
    <3>1. Still(h) /\ Local(h)
      BY <1>1, <2>2 DEF Still, KInv
    <3> QED
      BY <1>1, <3>1, StillLocal
  <2> QED
    BY <2>1, <2>2
<1> QED
  BY <1>2, <1>3, <1>4 DEF KInv

\* A key that is young was young before.
LEMMA TickStep ==
    ASSUME KInv, Tick
    PROVE  KInv'
<1>1. /\ now' = now + 1 /\ now < MaxTime /\ now \in Int
      /\ UNCHANGED <<file, tmp, lock, pc, keys, key, since, basis, raced>>
  BY KeyringAssumption DEF Tick, KInv, Shape
<1>2. Shape'
  BY <1>1, KeyringAssumption DEF KInv, Shape, PerHandshake, DifferentIds, Whole
<1>3. Saving'
  BY <1>1 DEF KInv, Saving, Whole
<1>4. \A k \in Key : Young(k)' => Young(k)
  BY <1>1, KeyringAssumption DEF Young, Key
<1>5. ASSUME NEW h \in Handshakes PROVE Local(h)'
  <2>1. Local(h)
    BY DEF KInv
  <2>2. /\ \A i \in DOMAIN keys[h] : keys[h][i] \in Key
        /\ \A i \in DOMAIN basis[h] : basis[h][i] \in Key
    BY <2>1 DEF Local, TypeAt
  <2>3. TypeAt(h)'
    BY <1>1, <2>1 DEF Local, TypeAt, DifferentIds
  <2>4. AddingAt(h)'
    <3>1. pc[h] \in {"save", "write", "rename"} =>
             \A i \in DOMAIN basis[h] :
                Young(basis[h][i])' => Holds(keys[h], basis[h][i])
      BY <1>1, <1>4, <2>1, <2>2 DEF Local, AddingAt
    <3> QED
      BY <1>1, <2>1, <3>1 DEF Local, AddingAt, Holds
  <2>5. HandedOutAt(h)'
    BY <1>1, <2>1 DEF Local, TypeAt, HandedOutAt
  <2>6. StillThereAt(h)'
    <3>1. pc[h] = "memory" =>
             \A i \in DOMAIN keys[h] :
                Young(keys[h][i])' => raced \/ Holds(file.keys, keys[h][i])
      BY <1>1, <1>4, <2>1, <2>2 DEF Local, StillThereAt
    <3>2. pc[h] \in {"challenged", "answered"} => (Young(key[h])' => Young(key[h]))
      BY <1>1, <1>4, <2>1 DEF Local, HandedOutAt
    <3> QED
      BY <1>1, <2>1, <3>1, <3>2 DEF Local, StillThereAt, Holds
  <2>7. PromptAt(h)'
    BY <1>1, <2>1, KeyringAssumption DEF Local, TypeAt, PromptAt
  <2> QED
    BY <2>3, <2>4, <2>5, <2>6, <2>7 DEF Local
<1> QED
  BY <1>2, <1>3, <1>5 DEF KInv

-----------------------------------------------------------------------------
(* The theorems *)

\* Every step keeps the invariant.
LEMMA KeyringStep == KInv /\ [KeyringNext]_vars => KInv'
<1> SUFFICES ASSUME KInv, [KeyringNext]_vars PROVE KInv'
  OBVIOUS
<1>1. ASSUME NEW h \in Handshakes,
             \/ load(h) \/ best_key(h) \/ LockAndUnlock(h) \/ Reread(h) \/ add_new_key(h)
             \/ OpenTemporary(h) \/ WriteTemporary(h) \/ Rename(h) \/ SaveFails(h)
             \/ respond_to_cookie_challenge(h) \/ cookie_sha1_second_response(h)
      PROVE  KInv'
  BY <1>1, LoadStep, BestKeyStep, LockAndUnlockStep, RereadStep, AddNewKeyStep,
     OpenTemporaryStep, WriteTemporaryStep, RenameStep, SaveFailsStep, RespondStep, CheckStep
<1>2. ASSUME NEW p \in Processes, Crash(p) PROVE KInv'
  BY <1>2, CrashStep
<1>3. CASE Tick
  BY <1>3, TickStep
<1>4. CASE UNCHANGED vars
  <2>1. Shape' /\ Saving'
    BY <1>4 DEF vars, KInv, Shape, Saving, PerHandshake, DifferentIds, Whole
  <2>2. \A h \in Handshakes : Local(h)'
    BY <1>4, StillLocal DEF vars, Still, KInv
  <2> QED
    BY <2>1, <2>2 DEF KInv
<1> QED
  BY <1>1, <1>2, <1>3, <1>4 DEF KeyringNext

\* The invariant holds from the start, with any of the files there may be.
LEMMA KeyringStart == KeyringInit => KInv
<1> SUFFICES ASSUME KeyringInit PROVE KInv
  OBVIOUS
<1>1. PICK ks \in OldKeys : file = Whole(ks)
  BY DEF KeyringInit
<1>2. ks \in Seq(Key) /\ DifferentIds(ks) /\ file.keys = ks
  BY <1>1, KeyringAssumption DEF Whole
<1>3. Shape
  <2>1. PerHandshake
    BY DEF KeyringInit, PerHandshake
  <2>2. now \in 0 .. MaxTime /\ raced \in BOOLEAN
    <3>1. now = 0 /\ raced = FALSE
      BY DEF KeyringInit
    <3>2. now \in 0 .. MaxTime
      BY <3>1, KeyringAssumption
    <3>3. raced \in BOOLEAN
      BY <3>1
    <3> QED
      BY <3>2, <3>3
  <2>3. DOMAIN tmp = Processes
    <3>1. tmp = [p \in Processes |-> Torn]
      BY DEF KeyringInit
    <3> QED
      BY <3>1
  <2> QED
    BY <1>1, <1>2, <2>1, <2>2, <2>3 DEF Shape
<1>4. Saving
  BY DEF KeyringInit, Saving
<1>5. ASSUME NEW h \in Handshakes PROVE Local(h)
  <2>1. pc[h] = "load" /\ keys[h] = <<>> /\ basis[h] = <<>> /\ since[h] = 0
    BY DEF KeyringInit
  <2> QED
    BY <2>1, NoKeys DEF Local, TypeAt, Pcs, AddingAt, HandedOutAt, StillThereAt, PromptAt
<1> QED
  BY <1>3, <1>4, <1>5 DEF KInv

\* The invariant holds in every state of every behaviour.
THEOREM KeyringInvariance == KeyringSpec => []KInv
  BY KeyringStart, KeyringStep, PTL DEF KeyringSpec

\* The key file is never torn and never holds an id twice, and the lock is held
\* by the one handshake that is saving, however many processes and handshakes
\* there are, whatever crashes and whatever saves fail.
THEOREM FileStaysWhole == KeyringSpec => []KeyringTypeOK
<1>1. KInv => KeyringTypeOK
  <2> SUFFICES ASSUME KInv PROVE KeyringTypeOK
    OBVIOUS
  <2>1. ~ file.torn /\ DifferentIds(file.keys)
    BY FileIsRead DEF KInv
  <2>2. Cardinality(lock) <= 1
    <3>1. CASE lock = {}
      BY <3>1, FS_EmptySet
    <3>2. ASSUME NEW h \in lock PROVE Cardinality(lock) <= 1
      <4>1. lock = {h}
        BY <3>2 DEF KInv, Saving
      <4>2. Cardinality({h}) = 1
        BY FS_Singleton
      <4> QED
        BY <4>1, <4>2
    <3> QED
      BY <3>1, <3>2
  <2> QED
    BY <2>1, <2>2 DEF KInv, Shape, Saving, KeyringTypeOK
<1> QED
  BY <1>1, KeyringInvariance, PTL

\* A handshake carried through within the time a key stays in the file after it
\* was last handed out is not refused, unless a save undid another: for every
\* pair of timeouts, and every interleaving of handshakes, saves and crashes.
THEOREM PromptHandshakes == KeyringSpec => []PromptHandshakesSucceed
<1>1. KInv => PromptHandshakesSucceed
  BY DEF KInv, Local, PromptAt, PromptHandshakesSucceed
<1> QED
  BY <1>1, KeyringInvariance, PTL

=============================================================================
