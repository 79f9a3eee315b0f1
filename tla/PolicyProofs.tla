---------------------------- MODULE PolicyProofs ----------------------------
(***************************************************************************)
(* The policy files have the last word where they should: for any files,    *)
(* tags, rules, identities and messages, the rules read from the files and  *)
(* run in the order of applicable() give the verdict of the statement that  *)
(* outweighs the others.                                                    *)
(*                                                                          *)
(* Every list on the way (the rules of a document, of all files, of one     *)
(* context, of the chain) lists a set of statements in an order: Lists.     *)
(* Each loop of the code is a table, whose existence and contents rest on   *)
(* the least-number principle.                                              *)
(***************************************************************************)
EXTENDS Policy, WellFoundedInduction, TLAPS

-----------------------------------------------------------------------------
(* Lists of statements *)

\* The least-number principle for a set of numbers.
LEMMA LeastNat ==
    ASSUME NEW S, S \subseteq Nat, S # {}
    PROVE  \E m \in S : \A k \in S : m <= k
<1>1. PICK m \in S : \A k \in S : ~ (<<k, m>> \in OpToRel(<, Nat))
  BY WFMin, NatLessThanWellFounded
<1>2. \A k \in S : ~ (k < m)
  BY <1>1 DEF OpToRel
<1> QED
  BY <1>2

\* at tells for every rule of s the statement it comes from: one of S, all of S,
\* each of them after those it follows in the relation O.
ListedAt(s, at, S, O) ==
    /\ at \in [1 .. Len(s) -> S]
    /\ \A j \in 1 .. Len(s) : s[j] = at[j][3]
    /\ \A w \in S : \E j \in 1 .. Len(s) : at[j] = w
    /\ \A j, k \in 1 .. Len(s) : j < k => <<at[j], at[k]>> \in O

\* s is a list of the rules of the statements S in the order O.
Lists(s, S, O) ==
    /\ s \in Seq({w[3] : w \in S})
    /\ \E at : ListedAt(s, at, S, O)

\* The empty list lists no statement.
LEMMA ListsNothing == \A O : Lists(<< >>, {}, O)
<1> SUFFICES ASSUME NEW O
             PROVE  Lists(<< >>, {}, O)
  OBVIOUS
<1>1. ListedAt(<< >>, << >>, {}, O)
  BY DEF ListedAt
<1> QED
  BY <1>1 DEF Lists

\* A list of one rule lists one statement.
LEMMA ListsOne ==
    ASSUME NEW w, NEW O
    PROVE  Lists(<<w[3]>>, {w}, O)
<1>1. ListedAt(<<w[3]>>, <<w>>, {w}, O)
  BY DEF ListedAt
<1> QED
  BY <1>1 DEF Lists

\* Two lists one after the other list the statements of both, if those of the
\* second follow those of the first.
LEMMA ListsBoth ==
    ASSUME NEW s, NEW S, NEW t, NEW T, NEW O, Lists(s, S, O), Lists(t, T, O),
           \A v \in S : \A w \in T : <<v, w>> \in O
    PROVE  Lists(s \o t, S \cup T, O)
<1>1. PICK f : ListedAt(s, f, S, O)
  BY DEF Lists
<1>2. PICK g : ListedAt(t, g, T, O)
  BY DEF Lists
<1> DEFINE R == {w[3] : w \in S \cup T}
           m == Len(s)
           n == Len(t)
           at == [j \in 1 .. m + n |-> IF j <= m THEN f[j] ELSE g[j - m]]
<1>3. s \in Seq(R) /\ t \in Seq(R)
  <2>1. {w[3] : w \in S} \subseteq R /\ {w[3] : w \in T} \subseteq R
    OBVIOUS
  <2>2. s \in Seq({w[3] : w \in S}) /\ t \in Seq({w[3] : w \in T})
    BY DEF Lists
  <2> HIDE DEF R
  <2> QED
    BY <2>1, <2>2
<1>4. /\ s \o t \in Seq(R) /\ m \in Nat /\ n \in Nat /\ Len(s \o t) = m + n
      /\ \A j \in 1 .. m : (s \o t)[j] = s[j]
      /\ \A j \in m + 1 .. m + n : (s \o t)[j] = t[j - m]
  <2> HIDE DEF R
  <2> QED
    BY <1>3
<1>5. /\ \A j \in 1 .. m : f[j] \in S /\ s[j] = f[j][3]
      /\ \A j \in 1 .. n : g[j] \in T /\ t[j] = g[j][3]
  BY <1>1, <1>2 DEF ListedAt
<1>6. /\ \A j \in 1 .. m : at[j] = f[j]
      /\ \A j \in m + 1 .. m + n : at[j] = g[j - m] /\ j - m \in 1 .. n
      /\ \A j \in 1 .. n : at[j + m] = g[j] /\ j + m \in m + 1 .. m + n
      /\ 1 .. m + n = (1 .. m) \cup (m + 1 .. m + n)
  <2>1. m \in Nat /\ n \in Nat
    BY <1>4
  <2> HIDE DEF m, n
  <2>2. 1 .. m + n = (1 .. m) \cup (m + 1 .. m + n)
    BY <2>1
  <2>3. \A j \in 1 .. n : (j + m) - m = j /\ j + m \in m + 1 .. m + n /\ ~ (j + m <= m)
    BY <2>1
  <2> QED
    BY <2>1, <2>2, <2>3
<1>7. at \in [1 .. Len(s \o t) -> S \cup T]
  BY <1>4, <1>5, <1>6
<1> HIDE DEF at, m, n, R
<1>8. ASSUME NEW j \in 1 .. m + n
      PROVE  (s \o t)[j] = at[j][3]
  <2>1. CASE j \in 1 .. m
    BY <1>4, <1>5, <1>6, <2>1
  <2>2. CASE j \in m + 1 .. m + n
    <3>1. (s \o t)[j] = t[j - m] /\ at[j] = g[j - m] /\ j - m \in 1 .. n
      BY <1>4, <1>6, <2>2
    <3> QED
      BY <1>5, <3>1
  <2> QED
    BY <1>6, <2>1, <2>2
<1>9. ASSUME NEW w \in S \cup T
      PROVE  \E j \in 1 .. m + n : at[j] = w
  <2>1. CASE w \in S
    <3>1. PICK j \in 1 .. m : f[j] = w
      BY <1>1, <2>1 DEF ListedAt, m
    <3> QED
      BY <1>6, <3>1
  <2>2. CASE w \in T
    <3>1. PICK j \in 1 .. n : g[j] = w
      BY <1>2, <2>2 DEF ListedAt, n
    <3> QED
      BY <1>6, <3>1
  <2> QED
    BY <2>1, <2>2
<1>10. ASSUME NEW j \in 1 .. m + n, NEW k \in 1 .. m + n, j < k
       PROVE  <<at[j], at[k]>> \in O
  <2>1. CASE k \in 1 .. m
    <3>1. j \in 1 .. m
      BY <1>4, <1>10, <2>1
    <3> QED
      BY <1>1, <1>6, <1>10, <2>1, <3>1 DEF ListedAt, m
  <2>2. CASE k \in m + 1 .. m + n /\ j \in 1 .. m
    BY <1>5, <1>6, <2>2
  <2>3. CASE k \in m + 1 .. m + n /\ j \in m + 1 .. m + n
    <3>1. j - m \in 1 .. n /\ k - m \in 1 .. n /\ j - m < k - m
      BY <1>4, <1>10, <2>3
    <3> QED
      BY <1>2, <1>6, <2>3, <3>1 DEF ListedAt, n
  <2> QED
    BY <1>6, <2>1, <2>2, <2>3
<1>11. ListedAt(s \o t, at, S \cup T, O)
  BY <1>4, <1>7, <1>8, <1>9, <1>10 DEF ListedAt
<1> QED
  BY <1>4, <1>11 DEF Lists, R

\* One more rule at the end lists one more statement.
LEMMA ListsOneMore ==
    ASSUME NEW s, NEW S, NEW w, NEW O, Lists(s, S, O), \A v \in S : <<v, w>> \in O
    PROVE  Lists(Append(s, w[3]), S \cup {w}, O)
<1>1. Lists(s \o <<w[3]>>, S \cup {w}, O)
  BY ListsOne, ListsBoth
<1>2. s \o <<w[3]>> = Append(s, w[3])
  <2> DEFINE R == {v[3] : v \in S} \cup {w[3]}
  <2>1. s \in Seq(R) /\ w[3] \in R
    BY DEF Lists
  <2> HIDE DEF R
  <2> QED
    BY <2>1
<1> QED
  BY <1>1, <1>2

-----------------------------------------------------------------------------
(* The rules of one context *)

FileOrder(W) == {p \in W \X W : Later(p[2], p[1])}

WeightOrder(W) == {p \in W \X W : Outweighs(p[2], p[1])}

\* The table of InContext for the first n rules.
IsInContext(f, rules, context, identity, n) ==
    f = [i \in 0 .. n |->
            IF i = 0 THEN << >>
            ELSE IF rules[i].context = context /\ applies_to(rules[i], identity)
            THEN Append(f[i - 1], rules[i])
            ELSE f[i - 1]]

\* There is a table of InContext's recursion for every number of rules.
LEMMA ContextTable ==
    ASSUME NEW rules, NEW context, NEW identity, NEW n \in Nat
    PROVE  \E f : IsInContext(f, rules, context, identity, n)
<1> DEFINE Sel(i) == rules[i].context = context /\ applies_to(rules[i], identity)
           Bad == {k \in Nat : ~ \E f : IsInContext(f, rules, context, identity, k)}
<1>1. SUFFICES ASSUME Bad # {}
               PROVE  FALSE
  OBVIOUS
<1>2. PICK k \in Bad : \A j \in Bad : k <= j
  <2>1. Bad \subseteq Nat
    OBVIOUS
  <2> HIDE DEF Bad
  <2> QED
    BY <1>1, <2>1, LeastNat
<1>3. k # 0
  <2>1. IsInContext([i \in 0 .. 0 |-> << >>], rules, context, identity, 0)
    BY DEF IsInContext
  <2> QED
    BY <2>1
<1>4. PICK g : IsInContext(g, rules, context, identity, k - 1)
  BY <1>2, <1>3
<1> DEFINE f == [i \in 0 .. k |->
                    IF i = k THEN IF Sel(k) THEN Append(g[k - 1], rules[k]) ELSE g[k - 1]
                    ELSE g[i]]
<1>5. IsInContext(f, rules, context, identity, k)
  <2>1. \A i \in 0 .. k - 1 :
           g[i] = IF i = 0 THEN << >>
                  ELSE IF Sel(i) THEN Append(g[i - 1], rules[i]) ELSE g[i - 1]
    BY <1>2, <1>3, <1>4 DEF IsInContext
  <2> HIDE DEF Sel
  <2>2. \A i \in 0 .. k :
           f[i] = IF i = 0 THEN << >>
                  ELSE IF Sel(i) THEN Append(f[i - 1], rules[i]) ELSE f[i - 1]
    BY <1>2, <1>3, <2>1
  <2> QED
    BY <2>2 DEF IsInContext, Sel
<1> QED
  BY <1>2, <1>5

\* The statements of W that are of a context and apply to an identity.
Of(W, context, identity) ==
    {w \in W : w[3].context = context /\ applies_to(w[3], identity)}

\* Of a list in the order of the files, InContext lists the statements of the
\* context, in the order of their weight.
LEMMA InContextLists ==
    ASSUME NEW rules, NEW W, Lists(rules, W, FileOrder(W)), NEW context, NEW identity
    PROVE  Lists(InContext(rules, context, identity), Of(W, context, identity), WeightOrder(W))
<1>1. PICK at : ListedAt(rules, at, W, FileOrder(W))
  BY DEF Lists
<1> DEFINE n == Len(rules)
           kept == CHOOSE f : IsInContext(f, rules, context, identity, n)
           Sel(w) == w[3].context = context /\ applies_to(w[3], identity)
           Upto(i) == {at[j] : j \in {k \in 1 .. i : Sel(at[k])}}
           O == WeightOrder(W)
<1>2. n \in Nat
  BY DEF Lists
<1>3. IsInContext(kept, rules, context, identity, n)
  BY <1>2, ContextTable
<1>4. InContext(rules, context, identity) = kept[n]
  BY Zenon DEF IsInContext, InContext
<1>5. \A j \in 1 .. n : at[j] \in W /\ rules[j] = at[j][3]
  BY <1>1 DEF ListedAt
<1>6. /\ 0 \in 0 .. n => kept[0] = << >>
      /\ \A i \in 1 .. n : kept[i] = IF Sel(at[i]) THEN Append(kept[i - 1], at[i][3])
                                     ELSE kept[i - 1]
  <2>1. \A i \in 0 .. n :
          kept[i] = IF i = 0 THEN << >>
                    ELSE IF rules[i].context = context /\ applies_to(rules[i], identity)
                    THEN Append(kept[i - 1], rules[i])
                    ELSE kept[i - 1]
    BY <1>3, Zenon DEF IsInContext
  <2> HIDE DEF kept, n
  <2>2. \A i \in 1 .. n : i \in 0 .. n /\ i # 0
    BY <1>2
  <2> QED
    BY <1>5, <2>1, <2>2
<1>7. \A j, k \in 1 .. n : j < k /\ Sel(at[j]) /\ Sel(at[k]) => <<at[j], at[k]>> \in O
  <2> SUFFICES ASSUME NEW j \in 1 .. n, NEW k \in 1 .. n, j < k, Sel(at[j]), Sel(at[k])
               PROVE  <<at[j], at[k]>> \in O
    OBVIOUS
  <2>1. <<at[j], at[k]>> \in FileOrder(W)
    BY <1>1 DEF ListedAt
  <2>2. Later(at[k], at[j])
    BY <2>1 DEF FileOrder
  <2>3. at[j][3].context = at[k][3].context
    OBVIOUS
  <2>4. Outweighs(at[k], at[j])
    BY <2>2, <2>3 DEF Outweighs
  <2> QED
    BY <1>5, <2>4 DEF WeightOrder
<1>8. Upto(n) = Of(W, context, identity)
  <2>1. \A w \in W : \E j \in 1 .. n : at[j] = w
    BY <1>1 DEF ListedAt
  <2> HIDE DEF n
  <2> QED
    BY <1>5, <2>1 DEF Of
<1> HIDE DEF kept, n, Sel, O
<1> DEFINE Good(i) == Lists(kept[i], Upto(i), O)
           Bad == {i \in 0 .. n : ~ Good(i)}
<1>9. Bad = {}
  <2> SUFFICES ASSUME Bad # {}
               PROVE  FALSE
    OBVIOUS
  <2>1. PICK i \in Bad : \A j \in Bad : i <= j
    <3>1. Bad \subseteq Nat
      BY <1>2
    <3> HIDE DEF Bad
    <3> QED
      BY <3>1, LeastNat
  <2>2. i \in 0 .. n /\ i \in Nat
    BY <1>2, <2>1
  <2>3. i # 0
    <3>1. kept[0] = << >>
      BY <1>2, <1>6
    <3>2. Upto(0) = {}
      OBVIOUS
    <3> QED
      BY <2>1, <3>1, <3>2, ListsNothing
  <2>4. i - 1 \in 0 .. n /\ i \in 1 .. n /\ i - 1 < i
    BY <1>2, <2>2, <2>3
  <2>5. Good(i - 1)
    <3> HIDE DEF Good
    <3> QED
      BY <2>1, <2>2, <2>4
  <2>6. CASE ~ Sel(at[i])
    <3>1. Upto(i) = Upto(i - 1)
      <4>1. {k \in 1 .. i : Sel(at[k])} = {k \in 1 .. i - 1 : Sel(at[k])}
        BY <2>2, <2>6
      <4> QED
        BY <4>1
    <3>2. kept[i] = kept[i - 1]
      BY <1>6, <2>4, <2>6
    <3> QED
      BY <2>1, <2>5, <3>1, <3>2
  <2>7. CASE Sel(at[i])
    <3>1. Upto(i) = Upto(i - 1) \cup {at[i]}
      <4>1. {k \in 1 .. i : Sel(at[k])} = {k \in 1 .. i - 1 : Sel(at[k])} \cup {i}
        BY <2>2, <2>3, <2>7
      <4> QED
        BY <4>1
    <3>2. kept[i] = Append(kept[i - 1], at[i][3])
      BY <1>6, <2>4, <2>7
    <3>3. \A v \in Upto(i - 1) : <<v, at[i]>> \in O
      <4> SUFFICES ASSUME NEW k \in 1 .. i - 1, Sel(at[k])
                   PROVE  <<at[k], at[i]>> \in O
        OBVIOUS
      <4>1. k \in 1 .. n /\ k < i
        BY <1>2, <2>2
      <4> QED
        BY <1>7, <2>4, <2>7, <4>1
    <3>4. Lists(kept[i - 1], Upto(i - 1), O)
      BY <2>5
    <3> HIDE DEF Upto
    <3>5. Lists(Append(kept[i - 1], at[i][3]), Upto(i - 1) \cup {at[i]}, O)
      BY <3>3, <3>4, ListsOneMore
    <3> QED
      BY <2>1, <3>1, <3>2, <3>5
  <2> QED
    BY <2>6, <2>7
<1>10. Good(n)
  <2> HIDE DEF Good
  <2> QED
    BY <1>2, <1>9
<1> QED
  BY <1>4, <1>8, <1>10 DEF O

-----------------------------------------------------------------------------
(* The chain of contexts *)

\* The contexts by rank.
LEMMA Ranks ==
    /\ Rank("default") = 1 /\ Rank("user") = 2 /\ Rank("group") = 3 /\ Rank("mandatory") = 4
    /\ Range(Contexts) = {"default", "user", "group", "mandatory"}
<1>1. /\ Contexts[1] = "default" /\ Contexts[2] = "user"
      /\ Contexts[3] = "group" /\ Contexts[4] = "mandatory"
      /\ DOMAIN Contexts = 1 .. 4
  BY DEF Contexts
<1>2. \A k \in 1 .. 4 : k = 1 \/ k = 2 \/ k = 3 \/ k = 4
  OBVIOUS
<1>3. Range(Contexts) = {"default", "user", "group", "mandatory"}
  BY <1>1, <1>2 DEF Range
<1>4. Rank("default") = 1
  BY <1>1, <1>2 DEF Rank
<1>5. Rank("user") = 2
  BY <1>1, <1>2 DEF Rank
<1>6. Rank("group") = 3
  BY <1>1, <1>2 DEF Rank
<1>7. Rank("mandatory") = 4
  BY <1>1, <1>2 DEF Rank
<1> QED
  BY <1>3, <1>4, <1>5, <1>6, <1>7

\* applicable() lists the statements that apply to the identity, in the order of
\* their weight.
LEMMA ApplicableLists ==
    ASSUME NEW rules, NEW W, Lists(rules, W, FileOrder(W)), NEW identity,
           \A w \in W : w[3].context \in Range(Contexts)
    PROVE  Lists(applicable(rules, identity), {w \in W : applies_to(w[3], identity)},
                 WeightOrder(W))
<1> DEFINE In(c) == InContext(rules, c, identity)
           S(c) == Of(W, c, identity)
           O == WeightOrder(W)
<1>1. Lists(In("default"), S("default"), O)
  BY InContextLists
<1>2. Lists(In("user"), S("user"), O)
  BY InContextLists
<1>3. Lists(In("group"), S("group"), O)
  BY InContextLists
<1>4. Lists(In("mandatory"), S("mandatory"), O)
  BY InContextLists
<1>5. ASSUME NEW c, NEW d, Rank(c) < Rank(d), NEW v \in S(c), NEW w \in S(d)
      PROVE  <<v, w>> \in O
  BY <1>5 DEF Of, WeightOrder, Outweighs
<1>6. /\ Rank("default") < Rank("user") /\ Rank("default") < Rank("group")
      /\ Rank("default") < Rank("mandatory") /\ Rank("user") < Rank("group")
      /\ Rank("user") < Rank("mandatory") /\ Rank("group") < Rank("mandatory")
  BY Ranks
<1>7. S("default") \cup S("user") \cup S("group") \cup S("mandatory")
         = {w \in W : applies_to(w[3], identity)}
  BY Ranks DEF Of
<1>8. applicable(rules, identity) = ((In("default") \o In("user")) \o In("group")) \o In("mandatory")
  BY DEF applicable
<1> HIDE DEF In, S, O
<1>9. Lists(In("default") \o In("user"), S("default") \cup S("user"), O)
  <2>1. \A v \in S("default") : \A w \in S("user") : <<v, w>> \in O
    BY <1>5, <1>6
  <2> QED
    BY <1>1, <1>2, <2>1, ListsBoth
<1>10. Lists((In("default") \o In("user")) \o In("group"),
             (S("default") \cup S("user")) \cup S("group"), O)
  <2>1. \A v \in S("default") \cup S("user") : \A w \in S("group") : <<v, w>> \in O
    BY <1>5, <1>6
  <2> QED
    BY <1>3, <1>9, <2>1, ListsBoth
<1>11. Lists(((In("default") \o In("user")) \o In("group")) \o In("mandatory"),
             ((S("default") \cup S("user")) \cup S("group")) \cup S("mandatory"), O)
  <2>1. \A v \in (S("default") \cup S("user")) \cup S("group") :
           \A w \in S("mandatory") : <<v, w>> \in O
    BY <1>5, <1>6
  <2> QED
    BY <1>4, <1>10, <2>1, ListsBoth
<1> QED
  BY <1>7, <1>8, <1>11 DEF O

-----------------------------------------------------------------------------
(* The loop over the chain *)

Hits(rule, kind, hits) == rule.allow[kind] \cap hits # {}

Denies(rule, kind, hits) == rule.deny[kind] \cap hits # {}

\* Of the first n rules, the last one with a hit allows.
LastAllows(chain, kind, hits, n) ==
    \E m \in 1 .. n :
        /\ Hits(chain[m], kind, hits) /\ ~ Denies(chain[m], kind, hits)
        /\ \A k \in m + 1 .. n : ~ Hits(chain[k], kind, hits) /\ ~ Denies(chain[k], kind, hits)

\* The loop's table.
IsAfter(f, chain, kind, hits) ==
    f = [i \in 0 .. Len(chain) |->
            IF i = 0 THEN FALSE
            ELSE /\ f[i - 1] \/ chain[i].allow[kind] \cap hits # {}
                 /\ chain[i].deny[kind] \cap hits = {}]

\* One round of the loop, said of the last rule with a hit.
LEMMA LastAllowsStep ==
    ASSUME NEW chain, NEW kind, NEW hits, NEW i \in Nat \ {0}
    PROVE  LastAllows(chain, kind, hits, i) <=>
             /\ LastAllows(chain, kind, hits, i - 1) \/ Hits(chain[i], kind, hits)
             /\ ~ Denies(chain[i], kind, hits)
<1> DEFINE H(k) == Hits(chain[k], kind, hits)
           D(k) == Denies(chain[k], kind, hits)
           L(n) == \E m \in 1 .. n : H(m) /\ ~ D(m) /\ \A k \in m + 1 .. n : ~ H(k) /\ ~ D(k)
<1>1. \A n : LastAllows(chain, kind, hits, n) <=> L(n)
  BY DEF LastAllows
<1> HIDE DEF H, D
<1>2. ASSUME L(i)
      PROVE  (L(i - 1) \/ H(i)) /\ ~ D(i)
  <2>1. PICK m \in 1 .. i : H(m) /\ ~ D(m) /\ \A k \in m + 1 .. i : ~ H(k) /\ ~ D(k)
    BY <1>2
  <2>2. CASE m = i
    BY <2>1, <2>2
  <2>3. CASE m # i
    <3>1. m \in 1 .. i - 1 /\ i \in m + 1 .. i /\ \A k \in m + 1 .. i - 1 : k \in m + 1 .. i
      BY <2>3
    <3> QED
      BY <2>1, <3>1
  <2> QED
    BY <2>2, <2>3
<1>3. ASSUME L(i - 1) \/ H(i), ~ D(i)
      PROVE  L(i)
  <2>1. CASE H(i)
    <3>1. i \in 1 .. i /\ \A k \in i + 1 .. i : FALSE
      OBVIOUS
    <3> QED
      BY <1>3, <2>1, <3>1
  <2>2. CASE ~ H(i)
    <3>1. PICK m \in 1 .. i - 1 :
             H(m) /\ ~ D(m) /\ \A k \in m + 1 .. i - 1 : ~ H(k) /\ ~ D(k)
      BY <1>3, <2>2
    <3>2. m \in 1 .. i /\ \A k \in m + 1 .. i : k = i \/ k \in m + 1 .. i - 1
      OBVIOUS
    <3> QED
      BY <1>3, <2>2, <3>1, <3>2
  <2> QED
    BY <2>1, <2>2
<1> QED
  BY <1>1, <1>2, <1>3 DEF H, D

\* The loop's verdict is that of the last rule with a hit.
LEMMA VerdictIsLast ==
    ASSUME NEW rules, NEW identity, NEW kind, NEW hits, Len(applicable(rules, identity)) \in Nat
    PROVE  verdict(rules, identity, kind, hits) <=>
             \/ rules = << >>
             \/ LastAllows(applicable(rules, identity), kind, hits,
                           Len(applicable(rules, identity)))
<1> DEFINE chain == applicable(rules, identity)
           n == Len(chain)
           L(i) == LastAllows(chain, kind, hits, i)
           after == CHOOSE f : IsAfter(f, chain, kind, hits)
<1>1. verdict(rules, identity, kind, hits) = (rules = << >> \/ after[n])
  BY Zenon DEF verdict, IsAfter
<1>2. n \in Nat
  OBVIOUS
<1>3. ~ L(0) /\ \A i \in 0 .. n : L(i) \in BOOLEAN
  BY DEF LastAllows
<1>4. \A i \in 1 .. n : L(i) <=> /\ L(i - 1) \/ chain[i].allow[kind] \cap hits # {}
                                /\ chain[i].deny[kind] \cap hits = {}
  BY <1>2, LastAllowsStep DEF Hits, Denies
<1> HIDE DEF chain, n, L
<1>5. IsAfter([i \in 0 .. n |-> L(i)], chain, kind, hits)
  <2> DEFINE g == [i \in 0 .. n |-> L(i)]
  <2>1. \A i \in 1 .. n : i - 1 \in 0 .. n /\ i \in 0 .. n
    BY <1>2
  <2>2. \A i \in 0 .. n : g[i] = IF i = 0 THEN FALSE
                                 ELSE /\ g[i - 1] \/ chain[i].allow[kind] \cap hits # {}
                                      /\ chain[i].deny[kind] \cap hits = {}
    <3> SUFFICES ASSUME NEW i \in 0 .. n
                 PROVE  g[i] = IF i = 0 THEN FALSE
                               ELSE /\ g[i - 1] \/ chain[i].allow[kind] \cap hits # {}
                                    /\ chain[i].deny[kind] \cap hits = {}
      OBVIOUS
    <3>1. g[i] = L(i) /\ L(i) \in BOOLEAN
      BY <1>3, Zenon
    <3>2. CASE i = 0
      BY <1>3, <3>1, <3>2
    <3>3. CASE i # 0
      <4>1. i \in 1 .. n /\ i - 1 \in 0 .. n
        BY <1>2, <3>3
      <4>2. g[i - 1] = L(i - 1)
        BY <4>1, Zenon
      <4>3. L(i) <=> /\ L(i - 1) \/ chain[i].allow[kind] \cap hits # {}
                     /\ chain[i].deny[kind] \cap hits = {}
        BY <1>4, <4>1, Zenon
      <4> QED
        BY <3>1, <3>3, <4>2, <4>3, Zenon
    <3> QED
      BY <3>2, <3>3
  <2>3. g = [i \in 0 .. n |-> IF i = 0 THEN FALSE
                              ELSE /\ g[i - 1] \/ chain[i].allow[kind] \cap hits # {}
                                   /\ chain[i].deny[kind] \cap hits = {}]
    <3>1. g = [i \in 0 .. n |-> g[i]]
      OBVIOUS
    <3> HIDE DEF g
    <3> QED
      BY <2>2, <3>1, Zenon
  <2> QED
    BY <2>3, Zenon DEF IsAfter, n
<1>6. IsAfter(after, chain, kind, hits)
  BY <1>5, Zenon
<1>7. \A i \in 0 .. n : after[i] = IF i = 0 THEN FALSE
                                   ELSE /\ after[i - 1] \/ chain[i].allow[kind] \cap hits # {}
                                        /\ chain[i].deny[kind] \cap hits = {}
  BY <1>6, Zenon DEF IsAfter, n
<1> HIDE DEF after
<1> DEFINE Bad == {i \in 0 .. n : ~ (after[i] <=> L(i))}
<1>8. Bad = {}
  <2> SUFFICES ASSUME Bad # {}
               PROVE  FALSE
    OBVIOUS
  <2>1. PICK i \in Bad : \A j \in Bad : i <= j
    <3>1. Bad \subseteq Nat
      BY <1>2
    <3> HIDE DEF Bad
    <3> QED
      BY <3>1, LeastNat
  <2>2. i # 0
    BY <1>3, <1>7, <2>1
  <2>3. i \in 1 .. n /\ i - 1 \in 0 .. n /\ i - 1 < i
    BY <1>2, <2>1, <2>2
  <2>4. after[i - 1] <=> L(i - 1)
    BY <2>1, <2>3
  <2>5. after[i] = (/\ after[i - 1] \/ chain[i].allow[kind] \cap hits # {}
                    /\ chain[i].deny[kind] \cap hits = {})
    BY <1>7, <2>1, <2>2
  <2>6. L(i) <=> /\ L(i - 1) \/ chain[i].allow[kind] \cap hits # {}
                 /\ chain[i].deny[kind] \cap hits = {}
    BY <1>4, <2>3
  <2> QED
    BY <2>1, <2>4, <2>5, <2>6
<1>9. after[n] <=> L(n)
  BY <1>2, <1>8
<1> QED
  BY <1>1, <1>9 DEF L, n, chain

\* Of two statements not both outweigh the other, and none outweighs itself.
LEMMA OutweighsIsStrict ==
    ASSUME NEW v, NEW w, v[1] \in Nat, v[2] \in Nat, w[1] \in Nat, w[2] \in Nat,
           v[3].context \in Range(Contexts), w[3].context \in Range(Contexts),
           Outweighs(v, w)
    PROVE  ~ Outweighs(w, v) /\ v # w
<1>1. Rank(v[3].context) \in Nat /\ Rank(w[3].context) \in Nat
  BY Ranks
<1> QED
  BY <1>1 DEF Outweighs, Later

\* What the rules say, when they list all statements, is the last word of the files.
LEMMA PermitsIsLastWord ==
    ASSUME NEW files, NEW rules, NEW identity, NEW kind \in {"own", "send", "receive"},
           NEW msg, NEW text,
           Lists(rules, AllStatements(files), FileOrder(AllStatements(files))),
           \A w \in AllStatements(files) :
              w[1] \in Nat /\ w[2] \in Nat /\ w[3].context \in Range(Contexts)
    PROVE  Permits(rules, identity, kind, msg, text)
              <=> LastWord(files, identity, kind, msg, text)
<1> DEFINE W == AllStatements(files)
           O == WeightOrder(W)
           A == {w \in W : applies_to(w[3], identity)}
           chain == applicable(rules, identity)
           n == Len(chain)
           Match(patterns) == \E p \in patterns[kind] : IsAbout(p, kind, msg, text)
           Yes(w) == Match(w[3].allow)
           No(w) == Match(w[3].deny)
           words == {w \in W : applies_to(w[3], identity) /\ (Yes(w) \/ No(w))}
           hits == {p \in KnownPatterns(rules, kind) : IsAbout(p, kind, msg, text)}
<1>1. PICK src : ListedAt(rules, src, W, FileOrder(W))
  BY DEF Lists
<1>2. Lists(chain, A, O)
  BY ApplicableLists
<1>3. PICK at : ListedAt(chain, at, A, O)
  BY <1>2 DEF Lists
<1>4. n \in Nat /\ Len(rules) \in Nat /\ DOMAIN rules = 1 .. Len(rules)
  BY <1>2 DEF Lists
<1>5. rules = << >> <=> W = {}
  <2>1. CASE rules = << >>
    BY <1>1, <2>1 DEF ListedAt
  <2>2. CASE W = {}
    <3>1. {w[3] : w \in W} = {}
      BY <2>2
    <3>2. rules \in Seq({})
      BY <3>1 DEF Lists
    <3> QED
      BY <2>2, <3>2
  <2> QED
    BY <2>1, <2>2
<1>6. ASSUME NEW w \in W
      PROVE  (Hits(w[3], kind, hits) <=> Yes(w)) /\ (Denies(w[3], kind, hits) <=> No(w))
  <2>1. PICK j \in 1 .. Len(rules) : src[j] = w
    BY <1>1 DEF ListedAt
  <2>2. rules[j] = w[3]
    BY <1>1, <2>1 DEF ListedAt
  <2>3. j \in DOMAIN rules
    BY <1>4, <2>1
  <2>4. w[3].allow[kind] \cup w[3].deny[kind] \subseteq KnownPatterns(rules, kind)
    BY <2>2, <2>3 DEF KnownPatterns
  <2> QED
    BY <2>4 DEF Hits, Denies
<1>7. Permits(rules, identity, kind, msg, text)
         <=> rules = << >> \/ LastAllows(chain, kind, hits, n)
  <2>1. Permits(rules, identity, kind, msg, text) = verdict(rules, identity, kind, hits)
    BY DEF Permits, IsAbout, can_own, can_send, can_receive
  <2> HIDE DEF hits
  <2> QED
    BY <1>4, <2>1, VerdictIsLast
<1>8. LastWord(files, identity, kind, msg, text)
         <=> \/ W = {}
             \/ \E w \in words : ~ No(w) /\ \A v \in words \ {w} : Outweighs(w, v)
  BY DEF LastWord
<1>9. /\ \A j \in 1 .. n : at[j] \in A /\ at[j] \in W /\ chain[j] = at[j][3]
      /\ \A w \in A : \E j \in 1 .. n : at[j] = w
      /\ \A j, k \in 1 .. n : j < k => Outweighs(at[k], at[j])
  BY <1>3 DEF ListedAt, WeightOrder
<1>10. \A j \in 1 .. n : /\ Hits(chain[j], kind, hits) <=> Yes(at[j])
                         /\ Denies(chain[j], kind, hits) <=> No(at[j])
                         /\ at[j] \in words <=> Yes(at[j]) \/ No(at[j])
  <2> SUFFICES ASSUME NEW j \in 1 .. n
               PROVE  /\ Hits(chain[j], kind, hits) <=> Yes(at[j])
                      /\ Denies(chain[j], kind, hits) <=> No(at[j])
                      /\ at[j] \in words <=> Yes(at[j]) \/ No(at[j])
    OBVIOUS
  <2>1. at[j] \in A /\ at[j] \in W /\ chain[j] = at[j][3]
    BY <1>9
  <2> HIDE DEF Yes, No, hits
  <2> QED
    BY <1>6, <2>1
<1>11. \A w \in words : w \in A /\ w \in W /\ (Yes(w) \/ No(w))
  OBVIOUS
<1>12. \A v, w \in W : Outweighs(v, w) => ~ Outweighs(w, v) /\ v # w
  BY OutweighsIsStrict
<1> HIDE DEF Yes, No, hits, words, W, A, chain, n, O
<1>13. ASSUME LastAllows(chain, kind, hits, n)
       PROVE  \E w \in words : ~ No(w) /\ \A v \in words \ {w} : Outweighs(w, v)
  <2>1. PICK m \in 1 .. n :
           /\ Hits(chain[m], kind, hits) /\ ~ Denies(chain[m], kind, hits)
           /\ \A k \in m + 1 .. n :
                 ~ Hits(chain[k], kind, hits) /\ ~ Denies(chain[k], kind, hits)
    BY <1>13 DEF LastAllows
  <2>2. at[m] \in words /\ ~ No(at[m])
    BY <1>10, <2>1
  <2>3. ASSUME NEW v \in words \ {at[m]}
        PROVE  Outweighs(at[m], v)
    <3>1. PICK k \in 1 .. n : at[k] = v
      BY <1>9, <1>11
    <3>2. k # m
      BY <3>1
    <3>3. ~ (k \in m + 1 .. n)
      BY <1>10, <1>11, <2>1, <3>1
    <3>4. k < m
      BY <1>4, <3>2, <3>3
    <3> QED
      BY <1>9, <3>1, <3>4
  <2> QED
    BY <2>2, <2>3
<1>14. ASSUME NEW w \in words, ~ No(w), \A v \in words \ {w} : Outweighs(w, v)
       PROVE  LastAllows(chain, kind, hits, n)
  <2>1. PICK m \in 1 .. n : at[m] = w
    BY <1>9, <1>11
  <2>2. Hits(chain[m], kind, hits) /\ ~ Denies(chain[m], kind, hits)
    BY <1>10, <1>11, <1>14, <2>1
  <2>3. ASSUME NEW k \in m + 1 .. n
        PROVE  ~ Hits(chain[k], kind, hits) /\ ~ Denies(chain[k], kind, hits)
    <3>1. k \in 1 .. n /\ m < k
      BY <1>4
    <3>2. Outweighs(at[k], w) /\ at[k] \in W /\ w \in W
      BY <1>9, <2>1, <3>1
    <3>3. at[k] # w /\ ~ Outweighs(w, at[k])
      BY <1>12, <3>2
    <3>4. at[k] \notin words
      BY <1>14, <3>3
    <3> QED
      BY <1>10, <3>1, <3>4
  <2> QED
    BY <2>2, <2>3 DEF LastAllows
<1> QED
  BY <1>5, <1>7, <1>8, <1>13, <1>14

-----------------------------------------------------------------------------
(* The rules of a document *)

\* The table of parse_xml_policy for the first n tags.
IsParse(f, doc, n) ==
    f = [i \in 0 .. n |-> IF i = 0 THEN [ctx |-> {}, rules |-> << >>]
                          ELSE XmlStep(f[i - 1], doc[i])]

\* There is a table of the parser's loop for every number of tags.
LEMMA ParseTable ==
    ASSUME NEW doc, NEW n \in Nat
    PROVE  \E f : IsParse(f, doc, n)
<1> DEFINE Bad == {k \in Nat : ~ \E f : IsParse(f, doc, k)}
           start == [ctx |-> {}, rules |-> << >>]
<1>1. SUFFICES ASSUME Bad # {}
               PROVE  FALSE
  OBVIOUS
<1>2. PICK k \in Bad : \A j \in Bad : k <= j
  <2>1. Bad \subseteq Nat
    OBVIOUS
  <2> HIDE DEF Bad
  <2> QED
    BY <1>1, <2>1, LeastNat
<1>3. k # 0
  <2>1. IsParse([i \in 0 .. 0 |-> start], doc, 0)
    BY DEF IsParse
  <2> QED
    BY <2>1
<1>4. PICK g : IsParse(g, doc, k - 1)
  BY <1>2, <1>3
<1> DEFINE f == [i \in 0 .. k |-> IF i = k THEN XmlStep(g[k - 1], doc[k]) ELSE g[i]]
<1>5. IsParse(f, doc, k)
  <2> HIDE DEF start
  <2>1. \A i \in 0 .. k - 1 : g[i] = IF i = 0 THEN start ELSE XmlStep(g[i - 1], doc[i])
    BY <1>2, <1>3, <1>4 DEF IsParse, start
  <2>2. \A i \in 0 .. k : f[i] = IF i = 0 THEN start ELSE XmlStep(f[i - 1], doc[i])
    BY <1>2, <1>3, <2>1
  <2> QED
    BY <2>2 DEF IsParse, start
<1> QED
  BY <1>2, <1>5

Opens(tok) == tok.name = "policy" /\ tok.kind = "start"

Closes(tok) == tok.name = "policy" /\ tok.kind = "end"

MakesRule(tok) ==
    /\ tok.name \in {"allow", "deny"} /\ tok.kind # "end"
    /\ ElementPatterns(tok.attrs) # NoPatterns

\* The context that is open.
TheContext(ctx) == CHOOSE c \in ctx : TRUE

\* The state of the parser.
Parser(ctx, rules) == [ctx |-> ctx, rules |-> rules]

\* An element in a context makes a rule.
LEMMA XmlStepMakesRule ==
    ASSUME NEW ctx, NEW rules, NEW tok, MakesRule(tok), ctx # {}
    PROVE  XmlStep(Parser(ctx, rules), tok)
              = Parser(ctx, Append(rules, element_rule(tok.name, tok.attrs, TheContext(ctx))))
<1> DEFINE s == Parser(ctx, rules)
           rule == element_rule(tok.name, tok.attrs, TheContext(ctx))
<1>1. s.ctx = ctx /\ s.rules = rules
  BY DEF Parser
<1>2. XmlStep(s, tok) = [s EXCEPT !.rules = Append(@, rule)]
  <2> HIDE DEF s
  <2> QED
    BY <1>1 DEF XmlStep, MakesRule, TheContext
<1>3. ASSUME NEW longer
      PROVE  [s EXCEPT !.rules = longer] = Parser(ctx, longer)
  BY DEF Parser
<1> HIDE DEF s, rule
<1>4. [s EXCEPT !.rules = Append(@, rule)] = [s EXCEPT !.rules = Append(rules, rule)]
  BY <1>1
<1>5. XmlStep(s, tok) = Parser(ctx, Append(rules, rule))
  BY <1>2, <1>3, <1>4
<1> QED
  BY <1>5 DEF s, rule

\* What the other tags do to the parser.
LEMMA XmlStepCases ==
    ASSUME NEW ctx, NEW rules, NEW tok
    PROVE  /\ Opens(tok) =>
                 XmlStep(Parser(ctx, rules), tok) = Parser({policy_context(tok.attrs)}, rules)
           /\ Closes(tok) => XmlStep(Parser(ctx, rules), tok) = Parser({}, rules)
           /\ ~ Opens(tok) /\ ~ Closes(tok) /\ ~ (MakesRule(tok) /\ ctx # {}) =>
                 XmlStep(Parser(ctx, rules), tok) = Parser(ctx, rules)
<1> DEFINE s == Parser(ctx, rules)
           c0 == policy_context(tok.attrs)
<1>1. s.ctx = ctx
  BY DEF Parser
<1>2. [s EXCEPT !.ctx = {c0}] = Parser({c0}, rules) /\ [s EXCEPT !.ctx = {}] = Parser({}, rules)
  <2> HIDE DEF c0
  <2> QED
    BY DEF Parser
<1> HIDE DEF s
<1>3. /\ Opens(tok) => XmlStep(s, tok) = [s EXCEPT !.ctx = {c0}]
      /\ Closes(tok) => XmlStep(s, tok) = [s EXCEPT !.ctx = {}]
      /\ ~ Opens(tok) /\ ~ Closes(tok) /\ ~ (MakesRule(tok) /\ ctx # {}) => XmlStep(s, tok) = s
  BY <1>1 DEF XmlStep, Opens, Closes, MakesRule
<1> QED
  BY <1>2, <1>3 DEF s

\* The context a tag leaves open.
LEMMA OpeningsAfter ==
    ASSUME NEW doc, NEW i \in Nat \ {0}
    PROVE  /\ Opens(doc[i]) => Openings(doc, i + 1) = {i}
           /\ Closes(doc[i]) => Openings(doc, i + 1) = {}
           /\ ~ Opens(doc[i]) /\ ~ Closes(doc[i]) => Openings(doc, i + 1) = Openings(doc, i)
<1> DEFINE Ends(k) == doc[k].name = "policy" /\ doc[k].kind \in {"start", "end"}
<1>1. \A j, m : j \in Openings(doc, m)
         <=> j \in 1 .. m - 1 /\ Opens(doc[j]) /\ \A k \in j + 1 .. m - 1 : ~ Ends(k)
  BY DEF Openings, Opens
<1>2. Ends(i) <=> Opens(doc[i]) \/ Closes(doc[i])
  BY DEF Opens, Closes
<1>3. ~ (Opens(doc[i]) /\ Closes(doc[i]))
  BY DEF Opens, Closes
<1> HIDE DEF Ends
<1>4. ASSUME NEW j, Ends(i)
      PROVE  j \in Openings(doc, i + 1) <=> j = i /\ Opens(doc[i])
  <2>1. ASSUME j \in Openings(doc, i + 1)
        PROVE  j = i /\ Opens(doc[i])
    <3>1. /\ j \in 1 .. i /\ Opens(doc[j]) /\ \A k \in j + 1 .. i : ~ Ends(k)
      BY <1>1, <2>1
    <3> QED
      BY <1>4, <3>1
  <2>2. ASSUME j = i, Opens(doc[i])
        PROVE  j \in Openings(doc, i + 1)
    BY <1>1, <2>2
  <2> QED
    BY <2>1, <2>2
<1>5. ASSUME NEW j, ~ Ends(i)
      PROVE  j \in Openings(doc, i + 1) <=> j \in Openings(doc, i)
  <2>1. ASSUME j \in Openings(doc, i + 1)
        PROVE  j \in Openings(doc, i)
    <3>1. /\ j \in 1 .. i /\ Opens(doc[j]) /\ \A k \in j + 1 .. i : ~ Ends(k)
      BY <1>1, <2>1
    <3>2. j # i
      BY <1>2, <1>5, <3>1
    <3> QED
      BY <1>1, <3>1, <3>2
  <2>2. ASSUME j \in Openings(doc, i)
        PROVE  j \in Openings(doc, i + 1)
    <3>1. /\ j \in 1 .. i - 1 /\ Opens(doc[j]) /\ \A k \in j + 1 .. i - 1 : ~ Ends(k)
      BY <1>1, <2>2
    <3>2. \A k \in j + 1 .. i : k = i \/ k \in j + 1 .. i - 1
      BY <3>1
    <3>3. j \in 1 .. (i + 1) - 1 /\ (i + 1) - 1 = i
      BY <3>1
    <3> QED
      BY <1>1, <1>5, <3>1, <3>2, <3>3
  <2> QED
    BY <2>1, <2>2
<1>6. ASSUME Opens(doc[i])
      PROVE  Openings(doc, i + 1) = {i}
  BY <1>2, <1>4, <1>6
<1>7. ASSUME Closes(doc[i])
      PROVE  Openings(doc, i + 1) = {}
  BY <1>2, <1>3, <1>4, <1>7
<1>8. ASSUME ~ Opens(doc[i]), ~ Closes(doc[i])
      PROVE  Openings(doc, i + 1) = Openings(doc, i)
  BY <1>2, <1>5, <1>8
<1> QED
  BY <1>6, <1>7, <1>8

\* At most one context is open.
LEMMA OneOpening ==
    ASSUME NEW doc, NEW i \in Nat
    PROVE  \A j, k \in Openings(doc, i) : j = k
<1> SUFFICES ASSUME NEW j \in Openings(doc, i), NEW k \in Openings(doc, i), j < k
             PROVE  FALSE
  <2>1. \A j \in Openings(doc, i) : j \in Nat
    BY DEF Openings
  <2> QED
    BY <2>1
<1>1. j \in 1 .. i - 1 /\ k \in 1 .. i - 1
  BY DEF Openings
<1>2. k \in j + 1 .. i - 1
  BY <1>1
<1> QED
  BY <1>2 DEF Openings

\* The rules of a document are its elements, in their order.
LEMMA ParseLists ==
    ASSUME NEW doc, doc \in Seq(Range(doc)), NEW n, NEW W,
           \A a \in Elements(doc) : <<n, a, RuleOf(doc, a)>> \in W
    PROVE  Lists(parse_xml_policy(doc), {<<n, a, RuleOf(doc, a)>> : a \in Elements(doc)},
                 FileOrder(W))
<1> DEFINE len == Len(doc)
           st == CHOOSE f : IsParse(f, doc, len)
           O == FileOrder(W)
           E(i) == {a \in Elements(doc) : a <= i}
           S(i) == {<<n, a, RuleOf(doc, a)>> : a \in E(i)}
           Ctx(i) == {policy_context(doc[j].attrs) : j \in Openings(doc, i)}
           Good(i) == /\ st[i] = Parser(Ctx(i + 1), st[i].rules)
                      /\ Lists(st[i].rules, S(i), O)
           Bad == {i \in 0 .. len : ~ Good(i)}
<1>1. len \in Nat /\ DOMAIN doc = 1 .. len
  OBVIOUS
<1>2. IsParse(st, doc, len)
  BY <1>1, ParseTable
<1>3. parse_xml_policy(doc) = st[len].rules
  BY Zenon DEF IsParse, parse_xml_policy
<1>4. \A i \in 0 .. len : st[i] = IF i = 0 THEN [ctx |-> {}, rules |-> << >>]
                                  ELSE XmlStep(st[i - 1], doc[i])
  BY <1>2, Zenon DEF IsParse
<1>5. \A a \in Elements(doc) : a \in 1 .. len
  BY <1>1 DEF Elements
<1> HIDE DEF st, len
<1>6. Good(0)
  <2>1. st[0] = Parser({}, << >>)
    BY <1>1, <1>4 DEF Parser
  <2>2. Ctx(1) = {}
    BY DEF Openings
  <2>3. S(0) = {}
    BY <1>1, <1>5
  <2>4. Lists(<< >>, {}, O)
    BY ListsNothing
  <2>5. st[0].rules = << >> /\ 0 + 1 = 1
    BY <2>1 DEF Parser
  <2> HIDE DEF Ctx, S, O
  <2> QED
    BY <2>1, <2>2, <2>3, <2>4, <2>5, Zenon
<1>7. ASSUME NEW i \in 1 .. len, Good(i - 1)
      PROVE  Good(i)
  <2> DEFINE old == st[i - 1].rules
             tok == doc[i]
  <2>1. i \in Nat \ {0} /\ (i - 1) + 1 = i /\ i \in 0 .. len /\ i \in DOMAIN doc
    BY <1>1
  <2>2. st[i - 1] = Parser(Ctx(i), old) /\ Lists(old, S(i - 1), O)
    BY <1>7, <2>1
  <2>3. st[i] = XmlStep(Parser(Ctx(i), old), tok)
    BY <1>4, <2>1, <2>2
  <2>4. i \in Elements(doc) <=> MakesRule(tok) /\ Ctx(i) # {}
    BY <2>1 DEF Elements, MakesRule
  <2>5. i \notin Elements(doc) => S(i) = S(i - 1)
    <3>1. i \notin Elements(doc) => E(i) = E(i - 1)
      BY <1>1, <1>5
    <3> QED
      BY <3>1
  <2>6. i \in Elements(doc) => S(i) = S(i - 1) \cup {<<n, i, RuleOf(doc, i)>>}
    <3>1. i \in Elements(doc) => E(i) = E(i - 1) \cup {i}
      <4>1. \A a \in Elements(doc) : a <= i <=> a <= i - 1 \/ a = i
        BY <1>1, <1>5, <2>1
      <4> QED
        BY <4>1
    <3> HIDE DEF E
    <3> QED
      BY <3>1
  <2>7. /\ Opens(tok) => Openings(doc, i + 1) = {i}
        /\ Closes(tok) => Openings(doc, i + 1) = {}
        /\ ~ Opens(tok) /\ ~ Closes(tok) => Openings(doc, i + 1) = Openings(doc, i)
    BY <2>1, OpeningsAfter
  <2>8. (MakesRule(tok) => ~ Opens(tok) /\ ~ Closes(tok)) /\ ~ (Opens(tok) /\ Closes(tok))
    BY DEF MakesRule, Opens, Closes
  <2>9. CASE Opens(tok)
    <3>1. Ctx(i + 1) = {policy_context(tok.attrs)}
      BY <2>7, <2>9
    <3>2. st[i] = Parser({policy_context(tok.attrs)}, old)
      <4> HIDE DEF Ctx, old, tok
      <4> QED
        BY <2>3, <2>9, XmlStepCases
    <3>3. S(i) = S(i - 1)
      BY <2>4, <2>5, <2>8, <2>9
    <3> HIDE DEF Ctx, S, O, tok, old
    <3>4. st[i].rules = old
      BY <3>2 DEF Parser
    <3> QED
      BY <2>2, <3>1, <3>2, <3>3, <3>4, Zenon
  <2>10. CASE Closes(tok)
    <3>1. Ctx(i + 1) = {}
      BY <2>7, <2>10
    <3>2. st[i] = Parser({}, old)
      <4> HIDE DEF Ctx, old, tok
      <4> QED
        BY <2>3, <2>10, XmlStepCases
    <3>3. S(i) = S(i - 1)
      BY <2>4, <2>5, <2>8, <2>10
    <3> HIDE DEF Ctx, S, O, tok, old
    <3>4. st[i].rules = old
      BY <3>2 DEF Parser
    <3> QED
      BY <2>2, <3>1, <3>2, <3>3, <3>4, Zenon
  <2>11. CASE MakesRule(tok) /\ Ctx(i) # {}
    <3> DEFINE rule == RuleOf(doc, i)
               w == <<n, i, rule>>
    <3>1. Ctx(i + 1) = Ctx(i)
      BY <2>7, <2>8, <2>11
    <3>2. TheContext(Ctx(i))
             = policy_context(doc[CHOOSE j \in Openings(doc, i) : TRUE].attrs)
      <4>1. PICK j \in Openings(doc, i) : TRUE
        BY <2>11
      <4>2. Openings(doc, i) = {j}
        BY <2>1, <4>1, OneOpening
      <4>3. (CHOOSE k \in Openings(doc, i) : TRUE) = j
        BY <4>2
      <4>4. Ctx(i) = {policy_context(doc[j].attrs)}
        BY <4>2
      <4> QED
        BY <4>3, <4>4 DEF TheContext
    <3>3. element_rule(tok.name, tok.attrs, TheContext(Ctx(i))) = rule
      BY <3>2 DEF RuleOf
    <3>4. st[i] = Parser(Ctx(i), Append(old, element_rule(tok.name, tok.attrs, TheContext(Ctx(i)))))
      <4> HIDE DEF Ctx, old, tok
      <4>1. ASSUME NEW C, NEW r, C # {}
            PROVE  XmlStep(Parser(C, r), tok)
                     = Parser(C, Append(r, element_rule(tok.name, tok.attrs, TheContext(C))))
        BY <2>11, <4>1, XmlStepMakesRule
      <4> QED
        BY <2>3, <2>11, <4>1, Zenon
    <3>5. i \in Elements(doc)
      BY <2>4, <2>11
    <3>6. \A v \in S(i - 1) : <<v, w>> \in O
      <4> SUFFICES ASSUME NEW a \in E(i - 1)
                   PROVE  <<(<<n, a, RuleOf(doc, a)>>), w>> \in O
        OBVIOUS
      <4>1. a < i /\ a \in Elements(doc)
        BY <1>1, <1>5, <2>1
      <4>2. <<n, a, RuleOf(doc, a)>> \in W /\ w \in W
        BY <3>5, <4>1
      <4> QED
        BY <4>1, <4>2 DEF FileOrder, Later
    <3>7. w[3] = rule
      OBVIOUS
    <3>8. S(i) = S(i - 1) \cup {w}
      BY <2>6, <3>5
    <3> HIDE DEF w, rule, Ctx, S, O, tok, old
    <3>9. Lists(Append(old, w[3]), S(i - 1) \cup {w}, O)
      BY <2>2, <3>6, ListsOneMore
    <3>10. st[i] = Parser(Ctx(i), Append(old, w[3]))
      BY <3>3, <3>4, <3>7, Zenon
    <3>11. st[i].rules = Append(old, w[3])
      BY <3>10 DEF Parser
    <3> QED
      BY <3>1, <3>8, <3>9, <3>10, <3>11, Zenon
  <2>12. CASE ~ Opens(tok) /\ ~ Closes(tok) /\ ~ (MakesRule(tok) /\ Ctx(i) # {})
    <3>1. Ctx(i + 1) = Ctx(i)
      BY <2>7, <2>12
    <3>2. st[i] = Parser(Ctx(i), old)
      <4> HIDE DEF Ctx, old, tok
      <4> QED
        BY <2>3, <2>12, XmlStepCases
    <3>3. S(i) = S(i - 1)
      BY <2>4, <2>5, <2>12
    <3> HIDE DEF Ctx, S, O, tok, old
    <3>4. st[i].rules = old
      BY <3>2 DEF Parser
    <3> QED
      BY <2>2, <3>1, <3>2, <3>3, <3>4, Zenon
  <2> HIDE DEF Good, Ctx, tok
  <2> QED
    BY <2>9, <2>10, <2>11, <2>12
<1> HIDE DEF Good
<1>8. Bad = {}
  <2> SUFFICES ASSUME Bad # {}
               PROVE  FALSE
    OBVIOUS
  <2>1. PICK i \in Bad : \A j \in Bad : i <= j
    <3>1. Bad \subseteq Nat
      BY <1>1
    <3> HIDE DEF Bad
    <3> QED
      BY <3>1, LeastNat
  <2>2. i # 0
    BY <1>6, <2>1
  <2>3. i \in 1 .. len /\ i - 1 \in 0 .. len /\ i - 1 < i
    BY <1>1, <2>1, <2>2
  <2> QED
    BY <1>7, <2>1, <2>3
<1>9. Good(len)
  BY <1>1, <1>8
<1>10. S(len) = {<<n, a, RuleOf(doc, a)>> : a \in Elements(doc)}
  <2>1. E(len) = Elements(doc)
    BY <1>1, <1>5
  <2> QED
    BY <2>1
<1> QED
  BY <1>3, <1>9, <1>10 DEF Good

-----------------------------------------------------------------------------
(* The rules of all files *)

\* The statements of file n.
Said(files, n) == {<<n, s[1], s[2]>> : s \in Statements(files[n])}

\* A rule has one of the four contexts.
LEMMA RuleContexts ==
    ASSUME NEW doc, NEW a
    PROVE  RuleOf(doc, a).context \in Range(Contexts)
<1>1. \A attrs : policy_context(attrs).context \in {"default", "user", "group", "mandatory"}
  BY DEF policy_context
<1>2. \A tag, attrs, ctx : element_rule(tag, attrs, ctx).context = ctx.context
  BY DEF element_rule, Rule
<1> QED
  BY <1>1, <1>2, Ranks DEF RuleOf

\* A statement has a file, a place in it and a rule of one of the four contexts.
LEMMA StatementTypes ==
    ASSUME NEW files, AreFiles(files), NEW w \in AllStatements(files)
    PROVE  w[1] \in Nat /\ w[2] \in Nat /\ w[3].context \in Range(Contexts)
<1>1. PICK n \in DOMAIN files : w \in Said(files, n)
  BY DEF AllStatements, Said
<1>2. PICK s \in Statements(files[n]) : w = <<n, s[1], s[2]>>
  BY <1>1 DEF Said
<1> DEFINE f == files[n]
<1>3. n \in Nat
  BY DEF AreFiles
<1>4. f \in Range(files)
  BY DEF Range
<1>5. /\ f.ext = "toml" => /\ f.rules \in Seq(Range(f.rules))
                           /\ \A r \in Range(f.rules) : r.context \in Range(Contexts)
      /\ f.ext = "conf" => f.tokens \in Seq(Range(f.tokens))
  BY <1>4 DEF AreFiles
<1> HIDE DEF f
<1>6. CASE f.ext = "toml"
  <2>1. PICK i \in DOMAIN f.rules : s = <<i, f.rules[i]>>
    BY <1>2, <1>6 DEF Statements, f
  <2>2. i \in Nat /\ f.rules[i] \in Range(f.rules)
    BY <1>5, <1>6 DEF Range
  <2> QED
    BY <1>2, <1>3, <1>5, <1>6, <2>1, <2>2
<1>7. CASE f.ext = "conf"
  <2>1. PICK i \in Elements(f.tokens) : s = <<i, RuleOf(f.tokens, i)>>
    BY <1>2, <1>7 DEF Statements, f
  <2>2. i \in Nat
    BY <1>5, <1>7 DEF Elements
  <2>3. RuleOf(f.tokens, i).context \in Range(Contexts)
    BY RuleContexts
  <2>4. w = <<n, i, RuleOf(f.tokens, i)>>
    BY <1>2, <2>1
  <2> QED
    BY <1>3, <2>2, <2>3, <2>4
<1>8. CASE f.ext \notin {"toml", "conf"}
  BY <1>2, <1>8 DEF Statements, f
<1> QED
  BY <1>6, <1>7, <1>8

\* The rules of a file list its statements.
LEMMA FileLists ==
    ASSUME NEW files, AreFiles(files), NEW n \in DOMAIN files
    PROVE  Lists(RulesOf(files[n]), Said(files, n), FileOrder(AllStatements(files)))
<1> DEFINE f == files[n]
           O == FileOrder(AllStatements(files))
<1>1. f \in Range(files)
  BY DEF Range
<1>2. /\ f.ext = "toml" => f.rules \in Seq(Range(f.rules))
      /\ f.ext = "conf" => f.tokens \in Seq(Range(f.tokens))
  BY <1>1 DEF AreFiles
<1>3. Said(files, n) \subseteq AllStatements(files)
  BY DEF AllStatements, Said
<1>4. CASE f.ext = "toml" /\ ~ f.malformed
  <2> DEFINE r == f.rules
             S == {<<n, i, r[i]>> : i \in DOMAIN r}
             at == [i \in 1 .. Len(r) |-> <<n, i, r[i]>>]
  <2>1. RulesOf(f) = r
    BY <1>4 DEF RulesOf
  <2>2. Said(files, n) = S
    <3>1. Statements(f) = {<<i, r[i]>> : i \in DOMAIN r}
      BY <1>4 DEF Statements
    <3>2. \A w : w \in Said(files, n) <=> \E s \in Statements(f) : w = <<n, s[1], s[2]>>
      BY DEF Said
    <3> HIDE DEF r, f
    <3>3. \A w : w \in Said(files, n) <=> \E i \in DOMAIN r : w = <<n, i, r[i]>>
      <4>1. \A i : <<i, r[i]>>[1] = i /\ <<i, r[i]>>[2] = r[i]
        OBVIOUS
      <4>2. ASSUME NEW w, NEW i \in DOMAIN r, w = <<n, i, r[i]>>
            PROVE  w \in Said(files, n)
        BY <3>1, <3>2, <4>1, <4>2
      <4>3. ASSUME NEW w \in Said(files, n)
            PROVE  \E i \in DOMAIN r : w = <<n, i, r[i]>>
        BY <3>1, <3>2, <4>1
      <4> QED
        BY <4>2, <4>3
    <3> QED
      BY <3>3
  <2>3. r \in Seq(Range(r)) /\ Len(r) \in Nat /\ DOMAIN r = 1 .. Len(r)
    BY <1>2, <1>4
  <2>4. \A j, k \in 1 .. Len(r) : j < k => <<at[j], at[k]>> \in O
    <3>1. \A j \in 1 .. Len(r) : at[j] = <<n, j, r[j]>> /\ at[j] \in AllStatements(files)
      BY <1>3, <2>2, <2>3
    <3>2. ASSUME NEW j \in 1 .. Len(r), NEW k \in 1 .. Len(r), j < k
          PROVE  Later(at[k], at[j])
      BY <3>1, <3>2 DEF Later
    <3> HIDE DEF at
    <3> QED
      BY <3>1, <3>2 DEF FileOrder
  <2>5. ListedAt(r, at, S, O)
    <3>1. at \in [1 .. Len(r) -> S]
      BY <2>3
    <3>2. \A w \in S : \E j \in 1 .. Len(r) : at[j] = w
      BY <2>3
    <3> QED
      BY <2>4, <3>1, <3>2 DEF ListedAt
  <2>6. r \in Seq({w[3] : w \in S})
    <3>1. \A i \in 1 .. Len(r) : r[i] \in {w[3] : w \in S}
      <4> SUFFICES ASSUME NEW i \in 1 .. Len(r)
                   PROVE  \E w \in S : w[3] = r[i]
        OBVIOUS
      <4>1. <<n, i, r[i]>> \in S
        BY <2>3
      <4> QED
        BY <4>1
    <3> HIDE DEF S, r
    <3> QED
      BY <2>3, <3>1
  <2> QED
    BY <2>1, <2>2, <2>5, <2>6 DEF Lists
<1>5. CASE f.ext = "conf"
  <2> DEFINE doc == f.tokens
  <2>1. RulesOf(f) = parse_xml_policy(doc)
    BY <1>5 DEF RulesOf
  <2>2. Said(files, n) = {<<n, a, RuleOf(doc, a)>> : a \in Elements(doc)}
    <3>1. Statements(f) = {<<a, RuleOf(doc, a)>> : a \in Elements(doc)}
      BY <1>5 DEF Statements
    <3>2. \A w : w \in Said(files, n) <=> \E s \in Statements(f) : w = <<n, s[1], s[2]>>
      BY DEF Said
    <3> HIDE DEF doc, f
    <3>3. \A w : w \in Said(files, n) <=> \E a \in Elements(doc) : w = <<n, a, RuleOf(doc, a)>>
      <4>1. \A a : <<a, RuleOf(doc, a)>>[1] = a /\ <<a, RuleOf(doc, a)>>[2] = RuleOf(doc, a)
        OBVIOUS
      <4>2. ASSUME NEW w, NEW a \in Elements(doc), w = <<n, a, RuleOf(doc, a)>>
            PROVE  w \in Said(files, n)
        BY <3>1, <3>2, <4>1, <4>2
      <4>3. ASSUME NEW w \in Said(files, n)
            PROVE  \E a \in Elements(doc) : w = <<n, a, RuleOf(doc, a)>>
        BY <3>1, <3>2, <4>1
      <4> QED
        BY <4>2, <4>3
    <3> QED
      BY <3>3
  <2>3. doc \in Seq(Range(doc))
    BY <1>2, <1>5
  <2> HIDE DEF doc
  <2>4. \A a \in Elements(doc) : <<n, a, RuleOf(doc, a)>> \in AllStatements(files)
    BY <1>3, <2>2
  <2> QED
    BY <2>1, <2>2, <2>3, <2>4, ParseLists
<1>6. CASE f.ext \notin {"toml", "conf"} \/ (f.ext = "toml" /\ f.malformed)
  <2>1. RulesOf(f) = << >> /\ Statements(f) = {}
    BY <1>6 DEF RulesOf, Statements
  <2>2. Said(files, n) = {}
    BY <2>1 DEF Said
  <2> QED
    BY <2>1, <2>2, ListsNothing
<1> QED
  BY <1>4, <1>5, <1>6

\* The table of FlattenSeq for the first n sequences.
IsFlat(f, seqs, n) == f = [i \in 1 .. n |-> IF i = 1 THEN seqs[i] ELSE f[i - 1] \o seqs[i]]

\* There is a table of FlattenSeq for every number of sequences.
LEMMA FlatTable ==
    ASSUME NEW seqs, NEW n \in Nat
    PROVE  \E f : IsFlat(f, seqs, n)
<1> DEFINE Bad == {k \in Nat : ~ \E f : IsFlat(f, seqs, k)}
<1>1. SUFFICES ASSUME Bad # {}
               PROVE  FALSE
  OBVIOUS
<1>2. PICK k \in Bad : \A j \in Bad : k <= j
  <2>1. Bad \subseteq Nat
    OBVIOUS
  <2> HIDE DEF Bad
  <2> QED
    BY <1>1, <2>1, LeastNat
<1>3. k # 0
  <2>1. IsFlat([i \in 1 .. 0 |-> << >>], seqs, 0)
    BY DEF IsFlat
  <2> QED
    BY <2>1
<1>4. PICK g : IsFlat(g, seqs, k - 1)
  BY <1>2, <1>3
<1> DEFINE f == [i \in 1 .. k |-> IF i < k THEN g[i]
                                  ELSE IF k = 1 THEN seqs[1] ELSE g[k - 1] \o seqs[k]]
<1>5. IsFlat(f, seqs, k)
  <2>1. \A i \in 1 .. k - 1 : g[i] = IF i = 1 THEN seqs[i] ELSE g[i - 1] \o seqs[i]
    BY <1>2, <1>3, <1>4 DEF IsFlat
  <2>2. \A i \in 1 .. k : f[i] = IF i = 1 THEN seqs[i] ELSE f[i - 1] \o seqs[i]
    BY <1>2, <1>3, <2>1
  <2> QED
    BY <2>2 DEF IsFlat
<1> QED
  BY <1>2, <1>5

\* The rules of all files, one file after the other, list all statements.
LEMMA AllFilesList ==
    ASSUME NEW files, AreFiles(files)
    PROVE  Lists(FlattenSeq([i \in DOMAIN files |-> RulesOf(files[i])]), AllStatements(files),
                 FileOrder(AllStatements(files)))
<1> DEFINE seqs == [i \in DOMAIN files |-> RulesOf(files[i])]
           n == Len(seqs)
           flat == CHOOSE f : IsFlat(f, seqs, n)
           W == AllStatements(files)
           O == FileOrder(W)
           S(i) == UNION {Said(files, j) : j \in 1 .. i}
           Good(i) == Lists(flat[i], S(i), O)
           Bad == {i \in 1 .. n : ~ Good(i)}
<1>1. n \in Nat /\ DOMAIN files = 1 .. n /\ DOMAIN seqs = 1 .. n
  BY DEF AreFiles
<1>2. W = S(n)
  BY <1>1 DEF AllStatements, Said
<1>3. CASE n = 0
  <2>1. FlattenSeq(seqs) = seqs
    BY <1>3, Zenon DEF FlattenSeq
  <2>2. seqs = << >>
    BY <1>1, <1>3
  <2>3. W = {}
    BY <1>2, <1>3
  <2> QED
    BY <2>1, <2>2, <2>3, ListsNothing
<1>4. CASE n # 0
  <2>1. IsFlat(flat, seqs, n)
    BY <1>1, FlatTable
  <2>2. FlattenSeq(seqs) = flat[n]
    BY <1>4, Zenon DEF FlattenSeq, IsFlat
  <2>3. \A i \in 1 .. n : flat[i] = IF i = 1 THEN seqs[i] ELSE flat[i - 1] \o seqs[i]
    BY <2>1, Zenon DEF IsFlat
  <2>4. \A i \in 1 .. n : Lists(seqs[i], Said(files, i), O)
    BY <1>1, FileLists
  <2>5. ASSUME NEW i \in 2 .. n, NEW v \in S(i - 1), NEW w \in Said(files, i)
        PROVE  <<v, w>> \in O
    <3>1. PICK j \in 1 .. i - 1 : v \in Said(files, j)
      OBVIOUS
    <3>2. i \in 1 .. n /\ j \in 1 .. n /\ j < i
      BY <1>1, <3>1
    <3>3. v[1] = j /\ w[1] = i
      BY <3>1 DEF Said
    <3>4. v \in W /\ w \in W
      BY <1>2, <3>1, <3>2
    <3> QED
      BY <3>2, <3>3, <3>4 DEF FileOrder, Later
  <2> HIDE DEF seqs, n, flat, W, O
  <2>6. Good(1)
    <3>1. S(1) = Said(files, 1)
      <4>1. 1 .. 1 = {1}
        OBVIOUS
      <4> QED
        BY <4>1
    <3>2. 1 \in 1 .. n
      BY <1>1, <1>4
    <3> HIDE DEF S
    <3> QED
      BY <2>3, <2>4, <3>1, <3>2
  <2>7. ASSUME NEW i \in 2 .. n, Good(i - 1)
        PROVE  Good(i)
    <3>1. i \in 1 .. n /\ i # 1
      BY <1>1
    <3>2. flat[i] = flat[i - 1] \o seqs[i]
      BY <2>3, <3>1
    <3>3. S(i) = S(i - 1) \cup Said(files, i)
      <4>1. 1 .. i = (1 .. i - 1) \cup {i}
        BY <1>1, <3>1
      <4> QED
        BY <4>1
    <3>4. \A v \in S(i - 1) : \A w \in Said(files, i) : <<v, w>> \in O
      BY <2>5
    <3> HIDE DEF S
    <3>5. Lists(flat[i - 1] \o seqs[i], S(i - 1) \cup Said(files, i), O)
      BY <2>4, <2>7, <3>1, <3>4, ListsBoth
    <3> QED
      BY <3>2, <3>3, <3>5
  <2> HIDE DEF Good
  <2>8. Bad = {}
    <3> SUFFICES ASSUME Bad # {}
                 PROVE  FALSE
      OBVIOUS
    <3>1. PICK i \in Bad : \A j \in Bad : i <= j
      <4>1. Bad \subseteq Nat
        BY <1>1
      <4> HIDE DEF Bad
      <4> QED
        BY <4>1, LeastNat
    <3>2. i # 1
      BY <2>6, <3>1
    <3>3. i \in 2 .. n /\ i - 1 \in 1 .. n /\ i - 1 < i
      BY <1>1, <3>1, <3>2
    <3> QED
      BY <2>7, <3>1, <3>3
  <2>9. Good(n)
    BY <1>1, <1>4, <2>8
  <2> QED
    BY <1>2, <2>2, <2>9 DEF Good, seqs, O, W
<1> QED
  BY <1>3, <1>4

\* Whoever asks, with whatever message: what the rules loaded from readable files say
\* is what the files say.
THEOREM FilesHaveTheLastWord ==
    ASSUME NEW dirs, AreFiles(FlattenSeq(dirs)), NEW rules \in load_dirs(dirs),
           NEW identity, NEW kind \in {"own", "send", "receive"}, NEW msg, NEW text
    PROVE  Permits(rules, identity, kind, msg, text)
              = LastWord(FlattenSeq(dirs), identity, kind, msg, text)
<1> DEFINE files == FlattenSeq(dirs)
<1>1. rules = FlattenSeq([i \in DOMAIN files |-> RulesOf(files[i])])
  BY DEF load_dirs
<1> HIDE DEF files
<1>2. AreFiles(files)
  BY DEF files
<1>3. Lists(rules, AllStatements(files), FileOrder(AllStatements(files)))
  BY <1>1, <1>2, AllFilesList
<1>4. \A w \in AllStatements(files) :
         w[1] \in Nat /\ w[2] \in Nat /\ w[3].context \in Range(Contexts)
  BY <1>2, StatementTypes
<1>5. Permits(rules, identity, kind, msg, text)
         <=> LastWord(files, identity, kind, msg, text)
  BY <1>3, <1>4, PermitsIsLastWord
<1>6. /\ Permits(rules, identity, kind, msg, text) \in BOOLEAN
      /\ LastWord(files, identity, kind, msg, text) \in BOOLEAN
  BY DEF Permits, can_own, can_send, can_receive, verdict, LastWord
<1> QED
  BY <1>5, <1>6 DEF files

=============================================================================
