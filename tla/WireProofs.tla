----------------------------- MODULE WireProofs -----------------------------
(***************************************************************************)
(* What goes over a socket unmixed is read as it was sent, for any writers, *)
(* any letters and any capacity.                                            *)
(*                                                                          *)
(* The inductive invariant WireInv looks at all the pieces that are under   *)
(* way, those in the read buffer before those in the socket (All).  While   *)
(* nothing is mixed they are a line of whole frames, in the order in which  *)
(* their writes began and from the first one not yet read (Line), of which  *)
(* only the last can be cut short, by the one write in progress; and the    *)
(* pending descriptors are those of the frames that start in the buffer.    *)
(***************************************************************************)
EXTENDS Wire, SequenceTheorems, WellFoundedInduction, TLAPS

-----------------------------------------------------------------------------
(* The invariant *)

Positive == Nat \ {0}
Piece == [w : Writers, i : Positive, k : Positive, fds : Seq(Int)]

\* What a reader may have read.
Readable ==
    {[Scenarios[s][w][i].msg.v EXCEPT !.fds = f] :
        s \in DOMAIN Scenarios, w \in Writers, i \in Positive, f \in Seq(Int)}

WireTypes ==
    /\ \E s \in DOMAIN Scenarios : letters = Scenarios[s]
    /\ next \in [Writers -> Positive]
    /\ sent \in [Writers -> Nat]
    /\ sock \in Seq(Piece)
    /\ reader \in {"reading", "astray", "deaf", "closed", "failed"}
    /\ buf \in Seq(Piece)
    /\ want \in {0} \cup 2 .. 4
    /\ pending_fds \in Seq(Int)
    /\ got \in Seq(Readable)
    /\ begun \in Seq(Writers \X Positive)
    /\ mixed \in BOOLEAN

\* Where the writers are: a write in progress has pieces out and pieces to come.
PlacesOK ==
    /\ Len(sock) <= Capacity
    /\ \A w \in Writers :
          /\ next[w] <= Len(letters[w]) + 1
          /\ sent[w] > 0 => /\ next[w] <= Len(letters[w])
                            /\ sent[w] < Letter(w, next[w]).pieces

\* All pieces under way, and the letter, its number of pieces and the descriptors of one.
All == buf \o sock
Of(p) == <<p.w, p.i>>
Pieces(p) == Letter(p.w, p.i).pieces
FdsOf(p) == IF p.k = 1 THEN Letter(p.w, p.i).fds ELSE << >>

\* A piece was written before the place where its writer is now.
Written(p) ==
    /\ p.i <= Len(letters[p.w])
    /\ p.k <= Pieces(p)
    /\ p.i < next[p.w] \/ (p.i = next[p.w] /\ p.k <= sent[p.w])
AllWritten(a) == \A j \in 1 .. Len(a) : Written(a[j])

\* Pieces of one writer are in order.
Before(p, q) == p.w = q.w => (p.i < q.i \/ (p.i = q.i /\ p.k < q.k))
Ordered(a) == \A j, k \in 1 .. Len(a) : j < k => Before(a[j], a[k])

\* No write begins twice, and what has begun is not yet to come.
BegunOK ==
    /\ \A p \in 1 .. Len(begun) :
          /\ begun[p][2] <= Len(letters[begun[p][1]])
          /\ Letter(begun[p][1], begun[p][2]).pieces > 0
          /\ begun[p][2] <= next[begun[p][1]]
          /\ begun[p][2] = next[begun[p][1]] => sent[begun[p][1]] > 0
    /\ \A p, q \in 1 .. Len(begun) : begun[p] = begun[q] => p = q

\* The reader waits for the frame that starts its buffer.
WantOK ==
    want > 0 => /\ Len(buf) > 0
                /\ want = Pieces(buf[1])
                /\ Letter(buf[1].w, buf[1].i).len.ok

\* Descriptors go with first pieces.
Attached == \A j \in 1 .. Len(sock) : sock[j].fds = FdsOf(sock[j])

\* A piece and those after it are of one frame, in order, up to its end.
InFrames(a) ==
    \A j \in 1 .. Len(a) : \A m \in Positive :
        (j + m <= Len(a) /\ a[j].k + m <= Pieces(a[j])) =>
            a[j + m].w = a[j].w /\ a[j + m].i = a[j].i /\ a[j + m].k = a[j].k + m

\* After the last piece of a frame comes the first of the next.
InTurn(a) ==
    \A j \in 1 .. Len(a) :
        (j + 1 <= Len(a) /\ a[j].k = Pieces(a[j])) =>
            /\ a[j + 1].k = 1
            /\ \A p \in 1 .. Len(begun) :
                  begun[p] = Of(a[j]) => p < Len(begun) /\ begun[p + 1] = Of(a[j + 1])

\* The first piece starts the first frame that is not read.
Starts(a) ==
    Len(a) > 0 => /\ a[1].k = 1
                  /\ Len(got) < Len(begun)
                  /\ Of(a[1]) = begun[Len(got) + 1]

\* The last piece is where the write in progress is, or ends the last frame.
Ends(a) ==
    /\ Len(a) = 0 => Len(got) = Len(begun)
    /\ Len(a) > 0 => /\ Len(begun) > 0
                     /\ Of(a[Len(a)]) = begun[Len(begun)]
                     /\ a[Len(a)].k < Pieces(a[Len(a)]) => sent[a[Len(a)].w] > 0
    /\ \A w \in Writers :
          sent[w] > 0 => /\ Len(a) > 0
                         /\ a[Len(a)].w = w
                         /\ a[Len(a)].i = next[w]
                         /\ a[Len(a)].k = sent[w]

Line(a) == InFrames(a) /\ InTurn(a) /\ Starts(a) /\ Ends(a)

\* The first n letters came with the descriptors they declare.
Honest(n) == \A j \in 1 .. n : BegunLetter(j).declares = Len(BegunLetter(j).fds)

\* The pending descriptors are those of the frames that start in the buffer.
FdsOfAll(a) == FlattenSeq([j \in 1 .. Len(a) |-> FdsOf(a[j])])
Pending == Honest(Len(got)) => pending_fds = FdsOfAll(buf)

\* What was read, and why reading ended.
GotOK ==
    /\ Len(got) <= Len(begun)
    /\ \A j \in 1 .. Len(got) : Honest(j) => got[j] = BegunLetter(j).delivered
Rightly(n) == BegunLetter(n).refused \/ BegunLetter(n).size > max_message_size
FailedOK ==
    reader = "failed" =>
        /\ Len(got) < Len(begun)
        /\ Honest(Len(got) + 1) => Rightly(Len(got) + 1)

\* What holds of the pieces in any case, and what holds as long as nothing is mixed.
PiecesInv ==
    /\ WireTypes /\ PlacesOK /\ AllWritten(All) /\ Ordered(All)
    /\ BegunOK /\ WantOK /\ Attached
UnmixedInv ==
    ~mixed => /\ reader # "astray" /\ GotOK /\ FailedOK
              /\ reader = "reading" => Line(All) /\ Pending

WireInv == PiecesInv /\ UnmixedInv

-----------------------------------------------------------------------------
(* Sequences of descriptors *)

\* The least-number principle for a set of numbers.
LEMMA LeastNat ==
    ASSUME NEW S, S \subseteq Nat, S # {}
    PROVE  \E m \in S : \A k \in S : m <= k
<1>1. PICK m \in S : \A k \in S : ~ (<<k, m>> \in OpToRel(<, Nat))
  BY WFMin, NatLessThanWellFounded
<1>2. \A k \in S : ~ (k < m)
  BY <1>1 DEF OpToRel
<1> QED
  BY <1>2

\* The table of FlattenSeq for the first n sequences.
IsFlat(f, seqs, n) == f = [i \in 1 .. n |-> IF i = 1 THEN seqs[i] ELSE f[i - 1] \o seqs[i]]

\* There is a table of FlattenSeq for every number of sequences.
LEMMA FlatTable ==
    ASSUME NEW seqs, NEW n \in Nat
    PROVE  \E f : IsFlat(f, seqs, n)
<1> DEFINE Missing == {k \in Nat : ~ \E f : IsFlat(f, seqs, k)}
<1>1. SUFFICES ASSUME Missing # {}
               PROVE  FALSE
  OBVIOUS
<1>2. PICK k \in Missing : \A j \in Missing : k <= j
  <2>1. Missing \subseteq Nat
    OBVIOUS
  <2> HIDE DEF Missing
  <2> QED
    BY <1>1, <2>1, LeastNat
<1>3. k # 0
  <2>1. IsFlat([i \in 1 .. 0 |-> << >>], seqs, 0)
    BY DEF IsFlat
  <2> QED
    BY <2>1
<1>4. PICK g : IsFlat(g, seqs, k - 1)
  BY <1>2, <1>3
<1> DEFINE f == [i \in 1 .. k |-> IF i < k THEN g[i]
                                  ELSE IF k = 1 THEN seqs[1] ELSE g[k - 1] \o seqs[k]]
<1>5. IsFlat(f, seqs, k)
  <2>1. \A i \in 1 .. k - 1 : g[i] = IF i = 1 THEN seqs[i] ELSE g[i - 1] \o seqs[i]
    BY <1>2, <1>3, <1>4 DEF IsFlat
  <2>2. \A i \in 1 .. k : f[i] = IF i = 1 THEN seqs[i] ELSE f[i - 1] \o seqs[i]
    BY <1>2, <1>3, <2>1
  <2> QED
    BY <2>2 DEF IsFlat
<1> QED
  BY <1>2, <1>5

\* Counting up: a set that has 1, and each number after one that it has.
LEMMA UpTo ==
    ASSUME NEW n \in Nat, NEW S, n > 0 => 1 \in S,
           \A i \in 2 .. n : i - 1 \in S => i \in S
    PROVE  \A i \in 1 .. n : i \in S
<1> DEFINE Bad == {i \in 1 .. n : i \notin S}
<1>1. SUFFICES ASSUME Bad # {}
               PROVE  FALSE
  OBVIOUS
<1>2. PICK i \in Bad : \A j \in Bad : i <= j
  <2>1. Bad \subseteq Nat
    OBVIOUS
  <2> HIDE DEF Bad
  <2> QED
    BY <1>1, <2>1, LeastNat
<1>3. i \in 1 .. n /\ i \notin S /\ \A j \in 1 .. n : j < i => j \in S
  BY <1>2
<1>4. i # 1
  BY <1>3
<1> QED
  BY <1>3, <1>4

Lists == Seq(Seq(Int))

\* t holds the flattened beginnings of s, the first n of them.
Flattens(t, s, n) ==
    \A i \in 1 .. n :
        /\ t[i] \in Seq(Int)
        /\ i = 1 => t[i] = s[i]
        /\ i > 1 => t[i] = t[i - 1] \o s[i]

\* Two sequences one after the other.
LEMMA ConcatType ==
    ASSUME NEW a \in Seq(Int), NEW b \in Seq(Int)
    PROVE  a \o b \in Seq(Int)
  OBVIOUS

\* Appending sequences one after the other is associative.
LEMMA Associative ==
    ASSUME NEW a \in Seq(Int), NEW b \in Seq(Int), NEW c \in Seq(Int)
    PROVE  (a \o b) \o c = a \o (b \o c)
  OBVIOUS

\* Nothing after a sequence, and nothing before it.
LEMMA ConcatNothing ==
    ASSUME NEW a \in Seq(Int)
    PROVE  a \o << >> = a /\ << >> \o a = a
  OBVIOUS

\* What FlattenSeq makes of no sequence.
LEMMA FlatNothing ==
    ASSUME NEW s \in Lists, Len(s) = 0
    PROVE  FlattenSeq(s) = << >>
<1>1. FlattenSeq(s) = s
  BY Zenon DEF FlattenSeq
<1> QED
  BY <1>1 DEF Lists

\* What FlattenSeq makes of some sequences: the last entry of its table.
LEMMA FlatSome ==
    ASSUME NEW s \in Lists, Len(s) > 0
    PROVE  \E t : FlattenSeq(s) = t[Len(s)] /\ Flattens(t, s, Len(s))
<1> DEFINE n == Len(s)
           t == CHOOSE f : IsFlat(f, s, n)
           Good == {i \in 1 .. n : t[i] \in Seq(Int)}
<1>1. n \in Nat /\ n > 0 /\ \A i \in 1 .. n : s[i] \in Seq(Int)
  BY DEF Lists
<1>2. IsFlat(t, s, n)
  BY <1>1, FlatTable
<1>3. FlattenSeq(s) = t[n]
  <2>1. n # 0
    BY <1>1
  <2> QED
    BY <2>1, Zenon DEF FlattenSeq, IsFlat
<1>4. \A i \in 1 .. n : t[i] = IF i = 1 THEN s[i] ELSE t[i - 1] \o s[i]
  BY <1>2, Zenon DEF IsFlat
<1> HIDE DEF n, t
<1>5. \A i \in 1 .. n : t[i] \in Seq(Int)
  <2>1. 1 \in Good
    BY <1>1, <1>4
  <2>2. ASSUME NEW i \in 2 .. n, i - 1 \in Good
        PROVE  i \in Good
    <3>1. i \in 1 .. n /\ i # 1 /\ t[i - 1] \in Seq(Int) /\ s[i] \in Seq(Int)
      BY <1>1, <2>2
    <3>2. t[i] = t[i - 1] \o s[i]
      BY <1>4, <3>1
    <3>3. t[i] \in Seq(Int)
      BY <3>1, <3>2, ConcatType
    <3> QED
      BY <3>1, <3>3
  <2>3. \A i \in 1 .. n : i \in Good
    <3> HIDE DEF Good
    <3> QED
      BY <1>1, <2>1, <2>2, UpTo
  <2> QED
    BY <2>3
<1>6. Flattens(t, s, n)
  <2>1. ASSUME NEW i \in 1 .. n
        PROVE  /\ t[i] \in Seq(Int)
               /\ i = 1 => t[i] = s[i]
               /\ i > 1 => t[i] = t[i - 1] \o s[i]
    <3>1. i > 1 => i # 1
      BY <1>1
    <3> QED
      BY <1>4, <1>5, <3>1, Zenon
  <2> QED
    BY <2>1 DEF Flattens
<1> QED
  BY <1>3, <1>6 DEF n

\* Descriptors come out as a sequence.
LEMMA FlatType ==
    ASSUME NEW s \in Lists
    PROVE  FlattenSeq(s) \in Seq(Int)
<1>1. CASE Len(s) = 0
  <2>1. FlattenSeq(s) = << >>
    BY <1>1, FlatNothing
  <2> QED
    BY <2>1
<1>2. CASE Len(s) > 0
  <2>1. PICK t : FlattenSeq(s) = t[Len(s)] /\ Flattens(t, s, Len(s))
    BY <1>2, FlatSome
  <2>2. Len(s) \in 1 .. Len(s)
    BY <1>2 DEF Lists
  <2> QED
    BY <2>1, <2>2, Zenon DEF Flattens
<1> QED
  BY <1>1, <1>2 DEF Lists

\* Flattening a sequence in two parts, both with entries.
LEMMA FlatConcatSome ==
    ASSUME NEW a \in Lists, NEW b \in Lists, Len(a) > 0, Len(b) > 0
    PROVE  FlattenSeq(a \o b) = FlattenSeq(a) \o FlattenSeq(b)
<1> DEFINE c == a \o b
           m == Len(a)
           n == Len(b)
<1>1. PICK s : FlattenSeq(a) = s[m] /\ Flattens(s, a, m)
  BY FlatSome
<1>2. PICK t : FlattenSeq(b) = t[n] /\ Flattens(t, b, n)
  BY FlatSome
<1>3. /\ m \in Nat /\ n \in Nat /\ m > 0 /\ n > 0 /\ Len(c) = m + n
      /\ \A i \in 1 .. m : c[i] = a[i] /\ a[i] \in Seq(Int)
      /\ \A i \in 1 .. n : c[m + i] = b[i] /\ b[i] \in Seq(Int)
  BY DEF Lists
<1>4. PICK u : FlattenSeq(c) = u[m + n] /\ Flattens(u, c, m + n)
  <2>1. c \in Lists /\ Len(c) > 0
    BY <1>3 DEF Lists
  <2> HIDE DEF c
  <2> QED
    BY <1>3, <2>1, FlatSome
<1> HIDE DEF c, m, n
<1>5. \A i \in 1 .. m + n : /\ i = 1 => u[i] = c[i]
                            /\ i > 1 => u[i] = u[i - 1] \o c[i]
  BY <1>4 DEF Flattens
<1>6. \A i \in 1 .. m : /\ s[i] \in Seq(Int)
                        /\ i = 1 => s[i] = a[i]
                        /\ i > 1 => s[i] = s[i - 1] \o a[i]
  BY <1>1 DEF Flattens
<1>7. \A i \in 1 .. n : /\ t[i] \in Seq(Int)
                        /\ i = 1 => t[i] = b[i]
                        /\ i > 1 => t[i] = t[i - 1] \o b[i]
  BY <1>2 DEF Flattens
<1>8. u[m] = s[m]
  <2> DEFINE Good == {i \in 1 .. m : u[i] = s[i]}
  <2>1. 1 \in Good
    <3>1. 1 \in 1 .. m /\ 1 \in 1 .. m + n
      BY <1>3
    <3>2. u[1] = c[1] /\ s[1] = a[1] /\ c[1] = a[1]
      <4>1. u[1] = c[1]
        BY <1>5, <3>1, Zenon
      <4>2. s[1] = a[1]
        BY <1>6, <3>1, Zenon
      <4>3. c[1] = a[1]
        BY <1>3, <3>1, Zenon
      <4> QED
        BY <4>1, <4>2, <4>3
    <3> QED
      BY <3>1, <3>2, Zenon
  <2>2. ASSUME NEW i \in 2 .. m, i - 1 \in Good
        PROVE  i \in Good
    <3>1. i \in 1 .. m /\ i \in 1 .. m + n /\ i > 1 /\ u[i - 1] = s[i - 1]
      BY <1>3, <2>2
    <3>2. u[i] = u[i - 1] \o c[i] /\ s[i] = s[i - 1] \o a[i] /\ c[i] = a[i]
      BY <1>3, <1>5, <1>6, <3>1
    <3>3. u[i] = s[i]
      BY <3>1, <3>2
    <3> QED
      BY <3>1, <3>3
  <2>3. \A i \in 1 .. m : i \in Good
    <3> HIDE DEF Good
    <3> QED
      BY <1>3, <2>1, <2>2, UpTo
  <2> QED
    BY <1>3, <2>3
<1>9. m \in 1 .. m /\ s[m] \in Seq(Int)
  <2>1. m \in 1 .. m
    BY <1>3
  <2> QED
    BY <1>6, <2>1
<1>10. u[m + n] = s[m] \o t[n]
  <2> DEFINE Good == {i \in 1 .. n : u[m + i] = s[m] \o t[i]}
  <2>1. 1 \in Good
    <3>1. 1 \in 1 .. n /\ m + 1 \in 1 .. m + n /\ m + 1 > 1 /\ (m + 1) - 1 = m
      BY <1>3
    <3>2. u[m + 1] = u[m] \o c[m + 1]
      BY <1>5, <3>1
    <3>3. c[m + 1] = b[1] /\ t[1] = b[1]
      BY <1>3, <1>7, <3>1
    <3>4. u[m + 1] = s[m] \o t[1]
      BY <1>8, <3>2, <3>3
    <3> QED
      BY <3>1, <3>4
  <2>2. ASSUME NEW i \in 2 .. n, i - 1 \in Good
        PROVE  i \in Good
    <3>1. /\ i \in 1 .. n /\ i - 1 \in 1 .. n /\ i > 1
          /\ m + i \in 1 .. m + n /\ m + i > 1 /\ (m + i) - 1 = m + (i - 1)
      BY <1>3
    <3>2. u[m + (i - 1)] = s[m] \o t[i - 1]
      BY <2>2
    <3>3. u[m + i] = u[(m + i) - 1] \o c[m + i]
      BY <1>5, <3>1
    <3>4. c[m + i] = b[i] /\ b[i] \in Seq(Int)
      BY <1>3, <3>1
    <3>5. u[m + i] = (s[m] \o t[i - 1]) \o b[i]
      BY <3>1, <3>2, <3>3, <3>4
    <3>6. t[i] = t[i - 1] \o b[i] /\ t[i - 1] \in Seq(Int)
      BY <1>7, <3>1
    <3>7. (s[m] \o t[i - 1]) \o b[i] = s[m] \o (t[i - 1] \o b[i])
      BY <1>9, <3>4, <3>6, Associative
    <3>8. u[m + i] = s[m] \o t[i]
      BY <3>5, <3>6, <3>7, Zenon
    <3> QED
      BY <3>1, <3>8, Zenon
  <2>3. \A i \in 1 .. n : i \in Good
    <3> HIDE DEF Good
    <3> QED
      BY <1>3, <2>1, <2>2, UpTo
  <2>4. n \in Good
    <3>1. n \in 1 .. n
      BY <1>3
    <3> HIDE DEF Good
    <3> QED
      BY <2>3, <3>1, Zenon
  <2> QED
    BY <2>4, Zenon
<1> QED
  BY <1>1, <1>2, <1>4, <1>10 DEF c

\* Flattening a sequence in two parts.
LEMMA FlatConcat ==
    ASSUME NEW a \in Lists, NEW b \in Lists
    PROVE  FlattenSeq(a \o b) = FlattenSeq(a) \o FlattenSeq(b)
<1>1. FlattenSeq(a) \in Seq(Int) /\ FlattenSeq(b) \in Seq(Int)
  BY FlatType
<1>2. CASE Len(a) = 0
  <2>1. a \o b = b
    BY <1>2 DEF Lists
  <2>2. FlattenSeq(a) = << >>
    BY <1>2, FlatNothing
  <2> QED
    BY <1>1, <2>1, <2>2, ConcatNothing
<1>3. CASE Len(b) = 0
  <2>1. a \o b = a
    BY <1>3 DEF Lists
  <2>2. FlattenSeq(b) = << >>
    BY <1>3, FlatNothing
  <2> QED
    BY <1>1, <2>1, <2>2, ConcatNothing
<1>4. CASE Len(a) > 0 /\ Len(b) > 0
  BY <1>4, FlatConcatSome
<1> QED
  BY <1>2, <1>3, <1>4 DEF Lists

\* Flattening a sequence whose entries after the first are empty.
LEMMA FlatFirst ==
    ASSUME NEW s \in Lists, Len(s) > 0, \A i \in 2 .. Len(s) : s[i] = << >>
    PROVE  FlattenSeq(s) = s[1]
<1>1. PICK t : FlattenSeq(s) = t[Len(s)] /\ Flattens(t, s, Len(s))
  BY FlatSome
<1> DEFINE n == Len(s)
           Good == {i \in 1 .. n : t[i] = s[1]}
<1>2. n \in Nat /\ n > 0
  BY DEF Lists
<1>3. \A i \in 1 .. n : /\ t[i] \in Seq(Int)
                        /\ i = 1 => t[i] = s[i]
                        /\ i > 1 => t[i] = t[i - 1] \o s[i]
  BY <1>1 DEF Flattens
<1> HIDE DEF n
<1>4. 1 \in Good
  <2>1. 1 \in 1 .. n
    BY <1>2
  <2> QED
    BY <1>3, <2>1, Zenon
<1>5. ASSUME NEW i \in 2 .. n, i - 1 \in Good
      PROVE  i \in Good
  <2>1. i \in 1 .. n /\ i - 1 \in 1 .. n /\ i > 1 /\ t[i - 1] = s[1]
    BY <1>2, <1>5
  <2>2. t[i] = t[i - 1] \o s[i] /\ t[i - 1] \in Seq(Int) /\ s[i] = << >>
    BY <1>3, <2>1 DEF n
  <2>3. t[i] = s[1]
    BY <2>1, <2>2, ConcatNothing
  <2> QED
    BY <2>1, <2>3
<1>6. \A i \in 1 .. n : i \in Good
  <2> HIDE DEF Good
  <2> QED
    BY <1>2, <1>4, <1>5, UpTo
<1> QED
  BY <1>1, <1>2, <1>6 DEF n

\* The smaller of two numbers.
LEMMA MinOfTwo ==
    ASSUME NEW m \in Int, NEW n \in Int
    PROVE  Min({m, n}) = IF m <= n THEN m ELSE n
  BY DEF Min

-----------------------------------------------------------------------------
(* Pieces *)

\* The letters of a writer: a frame each, unless it cannot be encoded.
LEMMA LetterFacts ==
    ASSUME WireTypes, NEW w \in Writers
    PROVE  /\ Len(letters[w]) \in Nat
           /\ \A i \in 1 .. Len(letters[w]) :
                 Letter(w, i).pieces = 0 \/ IsFrame(Letter(w, i))
<1>1. PICK s \in DOMAIN Scenarios : letters = Scenarios[s]
  BY DEF WireTypes
<1>2. /\ Len(Scenarios[s][w]) \in Nat
      /\ DOMAIN Scenarios[s][w] = 1 .. Len(Scenarios[s][w])
      /\ \A i \in DOMAIN Scenarios[s][w] :
            Scenarios[s][w][i].pieces = 0 \/ IsFrame(Scenarios[s][w][i])
  BY WireAssumption, Zenon DEF WireAssumption
<1> QED
  BY <1>1, <1>2, Zenon DEF Letter

\* The letter of a piece is a frame.
LEMMA PieceFrame ==
    ASSUME WireTypes, NEW p \in Piece, Written(p)
    PROVE  /\ IsFrame(Letter(p.w, p.i))
           /\ Pieces(p) \in 2 .. 4
           /\ p.w \in Writers /\ p.i \in 1 .. Len(letters[p.w]) /\ p.k \in 1 .. Pieces(p)
<1>1. p.w \in Writers /\ p.i \in Positive /\ p.k \in Positive
  BY DEF Piece
<1>2. p.i \in 1 .. Len(letters[p.w])
  BY <1>1, LetterFacts DEF Written, Positive
<1>3. Pieces(p) # 0
  <2>1. ASSUME Pieces(p) = 0
        PROVE  FALSE
    BY <1>1, <2>1 DEF Written, Positive
  <2> QED
    BY <2>1
<1>4. IsFrame(Letter(p.w, p.i))
  BY <1>1, <1>2, <1>3, LetterFacts DEF Pieces
<1> QED
  BY <1>1, <1>2, <1>4 DEF Written, Positive, Pieces, IsFrame

\* The pieces of two sequences, one after the other.
LEMMA PiecesConcat ==
    ASSUME NEW a \in Seq(Piece), NEW b \in Seq(Piece)
    PROVE  /\ a \o b \in Seq(Piece)
           /\ Len(a) \in Nat /\ Len(b) \in Nat
           /\ Len(a \o b) = Len(a) + Len(b)
           /\ \A j \in 1 .. Len(a) : (a \o b)[j] = a[j] /\ a[j] \in Piece
           /\ \A j \in 1 .. Len(b) : (a \o b)[Len(a) + j] = b[j] /\ b[j] \in Piece
  OBVIOUS

\* Three sequences of pieces, one after the other.
LEMMA PiecesAssociative ==
    ASSUME NEW a \in Seq(Piece), NEW b \in Seq(Piece), NEW c \in Seq(Piece)
    PROVE  (a \o b) \o c = a \o (b \o c)
  OBVIOUS

\* b has the same pieces as a from the one after place d on.
Part(b, a, d) ==
    /\ Len(b) + d <= Len(a)
    /\ \A j \in 1 .. Len(b) :
          b[j].w = a[d + j].w /\ b[j].i = a[d + j].i /\ b[j].k = a[d + j].k

\* Part of what is in order is in order.
LEMMA PartOrdered ==
    ASSUME NEW a \in Seq(Piece), NEW b \in Seq(Piece), NEW d \in Nat, Part(b, a, d), Ordered(a)
    PROVE  Ordered(b)
<1> SUFFICES ASSUME NEW j \in 1 .. Len(b), NEW k \in 1 .. Len(b), j < k
             PROVE  Before(b[j], b[k])
  BY DEF Ordered
<1>1. d + j \in 1 .. Len(a) /\ d + k \in 1 .. Len(a) /\ d + j < d + k
  BY DEF Part
<1>2. Before(a[d + j], a[d + k])
  BY <1>1 DEF Ordered
<1> QED
  BY <1>2 DEF Before, Part

\* Writers go on and never back.
GoOn ==
    /\ letters' = letters
    /\ \A v \in Writers : \/ next'[v] > next[v]
                          \/ next'[v] = next[v] /\ sent'[v] >= sent[v]

\* What a writer has written it has written.
LEMMA StaysWritten ==
    ASSUME WireTypes, WireTypes', GoOn, NEW p, p.w \in Writers, p.i \in Positive, p.k \in Positive,
           Written(p)
    PROVE  Written(p)'
<1>1. /\ next[p.w] \in Nat /\ next'[p.w] \in Nat /\ sent[p.w] \in Nat /\ sent'[p.w] \in Nat
      /\ p.i \in Nat /\ p.k \in Nat
  BY DEF WireTypes, Positive
<1>2. \/ next'[p.w] > next[p.w]
      \/ next'[p.w] = next[p.w] /\ sent'[p.w] >= sent[p.w]
  BY DEF GoOn
<1>3. p.i < next[p.w] \/ (p.i = next[p.w] /\ p.k <= sent[p.w])
  BY DEF Written
<1>4. p.i < next'[p.w] \/ (p.i = next'[p.w] /\ p.k <= sent'[p.w])
  BY <1>1, <1>2, <1>3
<1> QED
  BY <1>4 DEF Written, Pieces, Letter, GoOn

\* Part of what was written has been written.
LEMMA PartWritten ==
    ASSUME WireTypes, WireTypes', GoOn,
           NEW a \in Seq(Piece), NEW b \in Seq(Piece), NEW d \in Nat, Part(b, a, d), AllWritten(a)
    PROVE  AllWritten(b)'
<1> SUFFICES ASSUME NEW j \in 1 .. Len(b)
             PROVE  Written(b[j])'
  BY DEF AllWritten
<1>1. d + j \in 1 .. Len(a)
  BY DEF Part
<1>2. Written(a[d + j])
  BY <1>1 DEF AllWritten
<1>3. Written(b[j])
  BY <1>2 DEF Written, Part, Pieces
<1>4. b[j].w \in Writers /\ b[j].i \in Positive /\ b[j].k \in Positive
  <2>1. b[j] \in Piece
    OBVIOUS
  <2> QED
    BY <2>1 DEF Piece
<1> QED
  BY <1>3, <1>4, StaysWritten

\* What has begun is not yet to come, as writers go on.
LEMMA StaysBegun ==
    ASSUME WireTypes, WireTypes', GoOn, BegunOK, begun' = begun
    PROVE  BegunOK'
<1> SUFFICES ASSUME NEW p \in 1 .. Len(begun)
             PROVE  /\ begun[p][2] <= next'[begun[p][1]]
                    /\ begun[p][2] = next'[begun[p][1]] => sent'[begun[p][1]] > 0
  BY DEF BegunOK, GoOn, Letter
<1> DEFINE v == begun[p][1]
           i == begun[p][2]
<1>1. v \in Writers /\ i \in Nat
  <2>1. begun[p] \in Writers \X Positive
    BY DEF WireTypes
  <2> QED
    BY <2>1 DEF Positive
<1>2. i <= next[v] /\ (i = next[v] => sent[v] > 0)
  BY DEF BegunOK
<1>3. /\ next[v] \in Nat /\ next'[v] \in Nat /\ sent[v] \in Nat /\ sent'[v] \in Nat
      /\ next'[v] > next[v] \/ (next'[v] = next[v] /\ sent'[v] >= sent[v])
  BY <1>1 DEF WireTypes, GoOn, Positive
<1> QED
  BY <1>1, <1>2, <1>3

-----------------------------------------------------------------------------
(* Writes that end without a piece *)

\* A write that ends, for whatever reason, leaves the pieces as they are.
LEMMA DonePieces ==
    ASSUME PiecesInv, NEW w \in Writers, Busy(w), Done(w),
           UNCHANGED <<letters, sock, begun, reading>>, mixed' \in BOOLEAN
    PROVE  PiecesInv'
<1>1. /\ UNCHANGED <<letters, sock, reader, buf, want, pending_fds, got, begun>>
      /\ next' = [next EXCEPT ![w] = @ + 1] /\ sent' = [sent EXCEPT ![w] = 0]
  BY DEF Done, reading
<1>2. WireTypes /\ PlacesOK /\ AllWritten(All) /\ Ordered(All) /\ BegunOK /\ WantOK /\ Attached
  BY DEF PiecesInv
<1>3. WireTypes'
  BY <1>1, <1>2 DEF WireTypes, Positive
<1>4. GoOn
  BY <1>1, <1>2 DEF GoOn, WireTypes, Positive
<1>5. PlacesOK'
  <2>1. Len(sock)' <= Capacity
    BY <1>1, <1>2 DEF PlacesOK
  <2>2. ASSUME NEW v \in Writers
        PROVE  /\ next'[v] <= Len(letters'[v]) + 1
               /\ sent'[v] > 0 => /\ next'[v] <= Len(letters'[v])
                                  /\ sent'[v] < Letter(v, next[v])'.pieces
    <3>1. CASE v = w
      <4>1. next'[w] = next[w] + 1 /\ sent'[w] = 0
        BY <1>1, <1>2 DEF WireTypes
      <4>2. next[w] <= Len(letters[w]) /\ Len(letters[w]) \in Nat /\ next[w] \in Nat
        BY <1>2, LetterFacts DEF Busy, WireTypes, Positive
      <4> QED
        BY <1>1, <3>1, <4>1, <4>2
    <3>2. CASE v # w
      <4>1. next'[v] = next[v] /\ sent'[v] = sent[v]
        BY <1>1, <1>2, <3>2 DEF WireTypes
      <4> QED
        BY <1>1, <1>2, <4>1 DEF PlacesOK, Letter
    <3> QED
      BY <3>1, <3>2
  <2> QED
    BY <2>1, <2>2 DEF PlacesOK
<1>6. All' = All /\ All \in Seq(Piece) /\ Part(All, All, 0)
  <2>1. All' = All /\ All \in Seq(Piece)
    BY <1>1, <1>2 DEF All, WireTypes
  <2> HIDE DEF All
  <2> QED
    BY <2>1 DEF Part
<1>7. AllWritten(All)' /\ Ordered(All)'
  <2> DEFINE a == All
  <2>1. a \in Seq(Piece) /\ Part(a, a, 0) /\ AllWritten(a) /\ a' = a
    BY <1>2, <1>6
  <2>2. \A j \in 1 .. Len(a) : Written(a[j])'
    <3> SUFFICES ASSUME NEW j \in 1 .. Len(a)
                 PROVE  Written(a[j])'
      OBVIOUS
    <3> DEFINE p == a[j]
    <3>1. p \in Piece /\ Written(p)
      BY <2>1 DEF AllWritten
    <3>2. p.w \in Writers /\ p.i \in Positive /\ p.k \in Positive
      BY <3>1 DEF Piece
    <3> QED
      BY <1>2, <1>3, <1>4, <1>6, <3>1, <3>2, StaysWritten
  <2> QED
    BY <1>2, <1>6, <2>2 DEF AllWritten
<1>8. BegunOK'
  BY <1>1, <1>2, <1>3, <1>4, StaysBegun
<1>9. WantOK' /\ Attached'
  BY <1>1, <1>2 DEF WantOK, Attached, Pieces, Letter, FdsOf
<1> QED
  BY <1>3, <1>5, <1>7, <1>8, <1>9 DEF PiecesInv

\* What was read, and why reading ended, does not depend on the writers.
LEMMA GotStays ==
    ASSUME UNCHANGED <<letters, got, begun, reader>>, GotOK, FailedOK
    PROVE  GotOK' /\ FailedOK'
<1>1. \A j : BegunLetter(j)' = BegunLetter(j)
  BY DEF BegunLetter, Letter
<1>2. \A n : Honest(n)' <=> Honest(n)
  BY <1>1 DEF Honest
<1>3. \A n : Rightly(n)' <=> Rightly(n)
  BY <1>1 DEF Rightly
<1> QED
  BY <1>1, <1>2, <1>3 DEF GotOK, FailedOK

\* A message that cannot be encoded changes nothing for the reader.
LEMMA EncodingFailsInv ==
    ASSUME WireInv, NEW w \in Writers, EncodingFails(w)
    PROVE  WireInv'
<1>1. /\ UNCHANGED <<letters, sock, reader, buf, want, pending_fds, got, begun, mixed>>
      /\ next' = [next EXCEPT ![w] = @ + 1] /\ sent' = [sent EXCEPT ![w] = 0]
      /\ Letter(w, next[w]).pieces = 0 /\ Busy(w) /\ Done(w)
  BY DEF EncodingFails, Done, reading
<1>2. WireTypes /\ PlacesOK /\ PiecesInv /\ UnmixedInv
  BY DEF WireInv, PiecesInv
<1>3. PiecesInv'
  BY <1>1, <1>2, DonePieces DEF reading, WireTypes
<1>4. sent[w] = 0 /\ sent[w] \in Nat
  <2>1. sent[w] \in Nat
    BY <1>2 DEF WireTypes
  <2>2. sent[w] > 0 => sent[w] < 0
    BY <1>1, <1>2, Zenon DEF PlacesOK
  <2> QED
    BY <2>1, <2>2
<1>5. \A v \in Writers : sent'[v] = sent[v] /\ (sent[v] > 0 => next'[v] = next[v])
  BY <1>1, <1>2, <1>4 DEF WireTypes
<1>6. ASSUME ~mixed'
      PROVE  /\ reader' # "astray" /\ GotOK' /\ FailedOK'
             /\ reader' = "reading" => Line(All)' /\ Pending'
  <2>1. /\ reader # "astray" /\ GotOK /\ FailedOK
        /\ reader = "reading" => Line(All) /\ Pending
    BY <1>1, <1>2, <1>6 DEF UnmixedInv
  <2>2. reader' # "astray" /\ GotOK' /\ FailedOK'
    BY <1>1, <2>1, GotStays
  <2>3. ASSUME reader' = "reading"
        PROVE  Line(All)' /\ Pending'
    <3>1. Line(All) /\ Pending
      BY <1>1, <2>1, <2>3
    <3>2. All' = All /\ All \in Seq(Piece) /\ AllWritten(All)
      BY <1>1, <1>2 DEF All, WireTypes, PiecesInv
    <3>3. InFrames(All)' /\ InTurn(All)' /\ Starts(All)'
      BY <1>1, <3>1, <3>2 DEF Line, InFrames, InTurn, Starts, Pieces, Letter, Of
    <3>4. Ends(All)'
      <4>1. Len(All) > 0 => All[Len(All)].w \in Writers
        <5>1. ASSUME Len(All) > 0
              PROVE  All[Len(All)] \in Piece
          BY <3>2, <5>1
        <5> QED
          BY <5>1 DEF Piece
      <4>2. Ends(All)
        BY <3>1 DEF Line
      <4> HIDE DEF All
      <4> QED
        BY <1>1, <1>5, <3>2, <4>1, <4>2 DEF Ends, Pieces, Letter, Of
    <3>5. Pending'
      BY <1>1, <3>1 DEF Pending, Honest, BegunLetter, Letter, FdsOfAll, FdsOf
    <3> QED
      BY <3>3, <3>4, <3>5 DEF Line
  <2> QED
    BY <2>2, <2>3
<1> QED
  BY <1>3, <1>6 DEF WireInv, UnmixedInv

\* A write that fails leaves the reader where it is.
LEMMA WriteFailsInv ==
    ASSUME WireInv, NEW w \in Writers, WriteFails(w)
    PROVE  WireInv'
<1>1. /\ UNCHANGED <<letters, sock, reader, buf, want, pending_fds, got, begun, mixed>>
      /\ reader = "closed" /\ Busy(w) /\ Done(w)
  BY DEF WriteFails, reading
<1>2. WireTypes /\ PiecesInv /\ UnmixedInv
  BY DEF WireInv, PiecesInv
<1>3. PiecesInv'
  BY <1>1, <1>2, DonePieces DEF reading, WireTypes
<1>4. UnmixedInv'
  BY <1>1, <1>2, GotStays DEF UnmixedInv
<1> QED
  BY <1>3, <1>4 DEF WireInv

\* A write that is dropped midway mixes what is under way.
LEMMA CancelWriteInv ==
    ASSUME WireInv, NEW w \in Writers, CancelWrite(w)
    PROVE  WireInv'
<1>1. /\ UNCHANGED <<letters, sock, begun, reading>> /\ mixed' = TRUE
      /\ sent[w] > 0 /\ Done(w)
  BY DEF CancelWrite
<1>2. WireTypes /\ PiecesInv /\ PlacesOK
  BY DEF WireInv, PiecesInv
<1>3. Busy(w)
  BY <1>1, <1>2 DEF PlacesOK, Busy
<1>4. PiecesInv'
  BY <1>1, <1>2, <1>3, DonePieces
<1> QED
  BY <1>1, <1>4 DEF WireInv, UnmixedInv

\* A peer that stops or closes reads no more.
LEMMA PeerStopsInv ==
    ASSUME WireInv, PeerStops
    PROVE  WireInv'
<1>1. /\ UNCHANGED <<letters, next, sent, sock, begun, mixed, buf, want, pending_fds, got>>
      /\ reader' \in {"deaf", "closed"}
  BY DEF PeerStops, writing
<1>2. PiecesInv'
  BY <1>1 DEF WireInv, PiecesInv, WireTypes, PlacesOK, AllWritten, All, Written, Pieces, Letter,
              Ordered, BegunOK, WantOK, Attached, FdsOf
<1>3. ASSUME ~mixed'
      PROVE  GotOK'
  <2>1. \A j : BegunLetter(j)' = BegunLetter(j)
    BY <1>1 DEF BegunLetter, Letter
  <2>2. \A n : Honest(n)' <=> Honest(n)
    BY <2>1 DEF Honest
  <2>3. GotOK
    BY <1>1, <1>3 DEF WireInv, UnmixedInv
  <2> QED
    BY <1>1, <2>1, <2>2, <2>3 DEF GotOK
<1> QED
  BY <1>1, <1>2, <1>3 DEF WireInv, UnmixedInv, FailedOK

-----------------------------------------------------------------------------
(* A write of some pieces *)

\* w writes the n pieces new of its letter.
Wrote(w, n, new) ==
    /\ UNCHANGED <<letters, reader, buf, want, pending_fds, got>>
    /\ next[w] \in 1 .. Len(letters[w]) /\ IsFrame(Letter(w, next[w]))
    /\ sent[w] + n <= Letter(w, next[w]).pieces /\ Len(sock) + n <= Capacity
    /\ sock' = sock \o new /\ Len(new) = n
    /\ \A k \in 1 .. n : /\ new[k].w = w /\ new[k].i = next[w] /\ new[k].k = sent[w] + k
                         /\ new[k].fds = FdsOf(new[k])
    /\ \/ /\ sent[w] + n = Letter(w, next[w]).pieces
          /\ next' = [next EXCEPT ![w] = @ + 1]
          /\ sent' = [sent EXCEPT ![w] = 0]
       \/ /\ sent[w] + n < Letter(w, next[w]).pieces
          /\ next' = next
          /\ sent' = [sent EXCEPT ![w] = sent[w] + n]
    /\ begun' = IF sent[w] = 0 THEN Append(begun, <<w, next[w]>>) ELSE begun
    /\ mixed' = (mixed \/ (sent[w] = 0 /\ \E v \in Writers \ {w} : sent[v] > 0))

\* The pieces of one sendmsg.
SentPiece(w, k) ==
    [w |-> w, i |-> next[w], k |-> sent[w] + k,
     fds |-> IF k = 1 THEN attach(w, sent[w] = 0) ELSE << >>]

\* They are pieces, with the descriptors at the first one of the letter.
LEMMA SentPieceFacts ==
    ASSUME WireTypes, NEW w \in Writers, IsFrame(Letter(w, next[w])), NEW k \in Positive
    PROVE  /\ SentPiece(w, k) \in Piece
           /\ SentPiece(w, k).w = w /\ SentPiece(w, k).i = next[w]
           /\ SentPiece(w, k).k = sent[w] + k
           /\ SentPiece(w, k).fds = FdsOf(SentPiece(w, k))
<1> DEFINE f == IF k = 1 THEN attach(w, sent[w] = 0) ELSE << >>
           L == Letter(w, next[w])
<1>1. next[w] \in Positive /\ sent[w] \in Nat /\ k \in Nat /\ k > 0 /\ sent[w] + k \in Positive
  BY DEF WireTypes, Positive
<1>2. L.fds \in Seq(Int)
  BY DEF IsFrame
<1>3. f = IF sent[w] + k = 1 THEN L.fds ELSE << >>
  BY <1>1 DEF attach
<1>4. f \in Seq(Int)
  <2>1. << >> \in Seq(Int)
    OBVIOUS
  <2> HIDE DEF f, L
  <2> QED
    BY <1>2, <1>3, <2>1, Zenon
<1>5. SentPiece(w, k) = [w |-> w, i |-> next[w], k |-> sent[w] + k, fds |-> f]
  BY Zenon DEF SentPiece
<1> HIDE DEF f
<1>6. SentPiece(w, k) \in Piece
  BY <1>1, <1>4, <1>5 DEF Piece
<1>7. /\ SentPiece(w, k).w = w /\ SentPiece(w, k).i = next[w]
      /\ SentPiece(w, k).k = sent[w] + k /\ SentPiece(w, k).fds = f
  BY <1>5
<1>8. FdsOf(SentPiece(w, k)) = f
  BY <1>3, <1>7 DEF FdsOf
<1> QED
  BY <1>6, <1>7, <1>8

\* What write_all_with_fds does in one sendmsg.
LEMMA WriteFacts ==
    ASSUME PiecesInv, NEW w \in Writers, write_all_with_fds(w)
    PROVE  \E n \in Positive : \E new \in Seq(Piece) : Wrote(w, n, new)
<1> DEFINE L == Letter(w, next[w])
           m == Min({Capacity - Len(sock), L.pieces - sent[w]})
<1>1. WireTypes /\ PlacesOK
  BY DEF PiecesInv
<1>2. /\ next[w] \in Positive /\ sent[w] \in Nat /\ Len(sock) \in Nat /\ sock \in Seq(Piece)
      /\ Capacity \in Nat /\ Len(letters[w]) \in Nat
  BY <1>1, LetterFacts, WireAssumption DEF WireTypes, WireAssumption
<1>3. Busy(w) /\ L.pieces > 0
  BY DEF write_all_with_fds
<1>4. next[w] \in 1 .. Len(letters[w])
  BY <1>2, <1>3 DEF Busy, Positive
<1>5. IsFrame(L)
  <2>1. L.pieces # 0
    BY <1>3
  <2> QED
    BY <1>1, <1>4, <2>1, LetterFacts
<1>6. L.pieces \in Nat
  BY <1>5 DEF IsFrame
<1>7. PICK n \in 1 .. m :
          /\ sock' = sock \o [k \in 1 .. n |-> SentPiece(w, k)]
          /\ IF advance(w, n) = L.pieces THEN Done(w)
             ELSE sent' = [sent EXCEPT ![w] = advance(w, n)] /\ UNCHANGED next
  BY DEF write_all_with_fds, SentPiece
<1>8. n \in Positive /\ n <= Capacity - Len(sock) /\ n <= L.pieces - sent[w]
  <2>1. Capacity - Len(sock) \in Int /\ L.pieces - sent[w] \in Int
    BY <1>2, <1>6
  <2>2. m = IF Capacity - Len(sock) <= L.pieces - sent[w] THEN Capacity - Len(sock)
            ELSE L.pieces - sent[w]
    BY <2>1, MinOfTwo
  <2>3. m \in Int /\ m <= Capacity - Len(sock) /\ m <= L.pieces - sent[w]
    BY <2>1, <2>2
  <2> HIDE DEF m
  <2> QED
    BY <2>1, <2>3 DEF Positive
<1> HIDE DEF m
<1> DEFINE new == [k \in 1 .. n |-> SentPiece(w, k)]
<1>9. /\ new \in Seq(Piece) /\ Len(new) = n
      /\ \A k \in 1 .. n : /\ new[k].w = w /\ new[k].i = next[w] /\ new[k].k = sent[w] + k
                           /\ new[k].fds = FdsOf(new[k])
  <2>1. \A k \in 1 .. n : k \in Positive
    BY <1>8 DEF Positive
  <2>2. \A k \in 1 .. n : SentPiece(w, k) \in Piece
    BY <1>1, <1>5, <2>1, SentPieceFacts
  <2>3. \A k \in 1 .. n : /\ new[k].w = w /\ new[k].i = next[w] /\ new[k].k = sent[w] + k
                          /\ new[k].fds = FdsOf(new[k])
    BY <1>1, <1>5, <2>1, SentPieceFacts
  <2>4. new \in Seq(Piece) /\ Len(new) = n
    BY <1>8, <2>2 DEF Positive
  <2> QED
    BY <2>3, <2>4
<1>10. \/ /\ sent[w] + n = L.pieces
          /\ next' = [next EXCEPT ![w] = @ + 1]
          /\ sent' = [sent EXCEPT ![w] = 0]
       \/ /\ sent[w] + n < L.pieces
          /\ next' = next
          /\ sent' = [sent EXCEPT ![w] = sent[w] + n]
  <2>1. sent[w] + n = L.pieces \/ sent[w] + n < L.pieces
    BY <1>2, <1>6, <1>8 DEF Positive
  <2>2. sent[w] + n < L.pieces => sent[w] + n # L.pieces
    BY <1>2, <1>6, <1>8 DEF Positive
  <2> QED
    BY <1>7, <2>1, <2>2 DEF advance, Done
<1>11. sent[w] + n <= L.pieces /\ Len(sock) + n <= Capacity
  BY <1>2, <1>6, <1>8 DEF Positive
<1>12. /\ UNCHANGED <<letters, reader, buf, want, pending_fds, got>>
       /\ begun' = IF sent[w] = 0 THEN Append(begun, <<w, next[w]>>) ELSE begun
       /\ mixed' = (mixed \/ (sent[w] = 0 /\ \E v \in Writers \ {w} : sent[v] > 0))
  BY DEF write_all_with_fds, reading
<1>13. sock' = sock \o new
  BY <1>7
<1> HIDE DEF new
<1>14. Wrote(w, n, new)
  BY <1>3, <1>4, <1>5, <1>9, <1>10, <1>11, <1>12, <1>13 DEF Wrote
<1> QED
  BY <1>8, <1>9, <1>14

\* How far the writers are after a write.
LEMMA WrotePlaces ==
    ASSUME WireTypes, PlacesOK, NEW w \in Writers, NEW n \in Positive, NEW new, Wrote(w, n, new)
    PROVE  /\ next' \in [Writers -> Positive] /\ sent' \in [Writers -> Nat] /\ GoOn
           /\ \A v \in Writers : v # w => next'[v] = next[v] /\ sent'[v] = sent[v]
           /\ \/ next'[w] = next[w] + 1 /\ sent'[w] = 0 /\ sent[w] + n = Letter(w, next[w]).pieces
              \/ /\ next'[w] = next[w] /\ sent'[w] = sent[w] + n
                 /\ sent[w] + n < Letter(w, next[w]).pieces
<1>1. next \in [Writers -> Positive] /\ sent \in [Writers -> Nat] /\ n \in Nat
  BY DEF WireTypes, Positive
<1>2. CASE /\ sent[w] + n = Letter(w, next[w]).pieces
           /\ next' = [next EXCEPT ![w] = @ + 1]
           /\ sent' = [sent EXCEPT ![w] = 0]
  <2>1. next' \in [Writers -> Positive] /\ sent' \in [Writers -> Nat]
    BY <1>1, <1>2 DEF Positive
  <2>2. /\ next'[w] = next[w] + 1 /\ sent'[w] = 0 /\ next[w] \in Nat
        /\ \A v \in Writers : v # w => next'[v] = next[v] /\ sent'[v] = sent[v]
    BY <1>1, <1>2 DEF Positive
  <2>3. GoOn
    BY <1>1, <2>2 DEF GoOn, Wrote
  <2> QED
    BY <1>2, <2>1, <2>2, <2>3
<1>3. CASE /\ sent[w] + n < Letter(w, next[w]).pieces
           /\ next' = next
           /\ sent' = [sent EXCEPT ![w] = sent[w] + n]
  <2>1. next' \in [Writers -> Positive] /\ sent' \in [Writers -> Nat]
    BY <1>1, <1>3
  <2>2. /\ next'[w] = next[w] /\ sent'[w] = sent[w] + n
        /\ \A v \in Writers : v # w => next'[v] = next[v] /\ sent'[v] = sent[v]
    BY <1>1, <1>3
  <2>3. GoOn
    BY <1>1, <2>2 DEF GoOn, Wrote
  <2> QED
    BY <1>3, <2>1, <2>2, <2>3
<1> QED
  BY <1>2, <1>3 DEF Wrote

\* The new pieces come after those of the same writer.
LEMMA NewInOrder ==
    ASSUME WireTypes, NEW w \in Writers, NEW n \in Positive, NEW new \in Seq(Piece),
           Wrote(w, n, new), NEW a \in Seq(Piece), AllWritten(a), Ordered(a)
    PROVE  Ordered(a \o new)
<1>1. /\ Len(a) \in Nat /\ Len(new) = n /\ n \in Nat /\ Len(a \o new) = Len(a) + n
      /\ \A j \in 1 .. Len(a) : (a \o new)[j] = a[j] /\ a[j] \in Piece
      /\ \A j \in 1 .. n : (a \o new)[Len(a) + j] = new[j]
  BY PiecesConcat DEF Wrote, Positive
<1>2. sent[w] \in Nat /\ next[w] \in Nat
  BY DEF WireTypes, Positive
<1>3. ASSUME NEW j \in 1 .. Len(a), NEW k \in 1 .. n
      PROVE  Before(a[j], new[k])
  <2>1. a[j] \in Piece /\ Written(a[j])
    BY <1>1 DEF AllWritten
  <2>2. a[j].i \in Nat /\ a[j].k \in Nat
    BY <2>1 DEF Piece, Positive
  <2>3. new[k].w = w /\ new[k].i = next[w] /\ new[k].k = sent[w] + k /\ k \in Nat /\ k > 0
    BY <1>1 DEF Wrote
  <2> QED
    BY <1>2, <2>1, <2>2, <2>3 DEF Before, Written
<1>4. ASSUME NEW j \in 1 .. n, NEW k \in 1 .. n, j < k
      PROVE  Before(new[j], new[k])
  <2>1. /\ new[k].w = w /\ new[k].i = next[w] /\ new[k].k = sent[w] + k
        /\ new[j].w = w /\ new[j].i = next[w] /\ new[j].k = sent[w] + j
    BY DEF Wrote
  <2> QED
    BY <1>1, <1>2, <1>4, <2>1 DEF Before
<1> SUFFICES ASSUME NEW j \in 1 .. Len(a) + n, NEW k \in 1 .. Len(a) + n, j < k
             PROVE  Before((a \o new)[j], (a \o new)[k])
  BY <1>1 DEF Ordered
<1>5. CASE k <= Len(a)
  <2>1. j \in 1 .. Len(a) /\ k \in 1 .. Len(a)
    BY <1>1, <1>5
  <2> QED
    BY <1>1, <2>1 DEF Ordered
<1>6. CASE j <= Len(a) /\ k > Len(a)
  <2>1. j \in 1 .. Len(a) /\ k - Len(a) \in 1 .. n /\ k = Len(a) + (k - Len(a))
    BY <1>1, <1>6
  <2>2. (a \o new)[j] = a[j] /\ (a \o new)[k] = new[k - Len(a)]
    BY <1>1, <2>1
  <2> QED
    BY <1>3, <2>1, <2>2
<1>7. CASE j > Len(a)
  <2>1. /\ j - Len(a) \in 1 .. n /\ j = Len(a) + (j - Len(a))
        /\ k - Len(a) \in 1 .. n /\ k = Len(a) + (k - Len(a)) /\ j - Len(a) < k - Len(a)
    BY <1>1, <1>7
  <2>2. (a \o new)[j] = new[j - Len(a)] /\ (a \o new)[k] = new[k - Len(a)]
    BY <1>1, <2>1
  <2> QED
    BY <1>4, <2>1, <2>2
<1> QED
  BY <1>1, <1>5, <1>6, <1>7

\* The letter that begins has not begun before.
LEMMA NewBegun ==
    ASSUME WireTypes, WireTypes', PlacesOK, BegunOK, NEW w \in Writers, NEW n \in Positive, NEW new,
           Wrote(w, n, new)
    PROVE  BegunOK'
<1>1. /\ GoOn
      /\ \/ next'[w] = next[w] + 1 /\ sent'[w] = 0
         \/ next'[w] = next[w] /\ sent'[w] = sent[w] + n
  BY WrotePlaces
<1>2. CASE sent[w] # 0
  BY <1>1, <1>2, StaysBegun DEF Wrote
<1>3. CASE sent[w] = 0
  <2> DEFINE l == Len(begun)
  <2>1. /\ begun' = Append(begun, <<w, next[w]>>) /\ letters' = letters /\ l \in Nat
        /\ next[w] \in 1 .. Len(letters[w]) /\ IsFrame(Letter(w, next[w]))
        /\ next[w] \in Nat /\ n \in Nat /\ n > 0 /\ begun \in Seq(Writers \X Positive)
        /\ Len(letters[w]) \in Nat
    <3>1. Len(letters[w]) \in Nat
      BY LetterFacts
    <3>2. next[w] \in Nat /\ n \in Nat /\ n > 0 /\ begun \in Seq(Writers \X Positive) /\ l \in Nat
      BY DEF WireTypes, Positive
    <3> QED
      BY <1>3, <3>1, <3>2 DEF Wrote
  <2>2. /\ Len(begun') = l + 1 /\ begun'[l + 1] = <<w, next[w]>>
        /\ \A p \in 1 .. l : begun'[p] = begun[p]
    BY <2>1
  <2>3. \A p \in 1 .. l : begun[p] \in Writers \X Positive
    BY <2>1
  <2>4. ASSUME NEW p \in 1 .. l
        PROVE  /\ begun[p][1] \in Writers /\ begun[p][2] \in Nat
               /\ begun[p][2] <= Len(letters[begun[p][1]])
               /\ Letter(begun[p][1], begun[p][2]).pieces > 0
               /\ begun[p][2] <= next'[begun[p][1]]
               /\ begun[p][2] = next'[begun[p][1]] => sent'[begun[p][1]] > 0
               /\ begun[p] # <<w, next[w]>>
    <3> DEFINE v == begun[p][1]
               i == begun[p][2]
    <3>1. v \in Writers /\ i \in Nat
      BY <2>3 DEF Positive
    <3>2. /\ i <= Len(letters[v]) /\ Letter(v, i).pieces > 0
          /\ i <= next[v] /\ (i = next[v] => sent[v] > 0)
      BY DEF BegunOK
    <3>3. /\ next[v] \in Nat /\ next'[v] \in Nat /\ sent[v] \in Nat /\ sent'[v] \in Nat
          /\ next'[v] > next[v] \/ (next'[v] = next[v] /\ sent'[v] >= sent[v])
      BY <1>1, <3>1 DEF WireTypes, GoOn, Positive
    <3>4. i <= next'[v] /\ (i = next'[v] => sent'[v] > 0)
      BY <3>1, <3>2, <3>3
    <3>5. begun[p] # <<w, next[w]>>
      BY <1>3, <3>2
    <3> QED
      BY <3>1, <3>2, <3>4, <3>5
  <2>5. /\ next[w] <= Len(letters[w]) /\ Letter(w, next[w]).pieces > 0
        /\ next[w] <= next'[w] /\ (next[w] = next'[w] => sent'[w] > 0)
    BY <1>1, <1>3, <2>1 DEF IsFrame
  <2>6. ASSUME NEW p \in 1 .. l + 1
        PROVE  /\ begun'[p][2] <= Len(letters'[begun'[p][1]])
               /\ letters'[begun'[p][1]][begun'[p][2]].pieces > 0
               /\ begun'[p][2] <= next'[begun'[p][1]]
               /\ begun'[p][2] = next'[begun'[p][1]] => sent'[begun'[p][1]] > 0
    <3>1. CASE p \in 1 .. l
      BY <2>1, <2>2, <2>4, <3>1 DEF Letter
    <3>2. CASE p = l + 1
      BY <2>1, <2>2, <2>5, <3>2 DEF Letter
    <3> QED
      BY <2>1, <3>1, <3>2
  <2>7. ASSUME NEW p \in 1 .. l + 1, NEW q \in 1 .. l + 1, begun'[p] = begun'[q]
        PROVE  p = q
    <3>1. \A r \in 1 .. l + 1 : r \in 1 .. l \/ r = l + 1
      BY <2>1
    <3>2. \A r, s \in 1 .. l : begun[r] = begun[s] => r = s
      BY DEF BegunOK
    <3>3. \A r \in 1 .. l : begun[r] # <<w, next[w]>>
      BY <2>4
    <3> QED
      BY <2>2, <2>7, <3>1, <3>2, <3>3
  <2> HIDE DEF l
  <2> QED
    BY <2>2, <2>6, <2>7 DEF BegunOK, Letter
<1> QED
  BY <1>2, <1>3

\* A write keeps the pieces right.
LEMMA WritePieces ==
    ASSUME PiecesInv, NEW w \in Writers, NEW n \in Positive, NEW new \in Seq(Piece),
           Wrote(w, n, new)
    PROVE  PiecesInv'
<1>1. WireTypes /\ PlacesOK /\ AllWritten(All) /\ Ordered(All) /\ BegunOK /\ WantOK /\ Attached
  BY DEF PiecesInv
<1>2. /\ next' \in [Writers -> Positive] /\ sent' \in [Writers -> Nat] /\ GoOn
      /\ \A v \in Writers : v # w => next'[v] = next[v] /\ sent'[v] = sent[v]
      /\ \/ next'[w] = next[w] + 1 /\ sent'[w] = 0 /\ sent[w] + n = Letter(w, next[w]).pieces
         \/ /\ next'[w] = next[w] /\ sent'[w] = sent[w] + n
            /\ sent[w] + n < Letter(w, next[w]).pieces
  BY <1>1, WrotePlaces
<1>3. /\ UNCHANGED <<letters, reader, buf, want, pending_fds, got>>
      /\ next[w] \in 1 .. Len(letters[w])
      /\ IsFrame(Letter(w, next[w]))
      /\ Len(sock) + n <= Capacity /\ sent[w] + n <= Letter(w, next[w]).pieces
      /\ sock' = sock \o new /\ Len(new) = n
      /\ \A k \in 1 .. n : /\ new[k].w = w /\ new[k].i = next[w] /\ new[k].k = sent[w] + k
                           /\ new[k].fds = FdsOf(new[k])
      /\ begun' = (IF sent[w] = 0 THEN Append(begun, <<w, next[w]>>) ELSE begun)
      /\ mixed' = (mixed \/ (sent[w] = 0 /\ \E v \in Writers \ {w} : sent[v] > 0))
  BY DEF Wrote
<1>4. /\ sock \in Seq(Piece) /\ buf \in Seq(Piece) /\ n \in Nat /\ n > 0
      /\ next[w] \in Positive /\ next[w] \in Nat /\ sent[w] \in Nat /\ Len(sock) \in Nat
      /\ Len(letters[w]) \in Nat /\ Letter(w, next[w]).pieces \in Nat
  <2>1. Len(letters[w]) \in Nat
    BY <1>1, LetterFacts
  <2>2. Letter(w, next[w]).pieces \in Nat
    BY <1>3 DEF IsFrame
  <2>3. /\ sock \in Seq(Piece) /\ buf \in Seq(Piece) /\ n \in Nat /\ n > 0
        /\ next[w] \in Positive /\ next[w] \in Nat /\ sent[w] \in Nat /\ Len(sock) \in Nat
    BY <1>1 DEF WireTypes, Positive
  <2> QED
    BY <2>1, <2>2, <2>3
<1>5. WireTypes'
  <2>1. sock' \in Seq(Piece)
    BY <1>3, <1>4, PiecesConcat
  <2>2. begun' \in Seq(Writers \X Positive)
    <3>1. begun \in Seq(Writers \X Positive) /\ <<w, next[w]>> \in Writers \X Positive
      BY <1>1, <1>4 DEF WireTypes
    <3> QED
      BY <1>3, <3>1
  <2>3. mixed' \in BOOLEAN
    BY <1>3
  <2> QED
    BY <1>1, <1>2, <1>3, <2>1, <2>2, <2>3 DEF WireTypes
<1>6. PlacesOK'
  <2>1. Len(sock)' <= Capacity
    BY <1>3, <1>4, PiecesConcat
  <2>2. ASSUME NEW v \in Writers
        PROVE  /\ next'[v] <= Len(letters'[v]) + 1
               /\ sent'[v] > 0 => /\ next'[v] <= Len(letters'[v])
                                  /\ sent'[v] < Letter(v, next[v])'.pieces
    <3>1. CASE v = w
      BY <1>2, <1>3, <1>4, <3>1 DEF Letter
    <3>2. CASE v # w
      BY <1>1, <1>2, <1>3, <3>2 DEF PlacesOK, Letter
    <3> QED
      BY <3>1, <3>2
  <2> QED
    BY <2>1, <2>2 DEF PlacesOK
<1>7. All' = All \o new /\ All \in Seq(Piece)
  <2>1. (buf \o sock) \o new = buf \o (sock \o new)
    BY <1>4, PiecesAssociative
  <2>2. buf \o sock \in Seq(Piece)
    BY <1>4, PiecesConcat
  <2> QED
    BY <1>3, <2>1, <2>2 DEF All
<1>8. Ordered(All)'
  <2>1. Ordered(All \o new)
    BY <1>1, <1>7, NewInOrder
  <2> QED
    BY <1>7, <2>1 DEF Ordered
<1>9. AllWritten(All)'
  <2> DEFINE a == All
             b == All \o new
  <2>1. /\ Len(a) \in Nat /\ Len(b) = Len(a) + n
        /\ \A j \in 1 .. Len(a) : b[j] = a[j] /\ a[j] \in Piece
        /\ \A j \in 1 .. n : b[Len(a) + j] = new[j] /\ new[j] \in Piece
    BY <1>3, <1>7, PiecesConcat
  <2>2. AllWritten(a)
    BY <1>1
  <2> HIDE DEF a
  <2>3. ASSUME NEW j \in 1 .. Len(a)
        PROVE  Written(a[j])
    BY <2>2 DEF AllWritten
  <2>4. \A p \in Piece : p.w \in Writers /\ p.i \in Positive /\ p.k \in Positive
    BY DEF Piece
  <2>5. \A p \in Piece : Written(p) => Written(p)'
    BY <1>1, <1>2, <1>5, <2>4, StaysWritten
  <2>6. ASSUME NEW j \in 1 .. n
        PROVE  /\ new[j].i <= Len(letters'[new[j].w])
               /\ new[j].k <= letters'[new[j].w][new[j].i].pieces
               /\ \/ new[j].i < next'[new[j].w]
                  \/ new[j].i = next'[new[j].w] /\ new[j].k <= sent'[new[j].w]
    <3>1. new[j].w = w /\ new[j].i = next[w] /\ new[j].k = sent[w] + j /\ j \in Nat /\ j <= n
      BY <1>3, <1>4
    <3>2. next[w] <= Len(letters[w]) /\ sent[w] + j <= Letter(w, next[w]).pieces
      BY <1>3, <1>4, <3>1
    <3>3. next[w] < next'[w] \/ (next[w] = next'[w] /\ sent[w] + j <= sent'[w])
      BY <1>2, <1>4, <3>1
    <3> QED
      BY <1>3, <3>1, <3>2, <3>3 DEF Letter
  <2>7. \A j \in 1 .. n : \A p : p = new[j] => Written(p)'
    BY <2>6 DEF Written, Pieces, Letter
  <2>8. \A j \in 1 .. Len(b) : \A p : p = b[j] => Written(p)'
    <3> SUFFICES ASSUME NEW j \in 1 .. Len(b)
                 PROVE  \A p : p = b[j] => Written(p)'
      OBVIOUS
    <3>1. CASE j <= Len(a)
      BY <2>1, <2>3, <2>5, <3>1
    <3>2. CASE j > Len(a)
      <4>1. j - Len(a) \in 1 .. n /\ j = Len(a) + (j - Len(a))
        BY <1>4, <2>1, <3>2
      <4> QED
        BY <2>1, <2>7, <4>1
    <3> QED
      BY <2>1, <3>1, <3>2
  <2> QED
    BY <1>7, <2>8 DEF AllWritten
<1>10. BegunOK'
  BY <1>1, <1>5, NewBegun
<1>11. WantOK'
  BY <1>1, <1>3 DEF WantOK, Pieces, Letter
<1>12. Attached'
  <2> SUFFICES ASSUME NEW j \in 1 .. Len(sock')
               PROVE  sock'[j].fds = FdsOf(sock'[j])
    BY <1>3 DEF Attached, FdsOf, Letter
  <2>1. /\ Len(sock') = Len(sock) + n
        /\ \A k \in 1 .. Len(sock) : sock'[k] = sock[k]
        /\ \A k \in 1 .. n : sock'[Len(sock) + k] = new[k]
    BY <1>3, <1>4, PiecesConcat
  <2>2. CASE j <= Len(sock)
    <3>1. j \in 1 .. Len(sock)
      BY <1>4, <2>2
    <3>2. sock[j].fds = FdsOf(sock[j])
      BY <1>1, <3>1 DEF Attached
    <3> QED
      BY <2>1, <3>1, <3>2
  <2>3. CASE j > Len(sock)
    <3>1. j - Len(sock) \in 1 .. n /\ j = Len(sock) + (j - Len(sock))
      BY <1>4, <2>1, <2>3
    <3> QED
      BY <1>3, <2>1, <3>1
  <2> QED
    BY <1>4, <2>1, <2>2, <2>3
<1> QED
  BY <1>5, <1>6, <1>8, <1>9, <1>10, <1>11, <1>12 DEF PiecesInv

\* b is a and the pieces new of the letter that w is writing: what the places in b hold,
\* and where a ends.
Joint(a, b, w, n, new) ==
    /\ Len(a) \in Nat /\ n \in Nat /\ n > 0 /\ Len(b) = Len(a) + n /\ sent[w] \in Nat
    /\ Letter(w, next[w]).pieces \in Nat /\ sent[w] + n <= Letter(w, next[w]).pieces
    /\ \A j \in 1 .. Len(a) :
          /\ b[j] = a[j] /\ a[j] \in Piece /\ Written(a[j])
          /\ a[j].k \in Nat /\ a[j].k >= 1 /\ Pieces(a[j]) \in Nat /\ a[j].k <= Pieces(a[j])
    /\ \A k \in 1 .. n :
          /\ b[Len(a) + k] = new[k]
          /\ new[k].w = w /\ new[k].i = next[w] /\ new[k].k = sent[w] + k
          /\ Pieces(new[k]) = Letter(w, next[w]).pieces
    /\ (Len(a) > 0 /\ sent[w] = 0) => a[Len(a)].k = Pieces(a[Len(a)])
    /\ sent[w] > 0 => /\ Len(a) > 0
                      /\ a[Len(a)].w = w /\ a[Len(a)].i = next[w] /\ a[Len(a)].k = sent[w]

\* While nothing is mixed only one writer is between pieces, and the line ends with what
\* it has written.
LEMMA WroteJoint ==
    ASSUME PiecesInv, NEW w \in Writers, NEW n \in Positive, NEW new \in Seq(Piece),
           Wrote(w, n, new), ~mixed', NEW a \in Seq(Piece), AllWritten(a), Ends(a)
    PROVE  /\ Joint(a, a \o new, w, n, new)
           /\ \A v \in Writers : v # w => sent[v] = 0
<1>1. WireTypes
  BY DEF PiecesInv
<1>2. /\ n \in Nat /\ n > 0 /\ Len(new) = n
      /\ IsFrame(Letter(w, next[w])) /\ sent[w] + n <= Letter(w, next[w]).pieces
      /\ \A k \in 1 .. n : new[k].w = w /\ new[k].i = next[w] /\ new[k].k = sent[w] + k
      /\ mixed' = (mixed \/ (sent[w] = 0 /\ \E v \in Writers \ {w} : sent[v] > 0))
  BY DEF Wrote, Positive
<1>3. Letter(w, next[w]).pieces \in Nat /\ \A v \in Writers : sent[v] \in Nat
  BY <1>1, <1>2 DEF IsFrame, WireTypes
<1>4. /\ Len(a) \in Nat /\ Len(a \o new) = Len(a) + n
      /\ \A j \in 1 .. Len(a) : (a \o new)[j] = a[j] /\ a[j] \in Piece
      /\ \A k \in 1 .. n : (a \o new)[Len(a) + k] = new[k]
  BY <1>2, PiecesConcat
<1>5. \A j \in 1 .. Len(a) : Written(a[j])
  BY DEF AllWritten
<1>6. ASSUME NEW j \in 1 .. Len(a)
      PROVE  /\ a[j].k \in Nat /\ a[j].k >= 1 /\ Pieces(a[j]) \in Nat /\ a[j].k <= Pieces(a[j])
             /\ a[j].w \in Writers
  <2>1. /\ Pieces(a[j]) \in 2 .. 4 /\ a[j].k \in 1 .. Pieces(a[j]) /\ a[j].w \in Writers
    BY <1>1, <1>4, <1>5, PieceFrame
  <2> QED
    BY <2>1
<1>7. \A v \in Writers : v # w => sent[v] = 0
  <2>1. CASE sent[w] = 0
    <3>1. ~ \E v \in Writers \ {w} : sent[v] > 0
      BY <1>2, <2>1, Zenon
    <3> QED
      BY <1>3, <3>1
  <2>2. CASE sent[w] > 0
    <3>1. \A v \in Writers : sent[v] > 0 => a[Len(a)].w = v
      BY DEF Ends
    <3> QED
      BY <1>3, <2>2, <3>1
  <2> QED
    BY <1>3, <2>1, <2>2
<1>8. ASSUME Len(a) > 0, sent[w] = 0
      PROVE  a[Len(a)].k = Pieces(a[Len(a)])
  <2>1. Len(a) \in 1 .. Len(a)
    BY <1>4, <1>8
  <2>2. sent[a[Len(a)].w] = 0
    BY <1>6, <1>7, <1>8, <2>1
  <2>3. a[Len(a)].k < Pieces(a[Len(a)]) => sent[a[Len(a)].w] > 0
    BY <1>8 DEF Ends
  <2> QED
    BY <1>6, <2>1, <2>2, <2>3
<1>9. sent[w] > 0 => /\ Len(a) > 0
                     /\ a[Len(a)].w = w /\ a[Len(a)].i = next[w] /\ a[Len(a)].k = sent[w]
  BY DEF Ends
<1>10. \A k \in 1 .. n : Pieces(new[k]) = Letter(w, next[w]).pieces
  BY <1>2 DEF Pieces
<1> QED
  BY <1>2, <1>3, <1>4, <1>5, <1>6, <1>7, <1>8, <1>9, <1>10 DEF Joint

\* The pieces of a frame stay together, with the new ones.
LEMMA JointInFrames ==
    ASSUME NEW a, NEW b, NEW w, NEW n, NEW new, Joint(a, b, w, n, new), InFrames(a)
    PROVE  InFrames(b)
<1> DEFINE l == Len(a)
           P == Letter(w, next[w]).pieces
<1>1. /\ l \in Nat /\ n \in Nat /\ n > 0 /\ Len(b) = l + n /\ sent[w] \in Nat /\ P \in Nat
      /\ sent[w] + n <= P
  BY DEF Joint
<1>2. \A j \in 1 .. l : /\ b[j] = a[j] /\ a[j].k \in Nat /\ a[j].k >= 1
                        /\ Pieces(a[j]) \in Nat /\ a[j].k <= Pieces(a[j])
  BY DEF Joint
<1>3. \A k \in 1 .. n : /\ b[l + k] = new[k] /\ new[k].w = w /\ new[k].i = next[w]
                        /\ new[k].k = sent[w] + k /\ Pieces(new[k]) = P
  BY DEF Joint
<1>4. /\ (l > 0 /\ sent[w] = 0) => a[l].k = Pieces(a[l])
      /\ sent[w] > 0 => l > 0 /\ a[l].w = w /\ a[l].i = next[w] /\ a[l].k = sent[w]
  BY DEF Joint
<1>5. \A j \in 1 .. l : \A m \in Positive :
          (j + m <= l /\ a[j].k + m <= Pieces(a[j])) =>
              a[j + m].w = a[j].w /\ a[j + m].i = a[j].i /\ a[j + m].k = a[j].k + m
  BY DEF InFrames
<1> HIDE DEF l, P
<1> SUFFICES ASSUME NEW j \in 1 .. l + n, NEW m \in Positive,
                    j + m <= l + n, b[j].k + m <= Pieces(b[j])
             PROVE  b[j + m].w = b[j].w /\ b[j + m].i = b[j].i /\ b[j + m].k = b[j].k + m
  BY <1>1 DEF InFrames
<1>6. m \in Nat /\ m > 0
  BY DEF Positive
<1>7. CASE j + m <= l
  <2>1. j \in 1 .. l /\ j + m \in 1 .. l
    BY <1>1, <1>6, <1>7
  <2>2. b[j] = a[j] /\ b[j + m] = a[j + m]
    BY <1>2, <2>1
  <2> QED
    BY <1>5, <1>7, <2>1, <2>2
<1>8. CASE j <= l /\ j + m > l
  <2> DEFINE d == l - j
  <2>1. j \in 1 .. l /\ d \in Nat /\ d < m /\ j + d = l /\ l \in 1 .. l /\ m - d \in 1 .. n
        /\ j + m = l + (m - d)
    BY <1>1, <1>6, <1>8
  <2>2. b[j] = a[j] /\ a[j].k \in Nat /\ Pieces(a[j]) \in Nat
    BY <1>2, <2>1
  <2>3. a[l].w = a[j].w /\ a[l].i = a[j].i /\ a[l].k = a[j].k + d
    <3>1. CASE d = 0
      <4>1. j = l
        BY <1>1, <2>1, <3>1
      <4> QED
        BY <2>2, <3>1, <4>1
    <3>2. CASE d > 0
      <4>1. d \in Positive /\ j + d <= l /\ a[j].k + d <= Pieces(a[j])
        BY <1>6, <2>1, <2>2, <3>2 DEF Positive
      <4>2. a[j + d].w = a[j].w /\ a[j + d].i = a[j].i /\ a[j + d].k = a[j].k + d
        BY <1>5, <2>1, <4>1
      <4> QED
        BY <2>1, <4>2
    <3> QED
      BY <2>1, <3>1, <3>2
  <2>4. Pieces(a[l]) = Pieces(a[j])
    BY <2>3 DEF Pieces
  <2>5. sent[w] > 0
    <3>1. ASSUME sent[w] = 0
          PROVE  FALSE
      <4>1. a[l].k = Pieces(a[l])
        BY <1>4, <2>1, <3>1
      <4> HIDE DEF d
      <4> QED
        BY <1>6, <2>1, <2>2, <2>3, <2>4, <4>1
    <3> QED
      BY <1>1, <3>1
  <2>6. a[l].w = w /\ a[l].i = next[w] /\ a[l].k = sent[w]
    BY <1>4, <2>5
  <2>7. /\ b[j + m] = new[m - d] /\ new[m - d].w = w /\ new[m - d].i = next[w]
        /\ new[m - d].k = sent[w] + (m - d)
    BY <1>3, <2>1
  <2> HIDE DEF d
  <2> QED
    BY <1>1, <1>6, <2>1, <2>2, <2>3, <2>6, <2>7
<1>9. CASE j > l
  <2>1. /\ j - l \in 1 .. n /\ j = l + (j - l) /\ (j - l) + m \in 1 .. n
        /\ j + m = l + ((j - l) + m)
    BY <1>1, <1>6, <1>9
  <2>2. b[j] = new[j - l] /\ b[j + m] = new[(j - l) + m]
    BY <1>3, <2>1
  <2>3. /\ new[j - l].w = w /\ new[j - l].i = next[w] /\ new[j - l].k = sent[w] + (j - l)
        /\ new[(j - l) + m].w = w /\ new[(j - l) + m].i = next[w]
        /\ new[(j - l) + m].k = sent[w] + ((j - l) + m)
    BY <1>3, <2>1
  <2> QED
    BY <1>1, <1>6, <2>1, <2>2, <2>3
<1> QED
  BY <1>1, <1>6, <1>7, <1>8, <1>9

\* After the step frames of b follow each other in the order of begun.
WillBeInTurn(b) ==
    \A j \in 1 .. Len(b) :
        (j + 1 <= Len(b) /\ b[j].k = Pieces(b[j])) =>
            /\ b[j + 1].k = 1
            /\ \A p \in 1 .. Len(begun') :
                  begun'[p] = Of(b[j]) => p < Len(begun') /\ begun'[p + 1] = Of(b[j + 1])

\* Frames follow each other in the order of begun, with the new pieces.
LEMMA JointInTurn ==
    ASSUME WireTypes, BegunOK, NEW a, NEW b, NEW w \in Writers, NEW n \in Positive, NEW new,
           Wrote(w, n, new), Joint(a, b, w, n, new), InTurn(a), Ends(a)
    PROVE  WillBeInTurn(b)
<1> DEFINE l == Len(a)
           g == Len(begun)
           P == Letter(w, next[w]).pieces
<1>1. /\ l \in Nat /\ n \in Nat /\ n > 0 /\ Len(b) = l + n /\ sent[w] \in Nat /\ P \in Nat
      /\ sent[w] + n <= P
  BY DEF Joint
<1>2. \A j \in 1 .. l : b[j] = a[j] /\ a[j] \in Piece /\ Written(a[j]) /\ a[j].k \in Nat /\ a[j].k >= 1
  BY DEF Joint
<1>3. \A k \in 1 .. n : /\ b[l + k] = new[k] /\ new[k].w = w /\ new[k].i = next[w]
                        /\ new[k].k = sent[w] + k /\ Pieces(new[k]) = P
  BY DEF Joint
<1>4. /\ sent[w] > 0 => l > 0 /\ a[l].w = w /\ a[l].i = next[w] /\ a[l].k = sent[w]
      /\ l > 0 => g > 0 /\ Of(a[l]) = begun[g]
  BY DEF Joint, Ends
<1>5. /\ g \in Nat
      /\ sent[w] = 0 => /\ Len(begun') = g + 1 /\ begun'[g + 1] = <<w, next[w]>>
                        /\ \A p \in 1 .. g : begun'[p] = begun[p]
      /\ sent[w] # 0 => begun' = begun
  <2>1. begun \in Seq(Writers \X Positive) /\ begun' = IF sent[w] = 0 THEN Append(begun, <<w, next[w]>>) ELSE begun
    BY DEF WireTypes, Wrote
  <2> QED
    BY <2>1
<1>6. \A p, q \in 1 .. g : begun[p] = begun[q] => p = q
  BY DEF BegunOK
<1>7. \A j \in 1 .. l :
          (j + 1 <= l /\ a[j].k = Pieces(a[j])) =>
              /\ a[j + 1].k = 1
              /\ \A p \in 1 .. g : begun[p] = Of(a[j]) => p < g /\ begun[p + 1] = Of(a[j + 1])
  BY DEF InTurn
<1>8. ASSUME sent[w] = 0, NEW j \in 1 .. l
      PROVE  Of(a[j]) # <<w, next[w]>>
  <2>1. ASSUME Of(a[j]) = <<w, next[w]>>
        PROVE  FALSE
    <3>1. a[j].w = w /\ a[j].i = next[w]
      BY <2>1 DEF Of
    <3>2. next[w] \in Nat /\ Written(a[j]) /\ a[j].k \in Nat /\ a[j].k >= 1
      BY <1>2 DEF WireTypes, Positive
    <3>3. a[j].i < next[a[j].w] \/ a[j].k <= sent[a[j].w]
      BY <3>2 DEF Written
    <3> QED
      BY <1>8, <3>1, <3>2, <3>3
  <2> QED
    BY <2>1
<1> HIDE DEF l, g, P
<1> SUFFICES ASSUME NEW j \in 1 .. l + n, j + 1 <= l + n, b[j].k = Pieces(b[j])
             PROVE  /\ b[j + 1].k = 1
                    /\ \A p \in 1 .. Len(begun') :
                          begun'[p] = Of(b[j]) => p < Len(begun') /\ begun'[p + 1] = Of(b[j + 1])
  BY <1>1 DEF WillBeInTurn
<1>9. CASE j + 1 <= l
  <2>1. j \in 1 .. l /\ j + 1 \in 1 .. l
    BY <1>1, <1>9
  <2>2. b[j] = a[j] /\ b[j + 1] = a[j + 1]
    BY <1>2, <2>1
  <2>3. /\ a[j + 1].k = 1
        /\ \A p \in 1 .. g : begun[p] = Of(a[j]) => p < g /\ begun[p + 1] = Of(a[j + 1])
    BY <1>7, <1>9, <2>1, <2>2
  <2>4. ASSUME NEW p \in 1 .. Len(begun'), begun'[p] = Of(a[j])
        PROVE  p < Len(begun') /\ begun'[p + 1] = Of(a[j + 1])
    <3>1. CASE sent[w] # 0
      BY <1>5, <2>3, <2>4, <3>1 DEF g
    <3>2. CASE sent[w] = 0
      <4>1. p # g + 1
        BY <1>5, <1>8, <2>1, <2>4, <3>2
      <4>2. p \in 1 .. g /\ Len(begun') = g + 1
        BY <1>5, <3>2, <4>1
      <4>3. begun[p] = Of(a[j])
        BY <1>5, <2>4, <3>2, <4>2
      <4>4. p < g /\ begun[p + 1] = Of(a[j + 1])
        BY <2>3, <4>2, <4>3
      <4>5. p + 1 \in 1 .. g
        BY <1>5, <4>2, <4>4
      <4> QED
        BY <1>5, <3>2, <4>2, <4>4, <4>5
    <3> QED
      BY <3>1, <3>2
  <2> QED
    BY <2>2, <2>3, <2>4
<1>10. CASE j = l
  <2>1. l \in 1 .. l /\ l > 0 /\ 1 \in 1 .. n
    BY <1>1, <1>10
  <2>2. b[j] = a[l] /\ b[j + 1] = new[1]
    BY <1>2, <1>3, <1>10, <2>1
  <2>3. sent[w] = 0
    <3>1. ASSUME sent[w] > 0
          PROVE  FALSE
      <4>1. a[l].w = w /\ a[l].i = next[w] /\ a[l].k = sent[w]
        BY <1>4, <3>1
      <4>2. Pieces(a[l]) = P
        BY <4>1 DEF Pieces, P
      <4> QED
        BY <1>1, <2>2, <4>1, <4>2
    <3> QED
      BY <1>1, <3>1
  <2>4. new[1].k = 1 /\ Of(new[1]) = <<w, next[w]>>
    BY <1>3, <2>1, <2>3 DEF Of
  <2>5. ASSUME NEW p \in 1 .. Len(begun'), begun'[p] = Of(a[l])
        PROVE  p < Len(begun') /\ begun'[p + 1] = Of(new[1])
    <3>1. p # g + 1
      BY <1>5, <1>8, <2>1, <2>3, <2>5
    <3>2. p \in 1 .. g /\ g \in 1 .. g /\ Len(begun') = g + 1
      BY <1>4, <1>5, <2>1, <2>3, <3>1
    <3>3. begun[p] = begun[g]
      BY <1>4, <1>5, <2>1, <2>3, <2>5, <3>2
    <3>4. p = g
      BY <1>6, <3>2, <3>3
    <3> QED
      BY <1>5, <2>3, <2>4, <3>2, <3>4
  <2> QED
    BY <2>2, <2>4, <2>5
<1>11. CASE j > l
  <2>1. j - l \in 1 .. n /\ j = l + (j - l) /\ j - l < n
    BY <1>1, <1>11
  <2>2. b[j] = new[j - l] /\ new[j - l].k = sent[w] + (j - l) /\ Pieces(new[j - l]) = P
    BY <1>3, <2>1
  <2> QED
    BY <1>1, <2>1, <2>2
<1> QED
  BY <1>1, <1>9, <1>10, <1>11

\* A write keeps the line, as long as it mixes nothing.
LEMMA WriteLine ==
    ASSUME PiecesInv, NEW w \in Writers, NEW n \in Positive, NEW new \in Seq(Piece),
           Wrote(w, n, new), ~mixed', Line(All)
    PROVE  Line(All)'
<1> DEFINE a == All
           b == All \o new
           l == Len(a)
           g == Len(begun)
           P == Letter(w, next[w]).pieces
<1>1. /\ WireTypes /\ PlacesOK /\ AllWritten(a) /\ BegunOK
      /\ InFrames(a) /\ InTurn(a) /\ Starts(a) /\ Ends(a)
  BY DEF PiecesInv, Line
<1>2. All' = b /\ a \in Seq(Piece)
  <2>1. buf \in Seq(Piece) /\ sock \in Seq(Piece) /\ buf' = buf /\ sock' = sock \o new
    BY <1>1 DEF WireTypes, Wrote
  <2>2. (buf \o sock) \o new = buf \o (sock \o new) /\ buf \o sock \in Seq(Piece)
    BY <2>1, PiecesAssociative, PiecesConcat
  <2> QED
    BY <2>1, <2>2 DEF All
<1> HIDE DEF All
<1>3. Joint(a, b, w, n, new) /\ \A v \in Writers : v # w => sent[v] = 0
  BY <1>1, <1>2, WroteJoint
<1>4. /\ \A v \in Writers : v # w => sent'[v] = sent[v]
      /\ \/ sent'[w] = 0 /\ sent[w] + n = P
         \/ next'[w] = next[w] /\ sent'[w] = sent[w] + n
  BY <1>1, WrotePlaces
<1>5. letters' = letters /\ got' = got
  BY DEF Wrote
<1>6. /\ l \in Nat /\ n \in Nat /\ n > 0 /\ Len(b) = l + n /\ sent[w] \in Nat /\ P \in Nat
      /\ sent[w] + n <= P
      /\ \A k \in 1 .. n : /\ b[l + k] = new[k] /\ new[k].w = w /\ new[k].i = next[w]
                           /\ new[k].k = sent[w] + k /\ Pieces(new[k]) = P
      /\ sent[w] > 0 => l > 0 /\ a[l].w = w /\ a[l].i = next[w]
      /\ l > 0 => b[1] = a[1]
  <2> HIDE DEF b
  <2>1. /\ l \in Nat /\ n \in Nat /\ n > 0 /\ Len(b) = l + n /\ sent[w] \in Nat /\ P \in Nat
        /\ sent[w] + n <= P
        /\ sent[w] > 0 => l > 0 /\ a[l].w = w /\ a[l].i = next[w]
    BY <1>3, Zenon DEF Joint
  <2>2. \A k \in 1 .. n : /\ b[l + k] = new[k] /\ new[k].w = w /\ new[k].i = next[w]
                          /\ new[k].k = sent[w] + k /\ Pieces(new[k]) = P
    BY <1>3, Zenon DEF Joint
  <2>3. \A j \in 1 .. l : b[j] = a[j]
    BY <1>3, Zenon DEF Joint
  <2>4. l > 0 => 1 \in 1 .. l
    BY <2>1
  <2> QED
    BY <2>1, <2>2, <2>3, <2>4, Zenon
<1>7. /\ g \in Nat /\ Len(got) \in Nat
      /\ sent[w] = 0 => /\ Len(begun') = g + 1 /\ begun'[g + 1] = <<w, next[w]>>
                        /\ \A p \in 1 .. g : begun'[p] = begun[p]
      /\ sent[w] # 0 => begun' = begun
  <2>1. /\ begun \in Seq(Writers \X Positive) /\ got \in Seq(Readable)
        /\ begun' = IF sent[w] = 0 THEN Append(begun, <<w, next[w]>>) ELSE begun
    BY <1>1 DEF WireTypes, Wrote
  <2> QED
    BY <2>1
<1>8. InFrames(b)
  BY <1>1, <1>3, JointInFrames
<1>9. InFrames(All)'
  BY <1>2, <1>5, <1>8 DEF InFrames, Pieces, Letter
<1>10. InTurn(All)'
  <2>1. WillBeInTurn(b)
    BY <1>1, <1>3, JointInTurn
  <2> HIDE DEF b
  <2> QED
    BY <1>2, <1>5, <2>1 DEF WillBeInTurn, InTurn, Pieces, Letter, Of
<1> HIDE DEF a, b, l, g, P
<1>11. Starts(All)'
  <2>1. CASE l > 0
    <3>1. a[1].k = 1 /\ Len(got) < g /\ Of(a[1]) = begun[Len(got) + 1]
      BY <1>1, <2>1 DEF Starts, l, g
    <3>2. Len(got) + 1 \in 1 .. g
      BY <1>7, <3>1
    <3>3. Len(got) < Len(begun') /\ begun'[Len(got) + 1] = begun[Len(got) + 1]
      <4>1. CASE sent[w] = 0
        BY <1>7, <3>1, <3>2, <4>1
      <4>2. CASE sent[w] # 0
        BY <1>7, <3>1, <4>2 DEF g
      <4> QED
        BY <4>1, <4>2
    <3>4. b[1].k = 1 /\ Of(b[1]) = begun'[Len(got) + 1]
      BY <1>6, <2>1, <3>1, <3>3
    <3> QED
      BY <1>2, <1>5, <3>3, <3>4 DEF Starts, Of
  <2>2. CASE l = 0
    <3>1. sent[w] = 0 /\ Len(got) = g /\ 1 \in 1 .. n
      BY <1>1, <1>6, <2>2 DEF Ends, l, g
    <3>2. b[1].k = 1 /\ b[1].w = w /\ b[1].i = next[w]
      <4>1. b[l + 1] = new[1] /\ new[1].w = w /\ new[1].i = next[w] /\ new[1].k = sent[w] + 1
        BY <1>6, <3>1
      <4> QED
        BY <2>2, <3>1, <4>1
    <3>3. Len(got) < Len(begun') /\ begun'[Len(got) + 1] = <<w, next[w]>>
      BY <1>7, <3>1
    <3> QED
      BY <1>2, <1>5, <3>2, <3>3 DEF Starts, Of
  <2> QED
    BY <1>6, <2>1, <2>2
<1>12. Ends(All)'
  <2> DEFINE z == b[Len(b)]
  <2>1. z.w = w /\ z.i = next[w] /\ z.k = sent[w] + n /\ Pieces(z) = P /\ Len(b) > 0
    <3>1. n \in 1 .. n
      BY <1>6
    <3> QED
      BY <1>6, <3>1
  <2>2. Len(begun') > 0 /\ Of(z) = begun'[Len(begun')]
    <3>1. CASE sent[w] = 0
      BY <1>7, <2>1, <3>1 DEF Of
    <3>2. CASE sent[w] # 0
      <4>1. l > 0 /\ a[l].w = w /\ a[l].i = next[w]
        BY <1>6, <3>2
      <4>2. g > 0 /\ Of(a[l]) = begun[g]
        BY <1>1, <4>1 DEF Ends, l, g
      <4> QED
        BY <1>7, <2>1, <3>2, <4>1, <4>2 DEF Of, g
    <3> QED
      BY <3>1, <3>2
  <2>3. z.k < P => sent'[z.w] > 0
    BY <1>4, <1>6, <2>1
  <2>4. \A v \in Writers : sent'[v] > 0 => z.w = v /\ z.i = next'[v] /\ z.k = sent'[v]
    BY <1>3, <1>4, <2>1
  <2> HIDE DEF z
  <2> QED
    BY <1>2, <1>5, <2>1, <2>2, <2>3, <2>4 DEF Ends, Pieces, Letter, Of, z, P
<1> QED
  BY <1>9, <1>10, <1>11, <1>12 DEF Line

\* Letters that have begun stay what they are as others begin.
LEMMA BegunStays ==
    ASSUME WireTypes, letters' = letters, \A p \in 1 .. Len(begun) : begun'[p] = begun[p]
    PROVE  /\ \A j \in 1 .. Len(begun) : BegunLetter(j)' = BegunLetter(j)
           /\ \A m \in 0 .. Len(begun) : Honest(m)' <=> Honest(m)
<1>1. \A j \in 1 .. Len(begun) : BegunLetter(j)' = BegunLetter(j)
  BY DEF BegunLetter, Letter
<1>2. Len(begun) \in Nat
  BY DEF WireTypes
<1>3. ASSUME NEW m \in 0 .. Len(begun)
      PROVE  Honest(m)' <=> Honest(m)
  <2>1. \A j \in 1 .. m : j \in 1 .. Len(begun)
    BY <1>2
  <2> QED
    BY <1>1, <2>1 DEF Honest
<1> QED
  BY <1>1, <1>3

\* What was read is what it is as other letters begin.
LEMMA GotGrows ==
    ASSUME WireTypes, letters' = letters, got' = got, Len(begun') >= Len(begun), Len(begun') \in Nat,
           \A p \in 1 .. Len(begun) : begun'[p] = begun[p], GotOK
    PROVE  GotOK' /\ (Honest(Len(got))' <=> Honest(Len(got)))
<1>1. Len(got) \in Nat /\ Len(begun) \in Nat /\ Len(got) <= Len(begun)
  BY DEF WireTypes, GotOK
<1>2. /\ \A j \in 1 .. Len(begun) : BegunLetter(j)' = BegunLetter(j)
      /\ \A m \in 0 .. Len(begun) : Honest(m)' <=> Honest(m)
  BY BegunStays
<1>3. ASSUME NEW j \in 1 .. Len(got)
      PROVE  Honest(j)' => got[j] = BegunLetter(j)'.delivered
  <2>1. j \in 1 .. Len(begun) /\ j \in 0 .. Len(begun)
    BY <1>1
  <2>2. BegunLetter(j)' = BegunLetter(j) /\ (Honest(j)' <=> Honest(j))
    BY <1>2, <2>1
  <2>3. Honest(j) => got[j] = BegunLetter(j).delivered
    BY DEF GotOK
  <2> QED
    BY <2>2, <2>3
<1>4. Len(got)' <= Len(begun)'
  BY <1>1
<1>5. GotOK'
  BY <1>3, <1>4 DEF GotOK
<1>6. Len(got) \in 0 .. Len(begun)
  BY <1>1
<1> QED
  BY <1>2, <1>5, <1>6

\* A reader that failed did so for a letter that had begun; others may begin after it.
LEMMA FailedGrows ==
    ASSUME WireTypes, letters' = letters, got' = got, reader' = reader,
           Len(begun') >= Len(begun), Len(begun') \in Nat,
           \A p \in 1 .. Len(begun) : begun'[p] = begun[p], FailedOK
    PROVE  FailedOK'
<1>1. SUFFICES ASSUME reader' = "failed"
               PROVE  FailedOK'
  BY DEF FailedOK
<1> DEFINE j == Len(got) + 1
<1>2. Len(got) < Len(begun)
  BY <1>1 DEF FailedOK
<1>3. j \in 1 .. Len(begun) /\ j \in 0 .. Len(begun)
  BY <1>2 DEF WireTypes
<1>4. /\ BegunLetter(j)' = BegunLetter(j)
      /\ Honest(j)' <=> Honest(j)
  BY <1>3, BegunStays
<1>5. Honest(j) => Rightly(j)
  BY <1>1 DEF FailedOK
<1>6. (Honest(j) => Rightly(j))'
  BY <1>4, <1>5 DEF Rightly
<1>7. (Len(got) < Len(begun))'
  BY <1>2 DEF WireTypes
<1> QED
  BY <1>6, <1>7 DEF FailedOK

\* A write keeps the invariant.
LEMMA WriteInv ==
    ASSUME WireInv, NEW w \in Writers, write_all_with_fds(w)
    PROVE  WireInv'
<1>1. PiecesInv /\ UnmixedInv /\ WireTypes
  BY DEF WireInv, PiecesInv
<1>2. PICK n \in Positive : \E new \in Seq(Piece) : Wrote(w, n, new)
  BY <1>1, WriteFacts
<1>3. PICK new \in Seq(Piece) : Wrote(w, n, new)
  BY <1>2
<1>4. PiecesInv'
  BY <1>1, <1>3, WritePieces
<1>5. /\ UNCHANGED <<letters, reader, buf, want, pending_fds, got>>
      /\ begun' = (IF sent[w] = 0 THEN Append(begun, <<w, next[w]>>) ELSE begun)
      /\ mixed' = (mixed \/ (sent[w] = 0 /\ \E v \in Writers \ {w} : sent[v] > 0))
  BY <1>3 DEF Wrote
<1>6. /\ Len(begun') >= Len(begun) /\ Len(begun') \in Nat
      /\ \A p \in 1 .. Len(begun) : begun'[p] = begun[p]
  <2>1. begun \in Seq(Writers \X Positive)
    BY <1>1 DEF WireTypes
  <2> QED
    BY <1>5, <2>1
<1>7. ASSUME ~mixed'
      PROVE  /\ reader' # "astray" /\ GotOK' /\ FailedOK'
             /\ reader' = "reading" => Line(All)' /\ Pending'
  <2>1. ~mixed
    BY <1>5, <1>7
  <2>2. /\ reader # "astray" /\ GotOK /\ FailedOK
        /\ reader = "reading" => Line(All) /\ Pending
    BY <1>1, <2>1 DEF UnmixedInv
  <2>3. GotOK' /\ (Honest(Len(got))' <=> Honest(Len(got)))
    BY <1>1, <1>5, <1>6, <2>2, GotGrows
  <2>4. FailedOK'
    BY <1>1, <1>5, <1>6, <2>2, FailedGrows
  <2>5. ASSUME reader = "reading"
        PROVE  Line(All)' /\ Pending'
    <3>1. Line(All) /\ Pending
      BY <2>2, <2>5
    <3>2. Line(All)'
      BY <1>1, <1>3, <1>7, <3>1, WriteLine
    <3>3. FdsOfAll(buf)' = FdsOfAll(buf)
      BY <1>5 DEF FdsOfAll, FdsOf, Letter
    <3> QED
      BY <1>5, <2>3, <3>1, <3>2, <3>3 DEF Pending
  <2> QED
    BY <1>5, <2>2, <2>3, <2>4, <2>5
<1> QED
  BY <1>4, <1>7 DEF WireInv, UnmixedInv

-----------------------------------------------------------------------------
(* Reading *)

\* What a step of the reader leaves alone, and the pieces that are under way after it.
Reads(d) ==
    /\ UNCHANGED <<letters, next, sent, begun, mixed>>
    /\ All' \in Seq(Piece) /\ Part(All', All, d)

\* A step of the reader keeps the pieces right.
LEMMA ReadPieces ==
    ASSUME PiecesInv, NEW d \in Nat, Reads(d), WireTypes', Len(sock') <= Len(sock),
           WantOK', Attached'
    PROVE  PiecesInv'
<1>1. WireTypes /\ PlacesOK /\ AllWritten(All) /\ Ordered(All) /\ BegunOK
  BY DEF PiecesInv
<1>2. /\ UNCHANGED <<letters, next, sent, begun, mixed>>
      /\ All' \in Seq(Piece) /\ Part(All', All, d) /\ All \in Seq(Piece)
  BY <1>1, PiecesConcat DEF Reads, All, WireTypes
<1>3. PlacesOK'
  <2>1. Len(sock') \in Nat /\ Len(sock) \in Nat /\ Capacity \in Nat
    BY <1>1, WireAssumption DEF WireTypes, WireAssumption
  <2>2. Len(sock') <= Capacity
    BY <1>1, <2>1 DEF PlacesOK
  <2> QED
    BY <1>1, <1>2, <2>2 DEF PlacesOK, Letter
<1> HIDE DEF All
<1>4. Ordered(All)'
  <2>1. Ordered(All')
    BY <1>1, <1>2, PartOrdered
  <2> QED
    BY <2>1 DEF Ordered
<1>5. AllWritten(All)'
  <2>1. ASSUME NEW j \in 1 .. Len(All')
        PROVE  Written(All'[j])
    <3>1. d + j \in 1 .. Len(All)
      BY <1>2 DEF Part
    <3>2. Written(All[d + j])
      BY <1>1, <3>1 DEF AllWritten
    <3> QED
      BY <1>2, <3>2 DEF Written, Part, Pieces
  <2> QED
    BY <1>2, <2>1 DEF AllWritten, Written, Pieces, Letter
<1>6. BegunOK'
  BY <1>1, <1>2 DEF BegunOK, Letter
<1> QED
  BY <1>3, <1>4, <1>5, <1>6 DEF PiecesInv

\* Part of a line is whole frames in turn.
LEMMA PartInFrames ==
    ASSUME NEW a \in Seq(Piece), NEW b \in Seq(Piece), NEW d \in Nat, Part(b, a, d),
           InFrames(a), InTurn(a)
    PROVE  InFrames(b) /\ InTurn(b)
<1>1. Len(a) \in Nat /\ Len(b) \in Nat /\ Len(b) + d <= Len(a)
  BY DEF Part
<1>2. ASSUME NEW j \in 1 .. Len(b)
      PROVE  /\ d + j \in 1 .. Len(a)
             /\ b[j].w = a[d + j].w /\ b[j].i = a[d + j].i /\ b[j].k = a[d + j].k
             /\ Pieces(b[j]) = Pieces(a[d + j]) /\ Of(b[j]) = Of(a[d + j])
  <2>1. b[j].w = a[d + j].w /\ b[j].i = a[d + j].i /\ b[j].k = a[d + j].k
    BY DEF Part
  <2> QED
    BY <1>1, <2>1 DEF Pieces, Of
<1>3. InFrames(b)
  <2> SUFFICES ASSUME NEW j \in 1 .. Len(b), NEW m \in Positive,
                      j + m <= Len(b), b[j].k + m <= Pieces(b[j])
               PROVE  b[j + m].w = b[j].w /\ b[j + m].i = b[j].i /\ b[j + m].k = b[j].k + m
    BY DEF InFrames
  <2>1. /\ m \in Nat /\ m > 0 /\ j + m \in 1 .. Len(b) /\ (d + j) + m <= Len(a)
        /\ d + (j + m) = (d + j) + m
    BY <1>1 DEF Positive
  <2>2. d + j \in 1 .. Len(a) /\ a[d + j].k + m <= Pieces(a[d + j])
    BY <1>2
  <2>3. /\ a[(d + j) + m].w = a[d + j].w /\ a[(d + j) + m].i = a[d + j].i
        /\ a[(d + j) + m].k = a[d + j].k + m
    BY <2>1, <2>2 DEF InFrames
  <2> QED
    BY <1>2, <2>1, <2>3
<1>4. InTurn(b)
  <2> SUFFICES ASSUME NEW j \in 1 .. Len(b), j + 1 <= Len(b), b[j].k = Pieces(b[j])
               PROVE  /\ b[j + 1].k = 1
                      /\ \A p \in 1 .. Len(begun) :
                            begun[p] = Of(b[j]) => p < Len(begun) /\ begun[p + 1] = Of(b[j + 1])
    BY DEF InTurn
  <2>1. j + 1 \in 1 .. Len(b) /\ (d + j) + 1 <= Len(a) /\ d + (j + 1) = (d + j) + 1
    BY <1>1
  <2>2. d + j \in 1 .. Len(a) /\ a[d + j].k = Pieces(a[d + j])
    BY <1>2
  <2>3. /\ a[(d + j) + 1].k = 1
        /\ \A p \in 1 .. Len(begun) :
              begun[p] = Of(a[d + j]) => p < Len(begun) /\ begun[p + 1] = Of(a[(d + j) + 1])
    BY <2>1, <2>2 DEF InTurn
  <2> QED
    BY <1>2, <2>1, <2>3
<1> QED
  BY <1>3, <1>4

\* What is under way after a step of the reader is a line if it starts and ends like one.
LEMMA ReadLine ==
    ASSUME WireTypes, NEW d \in Nat, Reads(d), Line(All), Starts(All)', Ends(All)'
    PROVE  Line(All)'
<1>1. All \in Seq(Piece) /\ All' \in Seq(Piece) /\ Part(All', All, d)
  BY PiecesConcat DEF All, WireTypes, Reads
<1> HIDE DEF All
<1>2. InFrames(All') /\ InTurn(All')
  BY <1>1, PartInFrames DEF Line
<1>3. letters' = letters /\ begun' = begun
  BY DEF Reads
<1>4. InFrames(All)' /\ InTurn(All)'
  BY <1>2, <1>3 DEF InFrames, InTurn, Pieces, Letter, Of
<1> QED
  BY <1>4 DEF Line

\* A piece without its descriptors.
Bare(p) == [p EXCEPT !.fds = << >>]

\* It is the same piece of the same letter.
LEMMA BareFacts ==
    ASSUME NEW p \in Piece
    PROVE  Bare(p) \in Piece /\ Bare(p).w = p.w /\ Bare(p).i = p.i /\ Bare(p).k = p.k
<1>1. << >> \in Seq(Int)
  OBVIOUS
<1>2. \A f \in Seq(Int) : [p EXCEPT !.fds = f] \in Piece
  BY DEF Piece
<1>3. \A f : [p EXCEPT !.fds = f].w = p.w /\ [p EXCEPT !.fds = f].i = p.i
             /\ [p EXCEPT !.fds = f].k = p.k
  BY DEF Piece
<1> QED
  BY <1>1, <1>2, <1>3, Zenon DEF Bare

\* The beginning and the rest of a sequence of pieces.
LEMMA PiecesRest ==
    ASSUME NEW a \in Seq(Piece), NEW n \in 0 .. Len(a)
    PROVE  /\ SubSeq(a, n + 1, Len(a)) \in Seq(Piece)
           /\ Len(SubSeq(a, n + 1, Len(a))) = Len(a) - n
           /\ \A j \in 1 .. Len(a) - n : SubSeq(a, n + 1, Len(a))[j] = a[n + j]
           /\ Len(a) \in Nat
  OBVIOUS

\* recvmsg: n pieces go from the socket to the buffer.
Filled(n) ==
    /\ UNCHANGED <<letters, next, sent, begun, mixed, reader, want, got>>
    /\ buf' \in Seq(Piece) /\ sock' \in Seq(Piece)
    /\ Len(buf') = Len(buf) + n /\ Len(sock') = Len(sock) - n
    /\ \A j \in 1 .. Len(buf) : buf'[j] = buf[j]
    /\ \A j \in 1 .. n : /\ buf'[Len(buf) + j].w = sock[j].w /\ buf'[Len(buf) + j].i = sock[j].i
                         /\ buf'[Len(buf) + j].k = sock[j].k
    /\ \A j \in 1 .. Len(sock) - n : sock'[j] = sock[n + j]
    /\ pending_fds' = pending_fds \o FlattenSeq([k \in 1 .. n |-> sock[k].fds])

\* What fill_more does in one recvmsg.
LEMMA FillFacts ==
    ASSUME WireTypes, fill_more
    PROVE  \E n \in 1 .. Len(sock) : Filled(n)
<1>1. buf \in Seq(Piece) /\ sock \in Seq(Piece) /\ Len(sock) \in Nat /\ Len(buf) \in Nat
  BY DEF WireTypes
<1>2. PICK n \in 1 .. Len(sock) :
          /\ buf' = buf \o [k \in 1 .. n |-> Bare(sock[k])]
          /\ pending_fds' = pending_fds \o FlattenSeq([k \in 1 .. n |-> sock[k].fds])
          /\ sock' = SubSeq(sock, n + 1, Len(sock))
  BY DEF fill_more, Bare
<1> DEFINE bare == [k \in 1 .. n |-> Bare(sock[k])]
<1>3. \A k \in 1 .. n : sock[k] \in Piece
  BY <1>1
<1>4. \A k \in 1 .. n : /\ Bare(sock[k]) \in Piece /\ Bare(sock[k]).w = sock[k].w
                        /\ Bare(sock[k]).i = sock[k].i /\ Bare(sock[k]).k = sock[k].k
  BY <1>3, BareFacts
<1>5. bare \in Seq(Piece) /\ Len(bare) = n
  BY <1>1, <1>4
<1>6. \A k \in 1 .. n : bare[k].w = sock[k].w /\ bare[k].i = sock[k].i /\ bare[k].k = sock[k].k
  BY <1>4
<1>7. buf' = buf \o bare
  BY <1>2
<1> HIDE DEF bare
<1>8. /\ buf' \in Seq(Piece) /\ Len(buf') = Len(buf) + n
      /\ \A j \in 1 .. Len(buf) : buf'[j] = buf[j]
      /\ \A j \in 1 .. n : buf'[Len(buf) + j] = bare[j]
  BY <1>1, <1>5, <1>7, PiecesConcat
<1>9. /\ sock' \in Seq(Piece) /\ Len(sock') = Len(sock) - n
      /\ \A j \in 1 .. Len(sock) - n : sock'[j] = sock[n + j]
  <2>1. n \in 0 .. Len(sock)
    BY <1>1
  <2> QED
    BY <1>1, <1>2, <2>1, PiecesRest
<1>10. UNCHANGED <<letters, next, sent, begun, mixed, reader, want, got>>
  BY DEF fill_more
<1> QED
  BY <1>2, <1>6, <1>8, <1>9, <1>10 DEF Filled

\* All pieces are where they were.
LEMMA FillReads ==
    ASSUME WireTypes, NEW n \in 1 .. Len(sock), Filled(n)
    PROVE  Reads(0) /\ Len(All') = Len(All)
<1>1. /\ buf \in Seq(Piece) /\ sock \in Seq(Piece) /\ Len(sock) \in Nat /\ Len(buf) \in Nat
      /\ buf' \in Seq(Piece) /\ sock' \in Seq(Piece) /\ n \in Nat
  BY DEF WireTypes, Filled
<1>2. /\ All \in Seq(Piece) /\ Len(All) = Len(buf) + Len(sock)
      /\ \A j \in 1 .. Len(buf) : All[j] = buf[j]
      /\ \A j \in 1 .. Len(sock) : All[Len(buf) + j] = sock[j]
  BY <1>1, PiecesConcat DEF All
<1>3. /\ All' \in Seq(Piece) /\ Len(All') = Len(buf') + Len(sock')
      /\ \A j \in 1 .. Len(buf') : All'[j] = buf'[j]
      /\ \A j \in 1 .. Len(sock') : All'[Len(buf') + j] = sock'[j]
  BY <1>1, PiecesConcat DEF All
<1> HIDE DEF All
<1>4. /\ Len(buf') = Len(buf) + n /\ Len(sock') = Len(sock) - n
      /\ \A j \in 1 .. Len(buf) : buf'[j] = buf[j]
      /\ \A j \in 1 .. n : /\ buf'[Len(buf) + j].w = sock[j].w /\ buf'[Len(buf) + j].i = sock[j].i
                           /\ buf'[Len(buf) + j].k = sock[j].k
      /\ \A j \in 1 .. Len(sock) - n : sock'[j] = sock[n + j]
  BY DEF Filled
<1>5. Len(All') = Len(All)
  BY <1>1, <1>2, <1>3, <1>4
<1>6. ASSUME NEW j \in 1 .. Len(All')
      PROVE  All'[j].w = All[j].w /\ All'[j].i = All[j].i /\ All'[j].k = All[j].k
  <2>1. CASE j <= Len(buf)
    <3>1. j \in 1 .. Len(buf) /\ j \in 1 .. Len(buf')
      BY <1>1, <1>4, <2>1
    <3> QED
      BY <1>2, <1>3, <1>4, <3>1
  <2>2. CASE j > Len(buf) /\ j <= Len(buf) + n
    <3> DEFINE k == j - Len(buf)
    <3>1. k \in 1 .. n /\ k \in 1 .. Len(sock) /\ j = Len(buf) + k /\ j \in 1 .. Len(buf')
      BY <1>1, <1>4, <2>2
    <3>2. All'[j] = buf'[j] /\ All[j] = sock[k]
      <4> HIDE DEF k
      <4> QED
        BY <1>2, <1>3, <3>1
    <3> HIDE DEF k
    <3> QED
      BY <1>4, <3>1, <3>2
  <2>3. CASE j > Len(buf) + n
    <3> DEFINE k == j - (Len(buf) + n)
               x == Len(buf)
               y == Len(sock)
    <3>1. /\ j \in Nat /\ j <= x + y /\ j > x + n /\ n <= y
          /\ x \in Nat /\ y \in Nat /\ n \in Nat
          /\ Len(sock') = y - n /\ Len(buf') = x + n
      BY <1>1, <1>2, <1>4, <1>5, <2>3
    <3> HIDE DEF x, y
    <3>2. /\ j - (x + n) \in 1 .. y - n /\ j = (x + n) + (j - (x + n))
          /\ n + (j - (x + n)) \in 1 .. y /\ j = x + (n + (j - (x + n)))
      BY <3>1
    <3>3. /\ k \in 1 .. Len(sock) - n /\ k \in 1 .. Len(sock') /\ j = Len(buf') + k
          /\ n + k \in 1 .. Len(sock) /\ j = Len(buf) + (n + k)
      BY <3>1, <3>2 DEF x, y
    <3> HIDE DEF k
    <3>4. All'[j] = sock'[k] /\ All[j] = sock[n + k]
      BY <1>2, <1>3, <3>3
    <3>5. sock'[k] = sock[n + k]
      BY <1>4, <3>3
    <3> QED
      BY <3>4, <3>5
  <2> QED
    BY <1>1, <1>3, <2>1, <2>2, <2>3
<1>7. Part(All', All, 0)
  <2>1. \A j \in 1 .. Len(All') : 0 + j = j
    OBVIOUS
  <2> QED
    BY <1>2, <1>5, <1>6, <2>1 DEF Part
<1> QED
  BY <1>3, <1>5, <1>7 DEF Reads, Filled

\* The descriptors of pieces, a sequence for each.
Fds(a) == [j \in 1 .. Len(a) |-> FdsOf(a[j])]

\* They are sequences of descriptors.
LEMMA FdsType ==
    ASSUME WireTypes, NEW a \in Seq(Piece), AllWritten(a)
    PROVE  /\ Fds(a) \in Lists /\ Len(Fds(a)) = Len(a)
           /\ \A j \in 1 .. Len(a) : Fds(a)[j] = FdsOf(a[j])
           /\ FdsOfAll(a) = FlattenSeq(Fds(a)) /\ FdsOfAll(a) \in Seq(Int)
<1>1. ASSUME NEW j \in 1 .. Len(a)
      PROVE  FdsOf(a[j]) \in Seq(Int)
  <2> DEFINE p == a[j]
  <2>1. p \in Piece /\ Written(p)
    BY DEF AllWritten
  <2> HIDE DEF p
  <2>2. IsFrame(Letter(p.w, p.i))
    BY <2>1, PieceFrame
  <2>3. Letter(p.w, p.i).fds \in Seq(Int) /\ << >> \in Seq(Int)
    BY <2>2 DEF IsFrame
  <2>4. FdsOf(p) \in Seq(Int)
    BY <2>3, Zenon DEF FdsOf
  <2> QED
    BY <2>4 DEF p
<1>2. Len(a) \in Nat
  OBVIOUS
<1>3. Fds(a) \in Lists /\ Len(Fds(a)) = Len(a)
  BY <1>1, <1>2 DEF Fds, Lists
<1>4. FdsOfAll(a) = FlattenSeq(Fds(a))
  BY DEF FdsOfAll, Fds
<1> QED
  BY <1>3, <1>4, FlatType DEF Fds

\* Lists of the same entries are the same.
LEMMA SameList ==
    ASSUME NEW s \in Lists, NEW t \in Lists, Len(s) = Len(t), \A j \in 1 .. Len(s) : s[j] = t[j]
    PROVE  s = t
  BY SeqEqual DEF Lists

\* Two lists, one after the other.
LEMMA ListsConcat ==
    ASSUME NEW s \in Lists, NEW t \in Lists
    PROVE  /\ s \o t \in Lists /\ Len(s) \in Nat /\ Len(t) \in Nat
           /\ Len(s \o t) = Len(s) + Len(t)
           /\ \A j \in 1 .. Len(s) : (s \o t)[j] = s[j]
           /\ \A j \in 1 .. Len(t) : (s \o t)[Len(s) + j] = t[j]
  BY DEF Lists

\* c is the pieces of a and then those of b.
Joins(c, a, b) ==
    /\ Len(c) = Len(a) + Len(b)
    /\ \A j \in 1 .. Len(a) : c[j].w = a[j].w /\ c[j].i = a[j].i /\ c[j].k = a[j].k
    /\ \A j \in 1 .. Len(b) : /\ c[Len(a) + j].w = b[j].w /\ c[Len(a) + j].i = b[j].i
                              /\ c[Len(a) + j].k = b[j].k

\* The descriptors of pieces in two parts.
LEMMA FdsOfParts ==
    ASSUME WireTypes, NEW a \in Seq(Piece), NEW b \in Seq(Piece), NEW c \in Seq(Piece),
           AllWritten(a), AllWritten(b), AllWritten(c), Joins(c, a, b)
    PROVE  FdsOfAll(c) = FdsOfAll(a) \o FdsOfAll(b)
<1>1. /\ Fds(a) \in Lists /\ Len(Fds(a)) = Len(a)
      /\ \A j \in 1 .. Len(a) : Fds(a)[j] = FdsOf(a[j])
      /\ FdsOfAll(a) = FlattenSeq(Fds(a))
  BY FdsType
<1>2. /\ Fds(b) \in Lists /\ Len(Fds(b)) = Len(b)
      /\ \A j \in 1 .. Len(b) : Fds(b)[j] = FdsOf(b[j])
      /\ FdsOfAll(b) = FlattenSeq(Fds(b))
  BY FdsType
<1>3. /\ Fds(c) \in Lists /\ Len(Fds(c)) = Len(c)
      /\ \A j \in 1 .. Len(c) : Fds(c)[j] = FdsOf(c[j])
      /\ FdsOfAll(c) = FlattenSeq(Fds(c))
  BY FdsType
<1> DEFINE s == Fds(a)
           t == Fds(b)
           u == Fds(c)
<1>4. /\ s \o t \in Lists /\ Len(s) \in Nat /\ Len(t) \in Nat /\ Len(s \o t) = Len(s) + Len(t)
      /\ \A j \in 1 .. Len(s) : (s \o t)[j] = s[j]
      /\ \A j \in 1 .. Len(t) : (s \o t)[Len(s) + j] = t[j]
  <2>1. s \in Lists /\ t \in Lists
    BY <1>1, <1>2
  <2> HIDE DEF s, t
  <2> QED
    BY <2>1, ListsConcat
<1>5. u \in Lists /\ Len(u) = Len(s \o t)
  BY <1>1, <1>2, <1>3, <1>4 DEF Joins
<1>6. \A p, q \in Piece : (p.w = q.w /\ p.i = q.i /\ p.k = q.k) => FdsOf(p) = FdsOf(q)
  BY DEF FdsOf
<1>7. ASSUME NEW j \in 1 .. Len(c)
      PROVE  u[j] = (s \o t)[j]
  <2>1. u[j] = FdsOf(c[j]) /\ c[j] \in Piece /\ Len(c) = Len(a) + Len(b)
    BY <1>3 DEF Joins
  <2>2. CASE j <= Len(a)
    <3>1. j \in 1 .. Len(a)
      BY <2>2
    <3>2. FdsOf(c[j]) = FdsOf(a[j])
      <4>1. c[j].w = a[j].w /\ c[j].i = a[j].i /\ c[j].k = a[j].k /\ a[j] \in Piece
        BY <3>1 DEF Joins
      <4> QED
        BY <1>6, <2>1, <4>1
    <3>3. (s \o t)[j] = FdsOf(a[j])
      BY <1>1, <1>4, <3>1
    <3> QED
      BY <2>1, <3>2, <3>3
  <2>3. CASE j > Len(a)
    <3> DEFINE m == j - Len(a)
    <3>1. m \in 1 .. Len(b) /\ j = Len(a) + m
      BY <2>1, <2>3
    <3> HIDE DEF m
    <3>2. FdsOf(c[j]) = FdsOf(b[m])
      <4>1. c[j].w = b[m].w /\ c[j].i = b[m].i /\ c[j].k = b[m].k /\ b[m] \in Piece
        BY <3>1 DEF Joins
      <4> QED
        BY <1>6, <2>1, <4>1
    <3>3. (s \o t)[j] = FdsOf(b[m])
      BY <1>1, <1>2, <1>4, <3>1
    <3> QED
      BY <2>1, <3>2, <3>3
  <2>4. j <= Len(a) \/ j > Len(a)
    <3>1. j \in Nat /\ Len(a) \in Nat
      OBVIOUS
    <3> QED
      BY <3>1
  <2> QED
    BY <2>2, <2>3, <2>4, Zenon
<1>8. u = s \o t
  <2>1. \A j \in 1 .. Len(u) : u[j] = (s \o t)[j]
    BY <1>3, <1>7
  <2> HIDE DEF s, t, u
  <2> QED
    BY <1>4, <1>5, <2>1, SameList
<1> HIDE DEF s, t, u
<1>9. FlattenSeq(u) = FlattenSeq(s) \o FlattenSeq(t)
  <2>1. s \in Lists /\ t \in Lists
    BY <1>1, <1>2 DEF s, t
  <2> QED
    BY <1>8, <2>1, FlatConcat
<1> QED
  BY <1>1, <1>2, <1>3, <1>9 DEF s, t, u

\* The parts of what was written were written.
LEMMA WrittenParts ==
    ASSUME NEW a \in Seq(Piece), NEW b \in Seq(Piece), AllWritten(a \o b)
    PROVE  AllWritten(a) /\ AllWritten(b)
<1>1. /\ Len(a) \in Nat /\ Len(b) \in Nat /\ Len(a \o b) = Len(a) + Len(b)
      /\ \A j \in 1 .. Len(a) : (a \o b)[j] = a[j]
      /\ \A j \in 1 .. Len(b) : (a \o b)[Len(a) + j] = b[j]
  BY PiecesConcat
<1> DEFINE c == a \o b
<1>2. \A j \in 1 .. Len(a) + Len(b) : Written(c[j])
  BY <1>1 DEF AllWritten
<1> HIDE DEF c
<1>3. ASSUME NEW j \in 1 .. Len(a)
      PROVE  Written(a[j])
  <2>1. j \in 1 .. Len(a) + Len(b) /\ c[j] = a[j]
    BY <1>1 DEF c
  <2> QED
    BY <1>2, <2>1
<1>4. ASSUME NEW j \in 1 .. Len(b)
      PROVE  Written(b[j])
  <2>1. Len(a) + j \in 1 .. Len(a) + Len(b) /\ c[Len(a) + j] = b[j]
    BY <1>1 DEF c
  <2> QED
    BY <1>2, <2>1
<1> QED
  BY <1>3, <1>4 DEF AllWritten

\* What a step of the reader leaves under way was written.
LEMMA ReadWritten ==
    ASSUME PiecesInv, NEW d \in Nat, Reads(d), WireTypes'
    PROVE  AllWritten(buf) /\ AllWritten(sock) /\ AllWritten(buf')
<1>1. WireTypes /\ AllWritten(All) /\ All \in Seq(Piece) /\ All' \in Seq(Piece) /\ Part(All', All, d)
  BY PiecesConcat DEF PiecesInv, All, WireTypes, Reads
<1>2. buf \in Seq(Piece) /\ sock \in Seq(Piece) /\ buf' \in Seq(Piece) /\ sock' \in Seq(Piece)
  BY <1>1 DEF WireTypes
<1>3. AllWritten(buf \o sock)
  BY <1>1 DEF All
<1>4. AllWritten(buf' \o sock')
  <2> DEFINE b == All'
  <2>1. \A j \in 1 .. Len(b) : Written(b[j])
    <3> SUFFICES ASSUME NEW j \in 1 .. Len(b)
                 PROVE  Written(b[j])
      OBVIOUS
    <3> HIDE DEF All
    <3>1. d + j \in 1 .. Len(All)
      BY <1>1 DEF Part
    <3>2. Written(All[d + j])
      BY <1>1, <3>1 DEF AllWritten
    <3> QED
      BY <1>1, <3>2 DEF Written, Part, Pieces
  <2>2. b = buf' \o sock'
    BY DEF All
  <2> HIDE DEF b
  <2> QED
    BY <2>1, <2>2 DEF AllWritten
<1> QED
  BY <1>2, <1>3, <1>4, WrittenParts

\* The pending descriptors go on being those of the frames in the buffer.
LEMMA FillPending ==
    ASSUME PiecesInv, WireTypes', NEW n \in 1 .. Len(sock), Filled(n),
           pending_fds = FdsOfAll(buf)
    PROVE  pending_fds' = FdsOfAll(buf')
<1> DEFINE new == SubSeq(sock, 1, n)
<1>1. WireTypes /\ Attached /\ sock \in Seq(Piece) /\ buf \in Seq(Piece) /\ buf' \in Seq(Piece)
  BY DEF PiecesInv, WireTypes
<1>2. AllWritten(buf) /\ AllWritten(sock) /\ AllWritten(buf')
  BY <1>1, FillReads, ReadWritten
<1>3. /\ new \in Seq(Piece) /\ Len(new) = n /\ n \in Nat /\ Len(sock) \in Nat
      /\ \A j \in 1 .. n : new[j] = sock[j]
  BY <1>1
<1> HIDE DEF new
<1>4. \A j \in 1 .. n : j \in 1 .. Len(sock)
  BY <1>3
<1>5. AllWritten(new)
  BY <1>2, <1>3, <1>4 DEF AllWritten
<1>6. Joins(buf', buf, new)
  BY <1>3 DEF Joins, Filled
<1>7. FdsOfAll(buf') = FdsOfAll(buf) \o FdsOfAll(new)
  BY <1>1, <1>2, <1>3, <1>5, <1>6, FdsOfParts
<1>8. \A j \in 1 .. n : FdsOf(new[j]) = sock[j].fds
  BY <1>1, <1>3, <1>4 DEF Attached
<1>9. FdsOfAll(new) = FlattenSeq([j \in 1 .. n |-> sock[j].fds])
  BY <1>3, <1>8 DEF FdsOfAll
<1> QED
  BY <1>7, <1>9 DEF Filled

\* The ends of the line do not move with what is read.
LEMMA FillLine ==
    ASSUME WireTypes, Reads(0), Len(All') = Len(All), got' = got, Line(All)
    PROVE  Line(All)'
<1>1. /\ All \in Seq(Piece) /\ All' \in Seq(Piece) /\ Part(All', All, 0)
      /\ UNCHANGED <<letters, next, sent, begun>> /\ Starts(All) /\ Ends(All)
  BY PiecesConcat DEF All, WireTypes, Reads, Line
<1> HIDE DEF All
<1>2. \A j \in 1 .. Len(All) : /\ All'[j].w = All[j].w /\ All'[j].i = All[j].i
                               /\ All'[j].k = All[j].k
  <2>1. \A j \in 1 .. Len(All) : 0 + j = j
    OBVIOUS
  <2> QED
    BY <1>1, <2>1 DEF Part
<1>3. Len(All) > 0 => 1 \in 1 .. Len(All) /\ Len(All) \in 1 .. Len(All)
  BY <1>1
<1>4. Starts(All)'
  BY <1>1, <1>2, <1>3 DEF Starts, Of
<1>5. Ends(All)'
  <2>1. CASE Len(All) = 0
    BY <1>1, <2>1 DEF Ends
  <2>2. CASE Len(All) > 0
    <3> DEFINE z == All[Len(All)]
               y == All'[Len(All')]
    <3>1. y.w = z.w /\ y.i = z.i /\ y.k = z.k
      BY <1>2, <1>3, <2>2
    <3>2. /\ Len(begun) > 0 /\ Of(z) = begun[Len(begun)]
          /\ z.k < Pieces(z) => sent[z.w] > 0
          /\ \A w \in Writers : sent[w] > 0 => z.w = w /\ z.i = next[w] /\ z.k = sent[w]
      BY <1>1, <2>2 DEF Ends
    <3>3. /\ Len(begun) > 0 /\ Of(y) = begun[Len(begun)]
          /\ y.k < Pieces(y) => sent[y.w] > 0
          /\ \A w \in Writers : sent[w] > 0 => y.w = w /\ y.i = next[w] /\ y.k = sent[w]
      <4> HIDE DEF z, y
      <4> QED
        BY <3>1, <3>2 DEF Of, Pieces
    <3> QED
      BY <1>1, <2>2, <3>3 DEF Ends, Of, Pieces, Letter
  <2>3. Len(All) \in Nat
    BY <1>1
  <2> QED
    BY <2>1, <2>2, <2>3
<1> QED
  BY <1>4, <1>5, ReadLine

\* recvmsg keeps the invariant.
LEMMA FillInv ==
    ASSUME WireInv, fill_more
    PROVE  WireInv'
<1>1. PiecesInv /\ UnmixedInv /\ WireTypes /\ WantOK /\ Attached /\ AllWritten(All)
  BY DEF WireInv, PiecesInv
<1>2. PICK n \in 1 .. Len(sock) : Filled(n)
  BY <1>1, FillFacts
<1>3. Reads(0) /\ Len(All') = Len(All)
  BY <1>1, <1>2, FillReads
<1>4. /\ UNCHANGED <<letters, next, sent, begun, mixed, reader, want, got>>
      /\ buf' \in Seq(Piece) /\ sock' \in Seq(Piece)
      /\ Len(buf') = Len(buf) + n /\ Len(sock') = Len(sock) - n
      /\ \A j \in 1 .. Len(buf) : buf'[j] = buf[j]
      /\ \A j \in 1 .. Len(sock) - n : sock'[j] = sock[n + j]
      /\ pending_fds' = pending_fds \o FlattenSeq([k \in 1 .. n |-> sock[k].fds])
  BY <1>2 DEF Filled
<1>5. /\ Len(buf) \in Nat /\ Len(sock) \in Nat /\ n \in Nat /\ n > 0 /\ n <= Len(sock)
      /\ sock \in Seq(Piece)
  BY <1>1 DEF WireTypes
<1>6. WireTypes'
  <2> DEFINE s == [k \in 1 .. n |-> sock[k].fds]
  <2>1. ASSUME NEW k \in 1 .. n
        PROVE  sock[k].fds \in Seq(Int)
    <3>1. sock[k] \in Piece
      BY <1>5
    <3> QED
      BY <3>1 DEF Piece
  <2>2. s \in Lists
    BY <1>5, <2>1 DEF Lists
  <2> HIDE DEF s
  <2>3. FlattenSeq(s) \in Seq(Int) /\ pending_fds \in Seq(Int)
    BY <1>1, <2>2, FlatType DEF WireTypes
  <2>4. pending_fds' \in Seq(Int)
    BY <1>4, <2>3, ConcatType DEF s
  <2> QED
    BY <1>1, <1>4, <2>4 DEF WireTypes
<1>7. WantOK'
  <2>1. ASSUME want > 0
        PROVE  Len(buf') > 0 /\ buf'[1] = buf[1]
    <3>1. Len(buf) > 0
      BY <1>1, <2>1 DEF WantOK
    <3>2. 1 \in 1 .. Len(buf)
      BY <1>5, <3>1
    <3> QED
      BY <1>4, <1>5, <3>2
  <2> QED
    BY <1>1, <1>4, <2>1 DEF WantOK, Pieces, Letter
<1>8. Attached'
  <2>1. ASSUME NEW j \in 1 .. Len(sock')
        PROVE  sock'[j].fds = FdsOf(sock'[j])
    <3>1. j \in 1 .. Len(sock) - n /\ n + j \in 1 .. Len(sock)
      BY <1>4, <1>5
    <3>2. sock'[j] = sock[n + j] /\ sock[n + j].fds = FdsOf(sock[n + j])
      BY <1>1, <1>4, <3>1 DEF Attached
    <3> QED
      BY <3>2
  <2> QED
    BY <1>4, <2>1 DEF Attached, FdsOf, Letter
<1>9. PiecesInv'
  <2>1. Len(sock') <= Len(sock)
    BY <1>4, <1>5
  <2> QED
    BY <1>1, <1>3, <1>6, <1>7, <1>8, <2>1, ReadPieces
<1>10. ASSUME ~mixed'
       PROVE  /\ reader' # "astray" /\ GotOK' /\ FailedOK'
              /\ reader' = "reading" => Line(All)' /\ Pending'
  <2>1. /\ reader # "astray" /\ GotOK /\ FailedOK
        /\ reader = "reading" => Line(All) /\ Pending
    BY <1>1, <1>4, <1>10 DEF UnmixedInv
  <2>2. GotOK' /\ FailedOK'
    BY <1>4, <2>1, GotStays
  <2>3. ASSUME reader = "reading"
        PROVE  Line(All)' /\ Pending'
    <3>1. Line(All)'
      BY <1>1, <1>3, <1>4, <2>1, <2>3, FillLine
    <3>2. Honest(Len(got))' <=> Honest(Len(got))
      BY <1>4 DEF Honest, BegunLetter, Letter
    <3>3. ASSUME Honest(Len(got))
          PROVE  pending_fds' = FdsOfAll(buf')
      <4>1. pending_fds = FdsOfAll(buf)
        BY <2>1, <2>3, <3>3 DEF Pending
      <4> QED
        BY <1>1, <1>2, <1>6, <4>1, FillPending
    <3>4. Pending'
      BY <1>4, <3>2, <3>3 DEF Pending, FdsOfAll, FdsOf, Letter
    <3> QED
      BY <3>1, <3>4
  <2> QED
    BY <1>4, <2>1, <2>2, <2>3
<1> QED
  BY <1>9, <1>10 DEF WireInv, UnmixedInv

\* A reader that is out of step can only go on when something was mixed.
LEMMA ReadAstrayInv ==
    ASSUME WireInv, ReadAstray
    PROVE  WireInv'
<1>1. PiecesInv /\ UnmixedInv /\ WireTypes /\ WantOK
  BY DEF WireInv, PiecesInv
<1>2. /\ UNCHANGED <<letters, next, sent, begun, mixed, buf, want, pending_fds, got>>
      /\ reader = "astray" /\ reader' \in {"failed", "astray"} /\ sock' = << >>
  BY DEF ReadAstray
<1>3. WireTypes' /\ Attached' /\ Len(sock') <= Len(sock)
  BY <1>1, <1>2 DEF WireTypes, Attached
<1>4. WantOK'
  BY <1>1, <1>2 DEF WantOK, Pieces, Letter
<1>5. Reads(0)
  <2>1. /\ buf \in Seq(Piece) /\ sock \in Seq(Piece) /\ buf' = buf /\ sock' \in Seq(Piece)
        /\ Len(sock') = 0 /\ Len(sock) \in Nat
    BY <1>1, <1>2, <1>3 DEF WireTypes
  <2>2. /\ Len(All) = Len(buf) + Len(sock) /\ Len(buf) \in Nat
        /\ \A j \in 1 .. Len(buf) : All[j] = buf[j]
    BY <2>1, PiecesConcat DEF All
  <2>3. /\ All' \in Seq(Piece) /\ Len(All') = Len(buf)
        /\ \A j \in 1 .. Len(buf) : All'[j] = buf[j]
    BY <2>1, PiecesConcat DEF All
  <2> HIDE DEF All
  <2>4. \A j \in 1 .. Len(buf) : 0 + j = j
    BY <2>2
  <2>5. Part(All', All, 0)
    BY <2>1, <2>2, <2>3, <2>4 DEF Part
  <2> QED
    BY <1>2, <2>3, <2>5 DEF Reads
<1>6. PiecesInv'
  BY <1>1, <1>3, <1>4, <1>5, ReadPieces
<1>7. mixed'
  BY <1>1, <1>2 DEF UnmixedInv, WireTypes
<1> QED
  BY <1>6, <1>7 DEF WireInv, UnmixedInv

\* Bytes of several messages are read only when something was mixed.
LEMMA GarbledInv ==
    ASSUME WireInv, Garbled, UNCHANGED <<letters, writing>>, mixed
    PROVE  WireInv'
<1>1. PiecesInv /\ WireTypes /\ Attached
  BY DEF WireInv, PiecesInv
<1>2. /\ UNCHANGED <<letters, next, sent, sock, begun, mixed, got>>
      /\ reader' \in {"failed", "astray"} /\ buf' = << >> /\ want' = 0 /\ pending_fds' = << >>
  BY DEF Garbled, writing
<1>3. WireTypes' /\ WantOK' /\ Len(sock') <= Len(sock)
  BY <1>1, <1>2 DEF WireTypes, WantOK
<1>4. Attached'
  BY <1>1, <1>2 DEF Attached, FdsOf, Letter
<1>5. Reads(Len(buf)) /\ Len(buf) \in Nat
  <2>1. /\ buf \in Seq(Piece) /\ sock \in Seq(Piece) /\ sock' = sock /\ buf' \in Seq(Piece)
        /\ Len(buf') = 0 /\ Len(buf) \in Nat
    BY <1>1, <1>2, <1>3 DEF WireTypes
  <2>2. /\ Len(All) = Len(buf) + Len(sock) /\ Len(sock) \in Nat
        /\ \A j \in 1 .. Len(sock) : All[Len(buf) + j] = sock[j]
    BY <2>1, PiecesConcat DEF All
  <2>3. /\ All' \in Seq(Piece) /\ Len(All') = Len(sock)
        /\ \A j \in 1 .. Len(sock) : All'[j] = sock[j]
    <3>1. All' = sock
      BY <1>2, <2>1 DEF All
    <3> QED
      BY <2>1, <3>1
  <2> HIDE DEF All
  <2>4. Part(All', All, Len(buf))
    BY <2>1, <2>2, <2>3 DEF Part
  <2> QED
    BY <1>2, <2>1, <2>3, <2>4 DEF Reads
<1>6. PiecesInv'
  BY <1>1, <1>3, <1>4, <1>5, ReadPieces
<1> QED
  BY <1>2, <1>6 DEF WireInv, UnmixedInv

\* The piece that starts the buffer is of a frame.
LEMMA FirstFrame ==
    ASSUME PiecesInv, Len(buf) > 0
    PROVE  /\ buf[1] \in Piece /\ All[1] = buf[1] /\ Len(All) >= Len(buf)
           /\ IsFrame(Letter(buf[1].w, buf[1].i)) /\ Pieces(buf[1]) \in 2 .. 4
           /\ Pieces(buf[1]) = Letter(buf[1].w, buf[1].i).pieces
<1>1. WireTypes /\ AllWritten(All)
  BY DEF PiecesInv
<1>2. buf \in Seq(Piece) /\ sock \in Seq(Piece)
  BY <1>1 DEF WireTypes
<1>3. /\ Len(buf) \in Nat /\ Len(sock) \in Nat /\ Len(All) = Len(buf) + Len(sock)
      /\ \A j \in 1 .. Len(buf) : All[j] = buf[j] /\ buf[j] \in Piece
  BY <1>2, PiecesConcat DEF All
<1> HIDE DEF All
<1>4. 1 \in 1 .. Len(buf) /\ 1 \in 1 .. Len(All) /\ Len(All) >= Len(buf)
  BY <1>3
<1>5. buf[1] \in Piece /\ All[1] = buf[1]
  BY <1>3, <1>4
<1>6. Written(buf[1])
  BY <1>1, <1>4, <1>5 DEF AllWritten
<1> QED
  BY <1>1, <1>4, <1>5, <1>6, PieceFrame DEF Pieces

\* In a line that frame is that of the first letter not yet read.
LEMMA FirstLetter ==
    ASSUME PiecesInv, Len(buf) > 0, Line(All)
    PROVE  /\ Len(got) < Len(begun) /\ buf[1].k = 1
           /\ Of(buf[1]) = begun[Len(got) + 1]
           /\ Letter(buf[1].w, buf[1].i) = BegunLetter(Len(got) + 1)
<1>1. All[1] = buf[1] /\ Len(All) >= Len(buf)
  BY FirstFrame
<1>2. Len(All) > 0
  <2>1. buf \in Seq(Piece) /\ sock \in Seq(Piece)
    BY DEF PiecesInv, WireTypes
  <2>2. Len(buf) \in Nat /\ Len(All) \in Nat
    BY <2>1, PiecesConcat DEF All
  <2> QED
    BY <1>1, <2>2
<1> HIDE DEF All
<1>3. buf[1].k = 1 /\ Len(got) < Len(begun) /\ Of(buf[1]) = begun[Len(got) + 1]
  BY <1>1, <1>2 DEF Line, Starts
<1>4. begun[Len(got) + 1][1] = buf[1].w /\ begun[Len(got) + 1][2] = buf[1].i
  BY <1>3 DEF Of
<1> QED
  BY <1>3, <1>4 DEF BegunLetter

\* In a line the first pieces of the buffer are of one frame, up to its end.
LEMMA FirstIntact ==
    ASSUME PiecesInv, Line(All), NEW m \in 1 .. Len(buf), m <= Pieces(buf[1])
    PROVE  /\ Intact(SubSeq(buf, 1, m))
           /\ \A k \in 1 .. m : buf[k].w = buf[1].w /\ buf[k].i = buf[1].i /\ buf[k].k = k
<1>1. /\ buf \in Seq(Piece) /\ sock \in Seq(Piece) /\ Len(buf) \in Nat /\ Len(buf) > 0 /\ m \in Nat
  BY DEF PiecesInv, WireTypes
<1>2. /\ Len(All) = Len(buf) + Len(sock) /\ Len(sock) \in Nat
      /\ \A j \in 1 .. Len(buf) : All[j] = buf[j]
  BY <1>1, PiecesConcat DEF All
<1> HIDE DEF All
<1>3. buf[1].k = 1 /\ Pieces(buf[1]) \in Nat
  BY <1>1, FirstLetter, FirstFrame
<1>4. ASSUME NEW k \in 1 .. m
      PROVE  buf[k].w = buf[1].w /\ buf[k].i = buf[1].i /\ buf[k].k = k
  <2>1. CASE k = 1
    BY <1>3, <2>1
  <2>2. CASE k > 1
    <3> DEFINE e == k - 1
    <3>1. /\ e \in Positive /\ 1 \in 1 .. Len(All) /\ 1 + e <= Len(All) /\ 1 + e = k
          /\ k \in 1 .. Len(buf) /\ 1 \in 1 .. Len(buf) /\ 1 + e <= Pieces(buf[1])
      BY <1>1, <1>2, <1>3, <2>2 DEF Positive
    <3> HIDE DEF e
    <3>2. All[1] = buf[1] /\ All[k] = buf[k]
      BY <1>2, <3>1
    <3>3. All[1 + e].w = All[1].w /\ All[1 + e].i = All[1].i /\ All[1 + e].k = All[1].k + e
      BY <1>3, <3>1, <3>2 DEF Line, InFrames
    <3> QED
      BY <1>3, <3>1, <3>2, <3>3
  <2> QED
    BY <1>1, <2>1, <2>2
<1> DEFINE ps == SubSeq(buf, 1, m)
<1>5. /\ DOMAIN ps = 1 .. m /\ Len(ps) = m /\ \A k \in 1 .. m : ps[k] = buf[k]
      /\ ps[1] = buf[1]
  BY <1>1
<1> HIDE DEF ps
<1>6. Intact(ps)
  BY <1>4, <1>5 DEF Intact, Pieces
<1> QED
  BY <1>4, <1>6 DEF ps

\* Reading what is not intact means that something was mixed.
LEMMA NotIntact ==
    ASSUME WireInv, reader = "reading", NEW m \in 1 .. Len(buf), m <= Pieces(buf[1]),
           ~ Intact(SubSeq(buf, 1, m))
    PROVE  mixed
<1>1. ASSUME ~ mixed
      PROVE  FALSE
  <2>1. PiecesInv /\ Line(All)
    BY <1>1 DEF WireInv, UnmixedInv
  <2> QED
    BY <2>1, FirstIntact
<1> QED
  BY <1>1 DEF WireInv, PiecesInv, WireTypes

\* A step of the reader that takes no piece.
LEMMA TakesNoPiece ==
    ASSUME WireTypes, UNCHANGED <<letters, writing, buf>>
    PROVE  Reads(0) /\ Len(sock') <= Len(sock) /\ Len(All') = Len(All)
<1>1. buf \in Seq(Piece) /\ sock \in Seq(Piece) /\ UNCHANGED <<letters, next, sent, sock, begun, mixed>>
  BY DEF WireTypes, writing
<1>2. All \in Seq(Piece) /\ All' = All /\ Len(sock) \in Nat /\ Len(sock') = Len(sock)
  BY <1>1, PiecesConcat DEF All
<1> HIDE DEF All
<1>3. Part(All', All, 0)
  BY <1>2 DEF Part
<1> QED
  BY <1>1, <1>2, <1>3 DEF Reads

\* A reader that fails where it must.
LEMMA FailInv ==
    ASSUME WireInv, Fail, UNCHANGED <<letters, writing>>,
           ~ mixed => /\ Len(got) < Len(begun)
                      /\ Honest(Len(got) + 1) => Rightly(Len(got) + 1)
    PROVE  WireInv'
<1>1. PiecesInv /\ UnmixedInv /\ WireTypes /\ WantOK /\ Attached
  BY DEF WireInv, PiecesInv
<1>2. /\ UNCHANGED <<letters, next, sent, sock, begun, mixed, buf, want, pending_fds, got>>
      /\ reader' = "failed"
  BY DEF Fail, writing
<1>3. Reads(0) /\ Len(sock') <= Len(sock)
  BY <1>1, <1>2, TakesNoPiece DEF writing
<1>4. WireTypes'
  BY <1>1, <1>2 DEF WireTypes
<1>5. WantOK' /\ Attached'
  BY <1>1, <1>2 DEF WantOK, Attached, Pieces, FdsOf, Letter
<1>6. PiecesInv'
  BY <1>1, <1>3, <1>4, <1>5, ReadPieces
<1>7. ASSUME ~ mixed'
      PROVE  GotOK' /\ FailedOK'
  <2>1. \A j : BegunLetter(j)' = BegunLetter(j)
    BY <1>2 DEF BegunLetter, Letter
  <2>2. \A n : (Honest(n)' <=> Honest(n)) /\ (Rightly(n)' <=> Rightly(n))
    BY <2>1 DEF Honest, Rightly
  <2>3. GotOK
    BY <1>1, <1>2, <1>7 DEF UnmixedInv
  <2>4. GotOK'
    BY <1>2, <2>1, <2>2, <2>3 DEF GotOK
  <2>5. FailedOK'
    BY <1>2, <1>7, <2>2 DEF FailedOK
  <2> QED
    BY <2>4, <2>5
<1> QED
  BY <1>2, <1>6, <1>7 DEF WireInv, UnmixedInv

\* Reading the length of a frame off its prefix keeps the invariant.
LEMMA PeekFrameInv ==
    ASSUME WireInv, PeekFrame
    PROVE  WireInv'
<1> DEFINE frame == Letter(buf[1].w, buf[1].i)
<1>1. PiecesInv /\ UnmixedInv /\ WireTypes /\ WantOK /\ Attached
  BY DEF WireInv, PiecesInv
<1>2. /\ reader = "reading" /\ want = 0 /\ Len(buf) >= 2 /\ UNCHANGED <<letters, writing>>
      /\ IF ~ Intact(SubSeq(buf, 1, 2)) THEN Garbled
         ELSE IF ~ frame.len.ok \/ frame.len.v > max_message_size THEN Fail
         ELSE want' = frame.want /\ UNCHANGED <<reader, buf, pending_fds, got>>
  BY DEF PeekFrame
<1>3. Len(buf) \in Nat /\ Len(buf) > 0
  BY <1>1, <1>2 DEF WireTypes
<1>4. IsFrame(frame) /\ Pieces(buf[1]) \in 2 .. 4 /\ Pieces(buf[1]) = frame.pieces
  BY <1>1, <1>3, FirstFrame
<1> HIDE DEF frame
<1>5. CASE ~ Intact(SubSeq(buf, 1, 2))
  <2>1. 2 \in 1 .. Len(buf) /\ 2 <= Pieces(buf[1])
    BY <1>2, <1>3, <1>4
  <2>2. mixed
    BY <1>2, <1>5, <2>1, NotIntact
  <2> QED
    BY <1>2, <1>5, <2>2, GarbledInv
<1>6. CASE Intact(SubSeq(buf, 1, 2)) /\ (~ frame.len.ok \/ frame.len.v > max_message_size)
  <2>1. ASSUME ~ mixed
        PROVE  Len(got) < Len(begun) /\ Rightly(Len(got) + 1)
    <3>1. Line(All)
      BY <1>1, <1>2, <2>1 DEF UnmixedInv
    <3>2. Len(got) < Len(begun) /\ frame = BegunLetter(Len(got) + 1)
      BY <1>1, <1>3, <3>1, FirstLetter DEF frame
    <3>3. frame.refused \/ frame.size > max_message_size
      BY <1>4, <1>6 DEF IsFrame
    <3> QED
      BY <3>2, <3>3 DEF Rightly
  <2> QED
    BY <1>2, <1>6, <2>1, FailInv
<1>7. CASE /\ Intact(SubSeq(buf, 1, 2))
           /\ ~ (~ frame.len.ok \/ frame.len.v > max_message_size)
  <2>1. want' = frame.want /\ UNCHANGED <<reader, buf, pending_fds, got>>
    BY <1>2, <1>7
  <2>2. UNCHANGED <<letters, next, sent, sock, begun, mixed>>
    BY <1>2 DEF writing
  <2>3. frame.len.ok /\ want' = frame.pieces /\ want' \in 2 .. 4
    BY <1>4, <1>7, <2>1 DEF IsFrame
  <2>4. Reads(0) /\ Len(sock') <= Len(sock) /\ Len(All') = Len(All)
    BY <1>1, <1>2, <2>1, TakesNoPiece
  <2>5. WireTypes'
    BY <1>1, <2>1, <2>2, <2>3 DEF WireTypes
  <2>6. WantOK' /\ Attached'
    <3>1. Attached'
      BY <1>1, <2>2 DEF Attached, FdsOf, Letter
    <3>2. WantOK'
      BY <1>3, <2>1, <2>2, <2>3 DEF WantOK, Pieces, Letter, frame
    <3> QED
      BY <3>1, <3>2
  <2>7. PiecesInv'
    BY <1>1, <2>4, <2>5, <2>6, ReadPieces
  <2>8. ASSUME ~ mixed'
        PROVE  /\ reader' # "astray" /\ GotOK' /\ FailedOK'
               /\ reader' = "reading" => Line(All)' /\ Pending'
    <3>1. reader # "astray" /\ GotOK /\ FailedOK /\ Line(All) /\ Pending
      BY <1>1, <1>2, <2>2, <2>8 DEF UnmixedInv
    <3>2. GotOK' /\ FailedOK'
      BY <2>1, <2>2, <3>1, GotStays
    <3>3. Line(All)'
      BY <1>1, <2>1, <2>4, <3>1, FillLine
    <3>4. Pending'
      BY <2>1, <2>2, <3>1 DEF Pending, Honest, BegunLetter, Letter, FdsOfAll, FdsOf
    <3> QED
      BY <2>1, <3>1, <3>2, <3>3, <3>4
  <2> QED
    BY <2>7, <2>8 DEF WireInv, UnmixedInv
<1> QED
  BY <1>5, <1>6, <1>7

\* A frame is taken out of the buffer.
LEMMA TakesFrame ==
    ASSUME WireTypes, UNCHANGED <<letters, writing>>, NEW d \in 0 .. Len(buf),
           buf' = SubSeq(buf, d + 1, Len(buf))
    PROVE  /\ Reads(d) /\ Len(All') = Len(All) - d /\ Len(sock') <= Len(sock)
           /\ buf' \in Seq(Piece)
<1>1. /\ buf \in Seq(Piece) /\ sock \in Seq(Piece) /\ d \in Nat
      /\ UNCHANGED <<letters, next, sent, sock, begun, mixed>>
  BY DEF WireTypes, writing
<1>2. /\ buf' \in Seq(Piece) /\ Len(buf') = Len(buf) - d /\ Len(buf) \in Nat
      /\ \A j \in 1 .. Len(buf) - d : buf'[j] = buf[d + j]
  BY <1>1, PiecesRest
<1>3. /\ All \in Seq(Piece) /\ Len(All) = Len(buf) + Len(sock) /\ Len(sock) \in Nat
      /\ \A j \in 1 .. Len(buf) : All[j] = buf[j]
      /\ \A j \in 1 .. Len(sock) : All[Len(buf) + j] = sock[j]
  BY <1>1, PiecesConcat DEF All
<1>4. /\ All' \in Seq(Piece) /\ Len(All') = Len(buf') + Len(sock)
      /\ \A j \in 1 .. Len(buf') : All'[j] = buf'[j]
      /\ \A j \in 1 .. Len(sock) : All'[Len(buf') + j] = sock[j]
  <2> DEFINE b == buf'
  <2>1. All' = b \o sock
    BY <1>1 DEF All
  <2>2. b \in Seq(Piece)
    BY <1>2
  <2> HIDE DEF b
  <2>3. /\ b \o sock \in Seq(Piece) /\ Len(b \o sock) = Len(b) + Len(sock)
        /\ \A j \in 1 .. Len(b) : (b \o sock)[j] = b[j]
        /\ \A j \in 1 .. Len(sock) : (b \o sock)[Len(b) + j] = sock[j]
    BY <1>1, <2>2, PiecesConcat
  <2> QED
    BY <2>1, <2>3 DEF b
<1> HIDE DEF All
<1> DEFINE x == Len(buf)
           y == Len(sock)
<1>5. /\ x \in Nat /\ y \in Nat /\ d \in Nat /\ d <= x /\ Len(buf') = x - d
      /\ Len(All') = (x - d) + y /\ Len(All) = x + y
  BY <1>1, <1>2, <1>3, <1>4
<1>6. ASSUME NEW j \in 1 .. Len(All')
      PROVE  All'[j] = All[d + j]
  <2> HIDE DEF x, y
  <2>1. CASE j <= x - d
    <3>1. j \in 1 .. x - d /\ d + j \in 1 .. x
      BY <1>5, <2>1
    <3> QED
      BY <1>2, <1>3, <1>4, <3>1 DEF x
  <2>2. CASE j > x - d
    <3> DEFINE k == j - (x - d)
    <3>1. k \in 1 .. y /\ j = (x - d) + k /\ d + j = x + k
      BY <1>5, <2>2
    <3> HIDE DEF k
    <3>2. All'[j] = sock[k]
      BY <1>4, <1>5, <3>1 DEF y
    <3>3. All[d + j] = sock[k]
      BY <1>3, <3>1 DEF x, y
    <3> QED
      BY <3>2, <3>3
  <2>3. j <= x - d \/ j > x - d
    BY <1>5
  <2> QED
    BY <2>1, <2>2, <2>3, Zenon
<1>7. Part(All', All, d)
  <2>1. Len(All') + d <= Len(All)
    BY <1>5
  <2> QED
    BY <1>6, <2>1 DEF Part
<1>8. Len(All') = Len(All) - d
  BY <1>5
<1>9. Len(sock') <= Len(sock)
  BY <1>1, <1>3
<1> QED
  BY <1>1, <1>2, <1>4, <1>7, <1>8, <1>9 DEF Reads

\* The reader has a whole frame, intact, at the start of the line.
Whole == /\ PiecesInv /\ Line(All) /\ want > 0 /\ Len(buf) >= want

\* What it has then.
LEMMA WholeFacts ==
    ASSUME Whole
    PROVE  /\ want \in 1 .. Len(buf) /\ want = Pieces(buf[1]) /\ Len(buf) > 0
           /\ want \in 2 .. 4 /\ Len(buf) \in Nat
           /\ \A k \in 1 .. want : buf[k].w = buf[1].w /\ buf[k].i = buf[1].i /\ buf[k].k = k
<1>1. PiecesInv /\ Line(All) /\ WireTypes /\ WantOK /\ want > 0 /\ Len(buf) >= want
  BY DEF Whole, PiecesInv
<1>2. Len(buf) \in Nat /\ want \in 2 .. 4
  BY <1>1 DEF WireTypes
<1>3. want = Pieces(buf[1])
  BY <1>1 DEF WantOK
<1>4. want \in 1 .. Len(buf) /\ Len(buf) > 0 /\ want <= Pieces(buf[1])
  <2>1. want <= want
    BY <1>2
  <2> QED
    BY <1>1, <1>2, <1>3, <2>1
<1> QED
  BY <1>1, <1>2, <1>3, <1>4, FirstIntact

\* The oldest pending descriptors are those of the frame, the others those of later frames.
LEMMA FrameFirst ==
    ASSUME Whole, pending_fds = FdsOfAll(buf)
    PROVE  /\ pending_fds = Letter(buf[1].w, buf[1].i).fds
                            \o FdsOfAll(SubSeq(buf, want + 1, Len(buf)))
           /\ FdsOfAll(SubSeq(buf, want + 1, Len(buf))) \in Seq(Int)
           /\ Letter(buf[1].w, buf[1].i).fds \in Seq(Int)
<1> DEFINE h == SubSeq(buf, 1, want)
           r == SubSeq(buf, want + 1, Len(buf))
           f == Letter(buf[1].w, buf[1].i).fds
<1>1. WireTypes /\ PiecesInv /\ buf \in Seq(Piece) /\ sock \in Seq(Piece) /\ AllWritten(buf \o sock)
  BY DEF Whole, PiecesInv, WireTypes, All
<1>2. /\ want \in 1 .. Len(buf) /\ Len(buf) \in Nat /\ want \in 2 .. 4 /\ Len(buf) > 0
      /\ \A k \in 1 .. want : buf[k].k = k
  BY WholeFacts
<1>3. /\ h \in Seq(Piece) /\ Len(h) = want /\ \A j \in 1 .. want : h[j] = buf[j]
  BY <1>1, <1>2
<1>4. /\ r \in Seq(Piece) /\ Len(r) = Len(buf) - want
      /\ \A j \in 1 .. Len(buf) - want : r[j] = buf[want + j]
  <2>1. want \in 0 .. Len(buf)
    BY <1>2
  <2> QED
    BY <1>1, <2>1, PiecesRest
<1> HIDE DEF h, r
<1>5. AllWritten(buf)
  BY <1>1, WrittenParts
<1>6. AllWritten(h)
  <2>1. \A j \in 1 .. want : j \in 1 .. Len(buf)
    BY <1>2
  <2> QED
    BY <1>3, <1>5, <2>1 DEF AllWritten
<1>7. AllWritten(r)
  <2>1. \A j \in 1 .. Len(buf) - want : want + j \in 1 .. Len(buf)
    BY <1>2
  <2> QED
    BY <1>4, <1>5, <2>1 DEF AllWritten
<1>8. Joins(buf, h, r)
  <2>1. Len(buf) = Len(h) + Len(r)
    BY <1>2, <1>3, <1>4
  <2> QED
    BY <1>3, <1>4, <2>1 DEF Joins
<1>9. FdsOfAll(buf) = FdsOfAll(h) \o FdsOfAll(r)
  BY <1>1, <1>3, <1>4, <1>5, <1>6, <1>7, <1>8, FdsOfParts
<1>10. FdsOfAll(r) \in Seq(Int)
  BY <1>1, <1>4, <1>7, FdsType
<1>11. FdsOfAll(h) = f
  <2> DEFINE s == Fds(h)
  <2>1. /\ s \in Lists /\ Len(s) = want /\ FdsOfAll(h) = FlattenSeq(s)
        /\ \A j \in 1 .. want : s[j] = FdsOf(h[j])
    BY <1>1, <1>3, <1>6, FdsType
  <2> HIDE DEF s
  <2>2. 1 \in 1 .. want /\ want > 0 /\ \A j \in 2 .. want : j \in 1 .. want /\ j # 1
    BY <1>2
  <2>3. s[1] = f
    BY <1>2, <1>3, <2>1, <2>2 DEF FdsOf
  <2>4. \A j \in 2 .. want : s[j] = << >>
    BY <1>2, <1>3, <2>1, <2>2 DEF FdsOf
  <2>5. FlattenSeq(s) = s[1]
    BY <2>1, <2>2, <2>4, FlatFirst
  <2> QED
    BY <2>1, <2>3, <2>5
<1>12. f \in Seq(Int)
  <2>1. IsFrame(Letter(buf[1].w, buf[1].i))
    BY <1>1, <1>2, FirstFrame
  <2> QED
    BY <2>1 DEF IsFrame
<1> QED
  BY <1>9, <1>10, <1>11, <1>12 DEF r

\* The line after the first frame was read.
LEMMA RestIsLine ==
    ASSUME Whole, Reads(want), Len(All') = Len(All) - want, Len(got') = Len(got) + 1
    PROVE  Line(All)'
<1> DEFINE a == All
           b == All'
           d == want
           l == Len(All)
           g == Len(got)
           h == Len(begun)
<1>1. /\ WireTypes /\ PiecesInv /\ PlacesOK /\ BegunOK /\ Line(a)
      /\ InTurn(a) /\ Starts(a) /\ Ends(a)
  BY DEF Whole, PiecesInv, Line
<1>2. /\ d \in 1 .. Len(buf) /\ d = Pieces(buf[1]) /\ Len(buf) > 0 /\ d \in 2 .. 4
      /\ Len(buf) \in Nat
      /\ \A k \in 1 .. d : buf[k].w = buf[1].w /\ buf[k].i = buf[1].i /\ buf[k].k = k
  BY WholeFacts
<1>3. /\ a \in Seq(Piece) /\ b \in Seq(Piece) /\ l \in Nat /\ l >= Len(buf)
      /\ \A j \in 1 .. Len(buf) : a[j] = buf[j]
  <2>1. buf \in Seq(Piece) /\ sock \in Seq(Piece)
    BY <1>1 DEF WireTypes
  <2> QED
    BY <2>1, PiecesConcat DEF All, Reads
<1> HIDE DEF All
<1>4. g < h /\ Of(buf[1]) = begun[g + 1] /\ g \in Nat /\ h \in Nat
  <2>1. g \in Nat /\ h \in Nat
    BY <1>1 DEF WireTypes
  <2> QED
    BY <1>1, <1>2, <2>1, FirstLetter
<1>5. UNCHANGED <<letters, next, sent, begun>> /\ Part(b, a, d)
  BY DEF Reads
<1>6. /\ d \in Nat /\ d > 0 /\ Len(b) = l - d /\ d \in 1 .. l
      /\ \A j \in 1 .. Len(b) : b[j].w = a[d + j].w /\ b[j].i = a[d + j].i /\ b[j].k = a[d + j].k
  <2>1. d \in Nat /\ d > 0 /\ d \in 1 .. l
    BY <1>2, <1>3
  <2>2. Len(b) = l - d
    OBVIOUS
  <2>3. \A j \in 1 .. Len(b) : b[j].w = a[d + j].w /\ b[j].i = a[d + j].i /\ b[j].k = a[d + j].k
    BY <1>5 DEF Part
  <2> QED
    BY <2>1, <2>2, <2>3
<1>7. /\ Of(a[d]) = begun[g + 1] /\ a[d].k = d /\ Pieces(a[d]) = d
      /\ a[d].w = buf[1].w /\ a[d].i = buf[1].i
  <2>1. a[d] = buf[d] /\ d \in 1 .. d
    BY <1>2, <1>3, <1>6
  <2>2. buf[d].w = buf[1].w /\ buf[d].i = buf[1].i /\ buf[d].k = d
    BY <1>2, <2>1
  <2>3. a[d].w = buf[1].w /\ a[d].i = buf[1].i /\ a[d].k = d
    BY <2>1, <2>2
  <2> QED
    BY <1>2, <1>4, <2>3 DEF Of, Pieces
<1> HIDE DEF a, b, d, l, g, h
<1>8. Starts(All)'
  <2>1. ASSUME Len(b) > 0
        PROVE  b[1].k = 1 /\ g + 1 < h /\ Of(b[1]) = begun[(g + 1) + 1]
    <3>1. d + 1 <= l /\ 1 \in 1 .. Len(b) /\ g + 1 \in 1 .. h
      BY <1>3, <1>4, <1>6, <2>1
    <3>2. /\ a[d + 1].k = 1
          /\ \A p \in 1 .. h : begun[p] = Of(a[d]) => p < h /\ begun[p + 1] = Of(a[d + 1])
      BY <1>1, <1>6, <1>7, <3>1 DEF InTurn, l, h, a
    <3>3. b[1].w = a[d + 1].w /\ b[1].i = a[d + 1].i /\ b[1].k = a[d + 1].k
      BY <1>6, <3>1
    <3>4. g + 1 < h /\ begun[(g + 1) + 1] = Of(a[d + 1])
      BY <1>7, <3>1, <3>2
    <3> QED
      BY <3>2, <3>3, <3>4 DEF Of
  <2> QED
    BY <1>5, <2>1 DEF Starts, Of, b, g, h
<1>9. Ends(All)'
  <2>1. ASSUME Len(b) = 0
        PROVE  g + 1 = h /\ \A w \in Writers : sent[w] = 0
    <3>1. d = l /\ l > 0 /\ g + 1 \in 1 .. h /\ h \in 1 .. h
      BY <1>3, <1>4, <1>6, <2>1
    <3>2. begun[h] = begun[g + 1]
      BY <1>1, <1>7, <3>1 DEF Ends, a, l, h
    <3>3. g + 1 = h
      BY <1>1, <3>1, <3>2 DEF BegunOK, h
    <3>4. ASSUME NEW w \in Writers
          PROVE  sent[w] = 0
      <4>1. ASSUME sent[w] > 0
            PROVE  FALSE
        <5>1. a[d].w = w /\ a[d].i = next[w] /\ a[d].k = sent[w]
          BY <1>1, <3>1, <4>1 DEF Ends, a, l
        <5>2. sent[w] < Letter(w, next[w]).pieces
          BY <1>1, <4>1 DEF PlacesOK
        <5>3. Letter(w, next[w]).pieces = d /\ sent[w] = d
          BY <1>7, <5>1 DEF Pieces
        <5> QED
          BY <1>6, <5>2, <5>3
      <4>2. sent[w] \in Nat
        BY <1>1 DEF WireTypes
      <4> QED
        BY <4>1, <4>2
    <3> QED
      BY <3>3, <3>4
  <2>2. CASE Len(b) = 0
    <3>1. Len(All') = 0 /\ Len(got') = Len(begun') /\ \A w \in Writers : ~ (sent'[w] > 0)
      BY <1>5, <2>1, <2>2 DEF b, g, h
    <3> QED
      BY <3>1 DEF Ends
  <2>3. CASE Len(b) > 0
    <3> DEFINE z == a[l]
               y == b[Len(b)]
    <3>1. d + Len(b) = l /\ Len(b) \in 1 .. Len(b) /\ l > 0
      BY <1>3, <1>6, <2>3
    <3>2. y.w = z.w /\ y.i = z.i /\ y.k = z.k
      BY <1>6, <3>1
    <3>3. /\ h > 0 /\ Of(z) = begun[h]
          /\ z.k < Pieces(z) => sent[z.w] > 0
          /\ \A w \in Writers : sent[w] > 0 => z.w = w /\ z.i = next[w] /\ z.k = sent[w]
      BY <1>1, <3>1 DEF Ends, a, l, h
    <3>4. /\ h > 0 /\ Of(y) = begun[h]
          /\ y.k < Pieces(y) => sent[y.w] > 0
          /\ \A w \in Writers : sent[w] > 0 => y.w = w /\ y.i = next[w] /\ y.k = sent[w]
      <4> HIDE DEF z, y
      <4> QED
        BY <3>2, <3>3 DEF Of, Pieces
    <3>5. Len(b) # 0
      BY <2>3
    <3> QED
      BY <1>5, <2>3, <3>4, <3>5 DEF Ends, Of, Pieces, Letter, b, h
  <2>4. Len(b) = 0 \/ Len(b) > 0
    BY <1>3
  <2> QED
    BY <2>2, <2>3, <2>4
<1>10. Line(All)
  BY <1>1 DEF a
<1> QED
  BY <1>1, <1>2, <1>6, <1>8, <1>9, <1>10, ReadLine DEF d

\* take_fds takes as many descriptors as it is asked for, or all there are.
LEMMA TakesFds ==
    ASSUME pending_fds \in Seq(Int), NEW n \in Nat
    PROVE  /\ take_fds(n) \in Seq(Int) /\ Len(take_fds(n)) \in 0 .. Len(pending_fds)
           /\ SubSeq(pending_fds, Len(take_fds(n)) + 1, Len(pending_fds)) \in Seq(Int)
           /\ n <= Len(pending_fds) => take_fds(n) = SubSeq(pending_fds, 1, n)
           /\ Len(take_fds(n)) < n => Len(pending_fds) < n
<1> DEFINE l == Len(pending_fds)
           m == Min({n, l})
<1>1. l \in Nat
  OBVIOUS
<1>2. m = IF n <= l THEN n ELSE l
  BY <1>1, MinOfTwo
<1> HIDE DEF m
<1>3. m \in Nat /\ m <= l /\ (n <= l => m = n) /\ (m < n => l < n)
  BY <1>1, <1>2
<1>4. take_fds(n) = SubSeq(pending_fds, 1, m)
  BY Zenon DEF take_fds, m, l
<1>5. SubSeq(pending_fds, 1, m) \in Seq(Int) /\ Len(SubSeq(pending_fds, 1, m)) = m
  BY <1>1, <1>3
<1>6. SubSeq(pending_fds, m + 1, l) \in Seq(Int)
  BY <1>1, <1>3
<1> QED
  BY <1>1, <1>3, <1>4, <1>5, <1>6

\* If the first descriptors are those of the frame, it takes them and leaves the others.
LEMMA TakesOwn ==
    ASSUME NEW f \in Seq(Int), NEW r \in Seq(Int), pending_fds = f \o r
    PROVE  /\ take_fds(Len(f)) = f
           /\ SubSeq(pending_fds, Len(f) + 1, Len(pending_fds)) = r
           /\ Len(pending_fds) >= Len(f)
<1> DEFINE p == f \o r
           m == Len(f)
           n == Len(r)
           s == SubSeq(p, 1, m)
           t == SubSeq(p, m + 1, Len(p))
<1>1. /\ p \in Seq(Int) /\ m \in Nat /\ n \in Nat /\ Len(p) = m + n /\ Len(p) >= m
      /\ \A j \in 1 .. m : p[j] = f[j]
      /\ \A j \in 1 .. n : p[m + j] = r[j]
  OBVIOUS
<1> HIDE DEF p
<1>2. s = f
  <2>1. s \in Seq(Int) /\ Len(s) = m /\ \A j \in 1 .. m : s[j] = p[j]
    BY <1>1
  <2> HIDE DEF s
  <2> QED
    BY <1>1, <2>1, SeqEqual
<1>3. t = r
  <2>1. t \in Seq(Int) /\ Len(t) = n /\ \A j \in 1 .. n : t[j] = p[m + j]
    BY <1>1
  <2> HIDE DEF t
  <2> QED
    BY <1>1, <2>1, SeqEqual
<1>4. pending_fds \in Seq(Int) /\ pending_fds = p
  BY <1>1 DEF p
<1>5. take_fds(m) = SubSeq(pending_fds, 1, m)
  BY <1>1, <1>4, TakesFds
<1> QED
  BY <1>1, <1>2, <1>3, <1>4, <1>5

\* An honest sender's frame finds its own descriptors, and leaves those of later frames.
LEMMA OwnDescriptors ==
    ASSUME Whole, Pending, Honest(Len(got) + 1),
           ~ Letter(buf[1].w, buf[1].i).refused
    PROVE  /\ take_fds(Letter(buf[1].w, buf[1].i).unix_fds) = Letter(buf[1].w, buf[1].i).fds
           /\ SubSeq(pending_fds, Len(Letter(buf[1].w, buf[1].i).fds) + 1, Len(pending_fds))
                = FdsOfAll(SubSeq(buf, want + 1, Len(buf)))
           /\ Len(pending_fds) >= Letter(buf[1].w, buf[1].i).unix_fds
<1> DEFINE frame == Letter(buf[1].w, buf[1].i)
           r == FdsOfAll(SubSeq(buf, want + 1, Len(buf)))
<1>1. PiecesInv /\ Line(All) /\ Len(buf) > 0
  BY WholeFacts DEF Whole
<1>2. frame = BegunLetter(Len(got) + 1)
  BY <1>1, FirstLetter
<1>3. IsFrame(frame)
  BY <1>1, FirstFrame
<1>4. Len(got) \in Nat
  BY <1>1 DEF PiecesInv, WireTypes
<1>5. Honest(Len(got)) /\ BegunLetter(Len(got) + 1).declares = Len(BegunLetter(Len(got) + 1).fds)
  <2>1. \A j \in 1 .. Len(got) : j \in 1 .. Len(got) + 1
    BY <1>4
  <2>2. Len(got) + 1 \in 1 .. Len(got) + 1
    BY <1>4
  <2> QED
    BY <2>1, <2>2 DEF Honest
<1>6. pending_fds = FdsOfAll(buf)
  BY <1>5 DEF Pending
<1>7. pending_fds = frame.fds \o r /\ r \in Seq(Int) /\ frame.fds \in Seq(Int)
  BY <1>6, FrameFirst
<1>8. ~ frame.refused
  OBVIOUS
<1> HIDE DEF frame, r
<1>9. frame.unix_fds = Len(frame.fds)
  BY <1>2, <1>3, <1>5, <1>8 DEF IsFrame
<1>10. /\ take_fds(Len(frame.fds)) = frame.fds
       /\ SubSeq(pending_fds, Len(frame.fds) + 1, Len(pending_fds)) = r
       /\ Len(pending_fds) >= Len(frame.fds)
  BY <1>7, TakesOwn
<1> QED
  BY <1>9, <1>10 DEF frame, r

\* The message of a letter, with the descriptors it was given.
WithFds(l, f) == [l.msg.v EXCEPT !.fds = f]

\* A frame is read: its message is got, and the frame and its descriptors are gone.
Took ==
    LET frame == Letter(buf[1].w, buf[1].i)
        taken == take_fds(frame.unix_fds)
    IN  /\ got' = Append(got, WithFds(frame, taken))
        /\ pending_fds' = SubSeq(pending_fds, Len(taken) + 1, Len(pending_fds))
        /\ buf' = SubSeq(buf, want + 1, Len(buf))
        /\ want' = 0 /\ reader' = reader

\* A message that is read keeps the pieces right.
LEMMA TookPieces ==
    ASSUME PiecesInv, want > 0, Len(buf) >= want, Took, UNCHANGED <<letters, writing>>
    PROVE  /\ PiecesInv' /\ Reads(want) /\ Len(All') = Len(All) - want
           /\ Len(got') = Len(got) + 1 /\ \A j \in 1 .. Len(got) : got'[j] = got[j]
           /\ got'[Len(got) + 1] =
                WithFds(Letter(buf[1].w, buf[1].i),
                        take_fds(Letter(buf[1].w, buf[1].i).unix_fds))
<1> DEFINE frame == Letter(buf[1].w, buf[1].i)
           taken == take_fds(frame.unix_fds)
           m == WithFds(frame, taken)
<1>1. WireTypes /\ WantOK /\ Attached
  BY DEF PiecesInv
<1>2. /\ want \in 2 .. 4 /\ Len(buf) \in Nat /\ Len(buf) > 0 /\ want \in 0 .. Len(buf)
      /\ pending_fds \in Seq(Int) /\ got \in Seq(Readable) /\ Len(got) \in Nat /\ want \in Nat
  <2>1. want \in {0} \cup 2 .. 4 /\ Len(buf) \in Nat
    BY <1>1 DEF WireTypes
  <2>2. pending_fds \in Seq(Int) /\ got \in Seq(Readable) /\ Len(got) \in Nat
    BY <1>1 DEF WireTypes
  <2> QED
    BY <2>1, <2>2
<1>3. /\ got' = Append(got, m)
      /\ pending_fds' = SubSeq(pending_fds, Len(taken) + 1, Len(pending_fds))
      /\ buf' = SubSeq(buf, want + 1, Len(buf)) /\ want' = 0 /\ reader' = reader
  BY DEF Took
<1>4. UNCHANGED <<letters, next, sent, sock, begun, mixed>>
  BY DEF writing
<1>5. /\ Reads(want) /\ Len(All') = Len(All) - want /\ Len(sock') <= Len(sock)
      /\ buf' \in Seq(Piece)
  BY <1>1, <1>2, <1>3, TakesFrame
<1>6. IsFrame(frame) /\ buf[1] \in Piece
  BY <1>2, FirstFrame
<1>7. taken \in Seq(Int) /\ pending_fds' \in Seq(Int)
  <2>1. frame.unix_fds \in Nat
    BY <1>6 DEF IsFrame
  <2> HIDE DEF frame
  <2> QED
    BY <1>2, <1>3, <2>1, TakesFds
<1>8. m \in Readable
  <2>1. PICK s \in DOMAIN Scenarios : letters = Scenarios[s]
    BY <1>1 DEF WireTypes
  <2> DEFINE v == buf[1].w
             i == buf[1].i
  <2>2. v \in Writers /\ i \in Positive
    BY <1>6 DEF Piece
  <2>3. frame = Scenarios[s][v][i]
    BY <2>1 DEF Letter
  <2> HIDE DEF frame, taken, v, i
  <2>4. m = [Scenarios[s][v][i].msg.v EXCEPT !.fds = taken]
    BY <2>3, Zenon DEF WithFds
  <2>5. [Scenarios[s][v][i].msg.v EXCEPT !.fds = taken] \in Readable
    BY <1>7, <2>2 DEF Readable
  <2> QED
    BY <2>4, <2>5
<1> HIDE DEF frame, taken, m
<1>9. /\ got' \in Seq(Readable) /\ Len(got') = Len(got) + 1
      /\ got'[Len(got) + 1] = m /\ \A j \in 1 .. Len(got) : got'[j] = got[j]
  BY <1>2, <1>3, <1>8
<1>10. WireTypes'
  BY <1>1, <1>3, <1>4, <1>5, <1>7, <1>9 DEF WireTypes
<1>11. WantOK' /\ Attached'
  <2>1. WantOK'
    BY <1>3 DEF WantOK
  <2>2. Attached'
    BY <1>1, <1>4 DEF Attached, FdsOf, Letter
  <2> QED
    BY <2>1, <2>2
<1>12. PiecesInv'
  BY <1>2, <1>5, <1>10, <1>11, ReadPieces
<1> QED
  BY <1>5, <1>9, <1>12 DEF m, taken, frame

\* A message that is read keeps the invariant.
LEMMA TookInv ==
    ASSUME WireInv, reader = "reading", want > 0, Len(buf) >= want, Took,
           Letter(buf[1].w, buf[1].i).msg.ok, UNCHANGED <<letters, writing>>
    PROVE  WireInv'
<1> DEFINE frame == Letter(buf[1].w, buf[1].i)
           taken == take_fds(frame.unix_fds)
           rest == SubSeq(buf, want + 1, Len(buf))
           g == Len(got)
<1>1. PiecesInv /\ UnmixedInv /\ WireTypes /\ WantOK
  BY DEF WireInv, PiecesInv
<1>2. /\ PiecesInv' /\ Reads(want) /\ Len(All') = Len(All) - want
      /\ Len(got') = g + 1 /\ \A j \in 1 .. g : got'[j] = got[j]
      /\ got'[g + 1] = WithFds(frame, taken)
  BY <1>1, TookPieces
<1>3. /\ UNCHANGED <<letters, next, sent, sock, begun, mixed, reader>>
      /\ buf' = rest /\ pending_fds' = SubSeq(pending_fds, Len(taken) + 1, Len(pending_fds))
  BY DEF Took, writing
<1>4. g \in Nat /\ Len(begun) \in Nat /\ Len(buf) > 0
  <2>1. g \in Nat /\ Len(begun) \in Nat /\ Len(buf) \in Nat /\ want \in Int
    BY <1>1 DEF WireTypes
  <2> QED
    BY <2>1
<1>5. IsFrame(frame)
  BY <1>1, <1>4, FirstFrame
<1>6. ~ frame.refused
  <2>1. frame.len.ok
    BY <1>1 DEF WantOK
  <2>2. frame.msg.ok
    OBVIOUS
  <2> HIDE DEF frame
  <2> QED
    BY <1>5, <2>1, <2>2 DEF IsFrame
<1>7. ASSUME ~ mixed'
      PROVE  /\ reader' # "astray" /\ GotOK' /\ FailedOK'
             /\ reader' = "reading" => Line(All)' /\ Pending'
  <2>1. GotOK /\ Line(All) /\ Pending
    BY <1>1, <1>3, <1>7 DEF UnmixedInv
  <2>2. Whole
    BY <1>1, <2>1 DEF Whole
  <2>3. g < Len(begun) /\ frame = BegunLetter(g + 1)
    BY <1>1, <1>4, <2>1, FirstLetter
  <2>4. \A j : BegunLetter(j)' = BegunLetter(j)
    BY <1>3 DEF BegunLetter, Letter
  <2>5. \A n : Honest(n)' <=> Honest(n)
    BY <2>4 DEF Honest
  <2>6. ASSUME Honest(g + 1)
        PROVE  taken = frame.fds /\ pending_fds' = FdsOfAll(rest)
    <3>1. /\ take_fds(frame.unix_fds) = frame.fds
          /\ SubSeq(pending_fds, Len(frame.fds) + 1, Len(pending_fds)) = FdsOfAll(rest)
      BY <1>6, <2>1, <2>2, <2>6, OwnDescriptors
    <3> QED
      BY <1>3, <3>1
  <2> HIDE DEF frame, taken, rest, g
  <2>7. Honest(g + 1) => WithFds(frame, taken) = BegunLetter(g + 1).delivered
    <3>1. WithFds(frame, frame.fds) = frame.delivered
      BY <1>5, <1>6, Zenon DEF IsFrame, WithFds
    <3> QED
      BY <2>3, <2>6, <3>1
  <2>8. GotOK'
    <3>1. ASSUME NEW j \in 1 .. g + 1
          PROVE  Honest(j) => got'[j] = BegunLetter(j).delivered
      <4>1. CASE j = g + 1
        BY <1>2, <2>7, <4>1
      <4>2. CASE j # g + 1
        <5>1. j \in 1 .. g
          BY <1>4, <4>2
        <5> QED
          BY <1>2, <2>1, <5>1 DEF GotOK, g
      <4> QED
        BY <4>1, <4>2
    <3>2. Len(got') <= Len(begun')
      BY <1>2, <1>3, <1>4, <2>3
    <3> QED
      BY <1>2, <2>4, <2>5, <3>1, <3>2 DEF GotOK
  <2>9. FailedOK'
    BY <1>3 DEF FailedOK
  <2>10. Line(All)'
    BY <1>2, <2>2, RestIsLine DEF g
  <2>11. Pending'
    <3>1. FdsOfAll(buf)' = FdsOfAll(rest)
      BY <1>3 DEF FdsOfAll, FdsOf, Letter
    <3> QED
      BY <1>2, <2>5, <2>6, <3>1 DEF Pending
  <2> QED
    BY <1>3, <2>8, <2>9, <2>10, <2>11
<1> QED
  BY <1>2, <1>7 DEF WireInv, UnmixedInv

\* read_message keeps the invariant.
LEMMA ReadMessageInv ==
    ASSUME WireInv, read_message
    PROVE  WireInv'
<1> DEFINE frame == Letter(buf[1].w, buf[1].i)
           taken == take_fds(frame.unix_fds)
<1>1. PiecesInv /\ UnmixedInv /\ WireTypes /\ WantOK
  BY DEF WireInv, PiecesInv
<1>2. /\ reader = "reading" /\ want > 0 /\ Len(buf) >= want /\ UNCHANGED <<letters, writing>>
      /\ IF ~ Intact(SubSeq(buf, 1, want)) THEN Garbled
         ELSE IF ~ frame.msg.ok THEN Fail
         ELSE IF Len(taken) < frame.unix_fds THEN Fail
         ELSE Took
  BY DEF read_message, Took, WithFds
<1>3. want \in 1 .. Len(buf) /\ want <= Pieces(buf[1]) /\ Len(buf) > 0 /\ Len(got) \in Nat
  <2>1. want \in {0} \cup 2 .. 4 /\ Len(buf) \in Nat /\ Len(got) \in Nat
    BY <1>1 DEF WireTypes
  <2>2. want = Pieces(buf[1])
    BY <1>1, <1>2 DEF WantOK
  <2> QED
    BY <1>2, <2>1, <2>2
<1>4. IsFrame(frame) /\ frame.len.ok
  <2>1. IsFrame(frame)
    BY <1>1, <1>3, FirstFrame
  <2>2. frame.len.ok
    BY <1>1, <1>2 DEF WantOK
  <2> QED
    BY <2>1, <2>2
<1>5. ASSUME ~ mixed
      PROVE  /\ Whole /\ Pending /\ Len(got) < Len(begun) /\ frame = BegunLetter(Len(got) + 1)
  <2>1. Line(All) /\ Pending
    BY <1>1, <1>2, <1>5 DEF UnmixedInv
  <2> QED
    BY <1>1, <1>2, <1>3, <2>1, FirstLetter DEF Whole
<1>6. CASE ~ Intact(SubSeq(buf, 1, want))
  <2>1. mixed
    BY <1>2, <1>3, <1>6, NotIntact
  <2> QED
    BY <1>2, <1>6, <2>1, GarbledInv
<1>7. CASE Intact(SubSeq(buf, 1, want)) /\ ~ frame.msg.ok
  <2>1. ASSUME ~ mixed
        PROVE  Len(got) < Len(begun) /\ Rightly(Len(got) + 1)
    <3> HIDE DEF frame
    <3>1. frame.refused
      BY <1>4, <1>7 DEF IsFrame
    <3> QED
      BY <1>5, <2>1, <3>1 DEF Rightly
  <2> QED
    BY <1>2, <1>7, <2>1, FailInv
<1>8. CASE /\ Intact(SubSeq(buf, 1, want)) /\ frame.msg.ok
           /\ Len(taken) < frame.unix_fds
  <2>1. ASSUME ~ mixed, Honest(Len(got) + 1)
        PROVE  FALSE
    <3>1. ~ frame.refused
      <4> HIDE DEF frame
      <4> QED
        BY <1>4, <1>8 DEF IsFrame
    <3>2. Len(pending_fds) >= frame.unix_fds
      BY <1>5, <2>1, <3>1, OwnDescriptors
    <3>3. pending_fds \in Seq(Int) /\ frame.unix_fds \in Nat
      BY <1>1, <1>4 DEF WireTypes, IsFrame
    <3>4. Len(pending_fds) < frame.unix_fds
      <4> HIDE DEF frame
      <4> QED
        BY <1>8, <3>3, TakesFds
    <3>5. Len(pending_fds) \in Nat
      BY <3>3
    <3> HIDE DEF frame
    <3> QED
      BY <3>2, <3>3, <3>4, <3>5
  <2> QED
    BY <1>2, <1>5, <1>8, <2>1, FailInv
<1>9. CASE /\ Intact(SubSeq(buf, 1, want)) /\ frame.msg.ok
           /\ ~ (Len(taken) < frame.unix_fds)
  <2>1. Took
    BY <1>2, <1>9
  <2> QED
    BY <1>2, <1>9, <2>1, TookInv
<1> QED
  BY <1>6, <1>7, <1>8, <1>9

-----------------------------------------------------------------------------
(* The theorems *)

\* Before the first write nothing is under way.
LEMMA WireInitInv == WireInit => WireInv
<1> SUFFICES ASSUME WireInit
             PROVE  WireInv
  OBVIOUS
<1>1. WireTypes
  <2>1. next \in [Writers -> Positive] /\ sent \in [Writers -> Nat]
    BY DEF WireInit, Positive
  <2>2. /\ sock \in Seq(Piece) /\ buf \in Seq(Piece) /\ pending_fds \in Seq(Int)
        /\ got \in Seq(Readable) /\ begun \in Seq(Writers \X Positive)
    BY DEF WireInit
  <2> QED
    BY <2>1, <2>2 DEF WireInit, WireTypes
<1>2. All = << >> /\ Len(All) = 0 /\ buf = << >> /\ sock = << >> /\ Len(begun) = 0 /\ Len(got) = 0
  BY DEF WireInit, All
<1> HIDE DEF All
<1>3. PlacesOK
  <2>1. Len(sock) <= Capacity
    BY <1>2, WireAssumption DEF WireAssumption
  <2>2. ASSUME NEW w \in Writers
        PROVE  next[w] <= Len(letters[w]) + 1 /\ sent[w] = 0
    <3>1. Len(letters[w]) \in Nat
      BY <1>1, LetterFacts
    <3> QED
      BY <3>1 DEF WireInit
  <2> QED
    BY <2>1, <2>2 DEF PlacesOK
<1>4. AllWritten(All) /\ Ordered(All) /\ BegunOK /\ Attached
  BY <1>2 DEF AllWritten, Ordered, BegunOK, Attached
<1>5. WantOK /\ FailedOK
  BY DEF WireInit, WantOK, FailedOK
<1>6. GotOK
  BY <1>2 DEF GotOK
<1>7. Line(All)
  <2>1. InFrames(All) /\ InTurn(All) /\ Starts(All)
    BY <1>2 DEF InFrames, InTurn, Starts
  <2>2. \A w \in Writers : sent[w] = 0
    BY DEF WireInit
  <2>3. Ends(All)
    BY <1>2, <2>2 DEF Ends
  <2> QED
    BY <2>1, <2>3 DEF Line
<1>8. Pending
  <2>1. pending_fds = << >>
    BY DEF WireInit
  <2>2. Fds(buf) \in Lists /\ Len(Fds(buf)) = 0 /\ FdsOfAll(buf) = FlattenSeq(Fds(buf))
    <3>1. buf \in Seq(Piece) /\ Len(buf) = 0 /\ AllWritten(buf)
      BY <1>1, <1>2 DEF WireTypes, AllWritten
    <3> QED
      BY <1>1, <3>1, FdsType
  <2> QED
    BY <2>1, <2>2, FlatNothing DEF Pending
<1> QED
  BY <1>1, <1>3, <1>4, <1>5, <1>6, <1>7, <1>8
  DEF WireInv, PiecesInv, UnmixedInv, WireInit

\* Every step keeps the invariant.
LEMMA WireStep == WireInv /\ [WireNext]_vars => WireInv'
<1> SUFFICES ASSUME WireInv, [WireNext]_vars
             PROVE  WireInv'
  OBVIOUS
<1>1. ASSUME NEW w \in Writers, Write(w) \/ CancelWrite(w)
      PROVE  WireInv'
  BY <1>1, EncodingFailsInv, WriteInv, WriteFailsInv, CancelWriteInv DEF Write
<1>2. CASE Read
  BY <1>2, FillInv, ReadAstrayInv, PeekFrameInv, ReadMessageInv DEF Read
<1>3. CASE PeerStops
  BY <1>3, PeerStopsInv
<1>4. CASE UNCHANGED vars
  <2>1. UNCHANGED <<letters, next, sent, sock, reader, buf, want, pending_fds, got, begun, mixed>>
    BY <1>4 DEF vars
  <2>2. PiecesInv'
    BY <2>1 DEF WireInv, PiecesInv, WireTypes, PlacesOK, AllWritten, All, Written, Pieces, Letter,
                Ordered, BegunOK, WantOK, Attached, FdsOf
  <2>3. ASSUME ~ mixed'
        PROVE  /\ reader' # "astray" /\ GotOK' /\ FailedOK'
               /\ reader' = "reading" => Line(All)' /\ Pending'
    <3>1. /\ reader # "astray" /\ GotOK /\ FailedOK
          /\ reader = "reading" => Line(All) /\ Pending
      BY <2>1, <2>3 DEF WireInv, UnmixedInv
    <3>2. GotOK' /\ FailedOK'
      BY <2>1, <3>1, GotStays
    <3>3. Reads(0) /\ Len(All') = Len(All) /\ WireTypes
      BY <2>1, TakesNoPiece DEF writing, WireInv, PiecesInv
    <3>4. reader = "reading" => Line(All)'
      BY <2>1, <3>1, <3>3, FillLine
    <3>5. reader = "reading" => Pending'
      BY <2>1, <3>1 DEF Pending, Honest, BegunLetter, Letter, FdsOfAll, FdsOf
    <3> QED
      BY <2>1, <3>1, <3>2, <3>4, <3>5
  <2> QED
    BY <2>2, <2>3 DEF WireInv, UnmixedInv
<1> QED
  BY <1>1, <1>2, <1>3, <1>4 DEF WireNext

\* The invariant holds throughout.
LEMMA WireInvariance == WireSpec => []WireInv
  BY WireInitInv, WireStep, PTL DEF WireSpec

\* What the invariant says of the types.
LEMMA WireInvTypes == WireInv => WireTypeOK
<1> SUFFICES ASSUME WireInv
             PROVE  WireTypeOK
  OBVIOUS
<1>1. WireTypes /\ PlacesOK /\ Ordered(All)
  BY DEF WireInv, PiecesInv
<1>2. /\ reader \in {"reading", "astray", "deaf", "closed", "failed"}
      /\ Len(sock) <= Capacity /\ want \in 0 .. 4
  BY <1>1 DEF WireTypes, PlacesOK
<1>3. ASSUME NEW w \in Writers
      PROVE  /\ next[w] \in 1 .. Len(letters[w]) + 1
             /\ Busy(w) => sent[w] \in 0 .. Letter(w, next[w]).pieces
  <2>1. next[w] \in Nat /\ next[w] > 0 /\ sent[w] \in Nat
    BY <1>1 DEF WireTypes, Positive
  <2>2. Len(letters[w]) \in Nat
    BY <1>1, LetterFacts
  <2>3. /\ next[w] <= Len(letters[w]) + 1
        /\ sent[w] > 0 => sent[w] < Letter(w, next[w]).pieces
    BY <1>1 DEF PlacesOK
  <2>4. ASSUME Busy(w)
        PROVE  Letter(w, next[w]).pieces \in Nat
    <3>1. next[w] \in 1 .. Len(letters[w])
      BY <2>1, <2>2, <2>4 DEF Busy
    <3>2. Letter(w, next[w]).pieces = 0 \/ IsFrame(Letter(w, next[w]))
      BY <1>1, <3>1, LetterFacts
    <3> QED
      BY <3>2 DEF IsFrame
  <2> QED
    BY <2>1, <2>2, <2>3, <2>4
<1>4. \A j, k \in DOMAIN All :
          (j < k /\ All[j].w = All[k].w) =>
              (All[j].i < All[k].i \/ (All[j].i = All[k].i /\ All[j].k < All[k].k))
  <2>1. All \in Seq(Piece)
    BY <1>1, PiecesConcat DEF All, WireTypes
  <2> HIDE DEF All
  <2>2. DOMAIN All = 1 .. Len(All)
    BY <2>1
  <2> QED
    BY <1>1, <2>2 DEF Ordered, Before
<1> QED
  BY <1>2, <1>3, <1>4 DEF WireTypeOK, All

\* Every piece under way is one of a letter, in the order of its writer, and the socket
\* holds no more than it can (write_all_with_fds, fill_more), for any writers and letters.
THEOREM WireTypeCorrect == WireSpec => []WireTypeOK
  BY WireInvariance, WireInvTypes, PTL

\* What the invariant says of what was read.
LEMMA WireInvIntact == WireInv => UnmixedReadsIntact
<1> SUFFICES ASSUME WireInv, ~ mixed
             PROVE  /\ reader # "astray" /\ Len(got) <= Len(begun)
                    /\ \A j \in DOMAIN got : HonestUpTo(j) => got[j] = BegunLetter(j).delivered
                    /\ (reader = "failed" /\ HonestUpTo(Len(got) + 1)) =>
                          /\ Len(got) < Len(begun)
                          /\ \/ BegunLetter(Len(got) + 1).refused
                             \/ BegunLetter(Len(got) + 1).size > max_message_size
  BY DEF UnmixedReadsIntact
<1>1. WireTypes /\ reader # "astray" /\ GotOK /\ FailedOK
  BY DEF WireInv, PiecesInv, UnmixedInv
<1>2. Len(got) \in Nat /\ Len(begun) \in Nat /\ DOMAIN got = 1 .. Len(got) /\ Len(got) <= Len(begun)
  BY <1>1 DEF WireTypes, GotOK
<1>3. ASSUME NEW n \in Nat, n <= Len(begun), HonestUpTo(n)
      PROVE  Honest(n)
  <2>1. Min({n, Len(begun)}) = n
    BY <1>2, <1>3, MinOfTwo
  <2> QED
    BY <1>3, <2>1 DEF HonestUpTo, Honest
<1>4. ASSUME NEW j \in DOMAIN got, HonestUpTo(j)
      PROVE  got[j] = BegunLetter(j).delivered
  <2>1. j \in 1 .. Len(got) /\ j \in Nat /\ j <= Len(begun)
    BY <1>2
  <2>2. Honest(j)
    BY <1>3, <1>4, <2>1
  <2> QED
    BY <1>1, <2>1, <2>2 DEF GotOK
<1>5. ASSUME reader = "failed", HonestUpTo(Len(got) + 1)
      PROVE  Len(got) < Len(begun) /\ Rightly(Len(got) + 1)
  <2>1. Len(got) < Len(begun) /\ (Honest(Len(got) + 1) => Rightly(Len(got) + 1))
    BY <1>1, <1>5 DEF FailedOK
  <2>2. Len(got) + 1 \in Nat /\ Len(got) + 1 <= Len(begun)
    BY <1>2, <2>1
  <2> QED
    BY <1>3, <1>5, <2>1, <2>2
<1> QED
  BY <1>1, <1>2, <1>4, <1>5 DEF Rightly

\* While no write begins between two pieces of another and none is dropped midway, the
\* reader gets every message as it was sent, in the order of the writes and with its own
\* descriptors, and fails only at a message that it must refuse (read_message, fill_more,
\* take_fds against write_all_with_fds), for any writers, letters and capacity.
THEOREM UnmixedIsIntact == WireSpec => []UnmixedReadsIntact
  BY WireInvariance, WireInvIntact, PTL
=============================================================================
