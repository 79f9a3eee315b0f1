------------------------------ MODULE Letters ------------------------------
(***************************************************************************)
(* Messages as Wire transmits them.  A letter starts as a message, how it   *)
(* was made ("own": by this code; "foreign": by another implementation, its *)
(* fields as they stand), and whether a reader must refuse it.  MessageFormat *)
(* tells what its frame looks like and what the reader makes of it.         *)
(***************************************************************************)
EXTENDS MessageFormat, FiniteSets

\* What a letter looks like on the wire.
Frame(l) ==
    IF l.by = "own" THEN to_bytes(l.msg)
    ELSE Ok(Encoded(l.msg, l.msg.fields, marshal_body(l.msg.body, l.msg.big_endian).bytes), 0)

\* What the bytes of a letter say: where they may be cut, the length read off the prefix
\* and the pieces up to it, the message they decode to and the descriptors it declares.
Cuts(bytes) == {8, 16, read_header(bytes).pos, Len(bytes)} \ {0}
ReadingOf(bytes, cuts, len, msg) ==
    [pieces   |-> Cardinality(cuts), size |-> Len(bytes), len |-> len,
     want     |-> Cardinality({c \in cuts : c < len.v}) + 1,
     msg      |-> msg,
     unix_fds |-> IF msg.ok THEN unix_fds(msg.v) ELSE 0]
Reading(bytes, len) ==
    ReadingOf(bytes, Cuts(bytes), len, Then(len, LAMBDA n : DecodedBytes(SubSeq(bytes, 1, n.v))))

\* What the reader of a letter should get.
Declared(l) == IF l.by = "own" THEN Len(l.msg.fds) ELSE unix_fds(l.msg)
Delivered(l) ==
    IF l.by = "own"
    THEN [l.msg EXCEPT !.fields = OwnFields(l.msg, marshal_body(l.msg.body, FALSE).sig)]
    ELSE [l.msg EXCEPT !.fields = [k \in 1..Cardinality({j \in DOMAIN @ : @[j][1] \in 1..9}) |->
            LET f == SelectSeq(l.msg.fields, LAMBDA g : g[1] \in 1..9)[k]
            IN  IF f[1] \in {PATH, REPLY_SERIAL, SIGNATURE, UNIX_FDS} THEN f ELSE Str(f[1], f[2].v)]]

\* The letter as Wire needs it.
OnTheWire(l) ==
    LET f == Frame(l)
    IN  IF ~f.ok THEN [pieces |-> 0]
        ELSE [fds |-> l.msg.fds, declares |-> Declared(l), delivered |-> Delivered(l),
              refused |-> l.refused] @@ Reading(f.v, peek_frame_len(f.v))

\* The accepted messages that cannot be encoded again: those that lack a required field,
\* hold a string with a NUL inside, or whose fields outgrow an array with the sender added.
RECURSIVE HasNul(_)
HasNul(x) == \/ x.c \in {"s", "o"} /\ x.v[1] = "nul"
             \/ x.c \in {"a", "(", "{"} /\ \E k \in DOMAIN x.v : HasNul(x.v[k])
             \/ x.c = "v" /\ HasNul(x.v)
FieldsSize(m) ==
    Len(write_values(<<>>, m.big_endian, FieldStructs(OwnFields(m, marshal_body(m.body, FALSE).sig))))
CannotBePassedOn(m) ==
    \/ ~validate(m)
    \/ \E k \in DOMAIN m.body : HasNul(m.body[k])
    \/ \E k \in DOMAIN m.fields : HasNul(m.fields[k][2])
    \/ FieldsSize(m) > MAX_ARRAY_LEN

\* read_message on a whole frame, by a receiver with this limit.
Received(bytes, fds, max_size) ==
    Then(peek_frame_len(bytes), LAMBDA len :
        Check(len.v <= max_size, from_bytes(SubSeq(bytes, 1, len.v), fds)))

\* A message that was passed on: encoded anew it is one frame of the length its prefix
\* tells, and its receiver reads the same message with one sender, unless with the sender
\* it has become too large.
SameMessage(in, m) ==
    /\ [in EXCEPT !.fields = {}] = [m EXCEPT !.fields = {}]
    /\ \A code \in 1..7 : field(in, code) = field(m, code)
    /\ Len(SelectSeq(in.fields, LAMBDA f : f[1] = SENDER)) = 1
    /\ unix_fds(in) = Len(m.fds)
PassedOn(m, out, max_size) ==
    IF CannotBePassedOn(m) THEN ~out.ok
    ELSE /\ out.ok
         /\ peek_frame_len(out.v).v = Len(out.v)
         /\ \E in \in {Received(out.v, m.fds, max_size)} :
               IF Len(out.v) > max_size THEN ~in.ok ELSE in.ok /\ SameMessage(in.v, m)
=============================================================================
