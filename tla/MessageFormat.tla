--------------------------- MODULE MessageFormat ---------------------------
(***************************************************************************)
(* The message format of oxibus-core: types and signatures, values, their  *)
(* encoding with alignment and byte order, headers and whole messages.     *)
(*                                                                         *)
(* A buffer is a sequence of cells, one per byte.  A number of w bytes is  *)
(* a cell that carries it, its width and its byte order, followed by w - 1 *)
(* filler cells, so that every offset, length and padding byte is the      *)
(* code's; the text of a string is one token.  Casts between signed and    *)
(* unsigned numbers and between doubles and their bits keep the value.     *)
(*                                                                         *)
(* A type is <<code>>, <<"a", element>>, <<"(", field, ...>> or            *)
(* <<"{", key, value>>; a signature is the sequence of its codes.  A value *)
(* is [c |-> code, v |-> content], an array also has its element type.     *)
(***************************************************************************)
EXTENDS Integers, Sequences, SequencesExt

CONSTANTS MAX_ARRAY_DEPTH, MAX_STRUCT_DEPTH, MAX_SIGNATURE_LEN, MAX_ARRAY_LEN,
          BadPaths      \* the texts that is_valid_object_path refuses

FormatAssumption ==
    {MAX_ARRAY_DEPTH, MAX_STRUCT_DEPTH, MAX_SIGNATURE_LEN, MAX_ARRAY_LEN} \subseteq Nat

ASSUME FormatAssumption

\* The outcome of a read at a position: a value and the position after it, or an error;
\* and what is done with it, errors going straight through.
Ok(v, pos) == [ok |-> TRUE, v |-> v, pos |-> pos]
Bad        == [ok |-> FALSE, v |-> 0, pos |-> 0]
Then(r, Rest(_)) == IF r.ok THEN Rest(r) ELSE Bad
Check(cond, r) == IF cond THEN r ELSE Bad

----------------------------------------------------------------------------
(* Types and signatures. *)

Width == [y |-> 1, n |-> 2, q |-> 2, b |-> 4, i |-> 4, u |-> 4, h |-> 4,
          x |-> 8, t |-> 8, d |-> 8]

alignment(ty) == CASE ty[1] \in DOMAIN Width     -> Width[ty[1]]
                   [] ty[1] \in {"g", "v"}       -> 1
                   [] ty[1] \in {"s", "o", "a"}  -> 4
                   [] ty[1] \in {"(", "{"}       -> 8

is_basic(ty) == ty[1] \notin {"a", "(", "{", "v"}

RECURSIVE write_signature(_)
write_signature(ty) ==
    LET Inner == FlattenSeq([k \in 1..(Len(ty) - 1) |-> write_signature(ty[k + 1])])
    IN  CASE ty[1] = "a" -> <<"a">> \o Inner
          [] ty[1] = "(" -> <<"(">> \o Inner \o <<")">>
          [] ty[1] = "{" -> <<"{">> \o Inner \o <<"}">>
          [] OTHER       -> <<ty[1]>>

\* One complete type from position p; a and s count the arrays and structs around it.
RECURSIVE parse_one(_, _, _, _, _)
RECURSIVE parse_fields(_, _, _, _, _)
parse_dict_entry(sig, p, a, s) ==
    Then(parse_one(sig, p, FALSE, a, s), LAMBDA key : Check(is_basic(key.v),
        Then(parse_one(sig, key.pos, FALSE, a, s), LAMBDA val :
            IF val.pos >= Len(sig) THEN Bad
            ELSE Check(sig[val.pos + 1] = "}", Ok(<<"{", key.v, val.v>>, val.pos + 1)))))
parse_one(sig, p, allow_dict, a, s) ==
    IF p >= Len(sig) THEN Bad ELSE
    CASE sig[p + 1] \in DOMAIN Width \cup {"s", "o", "g", "v"} -> Ok(<<sig[p + 1]>>, p + 1)
      [] sig[p + 1] = "a" ->
            Check(a < MAX_ARRAY_DEPTH, Then(parse_one(sig, p + 1, TRUE, a + 1, s),
                LAMBDA elem : Ok(<<"a", elem.v>>, elem.pos)))
      [] sig[p + 1] = "(" ->
            Check(s < MAX_STRUCT_DEPTH, Then(parse_fields(sig, p + 1, a, s + 1, <<>>),
                LAMBDA fs : Check(fs.v # <<>>, Ok(<<"(">> \o fs.v, fs.pos))))
      [] sig[p + 1] = "{" ->
            Check(allow_dict /\ s < MAX_STRUCT_DEPTH, parse_dict_entry(sig, p + 1, a, s + 1))
      [] OTHER -> Bad
parse_fields(sig, p, a, s, fields) ==
    IF p >= Len(sig) THEN Bad
    ELSE IF sig[p + 1] = ")" THEN Ok(fields, p + 1)
    ELSE Then(parse_one(sig, p, FALSE, a, s),
              LAMBDA f : parse_fields(sig, f.pos, a, s, Append(fields, f.v)))

RECURSIVE ParseFrom(_, _, _)
ParseFrom(sig, p, types) ==
    IF p >= Len(sig) THEN Ok(types, p)
    ELSE Then(parse_one(sig, p, FALSE, 0, 0),
              LAMBDA t : ParseFrom(sig, t.pos, Append(types, t.v)))

parse_signature(sig) == Check(Len(sig) <= MAX_SIGNATURE_LEN, ParseFrom(sig, 0, <<>>))

parse_single_complete_type(sig) ==
    Then(parse_signature(sig), LAMBDA types : Check(Len(types.v) = 1, Ok(types.v[1], 0)))

----------------------------------------------------------------------------
(* Values and their encoding. *)

RECURSIVE value_type(_)
value_type(x) == CASE x.c = "a"          -> <<"a", x.elem>>
                   [] x.c \in {"(", "{"} -> <<x.c>> \o [k \in DOMAIN x.v |-> value_type(x.v[k])]
                   [] OTHER              -> <<x.c>>

Cell(k, w, e, v) == [k |-> k, w |-> w, e |-> e, v |-> v]
Filler(n) == [k \in 1..n |-> Cell("filler", 0, FALSE, 0)]
Fault == Cell("fault", 0, FALSE, 0)     \* an encoder that returned an error
Nul == Cell("nul", 0, FALSE, 0)

padded(p, n) == p + ((n - (p % n)) % n)
align(buf, n) == buf \o Filler(padded(Len(buf), n) - Len(buf))

\* write_u8 ... write_f64.
write_number(buf, w, e, n) == align(buf, w) \o <<Cell("num", w, e, n)>> \o Filler(w - 1)

\* A string is <<token, length in bytes>>; "nul" stands for the texts with a NUL inside,
\* which this encoder refuses and others may send (EncodedOnce looks for them).
write_raw_string(buf, e, s) ==
    write_number(buf, 4, e, s[2])
        \o (IF s[2] = 0 THEN <<>> ELSE <<Cell("str", 0, FALSE, s[1])>> \o Filler(s[2] - 1))
        \o <<Nul>>
EmbeddedNul(cell) == cell.k = "str" /\ cell.v = "nul"

write_signature_str(buf, sig) ==
    IF Len(sig) > MAX_SIGNATURE_LEN THEN Append(buf, Fault)
    ELSE Append(buf, Cell("num", 1, FALSE, Len(sig)))
            \o [k \in DOMAIN sig |-> Cell("chr", 0, FALSE, sig[k])] \o <<Nul>>

RECURSIVE write_value(_, _, _)
write_values(buf, e, xs) == FoldLeft(LAMBDA b, x : write_value(b, e, x), buf, xs)
\* The length goes in front of the elements once they are written.
patch_u32(at, start, whole) ==
    IF Len(whole) - start > MAX_ARRAY_LEN THEN Append(whole, Fault)
    ELSE [whole EXCEPT ![at].v = Len(whole) - start]
write_elements(buf, at, e, xs) == patch_u32(at, Len(buf), write_values(buf, e, xs))
write_value(buf, e, x) ==
    CASE x.c \in DOMAIN Width -> write_number(buf, Width[x.c], e, x.v)
      [] x.c \in {"s", "o"}   -> write_raw_string(buf, e, x.v)
      [] x.c = "g"            -> write_signature_str(buf, x.v)
      [] x.c = "v"            ->
            write_value(write_signature_str(buf, write_signature(value_type(x.v))), e, x.v)
      [] x.c \in {"(", "{"}   -> write_values(align(buf, 8), e, x.v)
      [] x.c = "a"            ->
            write_elements(align(write_number(buf, 4, e, 0), alignment(x.elem)),
                           padded(Len(buf), 4) + 1, e, x.v)

\* The bytes of the body and its signature.
marshal_body(xs, e) ==
    [bytes |-> write_values(<<>>, e, xs),
     sig   |-> FlattenSeq([k \in DOMAIN xs |-> write_signature(value_type(xs[k]))])]

----------------------------------------------------------------------------
(* Decoding: every read checks the end of the buffer. *)

NumberAt(buf, q, w, e) ==
    IF q + w > Len(buf) THEN Bad
    ELSE Check(buf[q + 1].k = "num" /\ buf[q + 1].w = w /\ (w > 1 => buf[q + 1].e = e),
               Ok(buf[q + 1].v, q + w))
read_number(buf, p, w, e) == NumberAt(buf, padded(p, w), w, e)

\* n bytes and the NUL after them.
Terminated(buf, p, n) == IF p + n + 1 > Len(buf) THEN FALSE ELSE buf[p + n + 1].k = "nul"

read_raw_string(buf, p, e) ==
    Then(read_number(buf, p, 4, e), LAMBDA n : Check(Terminated(buf, n.pos, n.v),
        IF n.v = 0 THEN Ok(<<"", 0>>, n.pos + 1)
        ELSE Check(buf[n.pos + 1].k = "str", Ok(<<buf[n.pos + 1].v, n.v>>, n.pos + n.v + 1))))

read_signature_str(buf, p) ==
    Then(read_number(buf, p, 1, FALSE), LAMBDA n : Check(Terminated(buf, n.pos, n.v),
        Ok([k \in 1..n.v |-> buf[n.pos + k].v], n.pos + n.v + 1)))

RECURSIVE read_value(_, _, _, _)
RECURSIVE read_until(_, _, _, _, _, _)
read_values(buf, p, types, e) ==
    FoldLeft(LAMBDA acc, ty : Then(acc, LAMBDA done :
                Then(read_value(buf, done.pos, ty, e),
                     LAMBDA r : Ok(Append(done.v, r.v), r.pos))),
             Ok(<<>>, p), types)
\* The elements of an array that ends at end.
read_until(buf, p, end, ty, e, xs) ==
    IF p >= end THEN Check(p = end, Ok(xs, p))
    ELSE Then(read_value(buf, p, ty, e),
              LAMBDA r : read_until(buf, r.pos, end, ty, e, Append(xs, r.v)))
read_elements(buf, start, n, ty, e) ==
    Check(n <= MAX_ARRAY_LEN /\ start + n <= Len(buf),
          Then(read_until(buf, start, start + n, ty, e, <<>>),
               LAMBDA r : Ok([c |-> "a", elem |-> ty, v |-> r.v], r.pos)))
read_value(buf, p, ty, e) ==
    IF ty[1] = "a"
    THEN Then(read_number(buf, p, 4, e),
              LAMBDA n : read_elements(buf, padded(n.pos, alignment(ty[2])), n.v, ty[2], e))
    ELSE Then(CASE ty[1] \in DOMAIN Width -> read_number(buf, p, Width[ty[1]], e)
                [] ty[1] \in {"s", "o"}   -> read_raw_string(buf, p, e)
                [] ty[1] = "g"            -> read_signature_str(buf, p)
                [] ty[1] = "v"            ->
                      Then(read_signature_str(buf, p), LAMBDA s :
                          Then(parse_single_complete_type(s.v),
                               LAMBDA inner : read_value(buf, s.pos, inner.v, e)))
                [] ty[1] \in {"(", "{"}   ->
                      Check(padded(p, 8) <= Len(buf),
                            read_values(buf, padded(p, 8), Tail(ty), e)),
              LAMBDA r : Check(/\ ty[1] = "b" => r.v \in {0, 1}
                               /\ ty[1] = "o" => r.v[1] \notin BadPaths
                               /\ ty[1] = "g" => parse_signature(r.v).ok,
                               Ok([c |-> ty[1], v |-> r.v], r.pos)))

unmarshal_body(buf, sig, e) ==
    Then(parse_signature(sig), LAMBDA types : read_values(buf, 0, types.v, e))

----------------------------------------------------------------------------
(* Headers.  A field is <<code, value>>. *)

PATH == 1
INTERFACE == 2
MEMBER == 3
ERROR_NAME == 4
REPLY_SERIAL == 5
DESTINATION == 6
SENDER == 7
SIGNATURE == 8
UNIX_FDS == 9

METHOD_CALL == 1
METHOD_RETURN == 2
ERROR == 3
SIGNAL == 4

\* The values that the lookups (path(), member(), ...) find: the first field of the code.
field(m, code) == LET fs == SelectSeq(m.fields, LAMBDA f : f[1] = code)
                  IN  IF fs = <<>> THEN {} ELSE {fs[1][2].v}
unix_fds(m) == IF field(m, UNIX_FDS) = {} THEN 0 ELSE CHOOSE n \in field(m, UNIX_FDS) : TRUE
WithoutFields(m, codes) == SelectSeq(m.fields, LAMBDA f : f[1] \notin codes)

set_sender_Appends(m, s) ==
    [m EXCEPT !.fields = Append(@, <<SENDER, [c |-> "s", v |-> s]>>)]
set_sender(m, s) ==
    [m EXCEPT !.fields = Append(WithoutFields(m, {SENDER}), <<SENDER, [c |-> "s", v |-> s]>>)]

validate(m) ==
    \A code \in CASE m.message_type = METHOD_CALL   -> {PATH, MEMBER}
                  [] m.message_type = SIGNAL        -> {PATH, INTERFACE, MEMBER}
                  [] m.message_type = ERROR         -> {ERROR_NAME, REPLY_SERIAL}
                  [] m.message_type = METHOD_RETURN -> {REPLY_SERIAL} :
        field(m, code) # {}

\* A field as it is kept, none for an unknown code, Bad for a value of the wrong type.
FieldCode(code) == IF code = PATH THEN {"o"}
                   ELSE IF code = SIGNATURE THEN {"g"}
                   ELSE IF code \in {REPLY_SERIAL, UNIX_FDS} THEN {"u"} ELSE {"s", "o"}
from_code_and_value(code, x) ==
    IF code \notin 1..9 THEN Ok(<<>>, 0)
    ELSE IF x.c \notin FieldCode(code) THEN Bad
    ELSE Ok(<< <<code, IF x.c = "o" /\ code # PATH THEN [x EXCEPT !.c = "s"] ELSE x>> >>, 0)

FieldArray == <<"a", <<"(", <<"y">>, <<"v">>>>>>

FieldStructs(fields) ==
    [k \in DOMAIN fields |-> [c |-> "(", v |-> <<[c |-> "y", v |-> fields[k][1]],
                                                 [c |-> "v", v |-> fields[k][2]]>>]]

write_header(m, body_length) ==
    LET Fixed == <<IF m.big_endian THEN 66 ELSE 108, m.message_type, m.flags, m.version>>
    IN  align(write_values([k \in 1..4 |-> Cell("num", 1, FALSE, Fixed[k])], m.big_endian,
                           <<[c |-> "u", v |-> body_length], [c |-> "u", v |-> m.serial],
                             [c |-> "a", elem |-> FieldArray[2], v |-> FieldStructs(m.fields)]>>), 8)

\* Byte order, type, flags, version, body length, serial and length of the fields.
PrefixTypes == << <<"y">>, <<"y">>, <<"y">>, <<"y">>, <<"u">>, <<"u">>, <<"u">> >>
read_prefix(buf) ==
    IF Len(buf) < 16 THEN Bad
    ELSE Then(read_values(buf, 0, PrefixTypes, buf[1].v = 66), LAMBDA r :
              Check(/\ r.v[1].v \in {66, 108} /\ r.v[2].v \in 1..4 /\ r.v[4].v = 1,
                    Ok([k \in 1..7 |-> r.v[k].v], 16)))

\* The length of the frame that starts the buffer; 0 while 16 bytes have not come.
peek_frame_len(buf) ==
    IF Len(buf) < 16 THEN Ok(0, 0)
    ELSE Then(read_prefix(buf), LAMBDA r : Ok(padded(16 + r.v[7], 8) + r.v[5], 0))

\* The fields that are kept, of the structs (code, variant) that were read.
HeaderFields(structs) ==
    FoldLeft(LAMBDA acc, x : Then(acc, LAMBDA done :
                Then(from_code_and_value(x.v[1].v, x.v[2].v),
                     LAMBDA f : Ok(done.v \o f.v, 0))),
             Ok(<<>>, 0), structs)

\* A message without its body, and where the body starts.
read_header(buf) ==
    Then(read_prefix(buf), LAMBDA r :
        Then(read_value(buf, 12, FieldArray, r.v[1] = 66), LAMBDA array :
            Then(HeaderFields(array.v.v), LAMBDA fs : Check(padded(array.pos, 8) <= Len(buf),
                Ok([big_endian |-> r.v[1] = 66, message_type |-> r.v[2], flags |-> r.v[3],
                    version |-> r.v[4], serial |-> r.v[6], fields |-> fs.v,
                    body |-> r.v[5], fds |-> <<>>], padded(array.pos, 8))))))

----------------------------------------------------------------------------
(* Messages: [big_endian, message_type, flags, version, serial, fields, body, fds]. *)

NewMessage(type, fields) ==
    [big_endian |-> FALSE, message_type |-> type, flags |-> 0, version |-> 1, serial |-> 1,
     fields |-> fields, body |-> <<>>, fds |-> <<>>]
Str(code, s) == <<code, [c |-> "s", v |-> s]>>
Serial(n) == <<REPLY_SERIAL, [c |-> "u", v |-> n]>>
method_call(path, name) ==
    NewMessage(METHOD_CALL, << <<PATH, [c |-> "o", v |-> path]>>, Str(MEMBER, name)>>)
signal(path, iface, name) ==
    NewMessage(SIGNAL, << <<PATH, [c |-> "o", v |-> path]>>, Str(INTERFACE, iface),
                          Str(MEMBER, name)>>)
method_return(serial) == NewMessage(METHOD_RETURN, <<Serial(serial)>>)
error(serial, name) == NewMessage(ERROR, <<Serial(serial), Str(ERROR_NAME, name)>>)
destination(m, s) == [m EXCEPT !.fields = Append(@, Str(DESTINATION, s))]
args(m, xs) == [m EXCEPT !.body = @ \o xs]

\* A reply goes to the sender of the call, if it names one.
reply_to(call, failed) ==
    LET b == IF failed = {} THEN method_return(call.serial)
             ELSE error(call.serial, CHOOSE name \in failed : TRUE)
        sender == field(call, SENDER)
    IN  IF sender = {} THEN b ELSE destination(b, CHOOSE s \in sender : TRUE)

\* The client replaces every descriptor in the arguments by its place among those found
\* so far and sends the descriptors beside the message.
RECURSIVE ExtractWalk(_, _)
ExtractAll(xs, fds) ==
    FoldLeft(LAMBDA acc, x : LET r == ExtractWalk(x, acc.fds)
                             IN  [v |-> Append(acc.v, r.v), fds |-> r.fds],
             [v |-> <<>>, fds |-> fds], xs)
ExtractWalk(x, fds) ==
    CASE x.c = "h"               -> [v |-> [x EXCEPT !.v = Len(fds)], fds |-> Append(fds, x.v)]
      [] x.c \in {"a", "(", "{"} -> LET r == ExtractAll(x.v, fds)
                                    IN  [v |-> [x EXCEPT !.v = r.v], fds |-> r.fds]
      [] x.c = "v"               -> LET r == ExtractWalk(x.v, fds)
                                    IN  [v |-> [x EXCEPT !.v = r.v], fds |-> r.fds]
      [] OTHER                   -> [v |-> x, fds |-> fds]
extract_fds(m, xs) ==
    LET r == ExtractAll(xs, <<>>) IN [args(m, r.v) EXCEPT !.fds = @ \o r.fds]

\* The fields that to_bytes writes: the signature and the number of descriptors are its own.
OwnFields(m, sig) ==
    WithoutFields(m, {SIGNATURE, UNIX_FDS})
        \o (IF sig = <<>> THEN <<>> ELSE << <<SIGNATURE, [c |-> "g", v |-> sig]>> >>)
        \o (IF m.fds = <<>> THEN <<>> ELSE << <<UNIX_FDS, [c |-> "u", v |-> Len(m.fds)]>> >>)
Encoded(m, fields, body) == write_header([m EXCEPT !.fields = fields], Len(body)) \o body
EncodedOnce(bytes) ==
    Check(\A k \in DOMAIN bytes : bytes[k].k # "fault" /\ ~EmbeddedNul(bytes[k]), Ok(bytes, 0))
to_bytes(m) ==
    Check(parse_signature(marshal_body(m.body, FALSE).sig).ok /\ validate(m),
          EncodedOnce(Encoded(m, OwnFields(m, marshal_body(m.body, FALSE).sig),
                              marshal_body(m.body, m.big_endian).bytes)))

\* from_bytes: what the bytes say, and then whether the descriptors they declare came.
DecodedBytes(buf) ==
    Then(read_header(buf), LAMBDA h :
        Then(IF field(h.v, SIGNATURE) \subseteq {<<>>} THEN Ok(<<>>, 0)
             ELSE unmarshal_body(SubSeq(buf, h.pos + 1, h.pos + h.v.body),
                                 CHOOSE s \in field(h.v, SIGNATURE) : TRUE, h.v.big_endian),
             LAMBDA body : Ok([h.v EXCEPT !.body = body.v], 0)))
with_fds(msg, fds) ==
    Then(msg, LAMBDA m : Check(Len(fds) >= unix_fds(m.v), Ok([m.v EXCEPT !.fds = fds], 0)))
from_bytes(buf, fds) == with_fds(DecodedBytes(buf), fds)
=============================================================================
