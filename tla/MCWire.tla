------------------------------- MODULE MCWire -------------------------------
(***************************************************************************)
(* Two tasks of this code that write to one peer, and a peer of another    *)
(* implementation that writes to this code.                                *)
(***************************************************************************)
EXTENDS Wire, Letters

MCWriters == {"w1", "w2"}

V(c, v) == [c |-> c, v |-> v]
A(elem, xs) == [c |-> "a", elem |-> elem, v |-> xs]
Dict == <<"{", <<"s">>, <<"v">>>>
Root == <<"/", 1>>
Deep == <<"a", <<"a", <<"a", <<"y">>>>>>>>

Own(m) == [msg |-> m, by |-> "own", refused |-> FALSE]
OwnRefused(m) == [Own(m) EXCEPT !.refused = TRUE]
Foreign(m) == [Own(m) EXCEPT !.by = "foreign"]
ForeignRefused(m) == [Foreign(m) EXCEPT !.refused = TRUE]

Plain == signal(Root, <<"a.B", 3>>, <<"Sig", 3>>)
Call == set_sender(destination(method_call(Root, <<"Do", 2>>), <<"a.b", 3>>), <<":1.7", 4>>)
WithFds == extract_fds(Call, <<V("h", 17), A(Dict, <<V("{", <<V("s", <<"k", 1>>), V("v", V("h", 18))>>)>>)>>)
OneFd == extract_fds(Plain, <<V("v", V("h", 19))>>)
Scalars == args(reply_to(Call, {}),
                <<V("y", 1), V("x", 2), V("n", 3), V("d", 4), V("b", 1), V("g", <<"a", "y">>),
                  V("o", Root), V("s", <<"", 0>>), V("q", 7), V("t", 8), V("i", 9), V("u", 10)>>)
Nested == args(error(5, <<"a.Err", 5>>),
               <<V("y", 1), A(<<"(", <<"y">>, <<"x">>>>, <<>>), V("y", 2),
                 A(<<"y">>, <<V("y", 1), V("y", 2), V("y", 3)>>),
                 V("(", <<V("y", 1), V("v", V("v", A(<<"s">>, <<V("s", <<"w", 5>>)>>)))>>),
                 A(<<"(", <<"y">>, <<"x">>>>, <<V("(", <<V("y", 1), V("x", 2)>>), V("(", <<V("y", 3), V("x", 4)>>)>>)>>)

\* Messages that cannot be encoded, and messages that can and are refused by readers.
WithNul == args(Plain, <<V("s", <<"nul", 3>>)>>)
LongArray == args(Plain, <<A(<<"x">>, [k \in 1..16 |-> V("x", k)])>>)
LongBody == args(Plain, [k \in 1..21 |-> V("y", k)])
EmptyStruct == args(Plain, <<V("(", <<>>)>>)
DeepVariant == args(Plain, <<V("v", A(Deep[2], <<>>))>>)
TooLarge == args(Plain, [k \in 1..14 |-> V("x", k)])

\* Messages of another implementation, in the other byte order.
Big(m, sig) ==
    [m EXCEPT !.big_endian = TRUE,
              !.fields = IF sig = <<>> THEN @ ELSE Append(@, <<SIGNATURE, V("g", sig)>>)]
WithField(m, code, x) == [m EXCEPT !.fields = Append(@, <<code, x>>)]
UndeclaredFd == [Big(Plain, <<>>) EXCEPT !.fds = <<31>>]
DeclaredFd == WithField([Big(Plain, <<>>) EXCEPT !.fds = <<32>>], UNIX_FDS, V("u", 1))
MissingFd == WithField(Big(Plain, <<>>), UNIX_FDS, V("u", 1))
Odd == WithField(WithField(Big(args(Plain, <<V("u", 3)>>), <<"u">>), 10, V("y", 1)), DESTINATION, V("o", Root))
Forged == WithField(Big(Plain, <<>>), SENDER, V("s", <<":1.7", 4>>))
ForeignNul == Big(args(Plain, <<V("v", A(<<"s">>, <<V("s", <<"nul", 3>>)>>))>>), <<"v">>)
NulInField == WithField(Big(Plain, <<>>), DESTINATION, V("s", <<"nul", 3>>))
BadPathNul == Big(args(Plain, <<V("o", <<"nul", 3>>)>>), <<"o">>)
Crowded == WithField(Big(Plain, <<>>), ERROR_NAME, V("s", <<"long", 31>>))
AtLimit == Big(args(Plain, [k \in 1..11 |-> V("x", k)]), [k \in 1..11 |-> "x"])
Unforwardable == NewMessage(METHOD_CALL, <<Str(MEMBER, <<"Do", 2>>)>>)
BadBoolean == Big(args(Plain, <<V("b", 5)>>), <<"b">>)
BadPath == Big(args(Plain, <<V("o", <<"//", 2>>)>>), <<"o">>)
BadType == [Big(Plain, <<>>) EXCEPT !.message_type = 0]
BadVersion == [Big(Plain, <<>>) EXCEPT !.version = 2]
BadField == WithField(Big(Plain, <<>>), REPLY_SERIAL, V("s", <<"x", 1>>))
BadEntry == Big(args(Plain, <<V("v", V("{", <<V("y", 1), V("y", 2)>>))>>), <<"v">>)

Both(l1, l2) == [w \in MCWriters |-> IF w = "w1" THEN l1 ELSE l2]
Alone(l) == Both(l, <<>>)

Messages ==
    << Both(<<Own(WithFds), Own(OneFd)>>, <<Own(Nested)>>),
       Both(<<Own(Scalars)>>, <<Own(WithFds), Own(Plain)>>),
       Both(<<Own(WithNul), Own(Plain)>>, <<Own(LongArray), Own(EmptyStruct), Own(LongBody)>>),
       Alone(<<Own(Plain), OwnRefused(DeepVariant), Own(Plain)>>),
       Alone(<<Own(Scalars), Own(TooLarge)>>),
       Alone(<<Foreign(DeclaredFd), Foreign(UndeclaredFd), Foreign(DeclaredFd)>>),
       Alone(<<Foreign(MissingFd), Foreign(Odd)>>),
       Alone(<<Foreign(Odd), Foreign(Unforwardable), ForeignRefused(BadBoolean)>>),
       Alone(<<Foreign(Odd), ForeignRefused(BadPath)>>),
       Alone(<<Foreign(ForeignNul), Foreign(NulInField), ForeignRefused(BadPathNul)>>),
       Alone(<<Foreign(Crowded), Foreign(AtLimit), Foreign(Forged)>>),
       Alone(<<ForeignRefused(BadType)>>), Alone(<<ForeignRefused(BadVersion)>>),
       Alone(<<ForeignRefused(BadField)>>), Alone(<<ForeignRefused(BadEntry)>>) >>

MCScenarios ==
    [s \in DOMAIN Messages |->
        [w \in MCWriters |-> [i \in DOMAIN Messages[s][w] |-> OnTheWire(Messages[s][w][i])]]]

\* What the daemon accepted it can pass on: stamped with the sender's name and encoded
\* anew, a message is one frame of the length its prefix tells, and a receiver with the
\* daemon's own limit reads the same message with that one sender.  Three kinds of
\* accepted messages are not sent: those that lack a required field, those with a NUL
\* inside a string, and those whose fields are too long once the sender is added; and one
\* that the sender makes larger than the limit is refused by its receiver.
ForwardedIntact ==
    [][Len(got') > Len(got) =>
          \E m \in {set_sender(Last(got'), <<":1.1", 4>>)} : PassedOn(m, to_bytes(m), max_message_size)]_vars
=============================================================================
