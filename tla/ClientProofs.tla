---------------------------- MODULE ClientProofs ----------------------------
(***************************************************************************)
(* Proofs about a client's connection and the C interface on top of it:    *)
(* for every number of calls and every range of serials an answer reaches  *)
(* the call it answers unless the serials came around, and a message that  *)
(* C code builds goes out once at most.                                    *)
(***************************************************************************)
EXTENDS LibDBus, TLAPS

-----------------------------------------------------------------------------
(* Serials *)

\* The counter is incremented, and is zero after the last serial.
LEMMA FetchAdd ==
    ASSUME NEW v \in 1 .. (SerialRange - 1)
    PROVE  fetch_add(v) = IF v = SerialRange - 1 THEN 0 ELSE v + 1
<1>1. SerialRange \in Nat /\ SerialRange > 2 /\ v \in Nat
  BY ClientAssumption
<1>2. CASE v = SerialRange - 1
  BY <1>1, <1>2 DEF fetch_add
<1>3. CASE v # SerialRange - 1
  BY <1>1, <1>3 DEF fetch_add
<1> QED
  BY <1>2, <1>3

-----------------------------------------------------------------------------
(* The inductive invariant of the connection *)

Made == {c \in Calls : state[c] # "idle"}

Bodies == {"string", "u32", "error"}
Message == [type : {"reply"}, to : 1 .. (SerialRange - 1), of : Calls, body : Bodies]
             \cup [type : {"call"}, request : Requests]
             \cup [type : {"signal"}] \cup [type : {"garbage"}]

ClientTypes ==
    /\ taken \in Nat /\ serials \in Nat /\ NextSerial \in 1 .. (SerialRange - 1)
    /\ state = [c \in Calls |-> state[c]]
    /\ serial \in [Calls -> Nat] /\ nth \in [Calls -> Nat]
    /\ pending \in [1 .. (SerialRange - 1) -> Calls \cup {"none"}]
    /\ answer = [c \in Calls |-> answer[c]]

\* Until the serials have come around, the next serial is as far from the serial
\* of a call as serials have been taken since.
Distance(c) ==
    /\ serial[c] \in 1 .. (SerialRange - 1)
    /\ nth[c] < taken
    /\ taken - nth[c] <= SerialRange - 1 =>
          \/ NextSerial = serial[c] + (taken - nth[c])
          \/ NextSerial = serial[c] + (taken - nth[c]) - (SerialRange - 1)

\* Two calls with one serial are a whole round of serials apart.
Apart(c, d) == c # d /\ serial[c] = serial[d] /\ nth[d] <= nth[c] =>
                  nth[c] - nth[d] >= SerialRange - 1

\* What is registered for a serial is the last call that took it.
LastWaits(s) ==
    pending[s] # "none" =>
        /\ pending[s] \in Made
        /\ serial[pending[s]] = s
        /\ \A d \in Made : serial[d] = s => nth[d] <= nth[pending[s]]

\* The answers on their way carry the serial of the call they answer.
InFlight(q) ==
    /\ q \in Seq(Message)
    /\ \A i \in DOMAIN q : q[i].type = "reply" =>
          q[i].of \in Made /\ q[i].to = serial[q[i].of]

RightAnswer(c) ==
    answer[c] # NoAnswer =>
        /\ c \in Made /\ answer[c].of \in Made
        /\ answer[c].of = c \/ nth[c] - nth[answer[c].of] >= SerialRange - 1

SerialsInv == /\ \A c \in Made : Distance(c)
              /\ \A c, d \in Made : Apart(c, d)
              /\ \A s \in 1 .. (SerialRange - 1) : LastWaits(s)

ClientInv == /\ ClientTypes /\ SerialsInv
             /\ asked \subseteq Made /\ InFlight(inbound)
             /\ \A c \in Calls : RightAnswer(c)

-----------------------------------------------------------------------------
(* Steps that take a serial *)

\* A serial taken moves the next serial one further from every call, and as long
\* as it is not the serial of a call by coming around it is a new one.
LEMMA TakeSerialFacts ==
    ASSUME ClientInv, TakeSerial
    PROVE  /\ taken' = taken + 1 /\ serials' \in Nat
           /\ NextSerial' \in 1 .. (SerialRange - 1)
           /\ NextSerial' = IF NextSerial = SerialRange - 1 THEN 1 ELSE NextSerial + 1
           /\ \A c \in Made : NextSerial = serial[c] => taken - nth[c] >= SerialRange - 1
<1>1. /\ SerialRange \in Nat /\ SerialRange > 2 /\ taken \in Nat
      /\ NextSerial \in 1 .. (SerialRange - 1)
  BY ClientAssumption DEF ClientInv, ClientTypes
<1>2. serials' = IF NextSerial = SerialRange - 1 THEN 0 ELSE NextSerial + 1
  BY <1>1, FetchAdd DEF TakeSerial
<1>3. NextSerial' = IF serials' = 0 THEN 1 ELSE serials'
  BY DEF NextSerial
<1>4. ASSUME NEW c \in Made, NextSerial = serial[c]
      PROVE  taken - nth[c] >= SerialRange - 1
  <2>1. Distance(c) /\ nth[c] \in Nat
    BY DEF ClientInv, SerialsInv, ClientTypes, Made
  <2> QED
    BY <1>1, <1>4, <2>1 DEF Distance
<1> HIDE DEF NextSerial
<1>5. serials' \in Nat /\ NextSerial' \in 1 .. (SerialRange - 1)
      /\ NextSerial' = IF NextSerial = SerialRange - 1 THEN 1 ELSE NextSerial + 1
  BY <1>1, <1>2, <1>3
<1> QED
  BY <1>4, <1>5 DEF TakeSerial

\* The distances after it.
LEMMA TakeSerialDistance ==
    ASSUME ClientInv, TakeSerial, NEW c \in Made,
           serial'[c] = serial[c], nth'[c] = nth[c]
    PROVE  Distance(c)'
<1>1. /\ SerialRange \in Nat /\ SerialRange > 2 /\ taken \in Nat
      /\ NextSerial \in 1 .. (SerialRange - 1)
  BY ClientAssumption DEF ClientInv, ClientTypes
<1>2. Distance(c) /\ nth[c] \in Nat
  BY DEF ClientInv, SerialsInv, ClientTypes, Made
<1>3. /\ taken' = taken + 1
      /\ NextSerial' = IF NextSerial = SerialRange - 1 THEN 1 ELSE NextSerial + 1
  BY TakeSerialFacts
<1> QED
  BY <1>1, <1>2, <1>3 DEF Distance

\* call_method: the new call is the last that took its serial.
LEMMA CallMethodStep ==
    ASSUME ClientInv, NEW c \in Calls, call_method(c), UNCHANGED <<asked, inbound>>
    PROVE  ClientInv'
<1>1. /\ c \notin Made /\ TakeSerial /\ answer' = answer
      /\ serial' = [serial EXCEPT ![c] = NextSerial]
      /\ nth' = [nth EXCEPT ![c] = taken]
      /\ pending' = [pending EXCEPT ![NextSerial] = c]
      /\ state' = [state EXCEPT ![c] = "registered"]
  BY DEF call_method, Made
<1>2. /\ SerialRange \in Nat /\ SerialRange > 2 /\ taken \in Nat
      /\ NextSerial \in 1 .. (SerialRange - 1) /\ ClientTypes
  BY ClientAssumption DEF ClientInv, ClientTypes
<1>3. /\ taken' = taken + 1 /\ serials' \in Nat
      /\ NextSerial' \in 1 .. (SerialRange - 1)
      /\ NextSerial' = IF NextSerial = SerialRange - 1 THEN 1 ELSE NextSerial + 1
      /\ \A d \in Made : NextSerial = serial[d] => taken - nth[d] >= SerialRange - 1
  BY <1>1, TakeSerialFacts
<1> HIDE DEF NextSerial
<1>4. /\ ClientTypes' /\ Made' = Made \cup {c}
      /\ serial'[c] = NextSerial /\ nth'[c] = taken
      /\ \A d \in Made : d # c /\ d \in Calls /\ serial'[d] = serial[d] /\ nth'[d] = nth[d]
      /\ \A s \in 1 .. (SerialRange - 1) :
            pending'[s] = IF s = NextSerial THEN c ELSE pending[s]
  <2>1. ClientTypes'
    <3>1. taken' \in Nat
      BY <1>2, <1>3
    <3>2. serial' \in [Calls -> Nat] /\ nth' \in [Calls -> Nat]
      BY <1>1, <1>2 DEF ClientTypes
    <3>3. pending' \in [1 .. (SerialRange - 1) -> Calls \cup {"none"}]
      BY <1>1, <1>2 DEF ClientTypes
    <3>4. state' = [d \in Calls |-> state'[d]] /\ answer' = [d \in Calls |-> answer'[d]]
      BY <1>1, <1>2 DEF ClientTypes
    <3> QED
      BY <1>3, <3>1, <3>2, <3>3, <3>4 DEF ClientTypes
  <2>2. Made' = Made \cup {c}
    BY <1>1, <1>2 DEF ClientTypes, Made
  <2> QED
    BY <1>1, <1>2, <2>1, <2>2, SMTT(30) DEF ClientTypes, Made
<1>5. \A d \in Made' : Distance(d)'
  <2>1. Distance(c)'
    BY <1>2, <1>3, <1>4 DEF Distance
  <2>2. ASSUME NEW d \in Made PROVE Distance(d)'
    BY <1>1, <1>4, <2>2, TakeSerialDistance
  <2> QED
    BY <1>4, <2>1, <2>2
<1>6. \A d \in Made : nth[d] \in Nat /\ nth[d] < taken
  BY DEF ClientInv, ClientTypes, SerialsInv, Distance, Made
<1>7. \A d, e \in Made' : Apart(d, e)'
  <2>1. ASSUME NEW d \in Made PROVE Apart(c, d)' /\ Apart(d, c)'
    BY <1>2, <1>3, <1>4, <1>6, <2>1 DEF Apart
  <2>2. ASSUME NEW d \in Made, NEW e \in Made PROVE Apart(d, e)'
    <3>1. Apart(d, e)
      BY <2>2 DEF ClientInv, SerialsInv
    <3> QED
      BY <1>4, <2>2, <3>1 DEF Apart
  <2>3. Apart(c, c)'
    BY DEF Apart
  <2> QED
    BY <1>4, <2>1, <2>2, <2>3
<1>8. \A s \in 1 .. (SerialRange - 1) : LastWaits(s)'
  <2> SUFFICES ASSUME NEW s \in 1 .. (SerialRange - 1) PROVE LastWaits(s)'
    OBVIOUS
  <2>1. CASE s = NextSerial
    <3>1. \A d \in Made' : nth'[d] <= taken
      BY <1>2, <1>4, <1>6
    <3> QED
      BY <1>4, <2>1, <3>1 DEF LastWaits
  <2>2. CASE s # NextSerial
    <3>1. LastWaits(s)
      BY DEF ClientInv, SerialsInv
    <3> QED
      BY <1>4, <2>2, <3>1 DEF LastWaits
  <2> QED
    BY <2>1, <2>2
<1>9. \A d \in Calls : RightAnswer(d)'
  BY <1>1, <1>4 DEF ClientInv, RightAnswer
<1>10. InFlight(inbound)' /\ (asked \subseteq Made)'
  BY <1>4 DEF ClientInv, InFlight, Message
<1> QED
  BY <1>4, <1>5, <1>7, <1>8, <1>9, <1>10 DEF ClientInv, SerialsInv

\* A message without an answer takes a serial and registers nothing.
LEMMA NoReplyStep ==
    ASSUME ClientInv, send_no_reply
    PROVE  ClientInv'
<1>1. TakeSerial /\ UNCHANGED <<pending, state, serial, nth, answer, asked, inbound>>
  BY DEF send_no_reply, remote
<1>2. /\ taken' = taken + 1 /\ serials' \in Nat
      /\ NextSerial' \in 1 .. (SerialRange - 1)
  BY <1>1, TakeSerialFacts
<1> HIDE DEF NextSerial
<1>3. ClientTypes' /\ Made' = Made
  <2>1. taken' \in Nat
    BY <1>2 DEF ClientInv, ClientTypes
  <2> QED
    BY <1>1, <1>2, <2>1 DEF ClientInv, ClientTypes, Made
<1>4. \A d \in Made' : Distance(d)'
  BY <1>1, <1>3, TakeSerialDistance
<1>5. /\ \A c, d \in Made' : Apart(c, d)'
      /\ \A s \in 1 .. (SerialRange - 1) : LastWaits(s)'
  BY <1>1, <1>3 DEF ClientInv, SerialsInv, Apart, LastWaits
<1>6. /\ (asked \subseteq Made)' /\ InFlight(inbound)'
      /\ \A c \in Calls : RightAnswer(c)'
  BY <1>1, <1>3 DEF ClientInv, InFlight, RightAnswer, Message
<1> QED
  BY <1>3, <1>4, <1>5, <1>6 DEF ClientInv, SerialsInv

-----------------------------------------------------------------------------
(* Steps that take none *)

\* What every other step does at most: calls stay made, and what is registered
\* for a serial may go.
Steady ==
    /\ UNCHANGED <<serials, taken, serial, nth>>
    /\ Made' = Made
    /\ state' = [c \in Calls |-> state'[c]]
    /\ answer' = [c \in Calls |-> answer'[c]]
    /\ pending' \in [1 .. (SerialRange - 1) -> Calls \cup {"none"}]
    /\ \A s \in 1 .. (SerialRange - 1) : pending'[s] \in {pending[s], "none"}

\* Such a step keeps what is said of serials; the rest is what it does to the
\* answers and to what is on its way.
LEMMA SteadyStep ==
    ASSUME ClientInv, Steady, asked' \subseteq Made, InFlight(inbound'),
           answer' = answer \/ \A c \in Calls : RightAnswer(c)'
    PROVE  ClientInv'
<1>1. ClientTypes'
  BY DEF ClientInv, ClientTypes, Steady, NextSerial
<1>2. \A c \in Made' : Distance(c)'
  BY DEF ClientInv, SerialsInv, Steady, Distance, NextSerial
<1>3. \A c, d \in Made' : Apart(c, d)'
  BY DEF ClientInv, SerialsInv, Steady, Apart
<1>4. ASSUME NEW s \in 1 .. (SerialRange - 1) PROVE LastWaits(s)'
  BY <1>4 DEF ClientInv, SerialsInv, Steady, LastWaits
<1>5. InFlight(inbound)' /\ (asked \subseteq Made)'
  BY DEF Steady, InFlight, Message
<1>6. \A c \in Calls : RightAnswer(c)'
  BY DEF ClientInv, Steady, RightAnswer
<1> QED
  BY <1>1, <1>2, <1>3, <1>4, <1>5, <1>6 DEF ClientInv, SerialsInv

\* What is left on the way when the first message is read.
LEMMA ReadInFlight ==
    ASSUME NEW q, InFlight(q), q # <<>>
    PROVE  /\ InFlight(Tail(q)) /\ Head(q) \in Message
           /\ Head(q).type = "reply" =>
                 /\ Head(q).of \in Made /\ Head(q).to = serial[Head(q).of]
                 /\ Head(q).to \in 1 .. (SerialRange - 1)
<1>1. /\ q \in Seq(Message) /\ Len(q) \in Nat /\ Len(q) >= 1 /\ DOMAIN q = 1 .. Len(q)
      /\ Head(q) = q[1] /\ 1 \in DOMAIN q
  BY DEF InFlight
<1>2. /\ Tail(q) \in Seq(Message) /\ DOMAIN Tail(q) = 1 .. (Len(q) - 1)
      /\ \A i \in 1 .. (Len(q) - 1) : Tail(q)[i] = q[i + 1] /\ i + 1 \in DOMAIN q
  BY <1>1
<1>3. InFlight(Tail(q))
  BY <1>2 DEF InFlight
<1>4. Head(q) \in Message
  BY <1>1
<1>5. Head(q).type = "reply" => Head(q).to \in 1 .. (SerialRange - 1)
  BY <1>4 DEF Message
<1> QED
  BY <1>1, <1>3, <1>4, <1>5 DEF InFlight

\* A message more on the way.
LEMMA SendInFlight ==
    ASSUME NEW q, InFlight(q), NEW m \in Message,
           m.type = "reply" => m.of \in Made /\ m.to = serial[m.of]
    PROVE  InFlight(Append(q, m))
<1>1. q \in Seq(Message) /\ Len(q) \in Nat /\ DOMAIN q = 1 .. Len(q)
  BY DEF InFlight
<1>2. /\ Append(q, m) \in Seq(Message) /\ DOMAIN Append(q, m) = 1 .. (Len(q) + 1)
      /\ Append(q, m)[Len(q) + 1] = m
      /\ \A i \in 1 .. Len(q) : Append(q, m)[i] = q[i]
  BY <1>1
<1> QED
  BY <1>1, <1>2 DEF InFlight

\* A step that leaves the calls alone.
LEMMA CallsAlone ==
    ASSUME ClientInv, UNCHANGED <<serials, taken, serial, nth, pending, state, answer>>
    PROVE  Steady
  BY DEF ClientInv, ClientTypes, Steady, Made

\* A step that moves one call on.
LEMMA CallMovesOn ==
    ASSUME ClientInv, NEW c \in Made, NEW x, x # "idle",
           state' = [state EXCEPT ![c] = x],
           UNCHANGED <<serials, taken, serial, nth, answer>>,
           pending' = pending \/ pending' = [pending EXCEPT ![serial[c]] = "none"]
    PROVE  Steady
<1>1. /\ c \in Calls /\ state = [d \in Calls |-> state[d]]
      /\ pending \in [1 .. (SerialRange - 1) -> Calls \cup {"none"}]
      /\ answer = [d \in Calls |-> answer[d]]
  BY DEF ClientInv, ClientTypes, Made
<1>2. state' = [d \in Calls |-> state'[d]] /\ answer' = [d \in Calls |-> answer'[d]]
  BY <1>1
<1>3. Made' = Made
  BY <1>1 DEF Made
<1>4. /\ pending' \in [1 .. (SerialRange - 1) -> Calls \cup {"none"}]
      /\ \A s \in 1 .. (SerialRange - 1) : pending'[s] \in {pending[s], "none"}
  BY <1>1
<1> QED
  BY <1>2, <1>3, <1>4 DEF Steady

\* The steps of a call: a written call is one the peer may answer.
LEMMA CallStep ==
    ASSUME ClientInv, NEW c \in Calls,
           write_message(c) \/ await_reply(c) \/ Timeout(c) \/ bus_hello(c)
    PROVE  ClientInv'
<1>1. c \in Made /\ inbound' = inbound /\ answer' = answer /\ asked' \subseteq Made
  BY DEF write_message, await_reply, Timeout, bus_hello, remote, Made, ClientInv
<1>2. Steady
  <2>1. CASE write_message(c)
    BY <1>1, <2>1, CallMovesOn DEF write_message
  <2>2. CASE await_reply(c)
    <3>1. UNCHANGED <<serials, taken, serial, nth, answer, pending>>
      BY <2>2 DEF await_reply
    <3>2. \E x \in {"ok", "error", "closed"} : state' = [state EXCEPT ![c] = x]
      BY <2>2 DEF await_reply, result
    <3> QED
      BY <1>1, <3>1, <3>2, CallMovesOn
  <2>3. CASE Timeout(c)
    BY <1>1, <2>3, CallMovesOn DEF Timeout
  <2>4. CASE bus_hello(c)
    BY <2>4, CallsAlone DEF bus_hello
  <2> QED
    BY <2>1, <2>2, <2>3, <2>4
<1> QED
  BY <1>1, <1>2, SteadyStep DEF ClientInv

\* The reader hands an answer to the last call that took its serial: the call it
\* answers, or one that came a whole round later.
LEMMA ReadReplyStep ==
    ASSUME ClientInv, inbound # <<>>, ReadReply(Head(inbound)), inbound' = Tail(inbound),
           asked' = asked
    PROVE  ClientInv'
<1> DEFINE m == Head(inbound)
           c == pending[m.to]
<1>1. /\ InFlight(inbound') /\ m.of \in Made /\ m.to = serial[m.of]
      /\ m.to \in 1 .. (SerialRange - 1) /\ m.type = "reply" /\ m \in Message
  BY ReadInFlight DEF ClientInv, ReadReply
<1>2. /\ pending' = [pending EXCEPT ![m.to] = "none"]
      /\ UNCHANGED <<serials, taken, state, serial, nth>>
      /\ answer' = IF c = "none" THEN answer
                   ELSE [answer EXCEPT ![c] = [of |-> m.of, body |-> m.body]]
  BY DEF ReadReply
<1> HIDE DEF m
<1>3. ClientTypes /\ asked' \subseteq Made
  BY DEF ClientInv
<1>4. Steady
  BY <1>1, <1>2, <1>3 DEF ClientTypes, Steady, Made
<1>5. CASE c = "none"
  BY <1>1, <1>2, <1>3, <1>4, <1>5, SteadyStep
<1>6. CASE c # "none"
  <2>1. /\ c \in Made /\ serial[c] = m.to /\ nth[m.of] <= nth[c]
    BY <1>1, <1>6 DEF ClientInv, SerialsInv, LastWaits
  <2>2. m.of = c \/ nth[c] - nth[m.of] >= SerialRange - 1
    BY <1>1, <2>1 DEF ClientInv, SerialsInv, Apart
  <2>3. /\ answer'[c].of = m.of
        /\ \A d \in Calls : d # c => answer'[d] = answer[d]
    BY <1>2, <1>3, <1>6, <2>1 DEF ClientTypes, Made
  <2> HIDE DEF c
  <2>4. ASSUME NEW d \in Calls PROVE RightAnswer(d)'
    <3>1. CASE d = c
      BY <1>1, <1>4, <2>1, <2>2, <2>3, <3>1 DEF RightAnswer, Steady
    <3>2. CASE d # c
      BY <1>4, <2>3, <3>2 DEF ClientInv, RightAnswer, Steady
    <3> QED
      BY <3>1, <3>2
  <2> QED
    BY <1>1, <1>3, <1>4, <2>4, SteadyStep
<1> QED
  BY <1>5, <1>6

\* The other steps of the reader.
LEMMA ReaderStep ==
    ASSUME ClientInv, handle_incoming \/ HandlerReturns \/ ReaderEnds
    PROVE  ClientInv'
<1>1. CASE handle_incoming
  <2>1. inbound # <<>> /\ inbound' = Tail(inbound) /\ asked' = asked
    BY <1>1 DEF handle_incoming
  <2>2. CASE ReadReply(Head(inbound))
    BY <2>1, <2>2, ReadReplyStep
  <2>3. CASE ReadSignal(Head(inbound)) \/ ReadCall(Head(inbound))
    <3>1. UNCHANGED <<serials, taken, serial, nth, pending, state, answer>>
      BY <2>3 DEF ReadSignal, ReadCall, calling
    <3>2. Steady
      BY <3>1, CallsAlone
    <3>3. InFlight(inbound')
      BY <2>1, ReadInFlight DEF ClientInv
    <3> QED
      BY <2>1, <3>1, <3>2, <3>3, SteadyStep DEF ClientInv
  <2> QED
    BY <1>1, <2>2, <2>3 DEF handle_incoming
<1>2. CASE HandlerReturns
  <2>1. UNCHANGED <<serials, taken, serial, nth, pending, state, answer, inbound, asked>>
    BY <1>2 DEF HandlerReturns, calling, remote
  <2>2. Steady
    BY <2>1, CallsAlone
  <2> QED
    BY <2>1, <2>2, SteadyStep DEF ClientInv
<1>3. CASE ReaderEnds
  <2>1. /\ UNCHANGED <<serials, taken, serial, nth, state, answer, asked>>
        /\ pending' = [s \in DOMAIN pending |-> "none"]
    BY <1>3 DEF ReaderEnds, clear
  <2>2. Steady
    BY <2>1 DEF ClientInv, ClientTypes, Steady, Made
  <2>3. InFlight(inbound')
    <3>1. CASE inbound' = inbound
      BY <3>1 DEF ClientInv
    <3>2. CASE inbound # <<>> /\ inbound' = Tail(inbound)
      BY <3>2, ReadInFlight DEF ClientInv
    <3> QED
      BY <1>3, <3>1, <3>2 DEF ReaderEnds
  <2> QED
    BY <2>1, <2>2, <2>3, SteadyStep DEF ClientInv
<1> QED
  BY <1>1, <1>2, <1>3

\* The peer: an answer carries the serial of the call.
LEMMA PeerStep ==
    ASSUME ClientInv,
           \/ \E c \in Calls : PeerAnswers(c)
           \/ \E r \in Requests : PeerCalls(r)
           \/ PeerSignals \/ PeerBreaks \/ PeerCloses
    PROVE  ClientInv'
<1>1. UNCHANGED <<serials, taken, serial, nth, pending, state, answer>>
  BY DEF PeerAnswers, PeerCalls, PeerSignals, PeerBreaks, PeerCloses, calling
<1>2. Steady
  BY <1>1, CallsAlone
<1>3. asked' \subseteq Made
  BY DEF ClientInv, PeerAnswers, PeerCalls, PeerSignals, PeerBreaks, PeerCloses
<1>4. InFlight(inbound')
  <2>1. ASSUME NEW c \in Calls, PeerAnswers(c) PROVE InFlight(inbound')
    <3>1. PICK b \in Plan[c].answers :
             inbound' = Append(inbound, [type |-> "reply", to |-> serial[c], of |-> c, body |-> b])
      BY <2>1 DEF PeerAnswers, Deliver
    <3> DEFINE m == [type |-> "reply", to |-> serial[c], of |-> c, body |-> b]
    <3>2. c \in Made /\ serial[c] \in 1 .. (SerialRange - 1)
      BY <2>1 DEF PeerAnswers, ClientInv, SerialsInv, Distance
    <3>3. b \in Bodies
      BY ClientAssumption DEF Bodies
    <3>4. m \in Message
      BY <3>2, <3>3 DEF Message
    <3>5. m.of = c /\ m.to = serial[c]
      OBVIOUS
    <3> HIDE DEF m
    <3>6. InFlight(Append(inbound, m))
      BY <3>2, <3>4, <3>5, SendInFlight DEF ClientInv
    <3> QED
      BY <3>1, <3>6 DEF m
  <2>2. ASSUME NEW r \in Requests, PeerCalls(r) PROVE InFlight(inbound')
    <3> DEFINE m == [type |-> "call", request |-> r]
    <3>1. m \in Message /\ m.type = "call"
      BY DEF Message
    <3>2. inbound' = Append(inbound, m)
      BY <2>2 DEF PeerCalls, Deliver
    <3> HIDE DEF m
    <3> QED
      BY <3>1, <3>2, SendInFlight DEF ClientInv
  <2>3. ASSUME NEW t \in {"signal", "garbage"}, inbound' = Append(inbound, [type |-> t])
        PROVE  InFlight(inbound')
    <3> DEFINE m == [type |-> t]
    <3>1. m \in Message /\ m.type # "reply"
      BY DEF Message
    <3> HIDE DEF m
    <3>2. InFlight(Append(inbound, m))
      BY <3>1, SendInFlight DEF ClientInv
    <3> QED
      BY <2>3, <3>2 DEF m
  <2>4. CASE PeerCloses
    BY <2>4 DEF PeerCloses, ClientInv
  <2> QED
    BY <2>1, <2>2, <2>3, <2>4 DEF PeerSignals, PeerBreaks, Deliver
<1> QED
  BY <1>1, <1>2, <1>3, <1>4, SteadyStep

\* Every step of the connection.
LEMMA ClientStep == ClientInv /\ (ClientNext \/ UNCHANGED clientVars) => ClientInv'
<1> SUFFICES ASSUME ClientInv, ClientNext \/ UNCHANGED clientVars PROVE ClientInv'
  OBVIOUS
<1>0. ASSUME UNCHANGED <<calling, remote>> PROVE ClientInv'
  <2>1. UNCHANGED <<serials, taken, serial, nth, pending, state, answer, inbound, asked>>
    BY <1>0 DEF calling, remote
  <2>2. Steady
    BY <2>1, CallsAlone
  <2> QED
    BY <2>1, <2>2, SteadyStep DEF ClientInv
<1>1. ASSUME NEW c \in Calls, StartCall(c) \/ HandlerCalls(c) PROVE ClientInv'
  BY <1>1, CallMethodStep DEF StartCall, HandlerCalls, remote
<1>2. ASSUME NEW c \in Calls,
             write_message(c) \/ await_reply(c) \/ Timeout(c) \/ bus_hello(c)
      PROVE  ClientInv'
  BY <1>2, CallStep
<1>3. CASE send_no_reply
  BY <1>3, NoReplyStep
<1>4. ASSUME NEW p \in Paths, NEW i \in Interfaces, register(p, i) \/ unregister(p, i)
      PROVE  ClientInv'
  BY <1>0, <1>4 DEF register, unregister
<1>5. CASE handle_incoming \/ HandlerReturns \/ ReaderEnds
  BY <1>5, ReaderStep
<1>6. CASE dbus_connection_ref \/ dbus_connection_unref
  BY <1>0, <1>6 DEF dbus_connection_ref, dbus_connection_unref
<1>7. CASE \/ \E c \in Calls : PeerAnswers(c)
           \/ \E r \in Requests : PeerCalls(r)
           \/ PeerSignals \/ PeerBreaks \/ PeerCloses
  BY <1>7, PeerStep
<1>8. CASE UNCHANGED clientVars
  BY <1>0, <1>8 DEF clientVars
<1> QED
  BY <1>1, <1>2, <1>3, <1>4, <1>5, <1>6, <1>7, <1>8 DEF ClientNext

-----------------------------------------------------------------------------
(* Messages of C code *)

OutMessage == [dir : {"out"}, kind : {"method_call", "signal", "method_return", "error"},
               filled : BOOLEAN, args : 0 .. 1, no : Nat, taken : BOOLEAN]

\* A message that still has its contents was never handed over, and a call that
\* lost them was taken by a send.
SlotOK(s) ==
    cmsg[s].dir = "out" =>
        /\ cmsg[s] \in OutMessage
        /\ cmsg[s].no < built
        /\ cmsg[s].filled => wire[cmsg[s].no] = 0
        /\ cmsg[s].kind = "method_call" => cmsg[s].filled \/ cmsg[s].taken

\* Two pointers are never to one message.
OwnMessage(s, t) == cmsg[s].dir = "out" /\ cmsg[t].dir = "out" /\ cmsg[s].no = cmsg[t].no => s = t

WireOK ==
    /\ built \in 0 .. MaxBuilt
    /\ wire \in [0 .. (MaxBuilt - 1) -> Nat]
    /\ \A n \in 0 .. (MaxBuilt - 1) : wire[n] <= 1 /\ (n >= built => wire[n] = 0)

ReturnedOK ==
    /\ returned \in [value : {"none", "null", "waits", "message", "true", "false"},
                     error : BOOLEAN, again : BOOLEAN]
    /\ returned.value = "null" => returned.error \/ returned.again

LibInv == /\ cmsg = [s \in Slots |-> cmsg[s]]
          /\ \A s \in Slots : SlotOK(s)
          /\ \A s, t \in Slots : OwnMessage(s, t)
          /\ WireOK /\ ReturnedOK

\* A new message: its number is one that no message has.
LEMMA BuildStep ==
    ASSUME LibInv, NEW m \in OutMessage, m.no = built, m.kind = "method_call" => m.filled,
           Build(m)
    PROVE  LibInv'
<1>1. /\ cmsg' = [cmsg EXCEPT ![Min(Free)] = m] /\ built' = built + 1 /\ built < MaxBuilt
      /\ UNCHANGED <<returned, wire>>
  BY DEF Build
<1>2. /\ cmsg = [s \in Slots |-> cmsg[s]] /\ WireOK /\ built \in Nat /\ MaxBuilt \in Nat
  BY LibAssumption DEF LibInv, WireOK
<1>3. \A s \in Slots : cmsg'[s] = m \/ (s # Min(Free) /\ cmsg'[s] = cmsg[s])
  BY <1>1, <1>2
<1>4. cmsg' = [s \in Slots |-> cmsg'[s]]
  BY <1>1, <1>2
<1>5. m.dir = "out" /\ wire[m.no] = 0
  BY <1>1, <1>2 DEF OutMessage, WireOK
<1>6. WireOK' /\ ReturnedOK'
  BY <1>1, <1>2 DEF WireOK, LibInv, ReturnedOK
<1>7. ASSUME NEW s \in Slots PROVE SlotOK(s)'
  <2>1. CASE cmsg'[s] = m
    BY <1>1, <1>2, <1>5, <2>1 DEF SlotOK
  <2>2. CASE cmsg'[s] = cmsg[s]
    <3>1. SlotOK(s)
      BY DEF LibInv
    <3>2. cmsg[s].dir = "out" => cmsg[s].no \in Nat
      BY <3>1 DEF SlotOK, OutMessage
    <3> QED
      BY <1>1, <1>2, <2>2, <3>1, <3>2 DEF SlotOK
  <2> QED
    BY <1>3, <2>1, <2>2
<1>8. ASSUME NEW s \in Slots, NEW t \in Slots PROVE OwnMessage(s, t)'
  <2>1. \A r \in Slots : cmsg[r].dir = "out" => cmsg[r].no # m.no
    BY <1>2 DEF LibInv, SlotOK, OutMessage
  <2>2. \A r \in Slots : cmsg'[r] = cmsg[r] \/ (r = Min(Free) /\ cmsg'[r] = m)
    BY <1>1, <1>2
  <2> QED
    BY <1>8, <2>1, <2>2 DEF LibInv, OwnMessage
<1> QED
  BY <1>4, <1>6, <1>7, <1>8 DEF LibInv

\* Taking the contents out of a message.
LEMMA TakeFacts ==
    ASSUME LibInv, NEW s \in Slots, cmsg[s].dir = "out", take_outgoing(s)
    PROVE  /\ cmsg' = [t \in Slots |-> cmsg'[t]]
           /\ \A t \in Slots \ {s} : cmsg'[t] = cmsg[t]
           /\ cmsg'[s] \in OutMessage
           /\ cmsg'[s].dir = "out" /\ cmsg'[s].no = cmsg[s].no /\ cmsg[s].no \in Nat
           /\ cmsg'[s].filled = FALSE /\ cmsg'[s].taken = TRUE
<1>1. cmsg = [t \in Slots |-> cmsg[t]] /\ cmsg[s] \in OutMessage
  BY DEF LibInv, SlotOK
<1>2. cmsg' = [cmsg EXCEPT ![s].filled = FALSE, ![s].args = 0, ![s].taken = TRUE]
  BY DEF take_outgoing
<1>3. cmsg' = [t \in Slots |-> cmsg'[t]] /\ \A t \in Slots \ {s} : cmsg'[t] = cmsg[t]
  BY <1>1, <1>2
<1>4. cmsg'[s] = [cmsg[s] EXCEPT !.filled = FALSE, !.args = 0, !.taken = TRUE]
  BY <1>1, <1>2
<1> DEFINE m == cmsg[s]
           n == [dir |-> "out", kind |-> m.kind, filled |-> FALSE, args |-> 0,
                 no |-> m.no, taken |-> TRUE]
<1>5. m \in OutMessage /\ m.no \in Nat /\ cmsg'[s] = [m EXCEPT !.filled = FALSE, !.args = 0, !.taken = TRUE]
  BY <1>1, <1>4 DEF OutMessage
<1> HIDE DEF m
<1>6. [m EXCEPT !.filled = FALSE, !.args = 0, !.taken = TRUE] = n
  BY <1>5 DEF OutMessage
<1>7. n \in OutMessage
  BY <1>5 DEF OutMessage
<1>8. n.dir = "out" /\ n.no = m.no /\ n.filled = FALSE /\ n.taken = TRUE
  OBVIOUS
<1> HIDE DEF n
<1> QED
  BY <1>3, <1>5, <1>6, <1>7, <1>8 DEF m

\* A taken message is handed over at most once: it had its contents, so it had
\* not been handed over before.
LEMMA TakeStep ==
    ASSUME LibInv, NEW s \in Slots, cmsg[s].dir = "out", take_outgoing(s), built' = built,
           \/ wire' = wire
           \/ cmsg[s].filled /\ HandOver(s),
           ReturnedOK'
    PROVE  LibInv'
<1>1. /\ cmsg' = [t \in Slots |-> cmsg'[t]]
      /\ \A t \in Slots \ {s} : cmsg'[t] = cmsg[t]
      /\ cmsg'[s] \in OutMessage
      /\ cmsg'[s].dir = "out" /\ cmsg'[s].no = cmsg[s].no /\ cmsg[s].no \in Nat
      /\ cmsg'[s].filled = FALSE /\ cmsg'[s].taken = TRUE
  BY TakeFacts
<1>2. WireOK /\ built \in Nat /\ MaxBuilt \in Nat /\ built <= MaxBuilt /\ SlotOK(s)
  BY LibAssumption DEF LibInv, WireOK
<1>3. cmsg[s].no < built /\ cmsg[s].no \in 0 .. (MaxBuilt - 1)
  BY <1>1, <1>2 DEF SlotOK
<1>4. WireOK' /\ \A n \in 0 .. (MaxBuilt - 1) : n # cmsg[s].no => wire'[n] = wire[n]
  <2>1. CASE wire' = wire
    BY <1>2, <2>1 DEF WireOK
  <2>2. CASE cmsg[s].filled /\ HandOver(s)
    <3>1. wire[cmsg[s].no] = 0 /\ wire' = [wire EXCEPT ![cmsg[s].no] = wire[cmsg[s].no] + 1]
      BY <1>2, <2>2 DEF SlotOK, HandOver
    <3>2. wire' = [wire EXCEPT ![cmsg[s].no] = 1]
      BY <3>1
    <3> QED
      BY <1>2, <1>3, <3>2 DEF WireOK
  <2> QED
    BY <2>1, <2>2
<1>5. ASSUME NEW t \in Slots PROVE SlotOK(t)'
  <2>1. CASE t = s
    BY <1>1, <1>3, <2>1 DEF SlotOK
  <2>2. CASE t # s
    <3>1. SlotOK(t) /\ cmsg'[t] = cmsg[t] /\ OwnMessage(t, s)
      BY <1>1, <2>2 DEF LibInv
    <3>2. CASE cmsg[t].dir = "out"
      <4>1. cmsg[t].no \in 0 .. (MaxBuilt - 1)
        BY <1>2, <3>1, <3>2 DEF SlotOK, OutMessage
      <4>2. cmsg[t].no # cmsg[s].no
        BY <2>2, <3>1, <3>2 DEF OwnMessage
      <4>3. wire'[cmsg[t].no] = wire[cmsg[t].no]
        BY <1>4, <4>1, <4>2
      <4> QED
        BY <3>1, <3>2, <4>3 DEF SlotOK
    <3>3. CASE cmsg[t].dir # "out"
      BY <3>1, <3>3 DEF SlotOK
    <3> QED
      BY <3>2, <3>3
  <2> QED
    BY <2>1, <2>2
<1>6. \A t, u \in Slots : OwnMessage(t, u)'
  BY <1>1 DEF LibInv, OwnMessage
<1> QED
  BY <1>1, <1>4, <1>5, <1>6 DEF LibInv

\* What a send returns: NULL only with the error set, or for a message that an
\* earlier send has taken.
LEMMA ReturnFacts ==
    ASSUME LibInv, NEW s \in Slots, NEW v \in {"null", "waits", "true", "false"},
           NEW e \in BOOLEAN, Return(s, v, e),
           v = "null" => e \/ (cmsg[s].dir = "out" /\ cmsg[s].taken)
    PROVE  ReturnedOK'
<1> DEFINE a == cmsg[s].dir = "out" /\ cmsg[s].taken
<1>1. returned' = [value |-> v, error |-> e, again |-> a]
  BY DEF Return
<1>2. a \in BOOLEAN /\ (v = "null" => e \/ a)
  OBVIOUS
<1> HIDE DEF a
<1>3. returned' \in [value : {"none", "null", "waits", "message", "true", "false"},
                     error : BOOLEAN, again : BOOLEAN]
  BY <1>1, <1>2
<1>4. returned'.value = v /\ returned'.error = e /\ returned'.again = a
  BY <1>1
<1> QED
  BY <1>2, <1>3, <1>4 DEF ReturnedOK

\* A pointer that is dropped, or given to a message that came in.
LEMMA OtherSlotStep ==
    ASSUME LibInv, NEW x, NEW m, m.dir # "out", cmsg' = [cmsg EXCEPT ![x] = m],
           UNCHANGED <<built, wire>>, ReturnedOK'
    PROVE  LibInv'
<1>1. cmsg = [s \in Slots |-> cmsg[s]]
  BY DEF LibInv
<1>2. cmsg' = [s \in Slots |-> cmsg'[s]] /\ \A s \in Slots : cmsg'[s] \in {m, cmsg[s]}
  BY <1>1
<1>3. WireOK'
  BY DEF LibInv, WireOK
<1>4. \A s \in Slots : SlotOK(s)'
  BY <1>2 DEF LibInv, SlotOK
<1>5. \A s, t \in Slots : OwnMessage(s, t)'
  BY <1>2 DEF LibInv, OwnMessage
<1> QED
  BY <1>2, <1>3, <1>4, <1>5 DEF LibInv

\* Filling a message again leaves its number and what was taken of it.
LEMMA AppendStep ==
    ASSUME LibInv, NEW s \in Slots, dbus_message_iter_append_basic(s)
    PROVE  LibInv'
<1>1. /\ cmsg[s].dir = "out" /\ cmsg' = [cmsg EXCEPT ![s].args = 1]
      /\ UNCHANGED <<built, returned, wire>>
  BY DEF dbus_message_iter_append_basic
<1>2. cmsg = [t \in Slots |-> cmsg[t]] /\ cmsg[s] \in OutMessage /\ SlotOK(s)
  BY <1>1 DEF LibInv, SlotOK
<1>3. /\ cmsg' = [t \in Slots |-> cmsg'[t]] /\ \A t \in Slots \ {s} : cmsg'[t] = cmsg[t]
      /\ cmsg'[s] = [cmsg[s] EXCEPT !.args = 1]
  BY <1>1, <1>2
<1> DEFINE m == cmsg[s]
           n == [dir |-> "out", kind |-> m.kind, filled |-> m.filled, args |-> 1,
                 no |-> m.no, taken |-> m.taken]
<1>4. m \in OutMessage /\ cmsg'[s] = [m EXCEPT !.args = 1]
  BY <1>2, <1>3
<1> HIDE DEF m
<1>5. [m EXCEPT !.args = 1] = n /\ n \in OutMessage
  BY <1>4 DEF OutMessage
<1>6. n.dir = "out" /\ n.no = m.no /\ n.filled = m.filled /\ n.taken = m.taken
      /\ n.kind = m.kind
  OBVIOUS
<1> HIDE DEF n
<1>7. WireOK' /\ ReturnedOK'
  BY <1>1 DEF LibInv, WireOK, ReturnedOK
<1>8. SlotOK(s)'
  BY <1>1, <1>2, <1>4, <1>5, <1>6 DEF SlotOK, m
<1>9. \A t \in Slots \ {s} : SlotOK(t)'
  BY <1>1, <1>3 DEF LibInv, SlotOK
<1>10. \A t \in Slots : cmsg'[t].dir = cmsg[t].dir /\ cmsg'[t].no = cmsg[t].no
  BY <1>1, <1>3, <1>4, <1>5, <1>6 DEF m
<1>11. \A t, u \in Slots : OwnMessage(t, u)'
  BY <1>10 DEF LibInv, OwnMessage
<1> QED
  BY <1>3, <1>7, <1>8, <1>9, <1>11 DEF LibInv

\* A refused send: not a message to send sets the error, and a call without
\* contents was taken before.
LEMMA RefusedStep ==
    ASSUME LibInv, NEW s \in Slots, send_refused(s)
    PROVE  LibInv'
<1>1. UNCHANGED <<built, wire>>
  BY DEF send_refused
<1>2. CASE cmsg[s].dir = "in" /\ Return(s, "null", TRUE) /\ UNCHANGED cmsg
  <2>1. ReturnedOK'
    BY <1>2, ReturnFacts
  <2> QED
    BY <1>1, <1>2, <2>1 DEF LibInv, SlotOK, OwnMessage, WireOK
<1>3. CASE cmsg[s].dir = "out" /\ take_outgoing(s) /\ Return(s, "null", TRUE)
  <2>1. ReturnedOK'
    BY <1>3, ReturnFacts
  <2> QED
    BY <1>1, <1>3, <2>1, TakeStep
<1>4. CASE /\ cmsg[s].dir = "out" /\ cmsg[s].kind = "method_call" /\ ~cmsg[s].filled
           /\ take_outgoing(s) /\ Return(s, "null", FALSE)
  <2>1. cmsg[s].taken
    BY <1>4 DEF LibInv, SlotOK
  <2>2. ReturnedOK'
    BY <1>4, <2>1, ReturnFacts
  <2> QED
    BY <1>1, <1>4, <2>2, TakeStep
<1> QED
  BY <1>2, <1>3, <1>4 DEF send_refused

\* A signal is handed over with its contents, and anything else is not.
LEMMA SendStep ==
    ASSUME LibInv, NEW s \in Slots, dbus_connection_send(s)
    PROVE  LibInv'
<1>1. built' = built
  BY DEF dbus_connection_send
<1>2. CASE cmsg[s].dir = "in" /\ Return(s, "false", FALSE) /\ UNCHANGED <<cmsg, wire>>
  <2>1. ReturnedOK'
    BY <1>2, ReturnFacts
  <2> QED
    BY <1>1, <1>2, <2>1 DEF LibInv, SlotOK, OwnMessage, WireOK
<1>3. CASE cmsg[s].dir = "out" /\ take_outgoing(s) /\ Return(s, "false", FALSE) /\ UNCHANGED wire
  <2>1. ReturnedOK'
    BY <1>3, ReturnFacts
  <2> QED
    BY <1>1, <1>3, <2>1, TakeStep
<1>4. CASE /\ cmsg[s].dir = "out" /\ cmsg[s].filled /\ take_outgoing(s)
           /\ Return(s, "true", FALSE) /\ HandOver(s)
  <2>1. ReturnedOK'
    BY <1>4, ReturnFacts
  <2> QED
    BY <1>1, <1>4, <2>1, TakeStep
<1> QED
  BY <1>2, <1>3, <1>4 DEF dbus_connection_send

\* Every step of the C thread and of the connection below it.
LEMMA LibStep == LibInv /\ [LibNext]_vars => LibInv'
<1> SUFFICES ASSUME LibInv, [LibNext]_vars PROVE LibInv'
  OBVIOUS
<1>0. built \in Nat
  BY LibAssumption DEF LibInv, WireOK
<1>1. CASE UNCHANGED libVars
  BY <1>1 DEF libVars, LibInv, SlotOK, OwnMessage, WireOK, ReturnedOK
<1>2. CASE dbus_message_new_method_call \/ dbus_message_new_signal
  <2>1. CASE Build(Out("method_call", TRUE, 0))
    <3> DEFINE m == Out("method_call", TRUE, 0)
    <3>1. m \in OutMessage /\ m.no = built /\ (m.kind = "method_call" => m.filled)
      BY <1>0 DEF Out, OutMessage
    <3>2. Build(m)
      BY <2>1
    <3> HIDE DEF m
    <3> QED
      BY <3>1, <3>2, BuildStep
  <2>2. CASE Build(Out("signal", TRUE, 0))
    <3> DEFINE m == Out("signal", TRUE, 0)
    <3>1. m \in OutMessage /\ m.no = built /\ (m.kind = "method_call" => m.filled)
      BY <1>0 DEF Out, OutMessage
    <3>2. Build(m)
      BY <2>2
    <3> HIDE DEF m
    <3> QED
      BY <3>1, <3>2, BuildStep
  <2> QED
    BY <1>2, <2>1, <2>2 DEF dbus_message_new_method_call, dbus_message_new_signal
<1>3. ASSUME NEW s \in Slots, dbus_message_new_method_return(s) \/ dbus_message_new_error(s)
      PROVE  LibInv'
  <2>1. CASE Build(Out("method_return", FALSE, 0))
    <3> DEFINE m == Out("method_return", FALSE, 0)
    <3>1. m \in OutMessage /\ m.no = built /\ (m.kind = "method_call" => m.filled)
      BY <1>0 DEF Out, OutMessage
    <3>2. Build(m)
      BY <2>1
    <3> HIDE DEF m
    <3> QED
      BY <3>1, <3>2, BuildStep
  <2>2. ASSUME NEW n \in 0 .. 1, Build(Out("error", FALSE, n)) PROVE LibInv'
    <3> DEFINE m == Out("error", FALSE, n)
    <3>1. m \in OutMessage /\ m.no = built /\ (m.kind = "method_call" => m.filled)
      BY <1>0 DEF Out, OutMessage
    <3>2. Build(m)
      BY <2>2
    <3> HIDE DEF m
    <3> QED
      BY <3>1, <3>2, BuildStep
  <2> QED
    BY <1>3, <2>1, <2>2 DEF dbus_message_new_method_return, dbus_message_new_error
<1>4. ASSUME NEW s \in Slots, dbus_message_iter_append_basic(s) PROVE LibInv'
  BY <1>4, AppendStep
<1>5. ASSUME NEW s \in Slots, dbus_message_unref(s) PROVE LibInv'
  <2>1. /\ cmsg' = [cmsg EXCEPT ![s] = Null] /\ Null.dir # "out"
        /\ UNCHANGED <<built, wire, returned>>
    BY <1>5 DEF dbus_message_unref, Null
  <2>2. ReturnedOK'
    BY <2>1 DEF LibInv, ReturnedOK
  <2> QED
    BY <2>1, <2>2, OtherSlotStep
<1>6. ASSUME NEW s \in Slots, send_refused(s) PROVE LibInv'
  BY <1>6, RefusedStep
<1>7. ASSUME NEW s \in Slots, dbus_connection_send(s) PROVE LibInv'
  BY <1>7, SendStep
<1>8. ASSUME NEW s \in Slots, NEW c \in Calls, dbus_connection_send_with_reply_and_block(s, c)
      PROVE  LibInv'
  <2>1. /\ cmsg[s].dir = "out" /\ cmsg[s].filled /\ take_outgoing(s) /\ HandOver(s)
        /\ Return(s, "waits", FALSE) /\ built' = built
    BY <1>8 DEF dbus_connection_send_with_reply_and_block
  <2>2. ReturnedOK'
    BY <2>1, ReturnFacts
  <2> QED
    BY <2>1, <2>2, TakeStep
<1>9. CASE call_returns
  <2>1. UNCHANGED <<built, wire>>
    BY <1>9 DEF call_returns
  <2>2. CASE /\ cmsg' = [cmsg EXCEPT ![Min(Free)] = wrap_incoming(1)]
             /\ returned' = [returned EXCEPT !.value = "message"]
    <3>1. ReturnedOK'
      BY <2>2 DEF LibInv, ReturnedOK
    <3>2. wrap_incoming(1).dir # "out"
      BY DEF wrap_incoming
    <3> QED
      BY <2>1, <2>2, <3>1, <3>2, OtherSlotStep
  <2>3. CASE /\ returned' = [returned EXCEPT !.value = "null", !.error = TRUE]
             /\ UNCHANGED cmsg
    <3>1. ReturnedOK'
      BY <2>3 DEF LibInv, ReturnedOK
    <3> QED
      BY <2>1, <2>3, <3>1 DEF LibInv, SlotOK, OwnMessage, WireOK
  <2> QED
    BY <1>9, <2>2, <2>3 DEF call_returns
<1>10. CASE UNCHANGED vars
  BY <1>1, <1>10 DEF vars
<1> QED
  BY <1>1, <1>2, <1>3, <1>4, <1>5, <1>6, <1>7, <1>8, <1>9, <1>10 DEF LibNext

-----------------------------------------------------------------------------
(* The theorems *)

\* The invariant of the connection holds whatever C code does with it.
THEOREM ClientInvariance == LibSpec => []ClientInv
<1>1. LibInit => ClientInv
  <2> SUFFICES ASSUME ClientInit PROVE ClientInv
    BY DEF LibInit
  <2>1. Made = {}
    BY DEF ClientInit, Made
  <2>2. ClientTypes
    BY ClientAssumption DEF ClientInit, ClientTypes, NextSerial
  <2>3. InFlight(inbound)
    BY DEF ClientInit, InFlight
  <2>4. \A c \in Calls : RightAnswer(c)
    BY DEF ClientInit, RightAnswer
  <2>5. SerialsInv
    BY <2>1 DEF ClientInit, SerialsInv, LastWaits
  <2> QED
    BY <2>1, <2>2, <2>3, <2>4, <2>5 DEF ClientInv, ClientInit
<1>2. ClientInv /\ [LibNext]_vars => ClientInv'
  <2> SUFFICES ASSUME ClientInv, [LibNext]_vars PROVE ClientInv'
    OBVIOUS
  <2>1. CASE ClientNext \/ UNCHANGED clientVars
    BY <2>1, ClientStep
  <2>2. ASSUME NEW s \in Slots, NEW c \in Calls, dbus_connection_send_with_reply_and_block(s, c)
        PROVE  ClientInv'
    BY <2>2, CallMethodStep DEF dbus_connection_send_with_reply_and_block, remote
  <2>3. ASSUME NEW s \in Slots, dbus_connection_send(s) PROVE ClientInv'
    <3>1. send_no_reply \/ UNCHANGED clientVars
      BY <2>3 DEF dbus_connection_send
    <3> QED
      BY <3>1, <2>1, NoReplyStep
  <2> QED
    BY <2>1, <2>2, <2>3 DEF LibNext, vars, Build, dbus_message_new_method_call,
       dbus_message_new_signal, dbus_message_new_method_return, dbus_message_new_error,
       dbus_message_iter_append_basic, dbus_message_unref, send_refused, call_returns
<1> QED
  BY <1>1, <1>2, PTL DEF LibSpec

\* An answer reaches the call it answers, or one that took the same serial a
\* whole round of serials later: for every number of calls, every range of
\* serials and every order of answers, timeouts and losses of the connection.
THEOREM AnswersReachTheirCalls == LibSpec => []AnswerGoesToItsCall
<1>1. ClientInv => AnswerGoesToItsCall
  BY DEF ClientInv, RightAnswer, AnswerGoesToItsCall
<1> QED
  BY <1>1, ClientInvariance, PTL

\* The invariant of the C messages.
THEOREM LibInvariance == LibSpec => []LibInv
<1>1. LibInit => LibInv
  <2> SUFFICES ASSUME LibInit PROVE LibInv
    OBVIOUS
  <2>1. /\ cmsg = [s \in Slots |-> Null] /\ built = 0 /\ returned = Nothing
        /\ wire = [n \in 0 .. (MaxBuilt - 1) |-> 0]
    BY DEF LibInit
  <2>2. \A s \in Slots : cmsg[s].dir = "null"
    BY <2>1 DEF Null
  <2>3. WireOK
    BY <2>1, LibAssumption DEF WireOK
  <2>4. ReturnedOK
    BY <2>1 DEF ReturnedOK, Nothing
  <2>5. cmsg = [s \in Slots |-> cmsg[s]]
    BY <2>1
  <2> QED
    BY <2>2, <2>3, <2>4, <2>5 DEF LibInv, SlotOK, OwnMessage
<1> QED
  BY <1>1, LibStep, PTL DEF LibSpec

\* However many messages C code builds and however often and by whichever
\* function it sends one, the message goes out once at most, and a send that
\* gives NULL sets the error unless an earlier send has emptied the message.
THEOREM MessagesGoOutOnce == LibSpec => []SentOnce
<1>1. LibInv => SentOnce
  BY DEF LibInv, WireOK, ReturnedOK, SentOnce
<1> QED
  BY <1>1, LibInvariance, PTL

=============================================================================
