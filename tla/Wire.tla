-------------------------------- MODULE Wire --------------------------------
(***************************************************************************)
(* One direction of a connection: tasks that share the Writer of a socket  *)
(* (oxibus-transport/src/stream.rs, fds.rs) and the Transport that reads   *)
(* it.  A Writer has no lock, so a message that does not fit into the      *)
(* socket at once goes out in pieces between which other tasks may write;  *)
(* descriptors travel beside the first piece, and the reader hands the     *)
(* oldest ones to the first frame that declares some.                      *)
(*                                                                         *)
(* A frame is cut where the reader's decisions change: within the 16-byte  *)
(* prefix, after it, after the header fields and after the body.  What the *)
(* bytes of a frame say is part of the letter (Letters works it out with   *)
(* MessageFormat); what bytes of mixed messages decode to is left open.    *)
(***************************************************************************)
EXTENDS Integers, Sequences, SequencesExt, FiniteSets, FiniteSetsExt

CONSTANTS Writers,
          Cancellable,        \* the writers whose call may be dropped at a timeout
          Scenarios,          \* sequences of letters to write, for every writer
          Capacity,           \* the pieces a socket holds
          max_message_size

\* A letter is what a reader makes of the frame of one message: pieces, the number of
\* places where its bytes may be cut (none if the message cannot be encoded), its size,
\* the length read off its prefix and the pieces up to it (len, want), the decoded
\* message and the number of descriptors it declares (msg, unix_fds); and what its sender
\* meant: the descriptors that go with it (fds) and their number (declares), the message
\* as a reader should get it (delivered), and whether a reader must refuse it (refused).
\* The format does its part: a prefix that can be read tells the length of its frame,
\* and a message that need not be refused is read as it was meant.
IsFrame(l) ==
    /\ l.pieces \in 2..4 /\ l.size \in Nat /\ l.fds \in Seq(Int) /\ l.unix_fds \in Nat
    /\ l.len.ok => l.len.v = l.size /\ l.want = l.pieces
    /\ l.refused <=> ~(l.len.ok /\ l.msg.ok)
    /\ ~l.refused => /\ l.unix_fds = l.declares
                     /\ [l.msg.v EXCEPT !.fds = l.fds] = l.delivered

WireAssumption ==
    /\ Cancellable \subseteq Writers
    /\ Capacity \in Nat \ {0}
    /\ max_message_size \in Nat
    /\ \A s \in DOMAIN Scenarios : \A w \in Writers :
          /\ Len(Scenarios[s][w]) \in Nat
          /\ DOMAIN Scenarios[s][w] = 1..Len(Scenarios[s][w])
          /\ \A i \in DOMAIN Scenarios[s][w] :
                Scenarios[s][w][i].pieces = 0 \/ IsFrame(Scenarios[s][w][i])

ASSUME WireAssumption

VARIABLES letters, next, sent, sock, reader, buf, want, pending_fds, got, begun, mixed

vars == <<letters, next, sent, sock, reader, buf, want, pending_fds, got, begun, mixed>>
writing == <<next, sent, sock, begun, mixed>>
reading == <<reader, buf, want, pending_fds, got>>

\* The i-th letter of a writer.
Letter(w, i) == letters[w][i]

WireInit ==
    /\ \E s \in DOMAIN Scenarios : letters = Scenarios[s]
    /\ next = [w \in Writers |-> 1]
    /\ sent = [w \in Writers |-> 0]
    /\ sock = <<>>
    /\ reader = "reading"
    /\ buf = <<>>
    /\ want = 0
    /\ pending_fds = <<>>
    /\ got = <<>>
    /\ begun = <<>>
    /\ mixed = FALSE

----------------------------------------------------------------------------
(* Writing. *)

Busy(w) == next[w] <= Len(letters[w])
Done(w) == /\ next' = [next EXCEPT ![w] = @ + 1]
           /\ sent' = [sent EXCEPT ![w] = 0]

\* A message that cannot be encoded is not written.
EncodingFails(w) ==
    /\ Busy(w) /\ Letter(w, next[w]).pieces = 0
    /\ Done(w)
    /\ UNCHANGED <<letters, sock, begun, mixed, reading>>

\* The descriptors go with the first piece, and with no other.
attach_Always(w, first) == Letter(w, next[w]).fds
attach(w, first) == IF first THEN Letter(w, next[w]).fds ELSE <<>>

\* How much of the message is out after n more pieces.
advance_Restarts(w, n) == n
advance(w, n) == sent[w] + n

\* One sendmsg: as many pieces as the socket takes.  The socket is open until the peer
\* closes it: a client whose reader task ended keeps it open with its own Writer.
write_all_with_fds(w) ==
    /\ Busy(w) /\ Letter(w, next[w]).pieces > 0 /\ reader # "closed"
    /\ \E n \in 1..Min({Capacity - Len(sock), Letter(w, next[w]).pieces - sent[w]}) :
          /\ sock' = sock \o [k \in 1..n |->
                [w |-> w, i |-> next[w], k |-> sent[w] + k,
                 fds |-> IF k = 1 THEN attach(w, sent[w] = 0) ELSE <<>>]]
          /\ IF advance(w, n) = Letter(w, next[w]).pieces THEN Done(w)
             ELSE /\ sent' = [sent EXCEPT ![w] = advance(w, n)]
                  /\ UNCHANGED next
    /\ begun' = IF sent[w] = 0 THEN Append(begun, <<w, next[w]>>) ELSE begun
    /\ mixed' = (mixed \/ (sent[w] = 0 /\ \E v \in Writers \ {w} : sent[v] > 0))
    /\ UNCHANGED <<letters, reading>>

\* As if the error of a closed socket were one to retry after.
WriteFails_Retries(w) ==
    /\ Busy(w) /\ reader = "closed" /\ sent[w] = 0
    /\ Done(w)
    /\ UNCHANGED <<letters, sock, begun, mixed, reading>>

\* The peer is gone: sendmsg fails and so does the write, at any piece.
WriteFails(w) ==
    /\ Busy(w) /\ reader = "closed"
    /\ Done(w)
    /\ UNCHANGED <<letters, sock, begun, mixed, reading>>

\* A timeout drops the call, and with it the write, between two pieces.
CancelWrite(w) ==
    /\ w \in Cancellable /\ sent[w] > 0
    /\ Done(w)
    /\ mixed' = TRUE
    /\ UNCHANGED <<letters, sock, begun, reading>>

----------------------------------------------------------------------------
(* Reading. *)

\* The pieces are those of one frame, from its first on.
Intact(ps) ==
    /\ Len(ps) <= Letter(ps[1].w, ps[1].i).pieces
    /\ \A k \in DOMAIN ps : ps[k].w = ps[1].w /\ ps[k].i = ps[1].i /\ ps[k].k = k

Fail == reader' = "failed" /\ UNCHANGED <<buf, want, pending_fds, got>>

\* Bytes of several messages where one should be: they may decode to an error, or to
\* some length and some message, and the reader is out of step from there on.
Garbled == /\ reader' \in {"failed", "astray"}
           /\ buf' = <<>> /\ want' = 0 /\ pending_fds' = <<>>
           /\ UNCHANGED got

\* recvmsg: what has come, with the descriptors that came with it.
fill_more ==
    /\ reader = "reading" /\ sock # <<>>
    /\ IF want = 0 THEN Len(buf) < 2 ELSE Len(buf) < want
    /\ \E n \in 1..Len(sock) :
          /\ buf' = buf \o [k \in 1..n |-> [sock[k] EXCEPT !.fds = <<>>]]
          /\ pending_fds' = pending_fds \o FlattenSeq([k \in 1..n |-> sock[k].fds])
          /\ sock' = SubSeq(sock, n + 1, Len(sock))
    /\ UNCHANGED <<letters, next, sent, begun, mixed, reader, want, got>>

ReadAstray ==
    /\ reader = "astray" /\ sock # <<>>
    /\ reader' \in {"failed", "astray"}
    /\ sock' = <<>>
    /\ UNCHANGED <<letters, next, sent, begun, mixed, buf, want, pending_fds, got>>

\* The length of the frame is read off its prefix and held against the limit.
PeekFrame ==
    /\ reader = "reading" /\ want = 0 /\ Len(buf) >= 2
    /\ IF ~Intact(SubSeq(buf, 1, 2)) THEN Garbled
       ELSE LET frame == Letter(buf[1].w, buf[1].i)
            IN  IF ~frame.len.ok \/ frame.len.v > max_message_size THEN Fail
                ELSE want' = frame.want /\ UNCHANGED <<reader, buf, pending_fds, got>>
    /\ UNCHANGED <<letters, writing>>

\* The descriptors of a frame: as many as it declares, or all there are.
take_fds(n) == SubSeq(pending_fds, 1, Min({n, Len(pending_fds)}))

\* The rest of read_message, once the frame is there.
read_message ==
    /\ reader = "reading" /\ want > 0 /\ Len(buf) >= want
    /\ IF ~Intact(SubSeq(buf, 1, want)) THEN Garbled
       ELSE LET frame == Letter(buf[1].w, buf[1].i)
                taken == take_fds(frame.unix_fds)
            IN  IF ~frame.msg.ok THEN Fail
                ELSE IF Len(taken) < frame.unix_fds THEN Fail
                ELSE /\ got' = Append(got, [frame.msg.v EXCEPT !.fds = taken])
                     /\ pending_fds' = SubSeq(pending_fds, Len(taken) + 1, Len(pending_fds))
                     /\ buf' = SubSeq(buf, want + 1, Len(buf))
                     /\ want' = 0
                     /\ UNCHANGED reader
    /\ UNCHANGED <<letters, writing>>

\* The peer stops reading, or closes its end; so it may after its reader failed, and the
\* daemon does then, but a client need not.
PeerStops ==
    /\ \/ reader \in {"reading", "astray"} /\ reader' \in {"deaf", "closed"}
       \/ reader \in {"deaf", "failed"} /\ reader' = "closed"
    /\ UNCHANGED <<letters, writing, buf, want, pending_fds, got>>

----------------------------------------------------------------------------

Write(w) == EncodingFails(w) \/ write_all_with_fds(w) \/ WriteFails(w)
Read == fill_more \/ ReadAstray \/ PeekFrame \/ read_message

WireNext == (\E w \in Writers : Write(w) \/ CancelWrite(w)) \/ Read \/ PeerStops

\* Tasks that can go on do: the runtime polls a writer whose socket has room and a reader
\* whose socket has data.
WireSpec == WireInit /\ [][WireNext]_vars
FairWireSpec == /\ WireSpec
                /\ \A w \in Writers : WF_vars(Write(w))
                /\ WF_vars(Read)

----------------------------------------------------------------------------
(* Properties. *)

\* Every piece in the socket and in the read buffer belongs to a letter, pieces of one
\* writer keep their order, and the socket is within its capacity.
WireTypeOK ==
    /\ reader \in {"reading", "astray", "deaf", "closed", "failed"}
    /\ Len(sock) <= Capacity /\ want \in 0..4
    /\ \A w \in Writers : next[w] \in 1..(Len(letters[w]) + 1)
    /\ \A w \in Writers : Busy(w) => sent[w] \in 0..Letter(w, next[w]).pieces
    /\ LET all == buf \o sock
       IN  \A j, k \in DOMAIN all :
              (j < k /\ all[j].w = all[k].w) =>
                  (all[j].i < all[k].i \/ (all[j].i = all[k].i /\ all[j].k < all[k].k))

\* The letter whose write was the j-th to begin, and whether the first n each came with
\* as many descriptors as they declare.
BegunLetter(j) == Letter(begun[j][1], begun[j][2])
HonestUpTo(n) == \A j \in 1..Min({n, Len(begun)}) :
                    BegunLetter(j).declares = Len(BegunLetter(j).fds)

\* As long as no write begins between two pieces of another and none is dropped midway,
\* the messages are read in the order in which their writes began, every one as it was
\* sent, with its own descriptors; and the reader fails only at a message that it must
\* refuse (too large, malformed, or made of types no reader accepts).
UnmixedReadsIntact ==
    ~mixed =>
        /\ reader # "astray" /\ Len(got) <= Len(begun)
        /\ \A j \in DOMAIN got : HonestUpTo(j) => got[j] = BegunLetter(j).delivered
        /\ (reader = "failed" /\ HonestUpTo(Len(got) + 1)) =>
              /\ Len(got) < Len(begun)
              /\ \/ BegunLetter(Len(got) + 1).refused
                 \/ BegunLetter(Len(got) + 1).size > max_message_size

\* Every write ends, with success or an error, unless the peer does not read any more and
\* keeps its end open, because it does not want to or because its reader failed: there is
\* no time limit on a write.
WritesEnd == (\A w \in Writers : <>~Busy(w)) \/ <>[](reader \in {"deaf", "failed"})
=============================================================================
