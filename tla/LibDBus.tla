------------------------------- MODULE LibDBus -------------------------------
(***************************************************************************)
(* The libdbus C interface (oxibus-libdbus-compat connection.rs and        *)
(* message.rs) on top of a ClientConnection: a C thread builds messages,   *)
(* sends them and reads what comes back.  Sending takes the contents out   *)
(* of the message, whether the send succeeds or is refused.                *)
(***************************************************************************)
EXTENDS ClientConnection, FiniteSetsExt

CONSTANTS Slots,      \* the DBusMessage pointers the C thread has room for
          MaxBuilt    \* messages it builds

ASSUME LibAssumption == Slots \subseteq Nat /\ MaxBuilt \in Nat

VARIABLES cmsg,       \* what each pointer points to
          built,      \* messages built
          blocked,    \* the call the C thread waits for, "none" if it runs
          returned,   \* what the last send gave: its value, whether the DBusError is
                      \* set, and whether another send had had the message before
          wire        \* of every built message: how often it was handed to the connection

libVars == <<cmsg, built, blocked, returned, wire>>
vars == <<clientVars, libVars>>

Null == [dir |-> "null"]
Nothing == [value |-> "none", error |-> FALSE, again |-> FALSE]

\* A message under construction: its kind, whether its path and member are there, its
\* arguments, which building it is, and whether a send has taken it.
Out(kind, filled, args) ==
    [dir |-> "out", kind |-> kind, filled |-> filled, args |-> args, no |-> built, taken |-> FALSE]
wrap_incoming(args) == [dir |-> "in", args |-> args]

Free == {s \in Slots : cmsg[s] = Null}

LibInit == /\ ClientInit
           /\ cmsg = [s \in Slots |-> Null]
           /\ built = 0
           /\ blocked = "none"
           /\ returned = Nothing
           /\ wire = [n \in 0..(MaxBuilt - 1) |-> 0]

Runs == scenario.c /\ blocked = "none"

----------------------------------------------------------------------------
(* Building. *)

\* The bounds: pointers and messages; one pointer is left for what a call returns.
Build(m) == /\ Runs /\ built < MaxBuilt /\ Cardinality(Free) > 1
            /\ cmsg' = [cmsg EXCEPT ![Min(Free)] = m]
            /\ built' = built + 1
            /\ UNCHANGED <<blocked, returned, wire, clientVars>>

\* With a bad path or no name there is no message at all.
dbus_message_new_method_call == Build(Out("method_call", TRUE, 0))
dbus_message_new_signal == Build(Out("signal", TRUE, 0))
\* Answers to a message that came in; they have no path.
dbus_message_new_method_return(s) == cmsg[s].dir = "in" /\ Build(Out("method_return", FALSE, 0))
dbus_message_new_error(s) == cmsg[s].dir = "in" /\ \E n \in 0..1 : Build(Out("error", FALSE, n))

\* Only a message that came in refuses; one that was sent is filled again.
dbus_message_iter_append_basic(s) ==
    /\ Runs /\ cmsg[s].dir = "out" /\ cmsg[s].args = 0
    /\ cmsg' = [cmsg EXCEPT ![s].args = 1]
    /\ UNCHANGED <<built, blocked, returned, wire, clientVars>>

dbus_message_unref(s) ==
    /\ Runs /\ cmsg[s] # Null
    /\ cmsg' = [cmsg EXCEPT ![s] = Null]
    /\ UNCHANGED <<built, blocked, returned, wire, clientVars>>

----------------------------------------------------------------------------
(* Sending. *)

\* take_outgoing: everything but the kind is taken out.
take_outgoing_Clones(s) == UNCHANGED cmsg
take_outgoing(s) == cmsg' = [cmsg EXCEPT ![s].filled = FALSE, ![s].args = 0, ![s].taken = TRUE]

Return(s, v, e) ==
    returned' = [value |-> v, error |-> e, again |-> cmsg[s].dir = "out" /\ cmsg[s].taken]
HandOver(s) == wire' = [wire EXCEPT ![cmsg[s].no] = @ + 1]

\* The refusals of dbus_connection_send_with_reply_and_block: not a message under
\* construction and not a call set the error; no path or member does not.
send_refused(s) ==
    /\ Runs /\ cmsg[s] # Null /\ refs > 0
    /\ \/ cmsg[s].dir = "in" /\ Return(s, "null", TRUE) /\ UNCHANGED cmsg
       \/ /\ cmsg[s].dir = "out" /\ cmsg[s].kind # "method_call"
          /\ take_outgoing(s) /\ Return(s, "null", TRUE)
       \/ /\ cmsg[s].dir = "out" /\ cmsg[s].kind = "method_call" /\ ~cmsg[s].filled
          /\ take_outgoing(s) /\ Return(s, "null", FALSE)
    /\ UNCHANGED <<built, blocked, wire, clientVars>>

dbus_connection_send_with_reply_and_block(s, c) ==
    /\ Runs /\ refs > 0 /\ Plan[c].by = "c" /\ Free # {}
    /\ cmsg[s].dir = "out" /\ cmsg[s].kind = "method_call" /\ cmsg[s].filled
    /\ take_outgoing(s) /\ HandOver(s)
    /\ call_method(c)
    /\ blocked' = c
    /\ Return(s, "waits", FALSE)
    /\ UNCHANGED <<built, scenario, serving, remote, refs>>

\* Its end: the answer as a new message, or NULL and the error.
call_returns ==
    /\ blocked # "none" /\ state[blocked] \in Over
    /\ IF state[blocked] = "ok"
       THEN /\ cmsg' = [cmsg EXCEPT ![Min(Free)] = wrap_incoming(1)]
            /\ returned' = [returned EXCEPT !.value = "message"]
       ELSE /\ returned' = [returned EXCEPT !.value = "null", !.error = TRUE]
            /\ UNCHANGED cmsg
    /\ blocked' = "none"
    /\ UNCHANGED <<built, wire, clientVars>>

\* dbus_connection_send knows signals only; it takes what it refuses.
dbus_connection_send(s) ==
    /\ Runs /\ cmsg[s] # Null /\ refs > 0
    /\ \/ /\ cmsg[s].dir = "in"
          /\ Return(s, "false", FALSE) /\ UNCHANGED <<cmsg, wire, clientVars>>
       \/ /\ cmsg[s].dir = "out" /\ ~(cmsg[s].kind = "signal" /\ cmsg[s].filled)
          /\ take_outgoing(s)
          /\ Return(s, "false", FALSE) /\ UNCHANGED <<wire, clientVars>>
       \/ /\ cmsg[s].dir = "out" /\ cmsg[s].kind = "signal" /\ cmsg[s].filled
          /\ take_outgoing(s) /\ send_no_reply
          /\ IF peer = "open" THEN Return(s, "true", FALSE) /\ HandOver(s)
             ELSE Return(s, "false", FALSE) /\ UNCHANGED wire
    /\ UNCHANGED <<built, blocked>>

LibNext ==
    \/ ClientNext /\ UNCHANGED libVars
    \/ dbus_message_new_method_call \/ dbus_message_new_signal
    \/ \E s \in Slots :
          \/ dbus_message_new_method_return(s) \/ dbus_message_new_error(s)
          \/ dbus_message_iter_append_basic(s) \/ dbus_message_unref(s)
          \/ send_refused(s) \/ dbus_connection_send(s)
          \/ \E c \in Calls : dbus_connection_send_with_reply_and_block(s, c)
    \/ call_returns

LibSpec == LibInit /\ [][LibNext]_vars
FairLibSpec == LibSpec /\ ClientFairness /\ WF_vars(call_returns)

----------------------------------------------------------------------------

\* A message that C code builds goes out once at most, however often and by whichever
\* function it is sent.  A blocking send that returns no message says why in the
\* DBusError, except for a message that an earlier send has emptied, refused or not.
SentOnce ==
    /\ \A n \in DOMAIN wire : wire[n] <= 1
    /\ returned.value = "null" => returned.error \/ returned.again
=============================================================================
