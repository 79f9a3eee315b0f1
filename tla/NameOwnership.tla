---------------------------- MODULE NameOwnership ----------------------------
(***************************************************************************)
(* What the name registry promises its clients, without queues: a name has  *)
(* at most one owner and a set of connections waiting for it, some of the   *)
(* two willing to be replaced.  A name somebody waits for is never without  *)
(* an owner, and an owner keeps the name until it gives it up, leaves, or   *)
(* is replaced after having agreed to be.                                   *)
(***************************************************************************)
CONSTANTS Names, Clients, None

VARIABLES
    owner,     \* name -> the client that owns it, or None
    waiting,   \* name -> the clients that wait for it
    willing    \* name -> the clients that own or wait and may be replaced

vars == <<owner, waiting, willing>>

Init ==
    /\ owner = [n \in Names |-> None]
    /\ waiting = [n \in Names |-> {}]
    /\ willing = [n \in Names |-> {}]

\* Taking a free name.
Acquire(c, n) ==
    /\ owner[n] = None
    /\ owner' = [owner EXCEPT ![n] = c]
    /\ willing' \in {willing, [willing EXCEPT ![n] = @ \cup {c}]}
    /\ UNCHANGED waiting

\* Waiting behind the owner.
Wait(c, n) ==
    /\ owner[n] \notin {None, c}
    /\ c \notin waiting[n]
    /\ waiting' = [waiting EXCEPT ![n] = @ \cup {c}]
    /\ willing' \in {willing, [willing EXCEPT ![n] = @ \cup {c}]}
    /\ UNCHANGED owner

\* Taking the name from an owner that is willing; it waits for the name from
\* then on, or leaves.
Replace(c, n) ==
    /\ owner[n] \notin {None, c}
    /\ owner[n] \in willing[n]
    /\ owner' = [owner EXCEPT ![n] = c]
    /\ \E stays \in SUBSET {owner[n]}, agrees \in SUBSET {c} :
          /\ waiting' = [waiting EXCEPT ![n] = (@ \ {c}) \cup stays]
          /\ willing' = [willing EXCEPT ![n] = (@ \ {c, owner[n]})
                                                 \cup stays \cup agrees]

\* c gives up what it has at the names in S: a place in the queue, or the name
\* itself, which passes to a client that waits for it if there is one.
GiveUp(c, S) ==
    /\ \A n \in S : c = owner[n] \/ c \in waiting[n]
    /\ owner' \in [Names -> Clients \cup {None}]
    /\ \A n \in Names :
          IF n \notin S \/ owner[n] # c THEN owner'[n] = owner[n]
          ELSE IF waiting[n] = {} THEN owner'[n] = None
          ELSE owner'[n] \in waiting[n]
    /\ waiting' = [n \in Names |->
                      IF n \in S THEN waiting[n] \ {c, owner'[n]}
                      ELSE waiting[n]]
    /\ willing' = [n \in Names |->
                      IF n \in S THEN willing[n] \ {c} ELSE willing[n]]

Next ==
    \E c \in Clients :
        \/ \E n \in Names : Acquire(c, n) \/ Wait(c, n) \/ Replace(c, n)
        \/ \E S \in SUBSET Names : GiveUp(c, S)

Spec == Init /\ [][Next]_vars

=============================================================================
