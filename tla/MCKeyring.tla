------------------------------ MODULE MCKeyring ------------------------------
(***************************************************************************)
(* Two handshakes of one process and one of another; at the start there is *)
(* no key, one that is not handed out any more, or such a one and a recent *)
(* one.                                                                    *)
(***************************************************************************)
EXTENDS Keyring

MCProcess == [h \in {"a1", "a2", "b1"} |-> IF h = "b1" THEN "b" ELSE "a"]

Old(id, created) == [id |-> id, created |-> created, secret |-> "old"]
MCOldKeys == {<<>>, <<Old(1, -1)>>, <<Old(1, -1), Old(2, 0)>>}
=============================================================================
