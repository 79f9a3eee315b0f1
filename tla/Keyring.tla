------------------------------- MODULE Keyring -------------------------------
(***************************************************************************)
(* The cookie keyring (oxibus-auth/src/keyring.rs) as DBUS_COOKIE_SHA1     *)
(* handshakes of several processes use it: the server loads the key file,  *)
(* picks or makes a key and names it in its challenge; the client looks    *)
(* the key up in the file, and the server looks it up again to check the   *)
(* answer.                                                                 *)
(*                                                                         *)
(* Reads take no lock.  best_key takes the lock and lets it go before it   *)
(* reads, and takes it again only to save, so that two handshakes may both *)
(* add a key to what they read and the later save undoes the earlier.      *)
(* A key's secret is a token of its maker; time is counted in units of     *)
(* which NewTimeout and ExpireTimeout are small multiples.                 *)
(***************************************************************************)
EXTENDS Integers, Sequences, FiniteSets

CONSTANTS Handshakes,
          process,          \* the process of a handshake: its id names the temporary file
          Ids,
          OldKeys,          \* the key files there may be at the start
          NEW_KEY_TIMEOUT, EXPIRE_KEYS_TIMEOUT,
          MaxTime

Processes == {process[h] : h \in Handshakes}

\* A key: its id, when it was made and its secret.  A file has an id once only.
OldSecrets == UNION {{ks[i].secret : i \in DOMAIN ks} : ks \in OldKeys}
Key == [id : Ids, created : Int, secret : Handshakes \cup OldSecrets]
DifferentIds(ks) == \A i, j \in DOMAIN ks : ks[i].id = ks[j].id => i = j

ASSUME KeyringAssumption ==
    /\ process \in [Handshakes -> Processes]
    /\ \A ks \in OldKeys : ks \in Seq(Key) /\ DifferentIds(ks)
    /\ NEW_KEY_TIMEOUT \in Nat \ {0} /\ EXPIRE_KEYS_TIMEOUT \in Nat
    /\ NEW_KEY_TIMEOUT < EXPIRE_KEYS_TIMEOUT
    /\ MaxTime \in Nat

VARIABLES now, file, tmp, lock,     \* the clock, the two files, the holder of the lock
          pc, keys, key, since,     \* of a handshake: what it read, its key, since when
          basis, raced              \* the file it read; whether a save undid another

vars == <<now, file, tmp, lock, pc, keys, key, since, basis, raced>>

Whole(ks) == [torn |-> FALSE, keys |-> ks]
Torn == [torn |-> TRUE, keys |-> <<>>]
NoKey == [id |-> 0, created |-> 0, secret |-> "none"]

KeyringInit ==
    /\ now = 0
    /\ \E ks \in OldKeys : file = Whole(ks)
    /\ tmp = [p \in Processes |-> Torn]
    /\ lock = {}
    /\ pc = [h \in Handshakes |-> "load"]
    /\ keys = [h \in Handshakes |-> <<>>]
    /\ key = [h \in Handshakes |-> NoKey]
    /\ since = [h \in Handshakes |-> 0]
    /\ basis = [h \in Handshakes |-> <<>>]
    /\ raced = FALSE

Go(h, l) == pc' = [pc EXCEPT ![h] = l]
Forget(h) == /\ keys' = [keys EXCEPT ![h] = <<>>]
             /\ basis' = [basis EXCEPT ![h] = <<>>]

\* A file that ends in the middle of a line does not parse.
parse_file(f) == IF f.torn THEN {} ELSE {f.keys}

\* The newest key that is still to be handed out; the last of several.
find_recent(ks) ==
    LET Recent == {i \in DOMAIN ks : now - ks[i].created < NEW_KEY_TIMEOUT}
    IN  {ks[i] : i \in {i \in Recent : \A j \in Recent :
            ks[j].created < ks[i].created \/ (ks[j].created = ks[i].created /\ j <= i)}}

\* retain: the keys made less than age ago; kept[i] is what is left of the first i.
Retain(ks, age) ==
    LET kept[i \in 0..Len(ks)] ==
            IF i = 0 THEN <<>>
            ELSE IF now - ks[i].created < age THEN Append(kept[i - 1], ks[i])
            ELSE kept[i - 1]
    IN  kept[Len(ks)]

prune_expired_Early(ks) == Retain(ks, NEW_KEY_TIMEOUT)
prune_expired(ks) == Retain(ks, EXPIRE_KEYS_TIMEOUT)

hex_key(ks, id) == {ks[i].secret : i \in {i \in DOMAIN ks : /\ ks[i].id = id
                                                            /\ \A j \in 1..(i - 1) : ks[j].id # id}}

----------------------------------------------------------------------------
(* The server's first answer. *)

\* The challenge names the key that was found; the keyring in memory is dropped.
Challenge(h, k, t) == /\ key' = [key EXCEPT ![h] = k]
                      /\ since' = [since EXCEPT ![h] = t]
                      /\ Forget(h)
                      /\ Go(h, "challenged")

load(h) ==
    /\ pc[h] = "load"
    /\ IF parse_file(file) = {} THEN Go(h, "refused") /\ UNCHANGED keys
       ELSE \E ks \in parse_file(file) : Go(h, "memory") /\ keys' = [keys EXCEPT ![h] = ks]
    /\ UNCHANGED <<now, file, tmp, lock, key, since, basis, raced>>

\* best_key, while a key in memory is recent.
best_key(h) ==
    /\ pc[h] = "memory"
    /\ \/ find_recent(keys[h]) = {} /\ Go(h, "wait") /\ Forget(h) /\ UNCHANGED <<key, since>>
       \/ \E k \in find_recent(keys[h]) : Challenge(h, k, now)
    /\ UNCHANGED <<now, file, tmp, lock, raced>>

\* with_lock: wait for the lock and hold it.  The first use lets go of it at once.
acquire_Unlocked(h) == lock' = lock \cup {h}
acquire(h) == lock = {} /\ lock' = {h}
LockAndUnlock(h) ==
    /\ pc[h] = "wait" /\ lock = {}
    /\ Go(h, "reread")
    /\ UNCHANGED <<now, file, tmp, lock, keys, key, since, basis, raced>>

\* The file again: somebody may have added a key.
Reread(h) ==
    /\ pc[h] = "reread"
    /\ IF parse_file(file) = {} THEN Go(h, "refused") /\ UNCHANGED <<keys, key, since, basis>>
       ELSE \E ks \in parse_file(file) :
             \/ /\ find_recent(ks) = {}
                /\ keys' = [keys EXCEPT ![h] = ks]
                /\ basis' = [basis EXCEPT ![h] = ks]
                /\ Go(h, "add")
                /\ UNCHANGED <<key, since>>
             \/ \E k \in find_recent(ks) : Challenge(h, k, now)
    /\ UNCHANGED <<now, file, tmp, lock, raced>>

\* A new key, with an id that no key of the pruned file has.
add_new_key(h) ==
    /\ pc[h] = "add"
    /\ LET ks == prune_expired(keys[h])
       IN  \E id \in Ids \ {ks[i].id : i \in DOMAIN ks} :
              LET k == [id |-> id, created |-> now, secret |-> h]
              IN  /\ keys' = [keys EXCEPT ![h] = Append(ks, k)]
                  /\ key' = [key EXCEPT ![h] = k]
    /\ since' = [since EXCEPT ![h] = now]
    /\ Go(h, "save")
    /\ UNCHANGED <<now, file, tmp, lock, basis, raced>>

\* save, under the lock: the temporary file is opened and truncated, written, and renamed.
OpenTemporary(h) ==
    /\ pc[h] = "save" /\ acquire(h)
    /\ tmp' = [tmp EXCEPT ![process[h]] = Torn]
    /\ Go(h, "write")
    /\ UNCHANGED <<now, file, keys, key, since, basis, raced>>

WriteTemporary(h) ==
    /\ pc[h] = "write"
    /\ tmp' = [tmp EXCEPT ![process[h]] = Whole(keys[h])]
    /\ Go(h, "rename")
    /\ UNCHANGED <<now, file, lock, keys, key, since, basis, raced>>

Rename(h) ==
    /\ pc[h] = "rename"
    /\ file' = tmp[process[h]]
    /\ tmp' = [tmp EXCEPT ![process[h]] = Torn]
    /\ raced' = (raced \/ file.keys # basis[h])
    /\ lock' = lock \ {h}
    /\ Challenge(h, key[h], since[h])
    /\ UNCHANGED now

\* A full disk: the error lets go of the lock and rejects the mechanism.
SaveFails(h) ==
    /\ pc[h] \in {"write", "rename"}
    /\ lock' = lock \ {h}
    /\ Forget(h)
    /\ Go(h, "failed")
    /\ UNCHANGED <<now, file, tmp, key, since, raced>>

----------------------------------------------------------------------------
(* The client's answer and the server's check. *)

respond_to_cookie_challenge(h) ==
    /\ pc[h] = "challenged"
    /\ IF parse_file(file) = {} THEN Go(h, "refused") /\ UNCHANGED keys
       ELSE IF hex_key(file.keys, key[h].id) = {} THEN Go(h, "refused") /\ UNCHANGED keys
       ELSE Go(h, "answered") /\ keys' = [keys EXCEPT ![h] = file.keys]
    /\ UNCHANGED <<now, file, tmp, lock, key, since, basis, raced>>

\* The answer is hashed with the secret the client read; the server hashes its own.
cookie_sha1_second_response(h) ==
    /\ pc[h] = "answered"
    /\ IF /\ parse_file(file) # {}
          /\ hex_key(file.keys, key[h].id) # {}
          /\ hex_key(file.keys, key[h].id) = hex_key(keys[h], key[h].id)
       THEN Go(h, "accepted") ELSE Go(h, "refused")
    /\ Forget(h)
    /\ UNCHANGED <<now, file, tmp, lock, key, since, raced>>

----------------------------------------------------------------------------

\* A process dies with the handshakes it has begun; the kernel lets go of its lock.
Crash(p) ==
    LET Dead == {h \in Handshakes : process[h] = p /\ pc[h] \notin
                                      {"load", "accepted", "refused", "failed", "crashed"}}
    IN  /\ Dead # {}
        /\ pc' = [h \in Handshakes |-> IF h \in Dead THEN "crashed" ELSE pc[h]]
        /\ lock' = lock \ Dead
        /\ UNCHANGED <<now, file, tmp, keys, key, since, basis, raced>>

Tick == /\ now < MaxTime /\ now' = now + 1
        /\ UNCHANGED <<file, tmp, lock, pc, keys, key, since, basis, raced>>

KeyringNext ==
    \/ \E h \in Handshakes :
          \/ load(h) \/ best_key(h) \/ LockAndUnlock(h) \/ Reread(h) \/ add_new_key(h)
          \/ OpenTemporary(h) \/ WriteTemporary(h) \/ Rename(h) \/ SaveFails(h)
          \/ respond_to_cookie_challenge(h) \/ cookie_sha1_second_response(h)
    \/ \E p \in Processes : Crash(p)
    \/ Tick

KeyringSpec == KeyringInit /\ [][KeyringNext]_vars

----------------------------------------------------------------------------
(* Properties. *)

\* The key file is never torn, whatever crashes or fails and although the handshakes of
\* one process share a temporary file: it holds keys with different ids, and only the
\* holder of the lock is between opening and renaming the temporary file.
KeyringTypeOK ==
    /\ now \in 0..MaxTime /\ raced \in BOOLEAN
    /\ ~file.torn
    /\ DifferentIds(file.keys)
    /\ lock = {h \in Handshakes : pc[h] \in {"write", "rename"}} /\ Cardinality(lock) <= 1

\* A handshake that is carried through within the time a key stays in the file after it
\* was last handed out succeeds: the client finds the key that the challenge names and
\* the server still finds the same, unless a save undid another.
PromptHandshakesSucceed ==
    \A h \in Handshakes :
        pc[h] = "refused" =>
            raced \/ now - since[h] > EXPIRE_KEYS_TIMEOUT - NEW_KEY_TIMEOUT
=============================================================================
