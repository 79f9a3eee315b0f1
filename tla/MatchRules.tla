----------------------------- MODULE MatchRules -----------------------------
(***************************************************************************)
(* Match rules (oxibus-daemon match_rules.rs): what AddMatch parses and     *)
(* what a broadcast asks of each connection's rules.                        *)
(*                                                                          *)
(* An Option is a set with at most one element.  Paths and names are the    *)
(* sequences of their elements ("/" is the empty one), so a namespace is a  *)
(* prefix.  The text of a rule is the sequence of its key='value' pairs, a  *)
(* pair of an argument with its index; quoting is not modelled.             *)
(***************************************************************************)
EXTENDS Integers, Sequences, SequencesExt

LOCAL Types == {"signal", "method_call", "method_return", "error"}

\* Keys that hold one value, and the keys argN and argNpath.
ValueKeys == {"type", "sender", "interface", "member", "path", "path_namespace",
              "destination", "eavesdrop", "arg0namespace"}

ArgKeys == {"arg", "argpath"}

MaxArg == 63

\* A pair that makes parse_match_rule fail.
BadPair(p) ==
    \/ p.key \notin ValueKeys \cup ArgKeys
    \/ p.key = "type" /\ p.value \notin Types
    \/ p.key \in ArgKeys /\ p.idx > MaxArg

\* The last pair with a key gives its value.
LastValue(raw, key) ==
    LET at == {i \in DOMAIN raw : raw[i].key = key}
    IN  {raw[i].value : i \in {j \in at : \A k \in at : k <= j}}

ArgPairs(raw, key) ==
    {<<raw[i].idx, raw[i].value>> : i \in {j \in DOMAIN raw : raw[j].key = key}}

parse_match_rule(raw) ==
    IF \E i \in DOMAIN raw : BadPair(raw[i]) THEN {}
    ELSE {[raw |-> raw,
           value |-> [key \in ValueKeys |-> LastValue(raw, key)],
           args |-> ArgPairs(raw, "arg"),
           arg_paths |-> ArgPairs(raw, "argpath")]}

is_within_namespace(path, prefix) == IsPrefix(prefix, path)

is_path_parent_or_child(p1, p2) == IsPrefix(p1, p2) \/ IsPrefix(p2, p1)

\* The string at index idx of the body, if there is one.
value_as_str(msg, idx) ==
    IF idx + 1 \in DOMAIN msg.body THEN msg.body[idx + 1] ELSE {}

\* A sender given by a well-known name means whoever owns it now.
\* owners gives the owner of every well-known name, an Option.
rule_matches(rule, msg, owners) ==
    LET v == rule.value
    IN  /\ v["type"] \subseteq {msg.type}
        /\ \A s \in v["sender"] :
              \/ msg.sender = {s}
              \/ s \in DOMAIN owners /\ owners[s] # {} /\ owners[s] = msg.sender
        /\ \A f \in {"interface", "member", "path", "destination"} : v[f] \subseteq msg[f]
        /\ \A ns \in v["path_namespace"] :
              \E p \in msg.path : is_within_namespace(p, ns)
        /\ \A a \in rule.args : value_as_str(msg, a[1]) = {a[2]}
        /\ \A a \in rule.arg_paths :
              \E s \in value_as_str(msg, a[1]) : is_path_parent_or_child(s, a[2])
        /\ \A ns \in v["arg0namespace"] :
              \E s \in value_as_str(msg, 0) : IsPrefix(ns, s)

=============================================================================
