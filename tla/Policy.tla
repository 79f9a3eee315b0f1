------------------------------- MODULE Policy -------------------------------
(***************************************************************************)
(* The security policy (oxibus-daemon policy.rs): rules read from TOML and  *)
(* XML files, and the three questions put to them.                          *)
(*                                                                          *)
(* An Option is a set with at most one element.  A text is a sequence of    *)
(* the pieces a pattern may split it at; "*" is a piece of its own.  A file *)
(* is what its parser makes of it: the rules of a TOML file, the tags of an *)
(* XML file (tokenize_xml works on characters and is not modelled).         *)
(***************************************************************************)
EXTENDS Integers, Sequences, SequencesExt

MessageTypes == {"method_call", "method_return", "signal", "error"}

\* The order in which applicable() chains the contexts.
Contexts == <<"default", "user", "group", "mandatory">>

-----------------------------------------------------------------------------
(* Patterns *)

glob_match(pattern, text) ==
    IF pattern # << >> /\ Last(pattern) = "*"
    THEN IsPrefix(Front(pattern), text)
    ELSE pattern = text

\* A field the pattern names must be there with that value; a type that is not
\* one of the four words matches every message.
pattern_matches(p, msg, other_party) ==
    /\ \A g \in p.destination : glob_match(g, other_party)
    /\ \A f \in {"interface", "member", "path"} : p[f] \subseteq msg[f]
    /\ p.type \cap MessageTypes \subseteq {msg.type}

\* SendReceivePattern::Destination is the pattern that names nothing else.
Destination(g) ==
    [destination |-> {g}, interface |-> {}, member |-> {}, path |-> {}, type |-> {}]

-----------------------------------------------------------------------------
(* Rules.  allow and deny hold the patterns of each kind of question. *)

NoPatterns == [own |-> {}, send |-> {}, receive |-> {}]

Rule(context, user, group, allow, deny) ==
    [context |-> context, user |-> user, group |-> group,
     allow |-> allow, deny |-> deny]

\* A user rule without a user applies to whoever has no name: None == None.
applies_to(rule, identity) ==
    CASE rule.context = "user"  -> \/ rule.user = identity.user_name
                                   \/ rule.user = {identity.uid}
      [] rule.context = "group" -> rule.group # {} /\ rule.group \subseteq identity.group_names
      [] OTHER -> TRUE

\* Mutant: the rules are kept in the order of the files.
applicable_FileOrder(rules, identity) ==
    SelectSeq(rules, LAMBDA r : applies_to(r, identity))

\* The rules of one context that apply to the identity, in the order of the files.
InContext(rules, context, identity) ==
    LET kept[i \in 0 .. Len(rules)] ==
            IF i = 0 THEN << >>
            ELSE IF rules[i].context = context /\ applies_to(rules[i], identity)
            THEN Append(kept[i - 1], rules[i])
            ELSE kept[i - 1]
    IN  kept[Len(rules)]

applicable(rules, identity) ==
    InContext(rules, "default", identity) \o InContext(rules, "user", identity)
        \o InContext(rules, "group", identity) \o InContext(rules, "mandatory", identity)

\* The loop all three questions share: a rule with a pattern among the hits
\* overwrites the verdict, its deny patterns after its allow patterns; no rules,
\* no limits.
verdict(rules, identity, kind, hits) ==
    LET chain == applicable(rules, identity)
        after[i \in 0 .. Len(chain)] ==
            IF i = 0 THEN FALSE
            ELSE /\ after[i - 1] \/ chain[i].allow[kind] \cap hits # {}
                 /\ chain[i].deny[kind] \cap hits = {}
    IN  rules = << >> \/ after[Len(chain)]

KnownPatterns(rules, kind) ==
    UNION {rules[i].allow[kind] \cup rules[i].deny[kind] : i \in DOMAIN rules}

can_own(rules, identity, name) ==
    verdict(rules, identity, "own", {p \in KnownPatterns(rules, "own") : glob_match(p, name)})

can_send(rules, identity, msg, destination) ==
    verdict(rules, identity, "send",
            {p \in KnownPatterns(rules, "send") : pattern_matches(p, msg, destination)})

can_receive(rules, identity, msg, sender) ==
    verdict(rules, identity, "receive",
            {p \in KnownPatterns(rules, "receive") : pattern_matches(p, msg, sender)})

-----------------------------------------------------------------------------
(* Files *)

Opt(attrs, a) == IF a \in DOMAIN attrs THEN {attrs[a]} ELSE {}

\* An attribute, or else its _prefix form with a star behind it.
OrPrefix(attrs, a, prefix) ==
    IF a \in DOMAIN attrs THEN {attrs[a]}
    ELSE {Append(p, "*") : p \in Opt(attrs, prefix)}

SendAttrs ==
    [destination |-> "send_destination", prefix |-> "send_destination_prefix",
     interface |-> "send_interface", member |-> "send_member",
     path |-> "send_path", type |-> "send_type"]

RecvAttrs ==
    [destination |-> "recv_sender", prefix |-> "recv_sender_prefix",
     interface |-> "recv_interface", member |-> "recv_member",
     path |-> "recv_path", type |-> "recv_type"]

\* The pattern made of the send_ or recv_ attributes, if there are any.
Patterns(attrs, side) ==
    {[destination |-> OrPrefix(attrs, side.destination, side.prefix),
      interface |-> Opt(attrs, side.interface), member |-> Opt(attrs, side.member),
      path |-> Opt(attrs, side.path), type |-> Opt(attrs, side.type)] :
        x \in {1 : a \in DOMAIN attrs \cap {side[f] : f \in DOMAIN side}}}

ElementPatterns(attrs) ==
    [own |-> OrPrefix(attrs, "own", "own_prefix"),
     send |-> Patterns(attrs, SendAttrs), receive |-> Patterns(attrs, RecvAttrs)]

\* What <policy ...> opens: context wins over user, user over group.
policy_context(attrs) ==
    CASE "context" \in DOMAIN attrs ->
            [context |-> IF attrs.context = "mandatory" THEN "mandatory" ELSE "default",
             user |-> {}, group |-> {}]
      [] "user" \in DOMAIN attrs /\ "context" \notin DOMAIN attrs ->
            [context |-> "user", user |-> {attrs.user}, group |-> {}]
      [] "group" \in DOMAIN attrs /\ DOMAIN attrs \cap {"context", "user"} = {} ->
            [context |-> "group", user |-> {}, group |-> {attrs.group}]
      [] OTHER -> [context |-> "default", user |-> {}, group |-> {}]

element_rule(tag, attrs, ctx) ==
    LET patterns == ElementPatterns(attrs)
    IN  IF tag = "allow"
        THEN Rule(ctx.context, ctx.user, ctx.group, patterns, NoPatterns)
        ELSE Rule(ctx.context, ctx.user, ctx.group, NoPatterns, patterns)

\* One token: <policy> opens a context (<policy/> does not), </policy> ends it,
\* <allow> and <deny>, closed or not, make a rule when they name anything.
XmlStep(s, tok) ==
    CASE tok.name = "policy" /\ tok.kind = "start" ->
            [s EXCEPT !.ctx = {policy_context(tok.attrs)}]
      [] tok.name = "policy" /\ tok.kind = "end" -> [s EXCEPT !.ctx = {}]
      [] /\ tok.name \in {"allow", "deny"}
         /\ tok.kind # "end"
         /\ s.ctx # {}
         /\ ElementPatterns(tok.attrs) # NoPatterns ->
            [s EXCEPT !.rules = Append(@, element_rule(tok.name, tok.attrs,
                                                       CHOOSE c \in s.ctx : TRUE))]
      [] OTHER -> s

parse_xml_policy(tokens) ==
    LET after[i \in 0 .. Len(tokens)] ==
            IF i = 0 THEN [ctx |-> {}, rules |-> << >>]
            ELSE XmlStep(after[i - 1], tokens[i])
    IN  after[Len(tokens)].rules

\* Every file of every directory in turn, a directory's files in the order of
\* their names.  A malformed TOML file is passed over; a file that cannot be
\* read fails the whole load, whatever was read before.
RulesOf(f) ==
    CASE f.ext = "toml" -> (IF f.malformed THEN << >> ELSE f.rules)
      [] f.ext = "conf" -> parse_xml_policy(f.tokens)
      [] OTHER -> << >>

Readable(files) ==
    \A i \in DOMAIN files : files[i].ext \in {"toml", "conf"} => files[i].readable

load_dirs(dirs) ==
    LET files == FlattenSeq(dirs)
    IN  IF ~ Readable(files) THEN {}
        ELSE {FlattenSeq([i \in DOMAIN files |-> RulesOf(files[i])])}

\* What read_dir and the parsers hand over is lists, of files, of rules with one of
\* the four contexts, and of tags.
AreFiles(files) ==
    /\ files \in Seq(Range(files))
    /\ \A f \in Range(files) :
          /\ f.ext = "toml" => /\ f.rules \in Seq(Range(f.rules))
                              /\ \A r \in Range(f.rules) : r.context \in Range(Contexts)
          /\ f.ext = "conf" => f.tokens \in Seq(Range(f.tokens))

-----------------------------------------------------------------------------
(* What the files say, read off the files themselves *)

\* The element at i stands between a <policy> and the next </policy> or
\* <policy>, the last of which is at Opening.
Openings(doc, i) ==
    {j \in 1 .. i - 1 :
        /\ doc[j].name = "policy" /\ doc[j].kind = "start"
        /\ \A k \in j + 1 .. i - 1 : doc[k].name = "policy" => doc[k].kind \notin {"start", "end"}}

\* The elements of a document that make rules: they stand in a context, allow or
\* deny, and name something.
Elements(doc) ==
    {i \in DOMAIN doc :
        /\ Openings(doc, i) # {}
        /\ doc[i].name \in {"allow", "deny"} /\ doc[i].kind # "end"
        /\ ElementPatterns(doc[i].attrs) # NoPatterns}

RuleOf(doc, i) ==
    element_rule(doc[i].name, doc[i].attrs,
                 policy_context(doc[CHOOSE j \in Openings(doc, i) : TRUE].attrs))

\* The statements of a file, each with its place in it.
Statements(file) ==
    CASE file.ext = "toml" -> (IF file.malformed THEN {}
                               ELSE {<<i, file.rules[i]>> : i \in DOMAIN file.rules})
      [] file.ext = "conf" -> {<<i, RuleOf(file.tokens, i)>> : i \in Elements(file.tokens)}
      [] OTHER -> {}

\* The statements of all files: <<file, place, rule>>.
AllStatements(files) ==
    UNION {{<<n, s[1], s[2]>> : s \in Statements(files[n])} : n \in DOMAIN files}

Rank(context) == CHOOSE k \in 1 .. 4 : Contexts[k] = context

Later(w, v) == v[1] < w[1] \/ (v[1] = w[1] /\ v[2] < w[2])

\* A statement of a higher context outweighs, and within a context a later one.
Outweighs(w, v) ==
    \/ Rank(v[3].context) < Rank(w[3].context)
    \/ Rank(v[3].context) = Rank(w[3].context) /\ Later(w, v)

\* A question is of a kind: may the identity own the name text, send the message
\* to text, receive it from text?
Permits(rules, identity, kind, msg, text) ==
    CASE kind = "own" -> can_own(rules, identity, text)
      [] kind = "send" -> can_send(rules, identity, msg, text)
      [] kind = "receive" -> can_receive(rules, identity, msg, text)

IsAbout(pattern, kind, msg, text) ==
    IF kind = "own" THEN glob_match(pattern, text) ELSE pattern_matches(pattern, msg, text)

\* The verdict of the files: of the statements that apply to the identity and
\* are about the question, the one that outweighs the others has the last word,
\* and where it both allows and denies, it denies.
LastWord(files, identity, kind, msg, text) ==
    LET Match(patterns) == \E p \in patterns[kind] : IsAbout(p, kind, msg, text)
        words == {w \in AllStatements(files) : /\ applies_to(w[3], identity)
                                               /\ Match(w[3].allow) \/ Match(w[3].deny)}
    IN  \/ AllStatements(files) = {}
        \/ \E w \in words : /\ ~ Match(w[3].deny)
                             /\ \A v \in words \ {w} : Outweighs(w, v)

=============================================================================
