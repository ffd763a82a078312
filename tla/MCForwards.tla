----------------------------- MODULE MCForwards ------------------------------
(* A base chain and two regular chains that may call each other, whose     *)
(* rules constrain the port in every way the scan reads or refuses, in the *)
(* tables of every family, rules that read the protocol from the header,   *)
(* and two tables that rewrite one port.                                   *)
EXTENDS Forwards

CONSTANTS MCPortSets
S == INSTANCE Statements WITH PortSets <- MCPortSets

El(port, end) == [key |-> PortBytes(port), end |-> end, val |-> FALSE, keyEnd |-> FALSE]
PortSet(name, interval, elements) ==
    [name |-> name, id |-> 0, interval |-> interval, isMap |-> FALSE, concat |-> FALSE,
     elements |-> elements]
SetsHere ==
    <<[set |-> PortSet("range", TRUE, <<El(80, FALSE), El(82, TRUE)>>), ranges |-> {[lo |-> 80, hi |-> 81]},
       readable |-> TRUE],
      [set |-> PortSet("flat", FALSE, <<El(81, FALSE), El(80, FALSE)>>), ranges |-> {[lo |-> p, hi |-> p] : p \in {80, 81}},
       readable |-> TRUE]>>

There == <<10, 0, 3, 9>>
There6 == <<32, 1, 13, 184, 0, 0, 0, 0, 0, 0, 0, 0, 0, 0, 0, 9>>
Mapped == <<0, 0, 0, 0, 0, 0, 0, 0, 0, 0, 255, 255>> \o There   \* ::ffff:10.0.3.9

Port(op, p)   == [s |-> "port", op |-> op, port |-> p]
Proto(op, n)  == [s |-> "proto", op |-> op, number |-> n]
InSet(n, inv) == [s |-> "in-set", set |-> n, invert |-> inv]
Constraints ==
    {<<>>, <<Port("eq", 80)>>, <<Port("neq", 80)>>, <<Proto("eq", 17), Port("eq", 81)>>,
     <<Proto("neq", 17), Port("eq", 81)>>, <<Proto("eq", 1)>>, <<InSet("flat", FALSE)>>,
     <<InSet("flat", TRUE)>>, <<InSet("range", FALSE)>>,
     <<[s |-> "outside", lo |-> 80, hi |-> 80]>>, <<[s |-> "masked", high |-> 0]>>,
     <<[s |-> "prefix", op |-> "eq", field |-> "daddr", addr |-> <<203, 0, 113, 4>>, bits |-> 30]>>}
FewConstraints == {<<>>, <<Port("eq", 81)>>, <<Proto("eq", 6)>>, <<InSet("flat", FALSE)>>}

Goes(kind, c) == [d |-> "verdict", kind |-> kind, chain |-> c]
Rewrites(to, p) == [d |-> "dnat", to |-> to, port |-> p]
XtRewrites(to)  == [d |-> "xt-dnat", to |-> to, port |-> 443]

Rules(cs, ds) == {S!CollectRule(S!CompileRule(c, d), TRUE) : c \in cs, d \in ds}
BaseRules  == Rules(Constraints, {Goes("jump", "a"), Goes("goto", "b"), Rewrites(There, 443)})
              \union Rules(FewConstraints, {Goes("accept", ""), XtRewrites(There6), Rewrites(Mapped, 443)})
ARules == Rules(FewConstraints, {Goes("jump", "b"), Rewrites(There, 0), Goes("return", "")})
BRules == Rules(FewConstraints, {Goes("jump", "a"), XtRewrites(There), Rewrites(There6, 443)})

\* The protocol read from an IPv4 header, in the tables of every family only
\* behind the load that makes sure of one.
IPv4Only == <<[k |-> "meta", key |-> "nfproto", reg |-> 1], S!Cmp("eq", <<2>>)>>
InHeader(op, n) ==
    <<[k |-> "payload", base |-> "network", off |-> 9, len |-> 1, reg |-> 1], S!Cmp(op, <<n>>)>>
HeaderRules ==
    {InHeader(op, n) \o r : op \in {"eq", "neq"}, n \in {6, 17},
                            r \in Rules({<<>>, <<Port("eq", 81)>>}, {Rewrites(There, 443)})}
SureRules == {IPv4Only \o r : r \in HeaderRules}

One(X) == [1 .. 1 -> X]
Chains(name, base, hook, rules) == [name : {name}, base : {base}, hook : {hook}, rules : rules]
Tables(families, chains) ==
    [name : {"t"}, family : families, sets : {<<SetsHere[1].set, SetsHere[2].set>>}, chains : chains]

Nested ==
    One(Tables({"ip", "inet"}, Chains("pre", TRUE, "prerouting", One(BaseRules))
                    \X Chains("a", FALSE, "", One(ARules))
                    \X Chains("b", FALSE, "", One(BRules))))
Siblings ==
    One(Tables({"ip", "ip6", "netdev"}, One(Chains("pre", TRUE, "prerouting", BaseRules \X BaseRules))))
Doubled ==
    Tables({"ip", "inet"}, One(Chains("pre", TRUE, "prerouting", One(BaseRules))))
    \X Tables({"inet"}, Chains("pre2", TRUE, "prerouting", One(BRules))
                        \X Chains("out", TRUE, "output", One(Rules({<<Port("eq", 82)>>}, {Rewrites(There, 0)}))))

Headers ==
    One(Tables({"ip"}, One(Chains("pre", TRUE, "prerouting", BRules \X HeaderRules))))
    \union One(Tables({"ip6", "inet"}, One(Chains("pre", TRUE, "prerouting", BRules \X SureRules))))

MCRulesets == Nested \union Siblings \union Doubled \union Headers

Probe(families, dsts) ==
    [family : families, proto : {"tcp", "udp"}, src : {<<198, 51, 100, 7>>}, dst : dsts,
     sport : {41234}, dport : {80, 81, 82}, iif : {<<101, 49>>}, oif : {<<>>}, iifIndex : {2},
     oifIndex : {0}, ctState : {"new"}, dnatApplied : {FALSE}, dstIsLocal : {TRUE},
     srcRouteDev : {<<>>}]
MCPackets == Probe({"ip"}, {<<203, 0, 113, 5>>}) \union Probe({"ip6"}, {There6})
=============================================================================
