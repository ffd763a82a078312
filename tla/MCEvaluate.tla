----------------------------- MODULE MCEvaluate ------------------------------
(* A host with two public interfaces and a LAN, and rules that drop,       *)
(* rewrite here, to the LAN or out of sight, on every interface or one.    *)
EXTENDS Evaluate

MCSrcOf(fam) == IF fam = "ip" THEN "src4" ELSE "src6"
MCUnmap(ip) == IF ip = "::ffff:pub4b" THEN "pub4b" ELSE ip

(* A prerouting rule matches one family, port and interface; the input and *)
(* forward hooks decide by the packet's port.                              *)
Rule(fam, iif, kind, dnat) == [family |-> fam, port |-> 80, iif |-> iif, kind |-> kind, dnat |-> dnat]
To(ip) == [ip |-> ip, port |-> 443]

Matching(rs, p) == {i \in DOMAIN rs.pre : /\ rs.pre[i].family = p.family
                                         /\ rs.pre[i].port = p.dport
                                         /\ rs.pre[i].iif \in {p.iif, "any"}}
MCHookResult(rs, h, p) ==
    IF h = "prerouting"
    THEN LET first == {i \in Matching(rs, p) : \A j \in Matching(rs, p) : i <= j}
         IN  IF first = {} THEN [kind |-> "accept", dnat |-> NoDNAT]
             ELSE LET r == rs.pre[CHOOSE i \in first : TRUE] IN [kind |-> r.kind, dnat |-> r.dnat]
    ELSE [kind |-> IF h = "input" THEN (IF p.dport = 443 THEN "drop" ELSE rs.input)
                   ELSE IF p.oif = "lan" THEN rs.forward ELSE "drop",
          dnat |-> NoDNAT]

MCForwarded(rs) ==
    {[family |-> rs.pre[i].family, proto |-> "tcp", port |-> rs.pre[i].port] :
        i \in {j \in DOMAIN rs.pre : rs.pre[j].dnat # NoDNAT}}

PreRules ==
    {Rule("ip", "wan1", "drop", NoDNAT), Rule("ip", "wan1", "unknown", NoDNAT)}
    \union {Rule("ip", i, "accept", To(t)) : i \in {"wan2", "any"}, t \in {"pub4b", "vm", "far"}}
MCRulesets ==
    [pre : {<<>>} \union [1 .. 1 -> PreRules], input : {"accept", "drop", "unknown"}, forward : {"accept"}]
    \union [pre : {<<Rule("ip", "any", "accept", To("vm"))>>}, input : {"accept"}, forward : {"drop"}]
    \union [pre : {Rule("ip", "wan1", "drop", NoDNAT)} \X {Rule("ip", "any", "accept", To("vm"))},
            input : {"accept"}, forward : {"accept"}]

Addr(ip, fam, global, net) == [ip |-> ip, family |-> fam, global |-> global, net |-> net]
Iface(name, ups, addrs, fwds) ==
    [name : {name}, up : ups, addrs : {addrs}, forward4 : fwds, forward6 : {FALSE}]
MCIfaces ==
    Iface("wan1", BOOLEAN, <<Addr("pub4a", "ip", TRUE, {"pub4a"}), Addr("pub6", "ip6", TRUE, {"pub6"})>>, {FALSE})
    \X Iface("wan2", {TRUE}, <<Addr("pub4b", "ip", TRUE, {"pub4b"})>>, BOOLEAN)
    \X Iface("lan", {TRUE}, <<Addr("lan", "ip", FALSE, {"lan", "vm"})>>, {FALSE})

Listens(fam, bind) == [family |-> fam, proto |-> "tcp", bind |-> bind, port |-> 80]
SocketSets == SUBSET {Listens("ip", "0.0.0.0"), Listens("ip6", "::"), Listens("ip", "127.0.0.1"),
                      Listens("ip", "pub4b")}
PublishSets == {{}, {Listens("ip", "0.0.0.0")}, {Listens("ip6", "::")}}

Snapshots(sockets, publishes, rulesets, v6only, forward4, unread) ==
    [sockets : sockets, publishes : publishes, ifaces : MCIfaces, ruleset : rulesets, v6only : v6only,
     forward4 : forward4, forward6 : {FALSE}, readFailed : unread,
     routes : {{[family |-> "ip", net |-> {"src4"}, len |-> 0, dev |-> "wan1"]}}]

Plain   == [pre : {<<>>}, input : {"accept"}, forward : {"accept"}]
Forwards80 == [pre : {<<Rule("ip", "any", "accept", To("vm"))>>}, input : {"accept"}, forward : {"accept"}]
Undecided  == [pre : {<<Rule("ip", "wan1", "unknown", NoDNAT)>>}, input : {"accept", "drop", "unknown"},
               forward : {"accept"}]

(* Every way the sources of a port can meet, and every ruleset for a few.  *)
MCInputs ==
    Snapshots(SocketSets, PublishSets, Plain \union Undecided, BOOLEAN, {FALSE}, {FALSE})
    \union Snapshots(SocketSets, PublishSets, Forwards80, {FALSE}, {TRUE}, {TRUE})
    \union Snapshots({{}, {Listens("ip", "pub4b"), Listens("ip6", "::ffff:pub4b")}, {Listens("ip", "0.0.0.0"), Listens("ip", "127.0.0.1")}},
                     {{}}, MCRulesets, {FALSE}, BOOLEAN, {FALSE})

(* A socket of the port beside its rewrite.                                *)
KeptRow == Snapshots({{Listens("ip", "127.0.0.1")}}, {{}}, Forwards80, {FALSE}, BOOLEAN, {FALSE})
=============================================================================
