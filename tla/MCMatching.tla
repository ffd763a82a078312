----------------------------- MODULE MCMatching ------------------------------
(* Statements, sets and packets on both sides of every boundary: ports at  *)
(* a byte's carry, prefixes on and off a byte boundary, interval sets in   *)
(* the orders a kernel may return them, unreadable statements among        *)
(* readable ones.                                                          *)
EXTENDS Matching

El(port, end) == [key |-> PortBytes(port), end |-> end, val |-> FALSE, keyEnd |-> FALSE]
PortSet(name, interval, elements) ==
    [name |-> name, id |-> 0, interval |-> interval, isMap |-> FALSE, concat |-> FALSE,
     elements |-> elements]
To(lo, hi) == [lo |-> lo, hi |-> hi]
Readable(set, ranges) == [set |-> set, ranges |-> ranges, readable |-> TRUE]

(* {255-256, 300}, in two orders; {0-255}; {256-65535}; a flat set; a map. *)
MCPortSets ==
    <<Readable(PortSet("closed", TRUE, <<El(0, TRUE), El(255, FALSE), El(257, TRUE),
                                         El(300, FALSE), El(301, TRUE)>>), {To(255, 256), To(300, 300)}),
      Readable(PortSet("shuffled", TRUE, <<El(301, TRUE), El(257, TRUE), El(300, FALSE),
                                           El(255, FALSE), El(0, TRUE)>>), {To(255, 256), To(300, 300)}),
      Readable(PortSet("low", TRUE, <<El(0, FALSE), El(256, TRUE)>>), {To(0, 255)}),
      Readable(PortSet("high", TRUE, <<El(0, TRUE), El(256, FALSE)>>), {To(256, 65535)}),
      Readable(PortSet("flat", FALSE, <<El(256, FALSE), El(80, FALSE)>>), {To(80, 80), To(256, 256)}),
      [set |-> [PortSet("map", FALSE, <<El(256, FALSE)>>) EXCEPT !.isMap = TRUE],
       ranges |-> {To(256, 256)}, readable |-> FALSE]>>

eth == <<101, 49>>
lan == <<108, 49>>
Src == <<198, 51, 100, 7>>
Here == <<203, 0, 113, 5>>
There == <<10, 0, 3, 9>>

Packets ==
    [family : {"ip"}, proto : {"tcp"}, src : {Src}, dst : {Here}, sport : {41234},
     dport : {80, 255, 256, 257, 300, 301}, iif : {eth}, oif : {<<>>}, iifIndex : {2},
     oifIndex : {0}, ctState : {"new"}, dnatApplied : {FALSE}, dstIsLocal : {TRUE},
     srcRouteDev : {eth}]
    \union
    [family : {"ip"}, proto : {"udp"}, src : {Src}, dst : {There}, sport : {41234},
     dport : {256}, iif : {eth}, oif : {lan}, iifIndex : {0},
     oifIndex : {0}, ctState : {"new"}, dnatApplied : {TRUE}, dstIsLocal : {FALSE},
     srcRouteDev : {<<>>, lan}]

PortStatements ==
    [s : {"port"}, op : {"eq", "neq", "gt", "lt"}, port : {256}]
    \union [s : {"between", "outside"}, lo : {255}, hi : {256, 300}]
    \union [s : {"masked"}, high : {1}]
    \union [s : {"in-set"}, set : {x.set.name : x \in Range(MCPortSets)}, invert : BOOLEAN]
(* iptables matches in the forms the decoders read and refuse. *)
XtStatements ==
    [s : {"xt-state"}, states : {{8}, {2, 4}}, invert : BOOLEAN, others : {{}, {AliasFlag}, {16}}]
    \union [s : {"xt-types"}, rev : {0, 1}, dst : {{4}, {2, 4}, {4, 64}}, src : {{}}, invert : BOOLEAN,
            limits : {{}}]
    \union [s : {"xt-types"}, rev : {1}, dst : {{4}}, src : {{2}}, invert : BOOLEAN, limits : {{}, {4}}]
    \union [s : {"recent"}, rev : {0, 1}, check : {2, 4, 8, 3}, invert : BOOLEAN]
    \union [s : {"opaque", "socket", "xt-icmp"}]

OtherStatements ==
    [s : {"prefix"}, op : {"eq", "neq"}, field : {"saddr"}, addr : {<<198, 51, 100, 0>>},
     bits : {24, 22}]
    \union [s : {"prefix"}, op : {"eq"}, field : {"daddr"}, addr : {<<203, 0, 113, 4>>}, bits : {30, 32}]
    \union [s : {"prefix"}, op : {"eq"}, field : {"daddr"}, addr : {<<10, 0, 0, 0>>}, bits : {8, 12}]
    \union [s : {"proto"}, op : {"eq", "neq"}, number : {17}]
    \union [s : {"iifname"}, name : {<<101>>, Ifname(eth), Ifname(<<101>>)}]
    \union [s : {"iif"}, index : {2, 3}]
    \union [s : {"route-by"}, name : {eth}]
    \union [s : {"skuid-0", "mark", "ct-new", "ct-old", "ct-dnat", "ct-mark", "set-ct-mark",
                 "local", "no-route", "limit", "log", "quota", "last"}]

Does ==
    {[d |-> "none"], [d |-> "verdict", kind |-> "accept", chain |-> ""],
     [d |-> "verdict", kind |-> "queue", chain |-> ""], [d |-> "reject"],
     [d |-> "verdict", kind |-> "jump", chain |-> "c"], [d |-> "xt", name |-> "LOG"],
     [d |-> "xt", name |-> "REJECT"], [d |-> "xt", name |-> "MASQUERADE"],
     [d |-> "xt", name |-> "MARK"]}
    \union [d : {"dnat"}, to : {There}, port : {0, 300}]
    \union [d : {"xt-dnat"}, to : {There}, port : {300}]
    \union [d : {"snat", "xt-dnat-0"}, to : {There}]

(* Them, and what the library drops or refuses. *)
Mixed ==
    XtStatements
    \union [s : {"port"}, op : {"neq"}, port : {256}]
    \union [s : {"ct-new", "last", "quota"}]

(* Every statement with every packet, before every other statement and     *)
(* every thing to do; a pair whose second half does not read the port is   *)
(* tried on one port.                                                      *)
Accept    == [d |-> "verdict", kind |-> "accept", chain |-> ""]
FewDoes   == {[d |-> "none"], Accept, [d |-> "dnat", to |-> There, port |-> 300]}
MixedDoes == {[d |-> "none"], [d |-> "xt", name |-> "REJECT"],
              [d |-> "xt-dnat", to |-> There, port |-> 300]}
At256     == {p \in Packets : p.dport = 256}
FewPorts  == [s : {"port"}, op : {"eq", "neq"}, port : {256}] \union [s : {"masked"}, high : {1}]
One(X)    == [1 .. 1 -> X]

MCInputs ==
    [pkt : Packets, stmts : {<<>>} \union One(PortStatements \union OtherStatements), does : Does]
    \union
    [pkt : Packets, stmts : PortStatements \X OtherStatements, does : FewDoes]
    \union
    [pkt : At256, stmts : FewPorts \X OtherStatements, does : Does]
    \union
    [pkt : At256, stmts : OtherStatements \X OtherStatements, does : {[d |-> "none"], Accept}]
    \union
    [pkt : At256, stmts : One(Mixed), does : Does]
    \union
    [pkt : {p \in At256 : p.proto = "tcp"}, stmts : Mixed \X Mixed, does : MixedDoes]

(* An iptables rewrite that names no port. *)
NoPortInputs ==
    [pkt : Packets, stmts : One(PortStatements),
     does : [d : {"dnat", "xt-dnat"}, to : {There}, port : {0}]]
=============================================================================
