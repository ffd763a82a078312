------------------------------- MODULE MCCheck -------------------------------
(***************************************************************************)
(* A host with two IPv4 addresses and one IPv6 address: sshd on the first, *)
(* a web server on the second and on IPv6, and a UDP port; every mix of    *)
(* three verdicts for them, two concurrent dials in a pool of one, and the *)
(* policies that tell the exits apart: written by hand, with and without   *)
(* mistakes, or generated and cut off anywhere.                            *)
(***************************************************************************)
EXTENDS Check

Verdict(port, proto, family, at, result) ==
    [port |-> port, proto |-> proto, family |-> family, at |-> at, result |-> result]

Address(ip, family, up) == [ip |-> ip, family |-> family, up |-> up, global |-> TRUE]

Addresses == <<Address("a0", "ip", FALSE), Address("a1", "ip", TRUE),
               Address("a2", "ip", TRUE), Address("b1", "ip6", TRUE)>>

Rows(ssh, web, web6) ==
    <<Verdict(22, "tcp", "ip", {"a1", "a2"}, ssh), Verdict(80, "tcp", "ip", {"a2"}, web),
      Verdict(80, "tcp", "ip6", {"b1"}, web6), Verdict(22, "udp", "ip", {"a1"}, web)>>

Host(addresses, rows, readFailed, notes) ==
    [addresses |-> addresses, verdicts |-> rows, readFailed |-> readFailed, notes |-> notes]

Readable == {Host(Addresses, Rows(r[1], r[2], r[3]), FALSE, n) :
                r \in Results \X Results \X Results, n \in BOOLEAN}

\* Nothing decided, nothing to probe, one port over MaxPorts.
Others ==
    {Host(Addresses, Rows("unknown", "unknown", "unknown"), TRUE, FALSE),
     Host(<<Addresses[1]>>, Rows("reachable", "filtered", "unknown"), FALSE, FALSE),
     Host(Addresses, Rows("reachable", "reachable", "filtered")
                        \o <<Verdict(443, "tcp", "ip", {"a1"}, "filtered")>>, FALSE, FALSE)}

Written(entries, failOnUnknown) ==
    <<Line("version", 1), Line("zones", "internet")>>
        \o [i \in DOMAIN entries |-> Line("allow", entries[i])]
        \o <<Line("fail_on_unknown", failOnUnknown)>>

SshOnly == Written(<<Entry(22, "tcp")>>, TRUE)

Files ==
    {NoFile, SshOnly,
     Written(<<Entry(80, "tcp"), Entry(22, "tcp"), Entry(22, "udp"), Entry(80, "tcp")>>, TRUE),
     Written(<<Entry(80, "tcp")>>, FALSE)}

\* What Load has to refuse, and a file without zones.
OddFiles ==
    {Tail(SshOnly), <<Line("version", 2)>> \o Tail(SshOnly),
     <<SshOnly[1], Line("zones", "lan")>> \o Tail(Tail(SshOnly)),
     Written(<<Entry(65536, "tcp")>>, TRUE), Written(<<Entry(22, "icmp")>>, TRUE),
     Append(SshOnly, Line("fail_on_unkown", TRUE)), <<SshOnly[1], Comment>>}

Mixed == Host(Addresses, Rows("reachable", "unknown", "reachable"), FALSE, TRUE)

MCRequests ==
    [host : Readable \union Others, probeFrom : BOOLEAN, file : Files]
      \union [host : Readable \union Others, probeFrom : {FALSE}, file : {Generated}]
      \union [host : {Mixed}, probeFrom : {TRUE}, file : {Generated}]
      \union [host : {Mixed}, probeFrom : {FALSE}, file : OddFiles]

MCNetworks ==
    {{}, {<<"a1", 22>>, <<"a2", 22>>}, {<<"a2", 80>>}, {<<"a1", 22>>, <<"a2", 80>>, <<"b1", 80>>}}
=============================================================================
