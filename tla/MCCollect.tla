------------------------------ MODULE MCCollect ------------------------------
(***************************************************************************)
(* Two tables of one family, so that the second uses the cached listing,   *)
(* with a chain each and a set between them, and an arp table to skip; one *)
(* thing of every kind around them.  The host starts with all of its       *)
(* ruleset, its tables alone or nothing; the transactions before and       *)
(* during the read get to the rest.                                        *)
(***************************************************************************)
EXTENDS All

MCTables == {"filter", "nat", "arp"}
MCChains == {"input", "prerouting"}
MCSets   == {"allowed"}
MCTableOf ==
    [o \in MCChains \union MCSets |->
        CASE o = "input" -> "filter" [] o = "prerouting" -> "nat" [] OTHER -> "nat"]
MCFamilyOf == [t \in MCTables |-> IF t = "arp" THEN "arp" ELSE "ip"]

MCForwardingOf == [d \in {"eth0"} |-> "eth0 forwarding"]
MCOwnerOf == [l \in {"tcp"} |-> "nginx"]

MCInit ==
    /\ AllInit
    /\ {o \in Objects : kernel[o] = 0} \in {Objects, Tables, {}}
MCSpec == MCInit /\ [][AllNext]_allVars
=============================================================================
