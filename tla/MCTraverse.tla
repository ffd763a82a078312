----------------------------- MODULE MCTraverse ------------------------------
(* Small rulesets for Traverse, and a rule language of its own: a rule is  *)
(* the outcome its expressions give, or a lookup in the table's only set.  *)
(* A rule that is not resolved carries the action read before its obscure  *)
(* expression.                                                             *)
EXTENDS Traverse

MCIface == {"eth0", "eth1"}
MCDNATTarget == {"c1:80", "c2:80"}
MCSetList == {<<>>, <<"member">>, <<"other">>}

R(out, kind, chain, to) == [out |-> out, kind |-> kind, chain |-> chain, to |-> to]
Does(kind)       == R("Match", kind, 0, NoDNAT)
Goes(kind, name) == R("Match", kind, name, NoDNAT)
Rewrites(to)     == R("Match", "dnat", 0, to)
Passes    == R("NoMatch", "none", 0, NoDNAT)
Skips     == R("Skipped", "none", 0, NoDNAT)
Obscure(kind) == R("Unknown", kind, 0, NoDNAT)
InSetDrop == R("lookup", "drop", 0, NoDNAT)

BaseRules == {Skips, Obscure("none"), Does("accept"), Does("drop"), Does("return"),
              Does("none"), Goes("jump", 2), Goes("goto", 2)}
Sub2Rules == {Passes, Does("reject"), Does("return"), Goes("jump", 3), Goes("goto", 3),
              Goes("jump", 2)}
Sub3Rules == {Does("return"), Does("accept"), Goes("jump", 2), Goes("goto", 9), Obscure("accept")}
HookRules == {Does("accept"), Does("drop"), Rewrites("c1:80"), Rewrites("c2:80"),
              Does("queue"), InSetDrop}
MCRule == BaseRules \union Sub2Rules \union Sub3Rules \union HookRules

MCMatchRule(r, sets) ==
    [out |-> IF r.out # "lookup" THEN r.out
             ELSE IF sets = <<>> THEN "Unknown"
             ELSE IF sets = <<"member">> THEN "Match" ELSE "NoMatch",
     act |-> [kind  |-> IF r.out = "lookup" /\ sets = <<>> THEN "none" ELSE r.kind,
              chain |-> r.chain, dnat |-> r.to]]

UpTo1(S) == {<<>>} \union {<<a>> : a \in S}
UpTo2(S) == UpTo1(S) \union {<<a, b>> : a, b \in S}

(* Sets of chains, tables and calls, as products that TLC need not list.   *)
One(S) == [1 .. 1 -> S]

RegularChains(name, rules) ==
    [name : {name}, base : {FALSE}, hook : {""}, priority : {0}, policy : {""},
     devices : {{}}, rules : rules]
BasesOn(hooks, priorities, policies, devices, rules) ==
    [name : {1}, base : {TRUE}, hook : hooks, priority : priorities,
     policy : policies, devices : devices, rules : rules]
Tables(name, families, sets, chains) ==
    [name : {name}, family : families, sets : sets, chains : chains]
Calls(rulesets, hook, ifaces) ==
    [rs : rulesets, family : {"ip"}, hook : {hook}, iface : ifaces]

(* One base chain and two regular chains that may loop, in a table that    *)
(* follows another with a chain of the same name.                          *)
Nested ==
    Calls(Tables(2, {"ip"}, {<<"other">>}, One(RegularChains(2, {<<Does("accept")>>})))
          \X Tables(1, {"ip"}, {<<>>},
                BasesOn({"input"}, {0}, {"accept", "drop", ""}, {{}}, UpTo2(BaseRules))
                \X RegularChains(2, UpTo2(Sub2Rules))
                \X RegularChains(3, UpTo1(Sub3Rules))),
          "input", {"eth0"})

(* Two base chains on one hook, in tables of different families and names, *)
(* with the table of a family the walk skips, and an ingress chain.        *)
Hooked ==
    Calls(Tables(2, {"inet"}, MCSetList, One(BasesOn({"prerouting"}, {-1, 0, 1},
                {"accept", "drop"}, {{}}, One(HookRules))))
          \X Tables(1, {"ip"}, {<<>>}, One(BasesOn({"prerouting", "hook(9)"}, {0},
                {"accept", "drop"}, {{}}, One(HookRules))))
          \X (Tables(3, {"netdev", "inet"}, {<<>>},
                     One(BasesOn({"ingress"}, {-5}, {"drop"}, {{}, {"eth1"}}, {<<>>})))
              \union Tables(3, {"ip6"}, {<<>>},
                     One(BasesOn({"prerouting"}, {-5}, {"drop"}, {{}}, {<<>>})))),
          "prerouting", {"eth0", ""})

MCInputs == Nested \union Hooked

(* Tables of two families that share a name. *)
SharedName ==
    Calls(Tables(1, {"ip"}, MCSetList,
              BasesOn({"prerouting"}, {-1}, {"accept"}, {{}}, One(HookRules))
              \X RegularChains(2, {<<Does("drop")>>}))
          \X Tables(1, {"inet"}, {<<"other">>},
              BasesOn({"input"}, {0}, {"accept", "drop"}, {{}},
                          {Goes("jump", 2), Does("none")} \X {InSetDrop})
              \X RegularChains(2, {<<Does("accept")>>})), "input", {"eth0"})

ASSUME OnlyRegularChainsCalled
=============================================================================
