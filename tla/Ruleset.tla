------------------------------- MODULE Ruleset -------------------------------
(***************************************************************************)
(* The part of a ruleset snapshot (facts.Ruleset) that the walk of one     *)
(* netfilter hook reads, and the lookups of internal/model/traverse.go     *)
(* that read it.                                                           *)
(*                                                                         *)
(* A ruleset is a sequence of tables in document order, a table carries a  *)
(* sequence of chains, a chain a sequence of rules.  Table and chain names *)
(* are numbers, ordered as the code orders the strings.  A chain is        *)
(* referred to by its place <<t, c>>: two tables may share a name, so a    *)
(* name does not identify one.                                             *)
(*                                                                         *)
(* What a rule's expressions say of the packet is a parameter: MatchRule   *)
(* gives the outcome and the action of a rule, evaluated against the sets  *)
(* of one table.                                                           *)
(***************************************************************************)
EXTENDS Integers, Sequences, FiniteSets

CONSTANTS
    Rule,             \* the rules a chain may hold
    SetList,          \* the values a table's Sets field may have
    DNATTarget,       \* the destinations a dnat rule may rewrite to
    Iface,            \* names of network interfaces
    MatchRule(_, _),  \* MatchRule(rule, sets) = [out, act]
    Inputs            \* the calls of Traverse under study

NoDNAT == "no dnat"

Family == {"ip", "ip6", "inet", "netdev"}

(* traverse.go knownHooks: the hooks a base chain can be placed on. *)
KnownHooks == {"ingress", "egress", "prerouting", "input", "forward",
               "output", "postrouting"}

(* Outcome and Action of packet.go.  "queue" stands for every verdict the  *)
(* walk has no case for; an act of "none" is a rule with no verdict.       *)
Outcome == {"NoMatch", "Skipped", "Unknown", "Match"}
ActKind == {"accept", "drop", "reject", "dnat", "return", "jump", "goto",
            "continue", "none", "queue", "unknown"}
Action == [kind : ActKind, chain : Nat, dnat : DNATTarget \union {NoDNAT}]

Chain == [name : Nat, base : BOOLEAN, hook : STRING, priority : Int,
          policy : STRING, devices : SUBSET Iface, rules : Seq(Rule)]
Table == [name : Nat, family : Family, sets : SetList, chains : Seq(Chain)]
Call  == [rs : Seq(Table), family : Family, hook : STRING,
          iface : Iface \union {""}]

ASSUME InputsType == Inputs \subseteq Call
ASSUME MatchRuleType ==
    \A r \in Rule, s \in SetList : MatchRule(r, s) \in [out : Outcome, act : Action]
ASSUME NoSetsType == <<>> \in SetList

(* Every chain of a ruleset, by its place. *)
Places(rs) == UNION {{t} \X (1 .. Len(rs[t].chains)) : t \in 1 .. Len(rs)}
ChainAt(rs, p) == rs[p[1]].chains[p[2]]

(* A table takes part in a walk of a family when it is of that family or   *)
(* of inet, which both families pass through.                              *)
InFamily(rs, fam, t) == rs[t].family \in {fam, "inet"}

(* chainSeesIface: a chain whose devices could not be read, and a packet   *)
(* whose interface is not known, are both read as "sees everything".       *)
ChainSeesIface(devices, iface) ==
    \/ devices = {}
    \/ iface = ""
    \/ iface \in devices

(* ingressUnmodelled: some ingress chain, of whatever family, could see    *)
(* the packet before the first rule the walk knows about.                  *)
IngressUnmodelled(rs, iface) ==
    \E p \in Places(rs) :
        /\ ChainAt(rs, p).base
        /\ ChainAt(rs, p).hook = "ingress"
        /\ ChainSeesIface(ChainAt(rs, p).devices, iface)

(* A base chain of the walked family on a hook whyopen cannot name. *)
UnknownHook(rs, fam) ==
    \E p \in Places(rs) :
        /\ InFamily(rs, fam, p[1])
        /\ ChainAt(rs, p).base
        /\ ChainAt(rs, p).hook \notin KnownHooks

(* The base chains Traverse collects for one hook. *)
BaseChains(rs, fam, hook) ==
    {p \in Places(rs) :
        /\ InFamily(rs, fam, p[1])
        /\ ChainAt(rs, p).base
        /\ ChainAt(rs, p).hook = hook}

(* The order sort.SliceStable leaves them in: priority, then table name,   *)
(* then chain name, then document order.                                   *)
LexLess(k, l) ==
    \E i \in DOMAIN k : k[i] < l[i] /\ \A j \in 1 .. i - 1 : k[j] = l[j]

SortKey(rs, p) ==
    <<ChainAt(rs, p).priority, rs[p[1]].name, ChainAt(rs, p).name, p[1], p[2]>>

InDocumentOrder(rs, left, p) ==
    p \in left /\ \A q \in left \ {p} : LexLess(p, q)

IsNext(rs, left, p) ==
    p \in left /\ \A q \in left \ {p} : LexLess(SortKey(rs, p), SortKey(rs, q))

(* findChain: the first table of this name in the walked family or inet    *)
(* that has a chain of that name; the empty set if there is none.  Only    *)
(* names are compared: a table of family ip and one of family inet may     *)
(* share one.                                                              *)
FirstPlace(S) == {p \in S : \A q \in S \ {p} : LexLess(p, q)}

FindInAnyTable(rs, fam, tname, cname) ==
    FirstPlace({p \in Places(rs) : InFamily(rs, fam, p[1]) /\ ChainAt(rs, p).name = cname})

FindChain(rs, fam, tname, cname) ==
    FirstPlace({p \in Places(rs) : /\ rs[p[1]].name = tname
                                  /\ InFamily(rs, fam, p[1])
                                  /\ ChainAt(rs, p).name = cname})

(* tableSets: the sets of the first table of this name in the walked       *)
(* family or inet, or none.                                                *)
TableSets(rs, fam, tname) ==
    LET named == {t \in 1 .. Len(rs) : rs[t].name = tname /\ InFamily(rs, fam, t)}
        first == {t \in named : \A u \in named : t <= u}
    IN  IF first = {} THEN <<>> ELSE rs[CHOOSE t \in first : TRUE].sets

(* The outcome of the pc-th rule of the chain at p, as walkChain computes  *)
(* it: against the sets found by the name of the chain's table.            *)
Matched(rs, fam, p, pc) ==
    MatchRule(ChainAt(rs, p).rules[pc], TableSets(rs, fam, rs[p[1]].name))

(* basePolicyResult: what a base chain does once no rule has decided.      *)
Res(kind, why) == [kind |-> kind, why |-> why]

BasePolicyResult(rs, p) ==
    IF ChainAt(rs, p).policy \in {"accept", "drop"}
    THEN Res(ChainAt(rs, p).policy, "policy")
    ELSE Res("unknown", "policy")
=============================================================================
