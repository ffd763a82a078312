----------------------------- MODULE Expressions -----------------------------
(***************************************************************************)
(* The expressions of a rule and how internal/model/match.go reads them.   *)
(*                                                                         *)
(* A rule is a sequence of expressions that load registers from a packet,  *)
(* compare them and act.  A register holds a sequence of bytes in network  *)
(* order, so the order of two values of one width is the order of their    *)
(* bytes.  Exec is the effect of one expression on the machine             *)
(* [regs, act, out], whose out is "" until the rule is decided; Machine    *)
(* runs a whole rule.                                                      *)
(***************************************************************************)
EXTENDS Integers, Sequences, FiniteSets, FiniteSetsExt, TLC

IfnameLen == 16
NoDNAT == "no dnat"

Truncate(s, n) == SubSeq(s, 1, n)

(* bytes.Compare(a, b) < 0 for a and b of one length. *)
Less(a, b) == \E i \in DOMAIN b : a[i] < b[i] /\ \A j \in 1 .. i - 1 : a[j] = b[j]

(* The bitwise operations of a byte. *)
Bit(a, i) == (a \div 2^i) % 2
MaskByte(src, mask, xor) ==
    LET bit(i) == 2^i * ((Bit(src, i) * Bit(mask, i) + Bit(xor, i)) % 2)
    IN  bit(0) + bit(1) + bit(2) + bit(3) + bit(4) + bit(5) + bit(6) + bit(7)

(* A value the matcher refuses to give, and an operand of the document     *)
(* that is not hexadecimal.  No load gives an empty value.                 *)
Refused     == <<>>
Undecodable == <<256>>

Word(n)         == <<n, 0, 0, 0>>   \* a native 32-bit register, little-endian
ProtoNumber(pr) == IF pr = "udp" THEN <<17>> ELSE <<6>>
PortInOneByte(p) == <<p>>
PortBytes(p)    == <<p \div 256, p % 256>>
PortOf(b)       == b[1] * 256 + b[2]
Ifname(name)    == [i \in 1 .. IfnameLen |-> IF i <= Len(name) THEN name[i] ELSE 0]
Ifindex(n)      == IF n = 0 THEN Refused ELSE Word(n)

(* addrWindow: a load that lies inside one address field. *)
AddrWindow(addr, size, at, e) ==
    IF e.len > 0 /\ e.off >= at /\ e.off - at + e.len <= size /\ Len(addr) = size
    THEN SubSeq(addr, e.off - at + 1, e.off - at + e.len)
    ELSE Refused

NetworkBytes(pkt, e) ==
    LET size    == IF pkt.family = "ip" THEN 4 ELSE 16
        srcAt   == IF pkt.family = "ip" THEN 12 ELSE 8
        protoAt == IF pkt.family = "ip" THEN 9 ELSE 6
        src     == AddrWindow(pkt.src, size, srcAt, e)
    IN  IF e.off = protoAt /\ e.len = 1 THEN ProtoNumber(pkt.proto)
        ELSE IF src # Refused THEN src
        ELSE AddrWindow(pkt.dst, size, srcAt + size, e)

TransportBytes(pkt, e) ==
    CASE e.off = 0 /\ e.len = 2 -> PortBytes(pkt.sport)
      [] e.off = 2 /\ e.len = 2 -> PortBytes(pkt.dport)
      [] e.off = 13 /\ e.len = 1 /\ pkt.proto = "tcp" -> <<2>>
      [] OTHER -> Refused

PayloadBytes(pkt, e) ==
    CASE e.base = "network"   -> NetworkBytes(pkt, e)
      [] e.base = "transport" -> TransportBytes(pkt, e)
      [] OTHER -> Refused

MetaAbsent(key) == key \in {"skuid", "skgid"}

MetaBytes(pkt, key) ==
    CASE key = "iifname" -> Ifname(pkt.iif)
      [] key = "oifname" -> Ifname(pkt.oif)
      [] key = "iif"     -> Ifindex(pkt.iifIndex)
      [] key = "oif"     -> Ifindex(pkt.oifIndex)
      [] key = "l4proto" -> ProtoNumber(pkt.proto)
      [] key = "nfproto" -> IF pkt.family = "ip" THEN <<2>> ELSE <<10>>
      [] OTHER -> Refused

(* ctBytes: the first packet of a connection, rewritten or not. *)
CtBytes(pkt, key) ==
    CASE key = "state"  -> IF pkt.ctState = "new" THEN Word(8) ELSE Refused
      [] key = "status" -> Word(IF pkt.dnatApplied THEN 32 ELSE 0)
      [] OTHER -> Refused

(* fibBytes: a route is never reported missing. *)
FibBytes(pkt, e) ==
    CASE e.query = "addrtype" ->
           Word(IF e.source = "daddr" /\ pkt.dstIsLocal THEN 2 ELSE 1)
      [] e.query = "oif-present" ->
           IF pkt.srcRouteDev = <<>> \/ (e.iface /\ pkt.iif # <<>> /\ pkt.srcRouteDev # pkt.iif)
           THEN Refused ELSE Word(1)
      [] OTHER -> Refused

(* findSet: a named set by its name, an anonymous one by its ID. *)
FindSet(e, sets) ==
    LET named == {i \in DOMAIN sets : IF e.set # "" THEN sets[i].name = e.set
                                      ELSE e.setID # 0 /\ sets[i].id = e.setID}
    IN  {sets[i] : i \in {j \in named : \A k \in named : j <= k}}

PlainKeys(s) ==
    /\ \A el \in Range(s.elements) :
           ~el.val /\ ~el.keyEnd /\ el.key # Undecodable
    /\ \A a, b \in Range(s.elements) : Len(a.key) = Len(b.key)

FlatMember(v, s) == \E el \in Range(s.elements) : el.key = v

(* intervalMatch: the bounds in the order of their keys (equal ones in the *)
(* order given, as the insertion sort of slices.SortFunc leaves them).     *)
(* Two starts in a row are refused; an end that closes nothing says        *)
(* nothing; a last start runs to the top of the key space.                 *)
Sorted(s, i, j) ==
    LET a == s.elements[i].key
        b == s.elements[j].key
    IN  Less(a, b) \/ (a = b /\ i < j)

NextBound(s, i) ==
    {j \in DOMAIN s.elements :
        /\ Sorted(s, i, j)
        /\ ~ \E k \in DOMAIN s.elements : Sorted(s, i, k) /\ Sorted(s, k, j)}

TwoStarts(s) ==
    \E i \in DOMAIN s.elements : \E j \in NextBound(s, i) :
        ~s.elements[i].end /\ ~s.elements[j].end

IntervalMemberInclusive(v, s) ==
    \E i \in DOMAIN s.elements :
        /\ ~s.elements[i].end
        /\ ~Less(v, s.elements[i].key)
        /\ \A j \in NextBound(s, i) : ~Less(s.elements[j].key, v)

IntervalMember(v, s) ==
    \E i \in DOMAIN s.elements :
        /\ ~s.elements[i].end
        /\ ~Less(v, s.elements[i].key)
        /\ \A j \in NextBound(s, i) : Less(v, s.elements[j].key)

(* lookupMatch: "hit", "miss", or "refused". *)
LookupMatch(reg, e, sets) ==
    LET found   == FindSet(e, sets)
        s       == CHOOSE x \in found : TRUE
        v       == Truncate(reg, Len(s.elements[1].key))
        member  == IF s.interval THEN IntervalMember(v, s) ELSE FlatMember(v, s)
    IN  IF \/ found = {} \/ s.isMap \/ s.concat \/ s.elements = <<>>
           \/ ~PlainKeys(s) \/ Len(reg) < Len(s.elements[1].key)
           \/ s.interval /\ TwoStarts(s)
        THEN "refused"
        ELSE IF member # e.invert THEN "hit" ELSE "miss"

Act(kind, chain, dnat) == [kind |-> kind, chain |-> chain, dnat |-> dnat]
Nothing == Act("none", "", NoDNAT)

(* xtExpr: whether an iptables-nft expression is resolved, whether it      *)
(* matches, and what it does.                                              *)
XtUnresolved   == [ok |-> FALSE, hit |-> FALSE, act |-> Nothing]
XtMatches(hit) == [ok |-> TRUE, hit |-> hit, act |-> Nothing]
XtDoes(act)    == [ok |-> TRUE, hit |-> TRUE, act |-> act]

KnownAddrTypes == {"unspec", "unicast", "local", "broadcast", "anycast", "multicast"}

AddrTypeHolds(pkt, a) ==
    /\ a.dst # {} => ((IF pkt.dstIsLocal THEN "local" ELSE "unicast") \in a.dst) # a.invertDst
    /\ a.src # {} => ("unicast" \in a.src) # a.invertSrc

XtTarget(e) ==
    CASE e.name = "DNAT" ->
           IF e.decoded /\ e.arg.minIP # Undecodable
           THEN XtDoes(Act("dnat", "", [ip |-> e.arg.minIP, port |-> e.arg.minPort]))
           ELSE XtUnresolved
      [] e.name = "REJECT"     -> XtDoes(Act("drop", "", NoDNAT))
      [] e.name = "LOG"        -> XtMatches(TRUE)
      [] e.name = "MASQUERADE" -> XtDoes(Act("accept", "", NoDNAT))
      [] OTHER -> XtUnresolved

XtMatch(pkt, e) ==
    CASE e.name = "conntrack" /\ e.decoded /\ e.arg.matchesState ->
           XtMatches((pkt.ctState \in e.arg.states) # e.arg.invert)
      [] e.name = "addrtype" /\ e.decoded /\ e.arg.dst \union e.arg.src # {}
            /\ e.arg.dst \union e.arg.src \subseteq KnownAddrTypes ->
           XtMatches(AddrTypeHolds(pkt, e.arg))
      [] e.name = "recent" /\ e.decoded
            /\ e.arg.mode \in {"set", "check", "rcheck", "update", "remove"} ->
           XtMatches((e.arg.mode = "set") # e.arg.invert)
      [] e.name \in {"icmp", "icmp6", "rt", "hl"} -> XtMatches(FALSE)
      [] OTHER -> XtUnresolved

XtExpr(pkt, e) == IF e.kind = "target" THEN XtTarget(e) ELSE XtMatch(pkt, e)

SkippableWithVerdict(pkt, rule, i) == rule[i].kind = "match"

(* skippableUnresolvedMatch: the rule has no verdict, whatever the         *)
(* unresolved match at i would have said.                                  *)
SkippableUnresolvedMatch(pkt, rule, i) ==
    /\ rule[i].kind = "match"
    /\ \A j \in DOMAIN rule \ {i} :
          \/ rule[j].k \in {"payload", "cmp", "meta", "bitwise", "other"}
          \/ /\ rule[j].k = "xt"
             /\ XtExpr(pkt, rule[j]).ok
             /\ XtExpr(pkt, rule[j]).act.kind = "none"

(* natAction: the address and the port that the rule's registers hold.     *)
NatResolves(e, regs) ==
    /\ e.type = "dnat"
    /\ e.addr \in DOMAIN regs /\ Len(regs[e.addr]) \in {4, 16}
    /\ e.proto # 0 => e.proto \in DOMAIN regs /\ Len(regs[e.proto]) = 2

NatKeepsPort(pkt, e, regs) == Act("dnat", "", [ip |-> regs[e.addr], port |-> pkt.dport])

NatAction(pkt, e, regs) ==
    Act("dnat", "", [ip   |-> regs[e.addr],
                     port |-> IF e.proto = 0 THEN pkt.dport ELSE PortOf(regs[e.proto])])

(* A register takes a value: the others keep theirs. *)
Filling(regs, r, v) == [x \in DOMAIN regs \union {r} |-> IF x = r THEN v ELSE regs[x]]

(* The machine that MatchRule runs, and what one expression does to it.    *)
Start == [regs |-> <<>>, act |-> Nothing, out |-> ""]
Ends(m, out)         == [m EXCEPT !.out = out]
Requires(m, holds)   == IF holds THEN m ELSE Ends(m, "NoMatch")
Loads(m, r, v)       == [m EXCEPT !.regs = Filling(m.regs, r, v)]
LoadsKnown(m, r, v)  == IF v = Refused THEN Ends(m, "Unknown") ELSE Loads(m, r, v)
Holds(m, r, width)   == r \in DOMAIN m.regs /\ Len(m.regs[r]) >= width

ExecMeta(pkt, e, m) ==
    IF MetaAbsent(e.key) THEN Ends(m, "NoMatch")
    ELSE LoadsKnown(m, e.reg, MetaBytes(pkt, e.key))

ExecBitwiseNeedsXor(e, m) ==
    IF Len(e.mask) = Len(e.xor) /\ Holds(m, e.src, Len(e.mask))
    THEN Loads(m, e.reg, [i \in DOMAIN e.mask |-> MaskByte(m.regs[e.src][i], e.mask[i], e.xor[i])])
    ELSE Ends(m, "Unknown")

ExecBitwise(e, m) ==
    LET xor == IF e.xor = <<>> THEN [i \in DOMAIN e.mask |-> 0] ELSE e.xor
    IN  IF /\ e.mask # Undecodable /\ xor # Undecodable /\ Len(e.mask) = Len(xor)
           /\ Holds(m, e.src, Len(e.mask))
        THEN Loads(m, e.reg, [i \in DOMAIN e.mask |-> MaskByte(m.regs[e.src][i], e.mask[i], xor[i])])
        ELSE Ends(m, "Unknown")

CmpHolds(op, v, data) ==
    CASE op = "eq"  -> v = data
      [] op = "neq" -> v # data
      [] op = "gte" -> ~Less(v, data)
      [] op = "lte" -> ~Less(data, v)
      [] op = "gt"  -> Less(data, v)
      [] op = "lt"  -> Less(v, data)

ExecCmp(e, m) ==
    IF /\ e.data # Undecodable /\ Holds(m, e.reg, Len(e.data))
       /\ e.op \in {"eq", "neq", "gte", "lte", "gt", "lt"}
    THEN Requires(m, CmpHolds(e.op, Truncate(m.regs[e.reg], Len(e.data)), e.data))
    ELSE Ends(m, "Unknown")

ExecRange(e, m) ==
    LET v      == Truncate(m.regs[e.reg], Len(e.from))
        inside == ~Less(v, e.from) /\ ~Less(e.to, v)
    IN  IF /\ Undecodable \notin {e.from, e.to} /\ Len(e.from) = Len(e.to)
           /\ Holds(m, e.reg, Len(e.from)) /\ e.op \in {"eq", "neq"}
        THEN Requires(m, inside = (e.op = "eq"))
        ELSE Ends(m, "Unknown")

ExecLookup(e, sets, m) ==
    IF e.dest \/ e.reg \notin DOMAIN m.regs THEN Ends(m, "Unknown")
    ELSE CASE LookupMatch(m.regs[e.reg], e, sets) = "hit"  -> m
           [] LookupMatch(m.regs[e.reg], e, sets) = "miss" -> Ends(m, "NoMatch")
           [] OTHER -> Ends(m, "Unknown")

ExecXt(pkt, rule, i, m) ==
    LET x == XtExpr(pkt, rule[i])
    IN  IF ~x.ok
        THEN Ends(m, IF SkippableUnresolvedMatch(pkt, rule, i) THEN "Skipped" ELSE "Unknown")
        ELSE IF ~x.hit THEN Ends(m, "NoMatch")
        ELSE IF x.act.kind = "none" THEN m ELSE [m EXCEPT !.act = x.act]

ExecNAT(pkt, e, m) ==
    IF NatResolves(e, m.regs) THEN [m EXCEPT !.act = NatAction(pkt, e, m.regs)]
    ELSE Ends(m, "Unknown")

Exec(pkt, rule, sets, i, m) ==
    LET e == rule[i]
    IN  CASE e.k = "payload"   -> LoadsKnown(m, e.reg, PayloadBytes(pkt, e))
          [] e.k = "meta"      -> ExecMeta(pkt, e, m)
          [] e.k = "ct"        -> LoadsKnown(m, e.reg, CtBytes(pkt, e.key))
          [] e.k = "fib"       -> LoadsKnown(m, e.reg, FibBytes(pkt, e))
          [] e.k = "immediate" -> IF e.data = Undecodable THEN Ends(m, "Unknown")
                                  ELSE Loads(m, e.reg, e.data)
          [] e.k = "bitwise"   -> ExecBitwise(e, m)
          [] e.k = "cmp"       -> ExecCmp(e, m)
          [] e.k = "range"     -> ExecRange(e, m)
          [] e.k = "lookup"    -> ExecLookup(e, sets, m)
          [] e.k = "xt"        -> ExecXt(pkt, rule, i, m)
          [] e.k = "nat"       -> ExecNAT(pkt, e, m)
          [] e.k = "verdict"   -> [m EXCEPT !.act = Act(e.kind, e.chain, NoDNAT)]
          [] e.k = "other"     -> m
          [] OTHER             -> Ends(m, "Unknown")

(* MatchRule: the machine once the rule has decided, or run out.           *)
MatchRule(pkt, rule, sets) ==
    LET after[i \in 0 .. Len(rule)] ==
            IF i = 0 THEN Start
            ELSE IF after[i - 1].out # "" THEN after[i - 1]
            ELSE Exec(pkt, rule, sets, i, after[i - 1])
        m == after[Len(rule)]
    IN  [out |-> IF m.out = "" THEN "Match" ELSE m.out, act |-> m.act]
=============================================================================
