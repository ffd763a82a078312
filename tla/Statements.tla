----------------------------- MODULE Statements ------------------------------
(***************************************************************************)
(* The statements an author writes in a rule, what nft and iptables-nft    *)
(* make of them, and what they mean.                                       *)
(*                                                                         *)
(* Compile gives the kernel's expressions for a statement, in the shapes   *)
(* that the captures under docs/decisions, nftconv.go, match.go and their  *)
(* tests name; Says is what the statement means for a packet: "yes", "no", *)
(* or "unknown" where whyopen has declared that it cannot know.  The       *)
(* kernel and its compilers are not part of the repository.                *)
(***************************************************************************)
EXTENDS Convert

CONSTANTS
    PortSets   \* the table's sets, a sequence of [set, ranges, readable]: the
               \* set as the kernel returns it, and the ranges of ports written in
               \* it, [lo, hi], unless it is one of the kinds that are refused

Byte == 0 .. 255
Port == 0 .. 65535

(* The kernel returns a range of an interval set as its first port and an  *)
(* end after its last, unless it runs to the top; below the first range it *)
(* may return an end at the bottom.  nft joins ranges that touch.          *)
Bounds(elements, ranges) ==
    /\ \A r, q \in ranges : r = q \/ r.hi + 1 < q.lo \/ q.hi + 1 < r.lo
    /\ \A r \in ranges : \E el \in Range(elements) : ~el.end /\ el.key = PortBytes(r.lo)
    /\ \A r \in ranges : r.hi = 65535
           \/ \E el \in Range(elements) : el.end /\ el.key = PortBytes(r.hi + 1)
    /\ \A el \in Range(elements) :
           IF el.end
           THEN \/ \E r \in ranges : r.hi < 65535 /\ el.key = PortBytes(r.hi + 1)
                \/ el.key = PortBytes(0) /\ \A r \in ranges : r.lo > 0
           ELSE \E r \in ranges : el.key = PortBytes(r.lo)

(* An ordinary set, and one of the kinds lookupMatch declares unreadable.  *)
PlainSet(set, ranges) ==
    /\ ~set.isMap /\ ~set.concat /\ set.elements # <<>>
    /\ \A el \in Range(set.elements) : ~el.val /\ ~el.keyEnd
    /\ \A i, j \in DOMAIN set.elements : set.elements[i].key = set.elements[j].key => i = j
    /\ IF set.interval THEN Bounds(set.elements, ranges)
       ELSE /\ \A r \in ranges : r.lo = r.hi
            /\ {el.key : el \in Range(set.elements)} = {PortBytes(r.lo) : r \in ranges}

OddSet(set) ==
    \/ set.isMap \/ set.concat \/ set.elements = <<>>
    \/ \E el \in Range(set.elements) : el.val \/ el.keyEnd

NoName == ""

ASSUME PortSetsAssumption ==
    /\ PortSets \in Seq(Range(PortSets))
    /\ \A i, j \in DOMAIN PortSets : PortSets[i].set.name = PortSets[j].set.name => i = j
    /\ \A x \in Range(PortSets) :
          /\ x.set.name # NoName /\ x.readable \in BOOLEAN
          /\ x.set.interval \in BOOLEAN
          /\ x.set.elements \in Seq(Range(x.set.elements))
          /\ \A el \in Range(x.set.elements) : el.end \in BOOLEAN
          /\ \A r \in x.ranges : r \in [lo : Port, hi : Port] /\ r.lo <= r.hi
          /\ IF x.readable THEN PlainSet(x.set, x.ranges) ELSE OddSet(x.set)

LoadPort       == [k |-> "payload", base |-> "transport", off |-> 2, len |-> 2, reg |-> 1]
Cmp(op, data)  == [k |-> "cmp", op |-> op, reg |-> 1, data |-> data]
Match(name, rev, info)  == [k |-> "match", name |-> name, rev |-> rev, info |-> info]
Target(name, rev, info) == [k |-> "target", name |-> name, rev |-> rev, info |-> info]
Bytes(len) == [type |-> "bytes", len |-> len]

AddrAt(field, off, len) ==
    [k |-> "payload", base |-> "network", off |-> (IF field = "saddr" THEN 12 ELSE 16) + off,
     len |-> len, reg |-> 1]
MaskBytes(n, bits) ==
    [i \in 1 .. n |-> CASE 8 * i <= bits -> 255
                        [] 8 * (i - 1) >= bits -> 0
                        [] OTHER -> 256 - 2^(8 * i - bits)]

(* A prefix on a byte boundary is a shorter load, any other one a mask     *)
(* with no xor.                                                            *)
CompilePrefix(st) ==
    IF st.bits % 8 = 0
    THEN <<AddrAt(st.field, 0, st.bits \div 8), Cmp(st.op, Truncate(st.addr, st.bits \div 8))>>
    ELSE <<AddrAt(st.field, 0, 4),
           [k |-> "bitwise", src |-> 1, reg |-> 1, mask |-> MaskBytes(4, st.bits), xor |-> <<>>],
           Cmp(st.op, st.addr)>>

CtBit(key, bit) ==
    <<[k |-> "ct", key |-> key, reg |-> 1, source |-> FALSE],
      [k |-> "bitwise", src |-> 1, reg |-> 1, mask |-> Word(bit), xor |-> Word(0)],
      Cmp("neq", Word(0))>>

(* The statements and the actions that are modelled. *)
StatementKinds ==
    {"port", "between", "outside", "masked", "in-set", "prefix", "proto", "iifname", "iif",
     "skuid-0", "mark", "ct-new", "ct-old", "ct-dnat", "ct-mark", "set-ct-mark", "local",
     "no-route", "route-by", "xt-state", "xt-types", "recent", "opaque", "socket", "xt-icmp",
     "limit", "log", "quota", "last"}
DoesKinds == {"none", "verdict", "dnat", "snat", "reject", "xt-dnat", "xt-dnat-0", "xt"}

\* The bits of an address, the first of the first byte on.
AddrBit(addr, i) == Bit(addr[(i + 7) \div 8], (8 - (i % 8)) % 8)

(* What can be written in them.  A prefix is the address of its network; a *)
(* flag of iptables is a bit, given by its value.                          *)
Name    == {n \in Seq(Byte) : Len(n) \in 1 .. IfnameLen}
Address == {a \in Seq(Byte) : Len(a) \in {4, 16}}

Prefix ==
    {st \in [s : {"prefix"}, op : {"eq", "neq"}, field : {"saddr", "daddr"},
             addr : [1 .. 4 -> Byte], bits : 1 .. 32] :
        \A i \in st.bits + 1 .. 32 : AddrBit(st.addr, i) = 0}

TypesMatch ==
    {st \in [s : {"xt-types"}, rev : {0, 1}, dst : SUBSET Nat, src : SUBSET Nat, invert : BOOLEAN,
             limits : SUBSET {4, 8}] :
        st.dst \union st.src # {} /\ (st.rev = 0 => st.limits = {})}

Statement ==
    [s : {"port"}, op : {"eq", "neq", "gt", "lt"}, port : Port]
    \union [s : {"between", "outside"}, lo : Port, hi : Port]
    \union [s : {"masked"}, high : Byte]
    \union [s : {"in-set"}, set : {x.set.name : x \in Range(PortSets)}, invert : BOOLEAN]
    \union Prefix
    \union [s : {"proto"}, op : {"eq", "neq"}, number : Byte]
    \union [s : {"iifname", "route-by"}, name : Name]
    \union [s : {"iif"}, index : Byte]
    \union [s : {"xt-state"}, states : SUBSET Nat, invert : BOOLEAN, others : SUBSET (Nat \ {StateFlag})]
    \union TypesMatch
    \union [s : {"recent"}, rev : {0, 1}, check : Nat, invert : BOOLEAN]
    \union [s : {"skuid-0", "mark", "ct-new", "ct-old", "ct-dnat", "ct-mark", "set-ct-mark", "local",
                 "no-route", "opaque", "socket", "xt-icmp", "limit", "log", "quota", "last"}]

Deed ==
    [d : {"none", "reject"}]
    \union [d : {"verdict"}, kind : VerdictKinds, chain : STRING]
    \union [d : {"dnat", "xt-dnat"}, to : Address, port : Port]
    \union [d : {"snat", "xt-dnat-0"}, to : Address]
    \union [d : {"xt"}, name : STRING]

(* A packet arrives on an interface, as the first of its connection        *)
(* (packet.go:10-13, evaluate.go:265); an index of 0 is one not known.     *)
Packet ==
    [family : {"ip", "ip6"}, proto : {"tcp", "udp"}, src : Address, dst : Address, sport : Port,
     dport : Port, iif : Name, oif : Seq(Byte), iifIndex : Byte, oifIndex : Byte, ctState : {"new"},
     dnatApplied : BOOLEAN, dstIsLocal : BOOLEAN, srcRouteDev : Seq(Byte)]

Compile(st) ==
    CASE st.s = "port"    -> <<LoadPort, Cmp(st.op, PortBytes(st.port))>>
      [] st.s = "between" -> <<LoadPort, Cmp("gte", PortBytes(st.lo)), Cmp("lte", PortBytes(st.hi))>>
      [] st.s = "outside" -> <<LoadPort, [k |-> "range", op |-> "neq", reg |-> 1,
                                          from |-> PortBytes(st.lo), to |-> PortBytes(st.hi)]>>
      [] st.s = "masked"  -> <<LoadPort, [k |-> "bitwise", src |-> 1, reg |-> 1,
                                          mask |-> <<255, 0>>, xor |-> <<>>],
                               Cmp("eq", <<st.high, 0>>)>>
      [] st.s = "in-set"  -> <<LoadPort, [k |-> "lookup", reg |-> 1, set |-> st.set, setID |-> 0,
                                          invert |-> st.invert, dest |-> FALSE]>>
      [] st.s = "prefix"  -> CompilePrefix(st)
      [] st.s = "proto"   -> <<[k |-> "meta", key |-> "l4proto", reg |-> 1],
                               Cmp(st.op, <<st.number>>)>>
      [] st.s = "iifname" -> <<[k |-> "meta", key |-> "iifname", reg |-> 1], Cmp("eq", st.name)>>
      [] st.s = "iif"     -> <<[k |-> "meta", key |-> "iif", reg |-> 1], Cmp("eq", Word(st.index))>>
      [] st.s = "skuid-0" -> <<[k |-> "meta", key |-> "skuid", reg |-> 1], Cmp("eq", Word(0))>>
      [] st.s = "mark"    -> <<[k |-> "meta", key |-> "mark", reg |-> 1], Cmp("eq", Word(0))>>
      [] st.s = "ct-new"  -> CtBit("state", 8)
      [] st.s = "ct-old"  -> CtBit("state", 2)
      [] st.s = "ct-dnat" -> CtBit("status", 32)
      [] st.s = "ct-mark" -> <<[k |-> "ct", key |-> "mark", reg |-> 1, source |-> FALSE],
                               Cmp("eq", Word(0))>>
      [] st.s = "set-ct-mark" -> <<[k |-> "immediate", reg |-> 1, data |-> Word(1)],
                                   [k |-> "ct", key |-> "mark", reg |-> 1, source |-> TRUE]>>
      [] st.s = "local"   -> <<[k |-> "fib", flags |-> {"daddr", "addrtype"}, reg |-> 1],
                               Cmp("eq", Word(2))>>
      [] st.s = "no-route" -> <<[k |-> "fib", flags |-> {"saddr", "iif", "oif", "present"}, reg |-> 1],
                                Cmp("eq", Word(0))>>
      [] st.s = "route-by" -> <<[k |-> "fib", flags |-> {"saddr", "oifname"}, reg |-> 1],
                                Cmp("eq", Ifname(st.name))>>
      [] st.s = "xt-state" ->
           <<Match("conntrack", 3, [type |-> "conntrack", match |-> {StateFlag} \union st.others,
                                    invert |-> IF st.invert THEN {StateFlag} ELSE {},
                                    states |-> st.states])>>
      [] st.s = "xt-types" ->
           <<Match("addrtype", st.rev,
                   IF st.rev = 0
                   THEN [type |-> "addrtype", rev |-> 0, dst |-> st.dst, src |-> st.src,
                         invertDst |-> st.invert, invertSrc |-> FALSE]
                   ELSE [type |-> "addrtype", rev |-> st.rev, dst |-> st.dst, src |-> st.src,
                         flags |-> (IF st.invert THEN {2} ELSE {}) \union st.limits])>>
      [] st.s = "recent"  ->
           <<Match("recent", st.rev,
                   [type |-> "bytes", len |-> 232, checkSet |-> st.check, invert |-> st.invert])>>
      [] st.s = "opaque"  -> <<Match("geoip", 0, Bytes(8))>>
      [] st.s = "socket"  -> <<Match("socket", 0, NoPayload)>>
      [] st.s = "xt-icmp" -> <<Match("icmp", 0, Bytes(4))>>
      [] st.s \in {"limit", "log", "quota", "last"} -> <<[k |-> st.s]>>

InPrefix(addr, st) == \A i \in 1 .. st.bits : AddrBit(addr, i) = AddrBit(st.addr, i)

YesNo(b) == IF b THEN "yes" ELSE "no"

Sets == [i \in DOMAIN PortSets |-> PortSets[i].set]
SetOf(name) == CHOOSE x \in Range(PortSets) : x.set.name = name
HasPort(x, port) == \E r \in x.ranges : port \in r.lo .. r.hi

TypesHold(st, p) ==
    /\ st.dst # {} => ((IF p.dstIsLocal THEN 4 ELSE 2) \in st.dst) # st.invert
    /\ st.src # {} => 2 \in st.src

Says(st, p) ==
    CASE st.s = "port"    -> YesNo(CASE st.op = "eq"  -> p.dport = st.port
                                     [] st.op = "neq" -> p.dport # st.port
                                     [] st.op = "gt"  -> p.dport > st.port
                                     [] st.op = "lt"  -> p.dport < st.port)
      [] st.s = "between" -> YesNo(p.dport \in st.lo .. st.hi)
      [] st.s = "outside" -> YesNo(p.dport \notin st.lo .. st.hi)
      [] st.s = "masked"  -> YesNo(p.dport \div 256 = st.high)
      [] st.s = "in-set"  -> IF SetOf(st.set).readable
                             THEN YesNo(HasPort(SetOf(st.set), p.dport) # st.invert) ELSE "unknown"
      [] st.s = "prefix"  -> YesNo(InPrefix(IF st.field = "saddr" THEN p.src ELSE p.dst, st) = (st.op = "eq"))
      [] st.s = "proto"   -> YesNo((ProtoNumber(p.proto) = <<st.number>>) = (st.op = "eq"))
      [] st.s = "iifname" -> YesNo(Truncate(Ifname(p.iif), Len(st.name)) = st.name)
      [] st.s = "iif"     -> IF p.iifIndex = 0 THEN "unknown" ELSE YesNo(p.iifIndex = st.index)
      [] st.s = "skuid-0" -> "no"
      [] st.s = "ct-dnat" -> YesNo(p.dnatApplied)
      [] st.s = "local"   -> YesNo(p.dstIsLocal)
      [] st.s = "no-route" -> IF p.srcRouteDev = p.iif THEN "no" ELSE "unknown"
      [] st.s = "xt-state" -> IF st.others \subseteq {AliasFlag}
                              THEN YesNo((8 \in st.states) # st.invert) ELSE "unknown"
      [] st.s = "xt-types" -> IF st.limits = {} /\ st.dst \union st.src \subseteq DOMAIN AddrTypeNames
                              THEN YesNo(TypesHold(st, p)) ELSE "unknown"
      [] st.s = "recent"  -> IF st.rev = 1 /\ st.check \in {1, 2, 4, 8}
                             THEN YesNo((st.check = 2) # st.invert) ELSE "unknown"
      [] st.s = "ct-new"  -> "yes"
      [] st.s = "ct-old"  -> "no"
      [] st.s = "xt-icmp" -> "no"
      [] st.s \in {"limit", "log", "last"} -> "yes"
      [] st.s \in {"opaque", "socket", "quota", "mark", "ct-mark", "set-ct-mark", "route-by"} -> "unknown"

(* What the rule does once its statements hold: nothing, a verdict, or a   *)
(* rewrite, of the native kind or of the iptables one.  A port of 0 in a   *)
(* rewrite means that none was written.                                    *)
Rewrite(kind, to, port) == [d |-> kind, to |-> to, port |-> port]

CompileDoes(d) ==
    CASE d.d = "none"    -> <<>>
      [] d.d = "verdict" -> <<[k |-> "verdict", kind |-> d.kind, chain |-> d.chain]>>
      [] d.d = "dnat"    ->
           <<[k |-> "immediate", reg |-> 1, data |-> d.to]>>
           \o (IF d.port = 0 THEN <<>>
               ELSE <<[k |-> "immediate", reg |-> 2, data |-> PortBytes(d.port)]>>)
           \o <<[k |-> "nat", type |-> "dnat", addr |-> 1, proto |-> IF d.port = 0 THEN 0 ELSE 2]>>
      [] d.d = "snat"    -> <<[k |-> "immediate", reg |-> 1, data |-> d.to],
                              [k |-> "nat", type |-> "snat", addr |-> 1, proto |-> 0]>>
      [] d.d = "reject"  -> <<[k |-> "reject"]>>
      [] d.d = "xt-dnat" ->
           <<Target("DNAT", 2, [type |-> "nat-range", minIP |-> d.to, minPort |-> d.port])>>
      [] d.d = "xt-dnat-0" -> <<Target("DNAT", 0, [type |-> "multi-range", minIP |-> d.to])>>
      [] d.d = "xt"      -> <<Target(d.name, 0, Bytes(8))>>

CompileRule(stmts, d) == FlattenSeq([i \in DOMAIN stmts |-> Compile(stmts[i])]) \o CompileDoes(d)
=============================================================================
