------------------------------- MODULE Forwards ------------------------------
(***************************************************************************)
(* The scan that turns destination rewrites into endpoints                 *)
(* (internal/model/forwards.go).  It reads the expressions MatchRule does  *)
(* but asks which packets could match, so its registers hold the field     *)
(* they were loaded from; what it cannot turn into rows becomes a note.    *)
(*                                                                         *)
(* A ruleset is a sequence of tables [name, family, sets, chains], a chain *)
(* [name, base, hook, rules] and a rule a sequence of expressions.         *)
(***************************************************************************)
EXTENDS Expressions, SequencesExt

CONSTANTS
    MaxJumpDepth,   \* maxJumpDepth (32 in the code)
    Rulesets,       \* the rulesets under study
    Packets         \* the packets the properties ask about

Byte == 0 .. 255
Ports == 0 .. 65535

(***************************************************************************)
(* What a rule in the kernel is, as nft and iptables-nft write them: a     *)
(* compare has an operand, an action is its rule's last expression, the    *)
(* protocol byte of an IPv4 header is loaded where there is one, and the   *)
(* address of a rewrite is still in its register when it is read.          *)
(***************************************************************************)
Operands == (Seq(Byte) \ {<<>>}) \union {Undecodable}

HasOperands(e) ==
    /\ e.k \in {"cmp", "immediate"} => e.data \in Operands
    /\ e.k = "xt" /\ e.kind = "target" /\ e.name = "DNAT" /\ e.decoded =>
          e.arg.minIP \in Operands /\ e.arg.minPort \in Ports
    /\ e.k = "lookup" => e.invert \in BOOLEAN
    /\ e.k = "verdict" => e.kind # "dnat"

IsRewrite(e) ==
    \/ e.k = "nat" /\ e.type = "dnat"
    \/ e.k = "xt" /\ e.kind = "target" /\ e.name = "DNAT" /\ e.decoded

Loading == {"payload", "meta", "ct", "fib", "bitwise"}

\* Behind `meta nfproto ipv4`, which nft writes before it in an inet table.
AfterIPv4(rule, i) ==
    \E j \in 2 .. i - 1 :
        /\ rule[j - 1].k = "meta" /\ rule[j - 1].key = "nfproto"
        /\ rule[j].k = "cmp" /\ rule[j].reg = rule[j - 1].reg
        /\ rule[j].op = "eq" /\ rule[j].data = <<2>>

\* An immediate to register r was overwritten before i.
Overwritten(rule, r, i) ==
    \E j \in 1 .. i - 1 : \E k \in j + 1 .. i - 1 :
        /\ rule[j].k = "immediate" /\ rule[j].reg = r
        /\ rule[k].k \in Loading /\ rule[k].reg = r
        /\ \A l \in k + 1 .. i - 1 : ~(rule[l].k = "immediate" /\ rule[l].reg = r)

FromKernel(family, rule) ==
    /\ rule \in Seq(Range(rule))
    /\ \A i \in DOMAIN rule :
          /\ HasOperands(rule[i])
          /\ IsRewrite(rule[i]) \/ rule[i].k = "verdict" => i = Len(rule)
          /\ rule[i].k = "payload" /\ rule[i].base = "network" /\ rule[i].off = 9 /\ rule[i].len = 1
                => family = "ip" \/ AfterIPv4(rule, i)
          /\ rule[i].k = "nat" => ~Overwritten(rule, rule[i].addr, i)

ASSUME RulesetsAssumption ==
    /\ MaxJumpDepth \in Nat
    /\ \A rs \in Rulesets :
          /\ rs \in Seq(Range(rs))
          /\ \A t \in Range(rs) :
                /\ t.chains \in Seq(Range(t.chains)) /\ t.sets \in Seq(Range(t.sets))
                /\ \A s \in Range(t.sets) :
                      /\ s.elements \in Seq(Range(s.elements))
                      /\ \A el \in Range(s.elements) : el.key \in Operands
                /\ \A c \in Range(t.chains) :
                      /\ c.rules \in Seq(Range(c.rules))
                      /\ \A rule \in Range(c.rules) : FromKernel(t.family, rule)

ASSUME PacketsAssumption ==
    \A pkt \in Packets :
        /\ pkt.proto \in {"tcp", "udp"} /\ pkt.dport \in Ports
        /\ pkt.family \in {"ip", "ip6"}
        /\ Len(pkt.dst) = (IF pkt.family = "ip" THEN 4 ELSE 16)

VARIABLES
    tables,   \* the ruleset that is scanned
    at,       \* the next chain, in document order: <<table, chain>>
    eps,      \* the endpoints found, each with the rewrite that found it first
    notes     \* the rules that rewrite ports no endpoint names
vars == <<tables, at, eps, notes>>

TableFamilies(family) ==
    CASE family \in {"ip", "ip6"} -> {family}
      [] family = "inet" -> {"ip", "ip6"}
      [] OTHER -> {}

(***************************************************************************)
(* One rule                                                                *)
(***************************************************************************)
Knowledge  == [proto : {"", "tcp", "udp", "other"}, ports : SUBSET Ports, refuse : BOOLEAN]
NoMatchYet == [proto |-> "", ports |-> {}, refuse |-> FALSE]
Refuse(f)  == [f EXCEPT !.refuse = TRUE]

PayloadField(e) ==
    CASE e.base = "transport" /\ e.off = 2 /\ e.len = 2 -> "dport"
      [] e.base = "network" /\ e.len = 1 /\ e.off \in {6, 9} -> "l4proto"
      [] OTHER -> "other"

IsPort(data)    == data # Undecodable /\ Len(data) = 2
ProtoOf(data)   == CASE data = <<6>> -> "tcp" [] data = <<17>> -> "udp" [] OTHER -> "other"
Field(fields, r) == IF r \in DOMAIN fields THEN fields[r] ELSE "unset"

(* cmpConstraint: only an equality says which ports or which protocol. *)
CmpConstraint(f, field, e) ==
    CASE field = "dport" /\ e.op = "eq" /\ IsPort(e.data) ->
           [f EXCEPT !.ports = @ \union {PortOf(e.data)}]
      [] field = "dport" /\ ~(e.op = "eq" /\ IsPort(e.data)) -> Refuse(f)
      [] field = "l4proto" /\ e.op = "eq" -> [f EXCEPT !.proto = ProtoOf(e.data)]
      [] field = "l4proto" /\ e.op # "eq" -> Refuse(f)
      [] OTHER -> f

(* setPorts: the ports of a flat set; the empty set of sets when refused. *)
SetPorts(sets, e) ==
    {{PortOf(el.key) : el \in Range(s.elements)} :
        s \in {x \in FindSet(e, sets) :
                  /\ ~e.invert /\ ~e.dest
                  /\ ~x.interval /\ ~x.isMap /\ ~x.concat /\ x.elements # <<>>
                  /\ \A el \in Range(x.elements) :
                        ~el.val /\ ~el.keyEnd /\ ~el.end /\ IsPort(el.key)}}

LookupConstraint(f, field, sets, e) ==
    CASE field # "dport" -> f
      [] field = "dport" /\ SetPorts(sets, e) = {} -> Refuse(f)
      [] OTHER -> [f EXCEPT !.ports = @ \union UNION SetPorts(sets, e)]

(* The target of a rewrite; an address of no bytes is one not resolved.    *)
Unresolved == <<>>
NativeTarget(e, imm) ==
    [ip   |-> IF e.addr \in DOMAIN imm /\ Len(imm[e.addr]) \in {4, 16} THEN imm[e.addr] ELSE Unresolved,
     port |-> IF e.proto \in DOMAIN imm /\ IsPort(imm[e.proto]) THEN PortOf(imm[e.proto]) ELSE 0]
XtDNATTarget(e) ==
    [ip |-> IF e.arg.minIP = Undecodable THEN Unresolved ELSE e.arg.minIP, port |-> e.arg.minPort]

(* An IPv4 address written as an IPv6 one: ten zeros and two ff before it. *)
Is4In6(ip) == Len(ip) = 16 /\ (\A i \in 1 .. 10 : ip[i] = 0) /\ ip[11] = 255 /\ ip[12] = 255

(* emit: the endpoints of a rewrite, or a note of the rule at where.       *)
Families(family, to) ==
    IF family # "inet" \/ to.ip = Unresolved THEN TableFamilies(family)
    ELSE IF Len(to.ip) = 4 \/ Is4In6(to.ip) THEN {"ip"} ELSE {"ip6"}

ProtosAsWritten(proto) == {proto}
Protos(proto) == IF proto = "" THEN {"tcp", "udp"} ELSE {proto}

Emit(family, where, f, to) ==
    IF f.proto = "other" THEN [eps |-> {}, notes |-> {}]
    ELSE IF f.refuse \/ f.ports = {} THEN [eps |-> {}, notes |-> {where}]
    ELSE [eps   |-> [family : Families(family, to), proto : Protos(f.proto), port : f.ports,
                     to : {to}],
          notes |-> {}]

(* The scan of a rule, an expression at a time: fields and imm are its     *)
(* registers, f what is known of the packets, and it ends with a rewrite,  *)
(* a chain to walk or nothing.                                             *)
Reads(s, e, field) == [s EXCEPT !.fields = Filling(s.fields, e.reg, field)]
Stops(s, end, arg) == [s EXCEPT !.end = end, !.arg = arg]

ReadExpr(s, e, sets) ==
    CASE e.k = "payload"       -> Reads(s, e, PayloadField(e))
      [] e.k = "meta"          -> Reads(s, e, IF e.key = "l4proto" THEN "l4proto" ELSE "other")
      [] e.k \in {"ct", "fib"} -> Reads(s, e, "other")
      [] e.k = "bitwise"       ->
           [Reads(s, e, "other") EXCEPT
               !.f = IF Field(s.fields, e.src) = "dport" THEN Refuse(@) ELSE @]
      [] e.k = "cmp"           -> [s EXCEPT !.f = CmpConstraint(@, Field(s.fields, e.reg), e)]
      [] e.k = "range"         ->
           [s EXCEPT !.f = IF Field(s.fields, e.reg) = "dport" THEN Refuse(@) ELSE @]
      [] e.k = "lookup"        ->
           [s EXCEPT !.f = LookupConstraint(@, Field(s.fields, e.reg), sets, e)]
      [] e.k = "immediate"     -> [Reads(s, e, "other") EXCEPT !.imm = Filling(@, e.reg, e.data)]
      [] e.k = "nat" /\ e.type = "dnat" -> Stops(s, "rewrites", NativeTarget(e, s.imm))
      [] e.k = "xt" /\ e.kind = "target" /\ e.name = "DNAT" /\ e.decoded ->
           Stops(s, "rewrites", XtDNATTarget(e))
      [] e.k = "verdict"       ->
           IF e.kind \in {"jump", "goto"} THEN Stops(s, "walks", e.chain) ELSE Stops(s, "nothing", "")
      [] OTHER -> s

Unread(f) == [fields |-> <<>>, imm |-> <<>>, f |-> f, end |-> "", arg |-> ""]

ReadRule(rule, sets, f) ==
    LET read[i \in 0 .. Len(rule)] ==
            IF i = 0 THEN Unread(f)
            ELSE IF read[i - 1].end # "" THEN read[i - 1]
            ELSE ReadExpr(read[i - 1], rule[i], sets)
    IN  read[Len(rule)]

(***************************************************************************)
(* One chain, and the chains it jumps to                                   *)
(***************************************************************************)
FindChain(t, name) ==
    LET named == {c \in DOMAIN t.chains : t.chains[c].name = name}
    IN  {c \in named : \A d \in named : c <= d}

(* walkChain: everything the rules of chain c emit, as a sequence, when    *)
(* the packets are those of f.  left counts the jumps still allowed.       *)
WalkOnly(t, first) ==
    FlattenSeq([r \in DOMAIN t.chains[first].rules |->
        LET s == ReadRule(t.chains[first].rules[r], t.sets, NoMatchYet)
        IN  IF s.end = "rewrites" THEN <<Emit(t.family, <<first, r>>, s.f, s.arg)>> ELSE <<>>])

\* What the rule r of chain c comes to, when deeper is the walk of the chains
\* one jump further.
RuleYields(t, c, r, f, deeper) ==
    LET s  == ReadRule(t.chains[c].rules[r], t.sets, f)
        to == FindChain(t, s.arg)
    IN  CASE s.end = "rewrites" -> <<Emit(t.family, <<c, r>>, s.f, s.arg)>>
          [] s.end = "walks" /\ to # {} -> deeper[CHOOSE d \in to : TRUE][s.f]
          [] OTHER -> <<>>

WalkFrom(t, first) ==
    LET walk[left \in 0 .. MaxJumpDepth + 1] ==
            [c \in DOMAIN t.chains |-> [f \in Knowledge |->
                IF left = 0 THEN <<>>
                ELSE FlattenSeq([r \in DOMAIN t.chains[c].rules |->
                        RuleYields(t, c, r, f, walk[left - 1])])]]
    IN  walk[MaxJumpDepth + 1][first][NoMatchYet]

(***************************************************************************)
(* The whole ruleset                                                       *)
(***************************************************************************)
Key(e) == <<e.family, e.proto, e.port>>

AllOfEach(found, known) == UNION {found[i].eps : i \in DOMAIN found}

(* The first rewrite of a port is the one its endpoint names. *)
FirstOfEach(found, known) ==
    UNION {{e \in found[i].eps :
              /\ \A k \in known : Key(k) # Key(e)
              /\ \A j \in 1 .. i - 1 : \A k \in found[j].eps : Key(k) # Key(e)} : i \in DOMAIN found}

Init ==
    /\ tables \in Rulesets
    /\ at = <<1, 1>>
    /\ eps = {}
    /\ notes = {}

Here == tables[at[1]].chains[at[2]]

(* A table of a family that carries no IP packet is left out whole; of the *)
(* others, only the base chains of prerouting are walked.                  *)
More    == at[1] <= Len(tables)
InTable == More /\ TableFamilies(tables[at[1]].family) # {} /\ at[2] <= Len(tables[at[1]].chains)
Walked  == Here.base /\ Here.hook = "prerouting"

NextChain == at' = <<at[1], at[2] + 1>>

ScanChain ==
    /\ InTable
    /\ Walked
    /\ LET found == WalkFrom(tables[at[1]], at[2])
       IN  /\ eps' = eps \union FirstOfEach(found, eps)
           /\ notes' = notes \union UNION {{<<at[1], n[1], n[2]>> : n \in found[i].notes} :
                                              i \in DOMAIN found}
    /\ NextChain
    /\ UNCHANGED tables

SkipChain ==
    /\ InTable
    /\ ~Walked
    /\ NextChain
    /\ UNCHANGED <<tables, eps, notes>>

NextTable ==
    /\ More
    /\ ~InTable
    /\ at' = <<at[1] + 1, 1>>
    /\ UNCHANGED <<tables, eps, notes>>

Done == ~More /\ UNCHANGED vars

Next == ScanChain \/ SkipChain \/ NextTable \/ Done
Spec == Init /\ [][Next]_vars

(***************************************************************************)
(* Properties                                                              *)
(***************************************************************************)

(* What the traversal does to a packet, said without a walk: the chains of *)
(* t it can be in after d jumps from the base chain b, and the rules there *)
(* that rewrite it.                                                        *)
Reached(t, b, pkt) ==
    LET in[d \in 0 .. MaxJumpDepth] ==
            IF d = 0 THEN {b}
            ELSE in[d - 1] \union
                 UNION {FindChain(t, x.act.chain) :
                    x \in {y \in {MatchRule(pkt, rule, t.sets) :
                                    rule \in UNION {Range(t.chains[c].rules) : c \in in[d - 1]}} :
                              y.out = "Match" /\ y.act.kind \in {"jump", "goto"}}}
    IN  in[MaxJumpDepth]

\* A packet is rewritten to an address of its own length, or to an IPv4 one
\* in whatever form the rule writes it.
Fits(pkt, ip) == Len(ip) = Len(pkt.dst) \/ Is4In6(ip)

Rewriting(t, b, pkt) ==
    UNION {{<<c, r>> : r \in {i \in DOMAIN t.chains[c].rules :
                LET x == MatchRule(pkt, t.chains[c].rules[i], t.sets)
                IN  /\ x.out = "Match"
                    /\ x.act.kind = "dnat"
                    /\ Fits(pkt, x.act.dnat.ip)}} :
            c \in Reached(t, b, pkt)}

\* The row the rewrite w of pkt is to be on.  The address decides in an inet
\* table, and one of IPv4 in IPv6 form counts as IPv4 there.
RowFamily(family, pkt, ip) == IF family = "inet" /\ Is4In6(ip) THEN "ip" ELSE pkt.family

RowOf(t, pkt, w) ==
    LET x == MatchRule(pkt, t.chains[w[1]].rules[w[2]], t.sets)
    IN  <<RowFamily(t.family, pkt, x.act.dnat.ip), pkt.proto, pkt.dport>>

(* The scan keeps to what its types say (forwards.go:120-127, 320-323).    *)
TypeOK ==
    /\ at[1] \in 1 .. Len(tables) + 1 /\ at[2] \in Nat \ {0}
    /\ eps \subseteq [family : {"ip", "ip6"}, proto : {"tcp", "udp"}, port : Ports,
                      to : [ip : Seq(Byte), port : Ports]]
    /\ notes \subseteq Nat \X Nat \X Nat

(* No forwarded port is passed over in silence (forwards.go:43-48): a rule *)
(* that would rewrite a packet, in a chain the packet can reach, has given *)
(* its port an endpoint of the family the target stands for, or a note     *)
(* names the rule.                                                         *)
NoForwardIsSilent ==
    ~More =>
        \A i \in DOMAIN tables, pkt \in Packets :
            \A b \in DOMAIN tables[i].chains :
                /\ pkt.family \in TableFamilies(tables[i].family)
                /\ tables[i].chains[b].base
                /\ tables[i].chains[b].hook = "prerouting"
                => \A w \in Rewriting(tables[i], b, pkt) :
                      \/ RowOf(tables[i], pkt, w) \in {Key(e) : e \in eps}
                      \/ <<i, w[1], w[2]>> \in notes

(* Two rules that forward one port are one row (forwards.go:70-76).        *)
OneRowPerPort == \A e, f \in eps : Key(e) = Key(f) => e = f
=============================================================================
