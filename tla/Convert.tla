------------------------------- MODULE Convert -------------------------------
(***************************************************************************)
(* From the kernel's expressions to the document's, and from an old        *)
(* document to today's reading of it: internal/collect/nftconv.go and the  *)
(* pairing of rulepayload.go.                                              *)
(*                                                                         *)
(* An expression arrives from the netlink library as a record whose k is   *)
(* its Go type; the library drops one whose name it does not know.  A flag *)
(* word is the set of its bits.  An xt match or target holds its info, the *)
(* library's reading of the payload: it reads the same bytes the same way, *)
(* so the info also stands for the bytes, and the hexadecimal of them is   *)
(* what Raw keeps.                                                         *)
(***************************************************************************)
EXTENDS Expressions, Lists

Dropped == {"last", "osf"}
Received(exprs) == Sublist(exprs, {e \in Range(exprs) : e.k \notin Dropped})

Unknown   == [k |-> "unknown"]
Other     == [k |-> "other"]
NoPayload == [type |-> "bytes", len |-> 0]

Named(names, name) == IF name \in names THEN name ELSE "unknown"
PayloadBases == {"link", "network", "transport"}
CmpOps       == {"eq", "neq", "lt", "lte", "gt", "gte"}
MetaKeys     == {"skuid", "skgid", "iif", "oif", "iifname", "oifname", "l4proto", "nfproto"}
VerdictKinds == {"accept", "drop", "jump", "goto", "return", "continue", "queue"}

ConvertCt(e) ==
    IF ~e.source /\ e.key \in {"state", "status"}
    THEN [k |-> "ct", key |-> e.key, reg |-> e.reg]
    ELSE Unknown

ConvertNAT(e) == IF e.type = "dnat" THEN e ELSE Unknown

(* The two shapes captured; one that puts an interface in the register is  *)
(* refused, and so is one of both addresses or of neither.                 *)
ConvertFib(e) ==
    LET source == e.flags \intersect {"saddr", "daddr"}
        result == e.flags \intersect {"addrtype", "oif", "oifname"}
        query  == CASE result = {"addrtype"} -> "addrtype"
                    [] result = {"oif"} /\ "present" \in e.flags -> "oif-present"
                    [] OTHER -> "unknown"
    IN  IF Cardinality(source) = 1 /\ query # "unknown"
        THEN [k |-> "fib", query |-> query, source |-> CHOOSE s \in source : TRUE,
              iface |-> query = "oif-present" /\ "iif" \in e.flags, reg |-> e.reg]
        ELSE Unknown

(***************************************************************************)
(* The xt extensions                                                       *)
(***************************************************************************)
CtStateNames ==
    [b \in {1, 2, 4, 8} |->
        CASE b = 1 -> "invalid" [] b = 2 -> "established" [] b = 4 -> "related" [] b = 8 -> "new"]
AddrTypeNames ==
    [b \in {1, 2, 4, 8, 16, 32} |->
        CASE b = 1 -> "unspec" [] b = 2 -> "unicast" [] b = 4 -> "local" [] b = 8 -> "broadcast"
          [] b = 16 -> "anycast" [] b = 32 -> "multicast"]
RecentModes ==
    [b \in {1, 2, 4, 8} |->
        CASE b = 1 -> "rcheck" [] b = 2 -> "set" [] b = 4 -> "update" [] b = 8 -> "remove"]
NamesOf(names, mask) == {names[b] : b \in mask \intersect DOMAIN names}

StateFlag == 1
AliasFlag == 8192

(* What a decoder answers: whether it read all of the payload, and what.   *)
Decodes(complete, arg) == [decoded |-> complete, arg |-> arg]
Undecoded == Decodes(FALSE, [none |-> 0])

ConntrackKnown(i) == i.match \subseteq {StateFlag, AliasFlag}
ConntrackOf(i) ==
    Decodes(ConntrackKnown(i),
            [matchesState |-> StateFlag \in i.match,
             states |-> IF StateFlag \in i.match THEN NamesOf(CtStateNames, i.states) ELSE {},
             invert |-> StateFlag \in i.invert])

(* Revision 1 keeps the inverts, and the two bits that limit the match to  *)
(* an interface, in its flags; revision 0 has a field for each invert.     *)
AddrTypesOf(i) ==
    Decodes(/\ i.dst \union i.src \subseteq DOMAIN AddrTypeNames
            /\ i.rev = 1 => {4, 8} \intersect i.flags = {},
            [dst |-> NamesOf(AddrTypeNames, i.dst), src |-> NamesOf(AddrTypeNames, i.src),
             invertDst |-> IF i.rev = 1 THEN 2 \in i.flags ELSE i.invertDst,
             invertSrc |-> IF i.rev = 1 THEN 1 \in i.flags ELSE i.invertSrc])

(* decodeXtRaw and recentInfo: the one payload read byte by byte.          *)
RecentOf(name, rev, i) ==
    IF name = "recent" /\ rev = 1 /\ i.len = 232 /\ i.checkSet \in DOMAIN RecentModes
    THEN Decodes(TRUE, [mode |-> RecentModes[i.checkSet], invert |-> i.invert])
    ELSE Undecoded

DecodeInfo(name, rev, info) ==
    CASE info.type = "nat-range" -> Decodes(TRUE, [minIP |-> info.minIP, minPort |-> info.minPort])
      [] info.type = "conntrack" -> ConntrackOf(info)
      [] info.type = "addrtype"  -> AddrTypesOf(info)
      [] info.type = "bytes"     -> RecentOf(name, rev, info)
      [] OTHER -> Undecoded

ConvertXt(kind, name, rev, info) ==
    LET read == DecodeInfo(name, rev, info)
    IN  [k |-> "xt", kind |-> kind, name |-> name, rev |-> rev, decoded |-> read.decoded,
         arg |-> read.arg, raw |-> IF info.type = "bytes" THEN info ELSE NoPayload]

(* convertExpr: what has no case is unknown, never passed over.            *)
ConvertExpr(e) ==
    CASE e.k = "payload"             -> [e EXCEPT !.base = Named(PayloadBases, @)]
      [] e.k \in {"cmp", "range"}    -> [e EXCEPT !.op = Named(CmpOps, @)]
      [] e.k = "meta"                -> [e EXCEPT !.key = Named(MetaKeys, @)]
      [] e.k = "verdict"             -> [e EXCEPT !.kind = Named(VerdictKinds, @)]
      [] e.k \in {"bitwise", "immediate", "lookup"} -> e
      [] e.k = "ct"                  -> ConvertCt(e)
      [] e.k = "nat"                 -> ConvertNAT(e)
      [] e.k = "fib"                 -> ConvertFib(e)
      [] e.k \in {"match", "target"} -> ConvertXt(e.k, e.name, e.rev, e.info)
      [] e.k = "reject"              -> [k |-> "verdict", kind |-> "reject", chain |-> ""]
      [] e.k \in {"log", "counter", "limit"} -> Other
      [] OTHER                       -> Unknown

ConvertExprs(exprs) ==
    LET got == Received(exprs) IN [i \in DOMAIN got |-> ConvertExpr(got[i])]

(***************************************************************************)
(* The payloads of the rule dump, paired with the xt expressions by their  *)
(* place among them.  An empty payload takes no place in the dump, so the  *)
(* pairing stops where a name or a revision disagrees.                     *)
(***************************************************************************)
ExpressionPayloads(exprs) ==
    Sublist(exprs, {e \in Range(exprs) : e.k \in {"match", "target"} /\ e.info # NoPayload})

Place(exprs, i) == Cardinality({j \in 1 .. i : exprs[j].k = "xt"})

Pairs(exprs, payloads, i) ==
    /\ Place(exprs, i) \in DOMAIN payloads
    /\ payloads[Place(exprs, i)].name = exprs[i].name
    /\ payloads[Place(exprs, i)].rev = exprs[i].rev

Reached(exprs, payloads, i) ==
    \A j \in 1 .. i : exprs[j].k = "xt" => Pairs(exprs, payloads, j)

AttachXtPayloads(exprs, payloads) ==
    [i \in DOMAIN exprs |->
        IF exprs[i].k = "xt" /\ Reached(exprs, payloads, i) /\ exprs[i].raw = NoPayload
        THEN [exprs[i] EXCEPT !.raw = payloads[Place(exprs, i)].info]
        ELSE exprs[i]]

(* A rule as the collector records it, with or without the dump.           *)
CollectRule(exprs, dumped) ==
    IF dumped THEN AttachXtPayloads(ConvertExprs(exprs), ExpressionPayloads(exprs))
    ELSE ConvertExprs(exprs)

(***************************************************************************)
(* Redecode: a document read back.  A payload is decoded by this build     *)
(* even over the answer recorded beside it; without one, or when the       *)
(* library cannot read it, the recorded answer stands.                     *)
(***************************************************************************)
Legible(raw) == raw # NoPayload /\ raw.type # "garbled"

RedecodeOnlyUndecoded(e) ==
    IF e.k = "xt" /\ Legible(e.raw) /\ ~e.decoded
    THEN [ConvertXt(e.kind, e.name, e.rev, e.raw) EXCEPT !.raw = e.raw]
    ELSE e

RedecodeXt(e) ==
    IF e.k = "xt" /\ Legible(e.raw)
    THEN [ConvertXt(e.kind, e.name, e.rev, e.raw) EXCEPT !.raw = e.raw]
    ELSE e

Redecode(rule) == [i \in DOMAIN rule |-> RedecodeXt(rule[i])]
=============================================================================
