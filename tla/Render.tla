-------------------------------- MODULE Render -------------------------------
(***************************************************************************)
(* The line --explain shows for a rule: RenderRule (internal/report/       *)
(* render.go).  A second reading of the expressions beside MatchRule's,    *)
(* with its own registers: the field the next compare is about, the mask   *)
(* put on it, and the constants a rewrite will name.                       *)
(*                                                                         *)
(* The line is a sequence of parts; a part holds what the reader can tell  *)
(* from it, in the units of the field, and not its spelling.               *)
(***************************************************************************)
EXTENDS Expressions, SequencesExt

NoField == ""
Blank   == [parts |-> <<>>, pending |-> NoField, mask |-> <<>>, imm |-> <<>>]

PayloadName(e) ==
    CASE e.base = "network" /\ e.off = 8 /\ e.len = 16  -> "saddr"
      [] e.base = "network" /\ e.off = 24 /\ e.len = 16 -> "daddr"
      [] e.base = "network" /\ e.off = 12               -> "saddr"
      [] e.base = "network" /\ e.off = 16               -> "daddr"
      [] e.base = "network" /\ e.off \in {6, 9}         -> "protocol"
      [] e.base = "transport" /\ e.off = 0              -> "sport"
      [] e.base = "transport" /\ e.off = 2              -> "dport"
      [] OTHER                                          -> e.base

CtName(e)  == IF e.key = "state" THEN "ct state" ELSE "ct status"
FibName(e) == CASE e.query = "addrtype" -> "fib type"
                [] e.iface              -> "fib iif oif"
                [] OTHER                -> "fib oif"

(* A compare without a mask shows one operator, the `!=`; one with a mask  *)
(* shows none.                                                             *)
ComparePart(field, e, mask) ==
    [p |-> "compare", field |-> field, value |-> e.data, mask |-> mask,
     neq |-> mask = <<>> /\ e.op = "neq"]
RangePart(field, e)  == [p |-> "range", field |-> field, from |-> e.from, to |-> e.to,
                         neq |-> e.op = "neq"]
LookupPart(field, e) == [p |-> "set", field |-> field, invert |-> e.invert,
                         set |-> IF e.set = "" THEN e.setID ELSE e.set]
VerdictPart(e)       == [p |-> "verdict", kind |-> e.kind, chain |-> e.chain]
UnresolvedPart       == [p |-> "unresolved"]

(* renderNAT: what the registers named by the rewrite were filled with; a  *)
(* port of no number is one the line does not show.                        *)
DNATPart(to, port) == [p |-> "dnat", to |-> to, port |-> port]

\* The port looked up by the register that holds the address.
RenderNATOneRegister(e, imm) ==
    DNATPart(IF e.addr \in DOMAIN imm THEN imm[e.addr] ELSE Refused,
             IF e.proto = 0 THEN <<>> ELSE <<PortOf(imm[e.addr])>>)

RenderNAT(e, imm) ==
    DNATPart(IF e.addr \in DOMAIN imm THEN imm[e.addr] ELSE Refused,
             IF e.proto = 0 THEN <<>>
             ELSE IF e.proto \in DOMAIN imm THEN <<PortOf(imm[e.proto])>> ELSE <<"unresolved">>)

(* renderXt: an extension is shown by what the document holds of it, read  *)
(* in full or in part, and an undecoded match says that it is one.         *)
RenderXt(e) ==
    LET has(field) == field \in DOMAIN e.arg
    IN  CASE e.name = "DNAT" /\ has("minIP") -> DNATPart(e.arg.minIP, <<e.arg.minPort>>)
          [] e.name = "conntrack" /\ has("states") /\ e.arg.matchesState ->
               [p |-> "states", states |-> e.arg.states]
          [] e.name = "addrtype" /\ has("dst") -> [p |-> "types", types |-> e.arg.dst]
          [] e.name = "recent" /\ has("mode") ->
               [p |-> "recent", mode |-> e.arg.mode, invert |-> e.arg.invert]
          [] OTHER -> [p |-> IF e.kind = "target" THEN "target" ELSE "undecoded", name |-> e.name]

Shows(s, part)   == [s EXCEPT !.parts = Append(@, part)]
Settles(s, part) == [Shows(s, part) EXCEPT !.pending = NoField, !.mask = <<>>]
Names(s, field)  == [s EXCEPT !.pending = field]

RenderCmp(s, e) ==
    CASE s.pending = NoField -> s
      [] s.pending # NoField /\ s.mask = <<>> ->
           Names(Shows(s, ComparePart(s.pending, e, <<>>)), NoField)
      [] OTHER -> Settles(s, ComparePart(s.pending, e, s.mask))

RenderExpr(s, e) ==
    CASE e.k = "meta"      -> Names(s, e.key)
      [] e.k = "payload"   -> Names(s, PayloadName(e))
      [] e.k = "ct"        -> Names(s, CtName(e))
      [] e.k = "fib"       -> [Names(s, FibName(e)) EXCEPT !.mask = <<>>]
      [] e.k = "bitwise"   -> [s EXCEPT !.mask = e.mask]
      [] e.k = "immediate" -> [s EXCEPT !.imm = Filling(@, e.reg, e.data)]
      [] e.k = "cmp"       -> RenderCmp(s, e)
      [] e.k = "range"     -> Settles(s, RangePart(s.pending, e))
      [] e.k = "lookup"    -> Settles(s, LookupPart(s.pending, e))
      [] e.k = "nat"       -> Settles(s, RenderNAT(e, s.imm))
      [] e.k = "xt"        -> Shows(s, RenderXt(e))
      [] e.k = "verdict"   -> Shows(s, VerdictPart(e))
      [] e.k = "unknown"   -> Shows(s, UnresolvedPart)
      [] OTHER             -> s

RenderRule(rule) == FoldLeft(RenderExpr, Blank, rule).parts
=============================================================================
